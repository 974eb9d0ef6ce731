# TLA+ models of the HSE storage-engine core

This directory holds TLA+ specifications of the storage engine in `src/`, the TLC
configurations that check them, and `PROJECT.json`. `PROJECT.json` lists the
components, the runs, the mutants, the source lines behind every definition, the
findings, and the hazards the properties are aimed at.

## 1. Inventory

| Component | Source | State it keeps | Operations | Interacts with |
|---|---|---|---|---|
| Region map | `mpool/mblock_file.c` 37-363 | rb-tree of free intervals `[start,end)` of 1-based block keys, `rm_lock` | init, alloc (leftmost key), insert (recovery), free (with coalescing), find | called by the mblock file under its own mutex |
| Mblock file | `mpool/mblock_file.c` 365-866 | region map, `uniq` + `uniq_lock`, mmapped metadata (header page with persisted `uniq`, one 8-byte OID slot per block) + `meta_lock`, data fd | open (create / load), close, alloc, find, commit, abort, delete, read, write | concurrent callers (the mpool/CN layers); the kernel writes mapped pages back; crashes |
| Perf counters | `util/lib/perfc.c` | counter-set instances in the data tree; per-CPU add/sub cells, histogram buckets, min/max, rate's previous sample | init/fini, ivl create, alloc/free of a set, record latency/distribution, emit (basic, rate, simple-latency, histogram) | data tree (registry), REST emission; lock-free writers on many CPUs |
| KVDB rparams | `kvdb/kvdb_rparams.c` | the parameter record; for mclass policies an array of `HSE_MPOLICY_COUNT` named 2x2 tables | defaults (incl. the policy default builder), get, set, to_json; converter, validator, stringify, jsonify per kind | REST PUT/GET, KVDB open |
| Block descriptor | `cn/kvs_mblk_desc.c` | map base, page counts, ra pages | mmap, munmap, madvise_pages | mpool mblock mmap |
| C0 ingest work | `c0/c0_ingest_work.c` | magic, min-heap, iterator count, usage, phase stamps t0..t9 | init, reset, fini | ingest threads stamp the phases |
| Query context | `kvs/query_ctx.c` | lazily created tomb map keyed by key hash | tomb_insert, tomb_seen | reads of a KVS |
| KVDB REST endpoints | `kvdb/kvdb_rest.c` | the endpoints registered with the REST server; a reference on each KVS with endpoints | add/remove the KVDB and KVS endpoints; params GET/PUT, compact, home, kvs, mclass and perfc GET handlers | the REST server (outside `src/`), the rparams record, KVDB and KVS open/close |
| Tool, headers | `tools/`, headers | none of their own | CLI | out of the core |

**Hard behaviours.** Mblock file calls run on many threads at once. Alloc, commit
and delete each take two locks one after the other, so other calls can run
between their halves. Metadata is persisted through a shared mapping: a page
reaches the media at `msync` or whenever the kernel writes it back. The process
may crash at any point, and the region map is rebuilt from the slot table on the
next load. `msync` and `kmem_cache_alloc` can fail in the middle of an operation.
Perf counters are updated lock-free by many CPUs. Ingest phases are stamped by
different threads.

**What makes each component correct.**
- **Region map:** intervals stay disjoint and never touch. Alloc returns the
  smallest free key. Insert and free succeed exactly when the key is on the other
  side, i.e. the map refines a plain set of free keys.
- **Mblock file:**
  - no block has two owners;
  - a commit that returned is on the media;
  - the region map matches the slot table, after a reload too;
  - no mbid is handed out twice, even across crashes (the purpose of `uniq`).
- **Perf counters:**
  - emitted values equal the sums of the cells;
  - every sample lands in the bucket its bounds say;
  - min ≤ max over the recorded samples.
- **Params:**
  - defaults lie within their bounds;
  - jsonify followed by convert is the identity;
  - a failed set leaves the record unchanged.
- **Ingest work:** fini logs a monotone chain of phase times.

## 2. Plan

Modules, in the order the most important behaviour comes first:

1. `RegionMap` + `AbstractRegionMap` (done). The free-space allocator and its
   abstract free-key specification, with a refinement check.
2. `MblockFile` (done). Builds on `RegionMap` through `INSTANCE`. Adds threads,
   uniq generation, commit/abort/delete, mmap writeback, crash and reload.
3. `MblockFile`, next sitting:
   - a failed commit followed by an abort, and msync failure combined with a
     crash, are hazards in `PROJECT.json`: the twelve runs went to other
     questions.
4. `PerfcDis` and `PerfcSet` (done):
   - `perfc_ivl_create` and the bucket index of `perfc_latdis_record` as
     RECURSIVE operators, checked against a reference "number of bounds ≤
     sample" for every small interval vector;
   - the min/max update raced by two recorders;
   - the counter-set registry: alloc, the dt_access/dt_add race, and free;
   - `perfc_init`/`perfc_fini` and the default latency bound vector.
   - `perfc_di_emit` reading the histogram while a recorder runs (done).
   - `perfc_emit_handler_ctrset` and `perfc_ra_emit` against counter updates
     and the clock (done).
5. `KvdbRparams` (done). Default builder, converter, validator and jsonify of
   the media-class policy array, and the throttling, durability media class
   and open mode kinds, over a small alphabet of JSON inputs.
6. `C0IngestWork` (done). The init/reset/fini lifecycle and the timestamp
   clamp under phases stamped by several threads.
7. `KvdbRest` (done). The KVDB and KVS endpoint registry with failing adds,
   the params PUT/GET handlers over the rparams record (composed with
   `KvdbRparams`) with every scalar pspec of the table, and the statuses of
   the other KVDB handlers, the KVS params and perfc handlers, and mclass
   info.
8. `MblkDesc` (done). Map, unmap and madvise of a block descriptor, composed
   with the region map that `mblock_file_find` consults. The madvise
   chunking loop covers exactly the clipped range.

## 3. Modules

### RegionMap (`RegionMap.tla`, `AbstractRegionMap.tla`, `MCRegionMap.tla`; its passing run is `MCMblkDesc`)

- **State.** `rgns` is the set of free intervals; the rb-tree shape is
  abstracted away. `ret` records the last call and its result, for the
  refinement check only.
- **Operators.** `RgnInit`, `RgnAlloc`, `RgnInsert`, `RgnFree` and `RgnFind`
  translate `mblock_rgnmap_init` and `mblock_rgn_*`. Each takes a map and
  returns the possible outcomes. Where the code's result depends on which node
  a tree walk meets first, the operator returns every node such a walk can
  meet. In a well-formed tree those are the in-order predecessor and successor
  of the key, both on the search path. `RbPrev`/`RbNext` are `rb_prev`/`rb_next`,
  and `Coalesce` is the merge step of free.
- **Actions.** `Alloc`, `Insert(k)`, `Free(k)` and `Find(k)` cover any key,
  including double frees and inserts of allocated keys. Every call runs under
  `rm_lock`, so each is one step.
- **Refinement.** `Abstract == INSTANCE AbstractRegionMap WITH free <-
  FreeKeys(rgns)`. `RefinesAbstract` checks `Abstract!Spec` as a property.

### MblockFile (`MblockFile.tla`, `MCMblockFile.tla`)

- **Volatile state:** `rgnmap` (through `INSTANCE RegionMap`) and `uniq`.
- **Mapped metadata, two copies each:**
  - `memhdr`/`memslot` hold what was written through the mapping;
  - `diskhdr`/`diskslot` hold what is on the media.
- **Other state:** `status` (open / closed after a crash / badmeta), per-thread
  `th` (program point, key, mbid, last error), the committed mbids `live` (the
  caller's catalog, which survives a crash), the history `issued`, and the
  counters `ngen` and `crashes`.
- **An mbid** is the record `[uniq, block]`. File id and media class are fixed
  per file, so they are left out.
- **Call actions.** One action per locked section:
  - `AllocRgn` then `AllocUniq` (region alloc, then `mblock_uniq_gen` with the
    header write and msync every `UniqDelta`, and the region free on error);
  - `CommitFind` then `CommitLog` (find, then `mblock_file_meta_log`);
  - `Abort`;
  - `DeleteLog` then `DeleteFree`;
  - `ReadWrite` (the find check of read/write).
- **System actions:**
  - `Crash` keeps, for every page, either the synced or the written copy;
  - `Open` is the load path, with `uniq = header + UniqDelta` and
    `LoadFrom` re-inserting every non-zero slot;
  - `Exhausted` stutters once the allocation bound is reached.

### PerfcDis (`PerfcDis.tla`, `MCPerfcDis.tla`)

- **State:** `bound` and `ivlmap` (the `perfc_ivl`), `hits`/`vsum` per bucket,
  `pmin`/`pmax`, and per recorder a program point and sample. The history
  `recorded` counts the samples recorded so far.
- **Init** ranges over every strictly increasing interval vector of up to
  `MaxBounds` bounds and builds the map with `IvlCreate` (`perfc_ivl_create`).
- **Actions.** `Begin` is a record call. The plain-memory max/min update of
  `perfc_latdis_record` is split into its compares and stores: `CmpMax`,
  `SetMax`, `CmpMin`, `SetMin`. The two `atomic_add`s on the bucket
  `LatdisBucket` picks are two steps: `Bucket` adds to `pcb_vadd`, then
  `BucketHits` adds to `pcb_hits` and counts the sample in `recorded`. So
  `HistogramExact` adds the samples of recorders between the two to `vsum`.
- The per-CPU bucket groups are summed by the emitter, so one group stands for
  all of them.
- **Default bounds.** `diivl` is `perfc_di_ivl`. `PerfcInit` sets it to the default vector, or leaves it NULL when `perfc_ivl_create` or `dt_add` fails. `PerfcFini` clears it. `DefaultBoundv` is the loop of `perfc_init` that builds
  the default latency bound vector. `BoundvLoop` is the loop, and `Shrink` is
  its inner loop that rounds a bound down to two significant digits. The vector
  has `DefaultCnt` = 26 bounds, not `PERFC_IVL_MAX` (32). TLC's integers are
  32-bit, and bound 27 and later exceed 2^31. Every step of the loop is still
  exercised: the 100 ns steps, the switch to 1 us, the doubling up to i = 22,
  and the multiplication by four after that.
- **Emitter.** `em` is a call of `perfc_di_emit` in progress, `emitted` its
  result and `nemit` the calls made (at most `MaxEmits`). `EmitStart` is the
  entry and the allocation of the histogram array. `EmitBucketVadd` and
  `EmitBucketHits` are the two `atomic_read`s of one bucket: a recorder may
  step between them and between buckets. `EmitBucketHits` also computes the
  bucket's average and the next boundary, and appends the bucket. `EmitFinish`
  adds min, max, average and the totals. `hits` is reported as 1 when no
  sample was seen. The result also records the totals at the start and at the
  end, and whether no recorder ran during the call. These fields exist only for
  the properties.
  - Each cJSON allocation may fail (`EmitMayFail`, the `FailPoints`). A failed
    array allocation makes `merr` return true through a `bool` function, so the
    call answers success with no histogram. The run sets `EmitMayFail` FALSE:
    with it TRUE, `EmitBracketed` fails on that very path, and there is no run
    slot for it.
  - Emits are explored only on vectors of `EmitMaxCnt` = 1 bound (two buckets).
  - `emitted` is not part of the view (`EmitView`), so the properties about
    it are action properties on `emitted'`.
- **Emission properties.**
  - `EmitBracketed`: a successful emit lists every bucket. Its bucket hits and
    its sum lie between the totals at the start of the call and at its end.
  - `QuiescentEmitExact`: when no recorder ran during the call, every emitted
    bucket holds exactly the recorded samples between its boundary and the next.
    Its average is their mean. The sum and the maximum are those of all
    samples.
  - TLC also shows a torn read, not checked as a property. A bucket read
    between a recorder's `pcb_vadd` and `pcb_hits` has hits 1 and average 0
    under boundary 1.

### PerfcSet (`PerfcSet.tla`, `MCPerfcSet.tla`)

- **State:**
  - `reg`: the data tree, path to instance;
  - `live`: the allocated instances;
  - `inst`: per instance its path, `pcs_handle` and counter vector;
  - per handle: `seti` (`ps_seti`) and `bitmap` (`ps_bitmap`);
  - per caller: the call in progress, in `th`.
- **Actions.**
  - `AllocAccess` is `perfc_alloc_impl` up to and including `dt_access`:
    clear the handle, check the names, then attach to an existing instance
    or go on.
  - `AllocAdd` is the rest: allocate (may fail), compute the bitmap, `dt_add`
    (fails if another caller won the race), and `errout`.
  - `Free` is `perfc_free`.
  - `Update(h, k, sub)` is `perfc_add`/`perfc_sub` through a handle: it acts
    only when `perfc_ison` finds the instance and the counter's bit is set.
    Those helpers are in a header outside the repository (spec-modelled).
    `val` holds the counter's `vadd`/`vsub`, with the per-CPU cells summed
    as one.
  - `Tick` advances `get_time_ns`.
  - `EmitStart(p)` is `perfc_emit_handler_ctrset` up to the counter loop.
    `EmitCtr` is one pass of the loop: a basic counter reports `vadd - vsub`
    clamped at 0. A rate counter goes through `RaEmit` (`perfc_ra_emit`):
    dt, `prev`, `curr`, the u64 `dx` (`U64Wrapped` when it goes below 0), the
    rate `dx * NSEC_PER_SEC / dt`, and the new baseline `base`. A cJSON
    failure can be chosen at the ctrset, or at a counter before or after its
    read. It deletes the whole ctrset, but a rate counter already read keeps
    its moved baseline, as in the code. `emitted` is the last result; it is
    outside `SetView`.
  - `dt_emit` holds the data tree lock, so `TreeFree` keeps access, add and
    remove out while an emission runs. Updates are lock-free and interleave
    with every step.
- **No emission property.** The emission steps run in the perfc_set run,
  alongside alloc and free, under the type invariant and `RegistryOwnsLive`.
  The relations an emission could be checked against either restate
  `perfc_ra_emit` line by line, or fail at once on what the code does (the
  baselines moved by a failed emission, the `dx` wrap with `perfc_sub`).
  Those are hazards in `PROJECT.json`.
- **Early return.** A vector of no counters is `ctrc < 1`. It returns EINVAL
  before the handle is cleared, so the handle keeps what it held (perfc.c
  511-512). NULL arguments are not modelled.
- A counter name is reduced to what `perfc_ctr_name2type` parses from it: its
  type and family. The path is the family, because group and set name are
  fixed.

### C0IngestWork (`C0IngestWork.tla`)

- **State:** `magic` (`c0iw_magic`: unset, the struct's own address, or the
  poison `0xdeadc0de`), `heap` (`c0iw_minheap`), `iterc`, the timestamps `t`
  that fini reads (ting, tenq, t0, t3..t9), the clock `now`, and `logged`: the
  deltas of fini's log line, or nothing when t0 was never stamped.
- **Actions.** `WorkInit`, `WorkReset` and `WorkFini` are the three functions
  of `c0_ingest_work.c`. `WorkFini` clamps t3..t6 (`Clamp`) and logs the
  deltas (`Deltas`) computed as unsigned subtraction modulo `2^Width`
  (`USub`). `Stamp` and `AddIter` stand for the pipeline threads outside this
  file (spec 4.F): any phase may be stamped with the current clock, in any
  order, or never.
- `Width = 3` with a clock of 0..2 keeps a wrapped delta (≥ 6) apart from every
  real duration (≤ 2), which is all the 64-bit width matters for here.

### KvdbRparams (`KvdbRparams.tla`, `MCKvdbRparams.tla`)

- **State:** `pol`, the `mclass_policies` array (name and 2×2 table per
  slot); `thr`, `dur` and `mode`, the throttling policy, durability media
  class and open mode; `nsets`, entries applied.
- **JSON.** A cJSON node is a record holding what the callbacks test: its
  kind, an object's keys, and string values. The MC module builds the inputs
  from the unit test's policy (`Full`), a partial one, one with a bad media
  class after a good entry, a bad age group, an unknown key, a too-long name,
  duplicates (among themselves and with a built-in), three policies for two
  free slots, and a non-array.
- **Callbacks.** `MclassPoliciesConverter` is the converter's loop as three
  RECURSIVE operators (policies, age groups, entries), keeping its order:
  the name is written before the config is read, and a failure returns what
  was written. `MclassPoliciesValidator` and `MclassPoliciesJsonify` follow
  their loops over the slots up to the first sentinel. `DurMclassJsonify` is
  a choice. The code tests "auto" on the `uint8_t`, but it names a media class
  from a read through an `enum hse_mclass` pointer, which also takes in the
  three bytes after the field (line 442). The struct layout is not in the
  repository, so the result is the right name or an out-of-range index.
- **Actions.** `ApplyPolicies`, `ApplyThrottle`, `ApplyDur` and `ApplyMode`
  are one `key=value` entry of the bulk deserialize at open. None of the four
  parameters is writable, so `kvdb_rparams_set` cannot reach them. The param
  engine is outside `src/` and follows spec 4.A: convert, validate, and keep
  the prior value on failure.
- **Bounds.** With `MPolicyCount = 8` there are two user slots, so an input of
  three policies overflows. Four entries allow set, overwrite and a failure
  in one behaviour.

### KvdbRest (`KvdbRest.tla`, `MCKvdbRest.tla`)

Extends `KvdbRparams`: the REST handlers read and write the same record.

- **State:** `scal`, the scalar fields of the record, one per field that
  a scalar pspec of `pspecs[]` addresses. That is every entry except the four
  kinds of `KvdbRparams`: 44 pspecs over 43 fields, since `perfc_enable`
  aliases `perfc_level`;
  `phase` of the KVDB (entries applied, open, closed); `eps`, the registered
  endpoints; `kvs` and `refcnt`, the KVS and the change of its `kk_refcnt`;
  `resp`, the last response; `nreq` and `nkvs`, requests and KVS opens.
- **Pspecs.** A pspec is its field (`ps_offset`), writable flag, width,
  bounds and default, taken from the table in `kvdb_rparams.c` (one
  definition per run of entries: `PerfcPspecs`, `C0Pspecs`, ...,
  `StoragePspecs`, joined in table order by `PspecTable`).
  - A bool is a 0/1 field and the double `cndb_compact_hwm_pct` is a number in
    its bounds.
  - `UINT32_MAX` and `UINT64_MAX` are `Wide` (2^30), because TLC's integers stop at 2^31. No body comes near them.
  - Constants of headers outside the repository are `HeaderValue` (small
    values in `MCKvdbRest`). An ASSUME checks that every default lies in its
    bounds.
  - Only writable pspecs reach conversion: `csched_policy` has enum bounds and
    `throttle_debug` is a u32.
  - `cndb_compact_hwm_pct` is a double whose default is given through
    `.as_uscalar`. Whether `param_default_populate` reads it back as a double
    depends on the param engine, which is not in the repository, so it is not
    modelled.
  `DefaultScalars` is `param_default_populate` (the last pspec of a field
  wins). `RparamsToJson` is `kvdb_rparams_to_json`, with the four custom
  kinds from `KvdbRparams`.
- **Actions.**
  - `Build`: an entry of the open (an action of `KvdbRparams`).
  - `KvdbRestAddEndpoints`: registers the nine KVDB endpoints in order. When
    an add may fail, any prefix of them stays registered (the function
    returns at the first failure).
  - `KvdbRestRemoveEndpoints`: at close, after the KVS is closed.
  - `KvsRestAddEndpoints`: params, then perfc. On success it takes a
    reference; on failure it calls `kvs_rest_remove_endpoints`.
  - `KvsRestRemoveEndpoints`: removes both endpoints and drops a reference.
  - `RestKvdbParamsPut`, `RestKvdbParamsGet`, `RestKvdbCompact`,
    `RestKvdbGet`: one request on a registered endpoint. Each keeps its
    handler's checks in order, and the status each error maps to.
  - `MclassInfoStatuses` is `rest_kvdb_mclass_info_get`, reached through
    `RestKvdbGet`. It gives 400 without pretty, 404 for a media class that is
    not configured, and otherwise 200, or 503 when an allocation fails.
  - `RestKvsParamsPut`, `RestKvsParamsGet` and `RestKvsGetPerfc` are the KVS
    handlers. The KVS parameter engine and `dt_emit` are outside the
    repository, so their results are choices over the errors the handlers
    map (`KvsParamErrs`, `DtEmitErrs`). Each handler keeps its own order of
    checks and its errno-to-status table.
- **From the spec.** The param engine (`param_set`: lookup, then the
  writable flag, then convert and bounds) and the callers of the add and
  remove functions are outside `src/`. They follow spec 4.A and 6: a caller
  logs a failed add and goes on.
- **Bounds.**
  - Four entries at open: a shorter list is the same list with ineffective
    entries.
  - Bodies 3, 50 and 300: in bounds for every scalar, out of bounds for the
    u8 and percentage fields. There are also a JSON string and no body.
  - Put names: a read-only scalar, two writable ones (one at a renamed
    field), the bounded one after it, a custom kind, and an unknown name.
  - Two requests are enough for a PUT to follow a PUT.
  - One KVS open.
  - `RestView` leaves `resp` out of the state TLC compares. No guard reads
    `resp`; the properties read the `resp'` of a step.

### MblkDesc (`MblkDesc.tla`, `MCMblkDesc.tla`)

- **State:** `md`, the descriptor: whether `map_base` is set, the mbid, and
  the written and read-ahead pages; `adv`, the arguments, error and madvise
  calls of the last `mblk_madvise_pages`; `unfound`, the mbids that
  `mpool_mblock_props_get` does not find. The composing model supplies
  `unfound`.
- **Actions.**
  - `MblkMmap`: props_get, then mmap. The fields are written only if both
    succeed.
  - `MblkMunmap`: clears the base unless the unmap fails.
  - `MblkMadvisePages`: the range check, the clip, the two early returns,
    and the chunk loop. The loop is the RECURSIVE `Chunks`, and it stops at
    the first failing call.
- **size_t.** Arithmetic is modulo `2^SizeBits`, with `SizeBits = 3`.
  Requests run over every start 0..7 and every count 0..7, so the
  wrap-around of `pg + pg_cnt` happens.
- **Composition.** `MCMblkDesc` extends `RegionMap`. An mbid is found when
  its block key is not in a free region (`mblock_file_find`). Region-map
  calls and reader calls interleave.
- **Bounds.** Written pages 0, 1 and 3, and read-ahead 0 and 2. These give
  EINVAL, clipping, a chunked range with a short last chunk, and the
  no-read-ahead return.
- **View.** `MCView` leaves `adv` out: no guard reads it, and
  `MadviseExact` reads the `adv'` of each step.

## 4. Runs

| Run | Config | Expect | What it shows |
|---|---|---|---|
| regionmap_desc | `MCMblkDesc.cfg` (MaxKey 5, written pages {0,1,3}, read-ahead {0,2}, 3-bit size_t, every outside call may fail) | pass | `WellFormed`: disjoint, non-touching intervals. `RefinesAbstract`: the map implements the free-key set, every error return included; all 513 maps over 5 keys that calls can reach occur. `MadviseExact`: madvise fails with EINVAL exactly for a start beyond the written pages. Otherwise, when it returns 0 for a non-wrapping request, its calls advise the clipped range in order, with no gaps or overlaps, in read-ahead chunks. 31k states. |
| regionmap_kmem_fail | `MCRegionMapKmemFail.cfg` | violation | `FreeSuccessFreesKey`: with node allocation failing, free returns 0 and the key stays allocated. |
| mblockfile | `MCMblockFile.cfg` (2 threads, 3 blocks, UniqDelta 2, 4 uniq generations, 2 crashes) | pass | See the properties below. |
| mblockfile_uniq_reuse | `MCMblockFileUniq.cfg` | violation | `MbidNeverReissued`: crash, reload, alloc, crash, reload, and the same mbid is returned again. |
| mblockfile_delete_msync_fail | `MCMblockFileMsync.cfg` (msync may fail, 1 crash) | violation | `CommittedDurable`: a failed delete still erases a committed slot on the media. |
| perfc_dis | `MCPerfcDis.cfg` (vectors of ≤3 bounds in 1..12, map of 4, samples 0..15, 2 records, 1 recorder) | pass | `HistogramExact`: every bucket holds exactly the samples its bounds give it. `DefaultBoundsValid`: the default vector of `perfc_init` is strictly increasing, every bound has at most two significant digits and does not exceed the unrounded bound, and the first ten are 100..1000 ns. `EmitBracketed` and `QuiescentEmitExact`: see PerfcDis. 2.6M states, about 70 s. |
| perfc_dis_race | `MCPerfcDisRace.cfg` (2 recorders) | violation | `MaxIsRecordedMaximum`: the smaller of two racing samples overwrites the larger. |
| perfc_set | `MCPerfcSet.cfg` (2 handles, 2 paths, 3 calls, alloc and emit failures on, 1 update, 2 emissions, clock 1..2) | pass | `RegistryOwnsLive`: no error path leaks or half-registers an instance. The emission steps, counter updates and ticks interleave with every alloc and free. 5.8M states, about 90 s. |
| kvdb_rest | `MCKvdbRest.cfg` (8 slots, 12 policy inputs, 4 entries, adds and allocations may fail, 2 requests, 1 KVS open) | pass | `EndpointsOfLiveOnly`: no KVDB or KVS endpoint stays registered after its close, whatever adds failed. `PutScope`: once open, a step changes only the parameter that a PUT answered 201 for, and only if it is writable. `RestTypeOK`: every field stays within its width. All 44 scalar pspecs; the KVS params/perfc and mclass info handlers answer with their handlers' statuses. 96k states, about 60 s. |
| kvdb_rest_kvs_refcnt | `MCKvdbRestRefcnt.cfg` | violation | `RefcntMatchesEndpoints`: a KVS whose first endpoint add fails ends with `kk_refcnt` one below where it started. |
| perfc_set_shared_free | `MCPerfcSetShared.cfg` | violation | `HandleSeesLive`: after two allocs of one path, freeing one handle leaves the other dangling. |
| c0_ingest_work | `MCC0IngestWork.cfg` (clock 0..2, 3-bit words, heap creation may fail) | pass | `TypeOK`: every logged delta is a value of its unsigned word (the `USubSigned` mutant logs a negative one). 163k states. |

Properties checked by the `mblockfile` run:
- `ExclusiveOwnership`: no block has two owners among threads and committed
  mbids, and an owned block is never free.
- `CommittedDurable`: every committed mbid is in its slot on the media.
- `MapMatchesSlots`: a block is free exactly when its slot is zero and no call
  holds it.

Every property of a passing run has a mutant in `PROJECT.json` that breaks it,
such as a missing coalesce, an off-by-one key in abort, a commit without msync,
or a delete without the region free.

**Bounds.**
- Three blocks and two threads are enough for two concurrent allocations plus a
  committed block, and for coalescing on both sides.
- `UniqDelta = 2` makes the header rewrite happen within the four allocations.
  The code uses 1024; the logic only depends on `uniq % UniqDelta`.
- Two crashes allow a reload to follow another reload.
- PerfcDis: bounds up to 12 with a 4-entry map (2^3 = 8) produce vectors whose
  map walk ends for each of its reasons. These are: bounds exhausted (the
  pull-back of `j`), the map exhausted, and both at once. Samples up to 15
  cover every map index.
- PerfcDis emitter: one emit against one recorder with two records on a
  one-bound vector. That lets a record land before, inside and after the call,
  and between the two reads of a bucket.
- KvdbRest: the PUT names are a read-only scalar, six writable ones and a
  read-only kind. The writable ones have u8, u16 and u32 widths, a renamed
  field and enum bounds. The bodies `3`, `50` and `300` fall in and out of
  every bound among them.
- PerfcSet: three calls are enough for attach-then-free, and for two callers
  racing to `dt_add` the same path. One update and two emissions separated by
  a tick give a rate record with a non-zero delta after a first emission
  that sets the baseline. A failure can fall between the two counters of a
  vector with a rate counter.

**Fairness.** No property is a liveness property, so no run assumes
fairness. The second halves of alloc, commit and delete are short mutex
sections that are enabled whenever their thread is at them. "Every call
returns" would therefore follow from fairness alone and say nothing about
the code. `msync` holding `meta_lock` does stall the callers in the code, but
the model has no time, so that stall is not one of its states.

## 5. Findings

1. `mblock_file_meta_load` (line 422) raises `uniq` by `UNIQ_DELTA` without
   persisting it. A second crash within the same delta window therefore reuses
   uniq values, and whole mbids when a block is freed and allocated again. This
   breaks spec 4.D (iii) and reopens the ABA problem `uniq` exists to prevent.
2. `mblock_rgn_free` (line 322) swallows a failed node allocation and returns
   success, so abort and delete report success for a block that stays allocated
   until the next load.
3. `mblock_file_meta_log` (line 483) zeroes the slot in the shared mapping
   before the msync of a delete. If the msync fails, the caller keeps a
   "committed" mbid whose slot may still reach the media as zero.

4. `perfc_latdis_record` (line 736) updates the maximum with a plain
   read-compare-write. Concurrent recorders lose the larger sample.
5. `perfc_alloc_impl` (line 585) attaches a second handle to an existing
   instance. `perfc_free` (line 712) removes it without a reference count, so
   the other handle dangles.
6. `kvs_rest_add_endpoints` (line 1018) calls `kvs_rest_remove_endpoints`
   when an add fails, and that function ends with `atomic_dec(&kk_refcnt)`.
   The matching `atomic_inc` happens only on success, so the KVS loses a
   reference it never gave out. If its close removes the endpoints again, it
   loses another.

Observed while modelling, recorded as hazards in `PROJECT.json` with no run
of their own (the project keeps at most twelve runs):
- the attach path of `perfc_alloc_impl` returns success with `ps_bitmap` 0,
  so every counter of the second handle is off, against spec 3;
- `c0_ingest_work_fini` clamps only t3..t6, while spec 4.F says every t_i is
  clamped; an unstamped or early t7, t8, t9, tenq or ting makes its delta in
  the warning log wrap to a value near 2^64;
- `perfc_latdis_record` sets the minimum only when the sample is not a new
  maximum, so after one sample, or any non-decreasing series, the emitted
  minimum is 0;
- `mclass_policies_converter` (line 128) writes the given policies from slot
  6 on and never resets the slots after them. A second `mclass_policies`
  entry therefore keeps the extra policies of the first: `[u1]` then `[]`
  leaves `u1` in the record. The spec says nothing of a second entry;
- `mblk_madvise_pages` (`cn/kvs_mblk_desc.c` line 87) adds `pg + pg_cnt` in
  size_t: a count near `SIZE_MAX` wraps, escapes the clip, and the call
  returns 0 having advised nothing. A descriptor after `mblk_munmap` keeps
  its page counts, so madvise goes to addresses from NULL;
- `rest_kvdb_mclass_info_get` (line 704) finds the media class with
  `strstr` over the whole path, alias included, so an alias containing
  "staging" answers every `mclass/<name>` with staging;
- `perfc_di_emit` (line 94) returns `merr(ENOMEM)` from a `bool` function.
  A failed histogram allocation therefore reports success, and the counter is
  emitted without its histogram;
- `perfc_alloc_impl` uses `perfc_di_ivl` as the default interval vector.
  That vector is NULL when `perfc_init` failed or after `perfc_fini`
  (`PerfcInit` can leave it NULL);
- a policy named with the sentinel `HSE_MPOLICY_DEFAULT_NAME` is accepted
  and hides itself and every later policy from jsonify and the validator;
- `perfc_emit_handler_ctrset` deletes the whole counter set when a later
  counter fails. `perfc_ra_emit` has already moved the baselines of the
  earlier rate counters, so the next emission's `previous` is a value no
  client received (the model reaches it: `EmitCtr` moves the baseline before the failure
  point);
- `perfc_ra_emit` computes `dx * NSEC_PER_SEC` in u64, which overflows once
  more than about 1.8e10 updates fall between two emissions;
- `deviceprofile_app.c` line 113 stores `getopt`'s result in a `char`. Its
  options string has no `h`, so `case 'h'` is unreachable, and `m` and `w`
  are accepted but ignored.

## 6. Not modelled

- `mblock_file_close`: pure teardown.
- File names, fds and the contents of data blocks.
- Calls with more than one mbid: they always return ENOTSUP.
- The per-CPU cells of a counter: `PerfcSet` sums them as one value, so a
  read torn across cells is not one of its states. SL, DI and LT counters
  inside a counter set: the histogram is `PerfcDis`, and its product with
  `PerfcSet` does not fit in a five-minute run.
- The KVS parameter record behind the KVS params and perfc REST handlers is
  not in the repository. Its results are choices over the errors the handlers
  map. Response bodies and JSON formatting are not modelled either.
- `tools/deviceprofile`: a CLI driver over mpool and thread code that is not
  in the repository. Its option loop compares a `char` with -1, so on targets
  where `char` is unsigned it never ends.
- `timer.h` jiffies conversions: nothing under `src/` calls them, and `HZ` is
  defined outside the repository.
- The query-context tomb map: its only interesting behaviour is hash
  collisions, and the hash is outside the repository. The KVDB meta file and
  the OMF headers are declarations only.
- Nothing more of the code under `src/` can be modelled faithfully with what
  the repository contains. Every component above is either modelled or left
  out for a reason given here.
