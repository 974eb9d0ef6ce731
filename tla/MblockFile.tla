----------------------------- MODULE MblockFile -----------------------------
(***************************************************************************)
(* One mblock file (src/lib/mpool/mblock_file.c): the region map of free  *)
(* blocks, the uniq generator and the memory-mapped metadata (a header     *)
(* page holding the persisted uniq and one OID slot per block), used by    *)
(* several threads, with crashes and reloads.                              *)
(*                                                                         *)
(* The mapped metadata has two copies: mem* is what the process wrote      *)
(* into the mapping, disk* what is on the media.  msync copies one to the  *)
(* other; a crash keeps, for every page, either copy, because the kernel   *)
(* may write a dirty shared page back at any time.  An mbid is the record  *)
(* [uniq, block]; file id and media class are fixed for the file and left  *)
(* out.  Every mutex-protected section is one step; a call that takes two  *)
(* locks in turn (alloc, commit, delete) is two steps.                     *)
(***************************************************************************)
EXTENDS Integers, FiniteSets

CONSTANTS
    Threads,       \* callers of the mblock file API
    NBlocks,       \* blocks in the file (MBLOCK_FILE_SIZE_MAX >> shift)
    UniqDelta,     \* MBLOCK_FILE_UNIQ_DELTA
    MaxUniqGen,    \* bound: calls of mblock_uniq_gen over the whole run
    MaxCrashes,    \* bound: crashes over the whole run
    MsyncMayFail,  \* may msync() fail?
    KmemMayFail    \* may kmem_cache_alloc() fail in the region map?

ASSUME NBlocks \in Nat \ {0} /\ UniqDelta \in Nat \ {0}
ASSUME MaxUniqGen \in Nat /\ MaxCrashes \in Nat
ASSUME MsyncMayFail \in BOOLEAN /\ KmemMayFail \in BOOLEAN

VARIABLES
    rgnmap,    \* mbfp->rgnmap: free intervals of block keys (block id + 1)
    uniq,      \* mbfp->uniq
    memhdr,    \* uniq in the mapped header page
    diskhdr,   \* uniq in the header page on the media
    memslot,   \* mapped OID slot table: block id -> mbid
    diskslot,  \* OID slot table on the media
    status,    \* "open", "closed" (after a crash) or "badmeta" (load failed)
    th,        \* per thread: program point, region key, mbid, last error
    live,      \* mbids whose commit returned 0 and not being deleted
    issued,    \* history: every mbid mblock_file_alloc has returned
    ngen,      \* calls of mblock_uniq_gen so far
    crashes    \* crashes so far

vars == <<rgnmap, uniq, memhdr, diskhdr, memslot, diskslot, status, th,
          live, issued, ngen, crashes>>

RM == INSTANCE RegionMap WITH MaxKey <- NBlocks, rgns <- rgnmap, ret <- "none"

Blocks == 0..(NBlocks - 1)
NoMbid == [uniq |-> 0, block |-> 0]      \* the all-zero OID of an unused slot
Errors == {"OK", "ENOSPC", "ENOENT", "EIO"}
Idle   == [pc |-> "idle", key |-> 0, mbid |-> NoMbid, err |-> "OK"]

\* block_id(): the block field of an mbid.
BlockId(m) == m.block

\* mblock_file_find(): look block_id + 1 up in the region map.
FileFind(m) == RM!RgnFind(rgnmap, BlockId(m) + 1)

\* msync() of one page: succeeds, or fails with errno when that may happen.
MsyncOutcomes == IF MsyncMayFail THEN {"OK", "EIO"} ELSE {"OK"}

(***************************************************************************)
(* What the media may hold after a crash: each slot page either as last    *)
(* synced or as last written through the mapping.                          *)
(***************************************************************************)
Writeback(disk, mem) ==
    {[b \in Blocks |-> IF b \in S THEN mem[b] ELSE disk[b]] : S \in SUBSET Blocks}

(***************************************************************************)
(* mblock_file_meta_load: re-insert block_id + 1 of every non-zero slot,   *)
(* in slot order, into a fresh region map; the first failing insert makes  *)
(* the load fail (EBADMSG).  Returns the set of possible outcomes.          *)
(***************************************************************************)
RECURSIVE LoadFrom(_, _, _)
LoadFrom(slots, i, R) ==
    IF i = NBlocks THEN {RM!Outcome(R, "OK")}
    ELSE IF slots[i] = NoMbid THEN LoadFrom(slots, i + 1, R)
    ELSE UNION {IF o.err = "OK" THEN LoadFrom(slots, i + 1, o.map) ELSE {o}
                : o \in RM!RgnInsert(R, BlockId(slots[i]) + 1)}

-----------------------------------------------------------------------------
(***************************************************************************)
(* mblock_file_open with O_CREAT: a fresh region map, the header formatted *)
(* with uniq 0 and synced, an all-zero slot table.                         *)
(***************************************************************************)
Init ==
    /\ rgnmap = RM!RgnInit
    /\ uniq = 0
    /\ memhdr = 0
    /\ diskhdr = 0
    /\ memslot = [b \in Blocks |-> NoMbid]
    /\ diskslot = [b \in Blocks |-> NoMbid]
    /\ status = "open"
    /\ th = [t \in Threads |-> Idle]
    /\ live = {}
    /\ issued = {}
    /\ ngen = 0
    /\ crashes = 0

Step(t, pc) ==
    /\ status = "open"
    /\ th[t].pc = pc

(***************************************************************************)
(* mblock_file_alloc, first half: take a key from the region map; an empty *)
(* map returns ENOSPC.                                                     *)
(***************************************************************************)
AllocRgn(t) ==
    LET a == RM!RgnAlloc(rgnmap)
    IN  /\ Step(t, "idle")
        /\ ngen < MaxUniqGen
        /\ rgnmap' = a.map
        /\ th' = [th EXCEPT ![t] = IF a.key = 0
                                   THEN [Idle EXCEPT !.err = "ENOSPC"]
                                   ELSE [Idle EXCEPT !.pc = "uniq", !.key = a.key]]
        /\ UNCHANGED <<uniq, memhdr, diskhdr, memslot, diskslot, status, live,
                       issued, ngen, crashes>>

(***************************************************************************)
(* mblock_file_alloc, second half: mblock_uniq_gen under uniq_lock bumps   *)
(* uniq and, every UniqDelta values, packs it into the header and msyncs   *)
(* the page.  On error the key goes back to the region map.  The field-fit *)
(* check cannot fail: key - 1 < NBlocks and file id and class are fixed.   *)
(***************************************************************************)
\* Variant for mutation checking: the mbid encodes the key, not key - 1.
AllocUniqBlockOffByOne(t) ==
    /\ Step(t, "uniq")
    /\ uniq' = uniq + 1
    /\ memhdr' = IF (uniq + 1) % UniqDelta = 0 THEN uniq + 1 ELSE memhdr
    /\ diskhdr' = IF (uniq + 1) % UniqDelta = 0 THEN uniq + 1 ELSE diskhdr
    /\ ngen' = ngen + 1
    /\ th' = [th EXCEPT ![t].pc = "held",
                        ![t].mbid = [uniq |-> uniq + 1, block |-> th[t].key]]
    /\ issued' = issued \cup {th'[t].mbid}
    /\ UNCHANGED <<rgnmap, memslot, diskslot, status, live, crashes>>

AllocUniq(t) ==
    LET u       == uniq + 1
        persist == u % UniqDelta = 0
        m       == [uniq |-> u, block |-> th[t].key - 1]
    IN
    /\ Step(t, "uniq")
    /\ uniq' = u
    /\ memhdr' = IF persist THEN u ELSE memhdr
    /\ ngen' = ngen + 1
    /\ \E rc \in (IF persist THEN MsyncOutcomes ELSE {"OK"}) :
         IF rc = "OK"
         THEN /\ diskhdr' = IF persist THEN u ELSE diskhdr
              /\ th' = [th EXCEPT ![t].pc = "held", ![t].mbid = m]
              /\ issued' = issued \cup {m}
              /\ UNCHANGED rgnmap
         ELSE \E o \in RM!RgnFree(rgnmap, th[t].key) :
              /\ rgnmap' = o.map
              /\ th' = [th EXCEPT ![t] = [Idle EXCEPT !.err = rc]]
              /\ UNCHANGED <<diskhdr, issued>>
    /\ UNCHANGED <<memslot, diskslot, status, live, crashes>>

(***************************************************************************)
(* mblock_file_read / mblock_file_write by the holder of an mbid: verify   *)
(* with mblock_file_find, then direct I/O (the data is not modelled).      *)
(***************************************************************************)
ReadWrite(t) ==
    /\ Step(t, "held")
    /\ th' = [th EXCEPT ![t].err = FileFind(th[t].mbid)]
    /\ UNCHANGED <<rgnmap, uniq, memhdr, diskhdr, memslot, diskslot, status,
                   live, issued, ngen, crashes>>

(***************************************************************************)
(* mblock_file_commit, first half: mblock_file_find under rm_lock.         *)
(***************************************************************************)
CommitFind(t) ==
    LET e == FileFind(th[t].mbid)
    IN  /\ Step(t, "held")
        /\ th' = [th EXCEPT ![t].pc = IF e = "OK" THEN "commit_log" ELSE "held",
                            ![t].err = e]
        /\ UNCHANGED <<rgnmap, uniq, memhdr, diskhdr, memslot, diskslot,
                       status, live, issued, ngen, crashes>>

(***************************************************************************)
(* mblock_file_commit, second half: mblock_file_meta_log under meta_lock   *)
(* writes the mbid into its slot and msyncs the page.  On success the      *)
(* caller records the mbid as committed; on failure it still holds it.    *)
(***************************************************************************)
\* Variant for mutation checking: the slot page is not msynced.
CommitLogNoSync(t) ==
    /\ Step(t, "commit_log")
    /\ memslot' = [memslot EXCEPT ![BlockId(th[t].mbid)] = th[t].mbid]
    /\ th' = [th EXCEPT ![t] = Idle]
    /\ live' = live \cup {th[t].mbid}
    /\ UNCHANGED <<rgnmap, uniq, memhdr, diskhdr, diskslot, status, issued, ngen,
                   crashes>>

CommitLog(t) ==
    LET m == th[t].mbid
    IN
    /\ Step(t, "commit_log")
    /\ memslot' = [memslot EXCEPT ![BlockId(m)] = m]
    /\ \E rc \in MsyncOutcomes :
         IF rc = "OK"
         THEN /\ diskslot' = [diskslot EXCEPT ![BlockId(m)] = m]
              /\ th' = [th EXCEPT ![t] = Idle]
              /\ live' = live \cup {m}
         ELSE /\ th' = [th EXCEPT ![t].pc = "held", ![t].err = rc]
              /\ UNCHANGED <<diskslot, live>>
    /\ UNCHANGED <<rgnmap, uniq, memhdr, diskhdr, status, issued, ngen, crashes>>

(***************************************************************************)
(* mblock_file_abort: give block_id + 1 back to the region map.            *)
(***************************************************************************)
\* Variant for mutation checking: the key freed is block_id, not block_id + 1.
AbortOffByOne(t) ==
    /\ Step(t, "held")
    /\ \E o \in RM!RgnFree(rgnmap, BlockId(th[t].mbid)) :
         /\ rgnmap' = o.map
         /\ th' = [th EXCEPT ![t] = [Idle EXCEPT !.err = o.err]]
    /\ UNCHANGED <<uniq, memhdr, diskhdr, memslot, diskslot, status, live,
                   issued, ngen, crashes>>

Abort(t) ==
    /\ Step(t, "held")
    /\ \E o \in RM!RgnFree(rgnmap, BlockId(th[t].mbid) + 1) :
         /\ rgnmap' = o.map
         /\ th' = [th EXCEPT ![t] = [Idle EXCEPT !.err = o.err]]
    /\ UNCHANGED <<uniq, memhdr, diskhdr, memslot, diskslot, status, live,
                   issued, ngen, crashes>>

(***************************************************************************)
(* mblock_file_delete, first half: the caller hands over a committed mbid; *)
(* mblock_file_meta_log zeroes its slot and msyncs.  On failure the call   *)
(* returns and the mbid stays committed.                                   *)
(***************************************************************************)
DeleteLog(t) ==
    \E m \in live :
    /\ Step(t, "idle")
    /\ memslot' = [memslot EXCEPT ![BlockId(m)] = NoMbid]
    /\ \E rc \in MsyncOutcomes :
         IF rc = "OK"
         THEN /\ diskslot' = [diskslot EXCEPT ![BlockId(m)] = NoMbid]
              /\ th' = [th EXCEPT ![t] = [Idle EXCEPT !.pc = "delete_free",
                                                      !.mbid = m]]
              /\ live' = live \ {m}
         ELSE /\ th' = [th EXCEPT ![t] = [Idle EXCEPT !.err = rc]]
              /\ UNCHANGED <<diskslot, live>>
    /\ UNCHANGED <<rgnmap, uniq, memhdr, diskhdr, status, issued, ngen, crashes>>

(***************************************************************************)
(* mblock_file_delete, second half: punch a hole in the data range (data   *)
(* not modelled) and give block_id + 1 back to the region map.             *)
(***************************************************************************)
\* Variant for mutation checking: the region-map free is left out.
DeleteFreeNoRgnFree(t) ==
    /\ Step(t, "delete_free")
    /\ th' = [th EXCEPT ![t] = Idle]
    /\ UNCHANGED <<rgnmap, uniq, memhdr, diskhdr, memslot, diskslot, status,
                   live, issued, ngen, crashes>>

DeleteFree(t) ==
    /\ Step(t, "delete_free")
    /\ \E o \in RM!RgnFree(rgnmap, BlockId(th[t].mbid) + 1) :
         /\ rgnmap' = o.map
         /\ th' = [th EXCEPT ![t] = [Idle EXCEPT !.err = o.err]]
    /\ UNCHANGED <<uniq, memhdr, diskhdr, memslot, diskslot, status, live,
                   issued, ngen, crashes>>

(***************************************************************************)
(* The process dies.  Volatile state is lost, every call in flight is      *)
(* abandoned, and the media keeps some mix of synced and written pages.   *)
(***************************************************************************)
Crash ==
    /\ status = "open"
    /\ crashes < MaxCrashes
    /\ \E ds \in Writeback(diskslot, memslot), dh \in {diskhdr, memhdr} :
         /\ diskslot' = ds
         /\ diskhdr' = dh
         /\ memslot' = ds
         /\ memhdr' = dh
    /\ status' = "closed"
    /\ rgnmap' = {}
    /\ uniq' = 0
    /\ th' = [t \in Threads |-> Idle]
    /\ crashes' = crashes + 1
    /\ UNCHANGED <<live, issued, ngen>>

(***************************************************************************)
(* mblock_file_open without O_CREAT: a fresh region map, then              *)
(* mblock_file_meta_load: uniq = header uniq + UniqDelta, and every        *)
(* non-zero slot re-inserted; an insert failure fails the open (EBADMSG).  *)
(***************************************************************************)
Open ==
    /\ status = "closed"
    /\ uniq' = diskhdr + UniqDelta
    /\ \E o \in LoadFrom(diskslot, 0, RM!RgnInit) :
         /\ rgnmap' = o.map
         /\ status' = IF o.err = "OK" THEN "open" ELSE "badmeta"
    /\ UNCHANGED <<memhdr, diskhdr, memslot, diskslot, th, live, issued, ngen,
                   crashes>>

\* The allocation bound of the model is reached: nothing more to explore.
Exhausted ==
    /\ ngen >= MaxUniqGen
    /\ UNCHANGED vars

Next ==
    \/ \E t \in Threads :
         \/ AllocRgn(t) \/ AllocUniq(t) \/ ReadWrite(t) \/ CommitFind(t)
         \/ CommitLog(t) \/ Abort(t) \/ DeleteLog(t) \/ DeleteFree(t)
    \/ Crash
    \/ Open
    \/ Exhausted

Spec == Init /\ [][Next]_vars

-----------------------------------------------------------------------------
Mbid == [uniq : 0..(MaxUniqGen + Cardinality(Threads) + (MaxCrashes + 1) * UniqDelta), block : Blocks]

TypeOK ==
    /\ rgnmap \subseteq RM!Rgn
    /\ memslot \in [Blocks -> Mbid] /\ diskslot \in [Blocks -> Mbid]
    /\ status \in {"open", "closed", "badmeta"}
    /\ th \in [Threads -> [pc : {"idle", "uniq", "held", "commit_log",
                                 "delete_free"},
                           key : 0..NBlocks, mbid : Mbid, err : Errors]]
    /\ live \subseteq Mbid /\ issued \subseteq Mbid

\* The block a thread is working on, if any.
HeldBlock(t) ==
    IF th[t].pc = "uniq" THEN th[t].key - 1 ELSE BlockId(th[t].mbid)
Busy == {t \in Threads : th[t].pc # "idle"}

(***************************************************************************)
(* No block has two owners, and an owned block is never free: two threads  *)
(* in alloc/commit/abort/delete, committed mbids, and the region map       *)
(* rebuilt by a reload after a crash must all agree.  This is what stops  *)
(* one caller's data landing in another caller's block.                    *)
(***************************************************************************)
ExclusiveOwnership ==
    status = "open" =>
      /\ \A t, u \in Busy : t # u => HeldBlock(t) # HeldBlock(u)
      /\ \A t \in Busy, m \in live : HeldBlock(t) # BlockId(m)
      /\ \A m, n \in live : m # n => BlockId(m) # BlockId(n)
      /\ \A t \in Busy : RM!RgnFind(rgnmap, HeldBlock(t) + 1) = "OK"
      /\ \A m \in live : FileFind(m) = "OK"

(***************************************************************************)
(* A commit that returned 0 is durable: the slot of every committed mbid   *)
(* holds it on the media, whatever crashed in between (spec 8: the slot at *)
(* block_id(mbid) holds mbid).                                             *)
(***************************************************************************)
CommittedDurable == \A m \in live : diskslot[BlockId(m)] = m

(***************************************************************************)
(* In an open file the region map and the mapped slot table agree: a block *)
(* is free exactly when its slot is zero and no call holds it.  The load   *)
(* path establishes this from the media, and commit, abort and delete,     *)
(* each in two locked steps, keep it.                                      *)
(***************************************************************************)
MapMatchesSlots ==
    status = "open" =>
      \A b \in Blocks :
        (RM!RgnFind(rgnmap, b + 1) = "ENOENT")
          <=> (memslot[b] = NoMbid /\ \A t \in Busy : HeldBlock(t) # b)

(***************************************************************************)
(* Spec 4.D: uniq exists so that no mbid is ever handed out twice, even    *)
(* across crashes (the uniq after a load exceeds every uniq returned       *)
(* before).  mblock_file_alloc never returns an mbid it returned before.   *)
(***************************************************************************)
MbidNeverReissued ==
    [][\A t \in Threads :
         th[t].pc = "uniq" /\ th'[t].pc = "held" => th'[t].mbid \notin issued]_vars
=============================================================================
