----------------------------- MODULE MCKvdbRest -----------------------------
(* The composed REST model with the inputs of MCKvdbRparams.               *)
EXTENDS KvdbRest, MCKvdbRparams

\* Bounds of perfc.level: PERFC_LEVEL_MIN .. PERFC_LEVEL_MAX of perfc.h (0 .. 9,
\* default 2; the header is not in the repository).
MCPerfcLevelMax == 9

\* The other header constants of pspecs[] (their headers are not in the
\* repository either): small values, each default within its bounds.  The
\* csched policies are the enum's first and last members.
MCHeaderValue ==
    [HSE_C0_INGEST_WIDTH_MIN |-> 2, HSE_C0_INGEST_WIDTH_MAX |-> 32,
     HSE_C0_INGEST_WIDTH_DFLT |-> 8, HSE_CNDB_COMPACT_HWM_PCT_DEFAULT |-> 95,
     csched_rp_kvset_iter_async |-> 0, csched_rp_kvset_iter_mmap |-> 2,
     CSCHED_QTHREADS_DEFAULT |-> 5,
     HSE_WAL_DUR_MS_MIN |-> 1, HSE_WAL_DUR_MS_MAX |-> 1000, HSE_WAL_DUR_MS_DFLT |-> 10,
     HSE_WAL_DUR_SIZE_BYTES_MIN |-> 1, HSE_WAL_DUR_SIZE_BYTES_MAX |-> 2^20,
     HSE_WAL_DUR_SIZE_BYTES_DFLT |-> 2^15,
     HSE_WAL_DUR_BUFSZ_MB_MIN |-> 2, HSE_WAL_DUR_BUFSZ_MB_MAX |-> 8192,
     HSE_WAL_DUR_BUFSZ_MB_DFLT |-> 1024,
     HSE_C0_MAINT_THREADS_MIN |-> 1, HSE_C0_MAINT_THREADS_MAX |-> 256,
     HSE_C0_MAINT_THREADS_DFLT |-> 32,
     HSE_C0_INGEST_THREADS_MIN |-> 1, HSE_C0_INGEST_THREADS_MAX |-> 256,
     HSE_C0_INGEST_THREADS_DFLT |-> 3]

\* In bounds for every scalar, out of bounds for the u8 ones and the
\* percentages, not a number, and no body at all.
Num(v)   == [kind |-> "number", val |-> v]
MCBodies == {Num(3), Num(50), Num(300), [kind |-> "string"], [kind |-> "none"]}

\* A read-only scalar, two writable ones (u8 and u16 at a renamed field),
\* the range-limited one after it, a u32 with bounds from an enum, a u32 up
\* to UINT32_MAX, a read-only kind, an unknown name.
MCPutNames == {"perfc.level", "c0_debug", "csched_max_vgroups",
               "csched_lscat_runlen_max", "csched_policy", "throttle_debug",
               "mclass_policies", "nosuch"}
====
