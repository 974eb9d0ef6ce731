---------------------------- MODULE C0IngestWork ----------------------------
(***************************************************************************)
(* The per-drain ingest context of c0 (src/lib/c0/c0_ingest_work.c):       *)
(* c0_ingest_work_init, _reset and _fini, and the phase timestamps the     *)
(* ingest pipeline stamps into it from several threads.                    *)
(*                                                                         *)
(* The stamping threads are outside this file (spec 4.F: enqueued,         *)
(* builder-ready, ..., destroyed); they are modelled from the spec: any    *)
(* phase may be stamped at any time with the current reading of a         *)
(* monotone clock, in any order, and a phase may never be stamped.  t1 and *)
(* t2 are never read by this file and are left out.  fini computes its    *)
(* deltas in 64-bit unsigned arithmetic, here Width bits; the /1000 unit   *)
(* conversion is left out.                                                 *)
(***************************************************************************)
EXTENDS Integers

CONSTANTS
    MaxTime,        \* the clock runs over 0..MaxTime
    Width,          \* bits of the unsigned timestamps (64 in the code)
    HeapMayFail     \* may bin_heap2_create fail?

ASSUME MaxTime < 2^(Width - 1)

VARIABLES
    magic,   \* c0iw_magic: "none" before init, "self", or the poison "dead"
    heap,    \* c0iw_minheap: "none", "live", "destroyed"
    iterc,   \* c0iw_iterc
    t,       \* the timestamps read by fini: "ting", "tenq", t0, t3..t9
    now,     \* the clock the stampers read
    logged   \* the deltas fini logged, or <<>> when it logged nothing

vars == <<magic, heap, iterc, t, now, logged>>

Stamps == {"ting", "tenq", "t0", "t3", "t4", "t5", "t6", "t7", "t8", "t9"}
Times  == 0..MaxTime
Word   == 2^Width

USub(a, b) == (a - b) % Word

\* The t3..t6 clamp of c0_ingest_work_fini: each becomes the larger of
\* itself and its clamped predecessor, starting from t0.
Clamp(x) ==
    LET c3 == IF x["t3"] > x["t0"] THEN x["t3"] ELSE x["t0"]
        c4 == IF x["t4"] > c3 THEN x["t4"] ELSE c3
        c5 == IF x["t5"] > c4 THEN x["t5"] ELSE c4
        c6 == IF x["t6"] > c5 THEN x["t6"] ELSE c5
    IN  [x EXCEPT !["t3"] = c3, !["t4"] = c4, !["t5"] = c5, !["t6"] = c6]

\* The deltas of the hse_log line of c0_ingest_work_fini, by their labels.
Deltas(c) ==
    [rcu      |-> USub(c["tenq"], c["ting"]),
     queue    |-> USub(c["t0"], c["tenq"]),
     bhprep   |-> USub(c["t3"], c["t0"]),
     build    |-> USub(c["t4"], c["t3"]),
     c0ingest |-> USub(c["t5"], c["t4"]),
     finwait  |-> USub(c["t7"], c["t6"]),
     cningest |-> USub(c["t8"], c["t7"]),
     destroy  |-> USub(c["t9"], c["t8"]),
     total    |-> USub(c["t9"], c["t0"])]

-----------------------------------------------------------------------------
\* The struct before c0_ingest_work_init (zeroed memory).
Init ==
    /\ magic = "none"
    /\ heap = "none"
    /\ iterc = 0
    /\ t = [s \in Stamps |-> 0]
    /\ now = 0
    /\ logged = <<>>

(***************************************************************************)
(* c0_ingest_work_init: zero the struct, set the magic, create the heap.   *)
(* When the heap cannot be created the struct stays zeroed with its magic  *)
(* set and no heap, and the error is returned.                             *)
(***************************************************************************)
WorkInit ==
    /\ magic \in {"none", "dead"}
    /\ magic' = "self"
    /\ heap' \in IF HeapMayFail THEN {"live", "none"} ELSE {"live"}
    /\ iterc' = 0
    /\ t' = [s \in Stamps |-> 0]
    /\ logged' = <<>>
    /\ UNCHANGED now

\* The ingest adds a source iterator (spec 4.F, bounded by MAX_KVSET_ITERS).
AddIter ==
    /\ magic = "self" /\ heap = "live"
    /\ iterc = 0
    /\ iterc' = 1
    /\ UNCHANGED <<magic, heap, t, now, logged>>

\* A pipeline thread stamps a phase with the clock.
Stamp(s) ==
    /\ magic = "self" /\ heap = "live"
    /\ t' = [t EXCEPT ![s] = now]
    /\ UNCHANGED <<magic, heap, iterc, now, logged>>

Tick ==
    /\ now < MaxTime
    /\ now' = now + 1
    /\ UNCHANGED <<magic, heap, iterc, t, logged>>

(***************************************************************************)
(* c0_ingest_work_reset: heap reset, iterator count and mblock vector      *)
(* zeroed.  The timestamps are left as they are.                           *)
(***************************************************************************)
WorkReset ==
    /\ magic = "self" /\ heap = "live"
    /\ iterc' = 0
    /\ UNCHANGED <<magic, heap, t, now, logged>>

(***************************************************************************)
(* c0_ingest_work_fini: poison the magic; if t0 was stamped, clamp t3..t6  *)
(* and log the deltas; destroy the heap.                                   *)
(***************************************************************************)
WorkFini ==
    /\ magic = "self"
    /\ magic' = "dead"
    /\ IF t["t0"] > 0
       THEN /\ t' = Clamp(t)
            /\ logged' = Deltas(Clamp(t))
       ELSE UNCHANGED <<t, logged>>
    /\ heap' = IF heap = "live" THEN "destroyed" ELSE heap
    /\ UNCHANGED <<iterc, now>>

Next ==
    \/ WorkInit \/ AddIter \/ WorkReset \/ WorkFini \/ Tick
    \/ \E s \in Stamps : Stamp(s)

Spec == Init /\ [][Next]_vars

-----------------------------------------------------------------------------
TypeOK ==
    /\ magic \in {"none", "self", "dead"}
    /\ heap \in {"none", "live", "destroyed"}
    /\ t \in [Stamps -> Times]
    /\ now \in Times
    /\ logged \in {<<>>} \cup
                 [{"rcu", "queue", "bhprep", "build", "c0ingest", "finwait",
                   "cningest", "destroy", "total"} -> 0..(Word - 1)]

=============================================================================
