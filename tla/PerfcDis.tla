------------------------------ MODULE PerfcDis ------------------------------
(***************************************************************************)
(* A distribution/latency counter of the perf-counter engine               *)
(* (src/lib/util/lib/perfc.c): the interval map built by perfc_ivl_create, *)
(* perfc_latdis_record run by several recording threads at once, and      *)
(* perfc_di_emit reading the counter while they run.                       *)
(*                                                                         *)
(* perfc_latdis_record updates pdi_max and pdi_min with plain loads and    *)
(* stores, no lock and no atomic: the compare and the store of each are    *)
(* separate steps here.  The bucket update is two atomic_add()s on the     *)
(* bucket the sample falls in, pcb_vadd then pcb_hits, and the emitter     *)
(* reads them with two atomic_read()s: each is a step.  The per-CPU bucket *)
(* groups are summed by the emitter, so one group stands for all of them.  *)
(* The sampling gate of perfc_lat/dis_record_impl only decides whether the *)
(* record happens at all, and is folded into the choice of Begin.          *)
(***************************************************************************)
EXTENDS Integers, FiniteSets, Functions, Sequences

CONSTANTS
    Recorders,    \* threads calling perfc_dis_record / perfc_lat_record
    MaxBounds,    \* largest ivl_cnt of an interval vector (PERFC_IVL_MAX)
    MaxBound,     \* largest bound value in an interval vector
    MapSize,      \* NELEM(ivl->ivl_map)
    MaxSample,    \* samples are 0..MaxSample
    MaxRecords,   \* bound on the number of records started
    DefaultCnt,   \* bounds of perfc_init's default vector that are built
    MaxEmits,     \* bound on the number of perfc_di_emit calls
    EmitMaxCnt,   \* emits are explored on vectors of at most this many bounds
    EmitMayFail   \* may the cJSON allocations of perfc_di_emit fail?

ASSUME MaxBounds \in Nat \ {0} /\ MapSize \in Nat \ {0}
\* Every sample's ilog2 indexes ivl_map inside its bounds.
ASSUME MaxSample < 2^MapSize

VARIABLES
    bound,     \* ivl_bound[0..ivl_cnt-1]
    ivlmap,    \* ivl_map[0..MapSize-1]
    hits,      \* pcb_hits of bucket 0..ivl_cnt
    vsum,      \* pcb_vadd of bucket 0..ivl_cnt
    pmin,      \* pdi_min
    pmax,      \* pdi_max
    rec,       \* per recorder: program point and sample
    recorded,  \* history: how often each sample value was recorded
    nrec,      \* records started
    diivl,     \* perfc_di_ivl's bounds, <<>> while it is NULL
    em,        \* the emitter inside perfc_di_emit: its loop state
    emitted,   \* the counter object the last perfc_di_emit returned
    nemit      \* perfc_di_emit calls started

vars == <<bound, ivlmap, hits, vsum, pmin, pmax, rec, recorded, nrec>>
emvars == <<em, emitted, nemit>>

Samples == 0..MaxSample
Cnt     == Cardinality(DOMAIN bound)
Buckets == 0..Cnt

\* The interval vectors a caller may pass: strictly increasing, non-empty.
BoundVectors ==
    UNION {{b \in [0..(n - 1) -> 1..MaxBound] :
                \A i \in 0..(n - 2) : b[i] < b[i + 1]} : n \in 1..MaxBounds}

(***************************************************************************)
(* perfc_ivl_create: walk i over the map and j over the bounds; map[i]     *)
(* gets j, and i advances while 2^i is below bound[j], else j advances.    *)
(* j is pulled back inside the vector, and the rest of the map gets it.    *)
(***************************************************************************)
\* Variant for mutation checking: j is not pulled back inside the vector.
RECURSIVE IvlWalkNoPullBack(_, _, _, _)
IvlWalkNoPullBack(b, i, j, m) ==
    IF i < MapSize /\ j < Cardinality(DOMAIN b)
    THEN IF 2^i < b[j] THEN IvlWalkNoPullBack(b, i + 1, j, [m EXCEPT ![i] = j])
                       ELSE IvlWalkNoPullBack(b, i, j + 1, [m EXCEPT ![i] = j])
    ELSE [k \in 0..(MapSize - 1) |-> IF k < i THEN m[k] ELSE j]

RECURSIVE IvlWalk(_, _, _, _)
IvlWalk(b, i, j, m) ==
    LET cnt == Cardinality(DOMAIN b) IN
    IF i < MapSize /\ j < cnt
    THEN IF 2^i < b[j] THEN IvlWalk(b, i + 1, j, [m EXCEPT ![i] = j])
                       ELSE IvlWalk(b, i, j + 1, [m EXCEPT ![i] = j])
    ELSE LET last == IF j >= cnt THEN j - 1 ELSE j
         IN  [k \in 0..(MapSize - 1) |-> IF k < i THEN m[k] ELSE last]

IvlCreate(b) == IvlWalk(b, 0, 0, [k \in 0..(MapSize - 1) |-> 0])

\* ilog2 of a positive sample.
Ilog2(s) == CHOOSE k \in 0..MapSize : 2^k <= s /\ s < 2^(k + 1)

(***************************************************************************)
(* The bucket index of perfc_latdis_record: sample 0 goes to bucket 0;     *)
(* otherwise start at ivl_map[ilog2(sample)] and advance while the sample  *)
(* is at or above the bound.                                               *)
(***************************************************************************)
RECURSIVE Scan(_, _, _)
Scan(b, s, i) ==
    IF i < Cardinality(DOMAIN b) /\ s >= b[i] THEN Scan(b, s, i + 1) ELSE i

\* Variant for mutation checking: the map indexed with fls() = ilog2() + 1.
LatdisBucketFls(b, m, s) ==
    IF s = 0 THEN 0
    ELSE Scan(b, s, m[IF Ilog2(s) + 1 < MapSize THEN Ilog2(s) + 1 ELSE MapSize - 1])

LatdisBucket(b, m, s) == IF s = 0 THEN 0 ELSE Scan(b, s, m[Ilog2(s)])

\* The bucket a sample belongs in: the number of bounds at or below it.
RefBucket(b, s) == Cardinality({i \in DOMAIN b : b[i] <= s})

Idle == [pc |-> "idle", sample |-> 0]
Quiescent == \A r \in Recorders : rec[r].pc = "idle"
\* No record has run since a quiescent moment at which nrec was n.
QuietSince(n) == n = nrec /\ Quiescent

(***************************************************************************)
(* perfc_di_emit's state: the loop index, the running boundary, the sums   *)
(* and the last bucket object added, and where its cJSON allocations fail  *)
(* (NoFail, ArrayFail for the histogram array, i for bucket i, Cnt + 1 for *)
(* the summary fields).  hits0 and vsum0 are the bucket totals when the    *)
(* call began, and since is nrec then if no record was in progress (else   *)
(* -1); they are history, read by no action.                               *)
(***************************************************************************)
NoFail    == -1
ArrayFail == -2
NoEmit == [pc |-> "idle", i |-> 0, val |-> 0, bnd |-> 0, samples |-> 0, sum |-> 0,
           last |-> [hits |-> 0, average |-> 0, boundary |-> 0], fail |-> NoFail,
           hits0 |-> 0, vsum0 |-> 0, since |-> -1]
\* The object returned to perfc_emit_handler_ctrset (buckets: its histogram's
\* length, bktHits: the hits of its buckets summed); -1: a field not added.
NoResult == [status |-> "none", buckets |-> 0, bktHits |-> 0,
             minimum |-> -1, maximum |-> -1,
             average |-> -1, sum |-> -1, hits |-> -1,
             hits0 |-> 0, vsum0 |-> 0, hits1 |-> 0, vsum1 |-> 0, quiet |-> FALSE]
FailPoints == {NoFail} \cup IF EmitMayFail THEN {ArrayFail} \cup 0..(Cnt + 1) ELSE {}

\* Variant for mutation checking: the loop stops before the last bucket.
HistLenShort == Cnt

\* The histogram loop runs for i < ivl->ivl_cnt + 1.
HistLen == Cnt + 1

\* Variant for mutation checking: the boundary taken one bound too far.
NextBoundaryOffByOne(i, bnd) == IF i + 1 < Cnt THEN bound[i + 1] ELSE bnd

\* if (i < ivl->ivl_cnt) bound = ivl->ivl_bound[i];
NextBoundary(i, bnd) == IF i < Cnt THEN bound[i] ELSE bnd

(***************************************************************************)
(* perfc_init's default bound vector: ten bounds at 100 steps, then from   *)
(* 1000 a running bound bnd that doubles while i < 23 and then quadruples,     *)
(* each entry the running bound cut to its leading digits (divided by 10   *)
(* while above 30) times the power of ten removed.                         *)
(***************************************************************************)
RECURSIVE Shrink(_, _)
Shrink(b, mult) == IF b > 30 THEN Shrink(b \div 10, mult * 10) ELSE b * mult

\* Variant for mutation checking: the switch from 100 to 1000 is missing.
RECURSIVE BoundvLoopNoSwitch(_, _, _)
BoundvLoopNoSwitch(i, bnd, v) ==
    IF i = DefaultCnt THEN v
    ELSE IF i < 9 THEN BoundvLoopNoSwitch(i + 1, bnd, Append(v, bnd * (i + 1)))
    ELSE BoundvLoopNoSwitch(i + 1, bnd * (IF i < 23 THEN 2 ELSE 4),
                            Append(v, Shrink(bnd, 1)))

RECURSIVE BoundvLoop(_, _, _)
BoundvLoop(i, bnd, v) ==
    IF i = DefaultCnt THEN v
    ELSE IF i < 9 THEN BoundvLoop(i + 1, bnd, Append(v, bnd * (i + 1)))
    ELSE LET bd == IF bnd = 100 THEN 1000 ELSE bnd
         IN  BoundvLoop(i + 1, bd * (IF i < 23 THEN 2 ELSE 4), Append(v, Shrink(bd, 1)))

DefaultBoundv == BoundvLoop(0, 100, <<>>)

-----------------------------------------------------------------------------
(***************************************************************************)
(* perfc_alloc of a set with one distribution counter over the interval    *)
(* vector b: perfc_ivl_create, then the zeroed counter storage.            *)
(***************************************************************************)
Init ==
    /\ bound \in BoundVectors
    /\ ivlmap = IvlCreate(bound)
    /\ hits = [k \in Buckets |-> 0]
    /\ vsum = [k \in Buckets |-> 0]
    /\ pmin = 0
    /\ pmax = 0
    /\ rec = [r \in Recorders |-> Idle]
    /\ recorded = [s \in Samples |-> 0]
    /\ nrec = 0
    /\ diivl = <<>>
    /\ em = NoEmit
    /\ emitted = NoResult
    /\ nemit = 0

\* A record starts with the sample it was handed (the gate let it through).
Begin(r, s) ==
    /\ rec[r].pc = "idle"
    /\ nrec < MaxRecords
    /\ rec' = [rec EXCEPT ![r] = [pc |-> "cmpmax", sample |-> s]]
    /\ nrec' = nrec + 1
    /\ UNCHANGED <<bound, ivlmap, hits, vsum, pmin, pmax, recorded>>

\* if (sample > dis->pdi_max) ... else if ((sample < pdi_min) || (pdi_min == 0))
CmpMax(r) ==
    /\ rec[r].pc = "cmpmax"
    /\ rec' = [rec EXCEPT ![r].pc =
                 IF rec[r].sample > pmax THEN "setmax" ELSE "cmpmin"]
    /\ UNCHANGED <<bound, ivlmap, hits, vsum, pmin, pmax, recorded, nrec>>

SetMax(r) ==
    /\ rec[r].pc = "setmax"
    /\ pmax' = rec[r].sample
    /\ rec' = [rec EXCEPT ![r].pc = "bucket"]
    /\ UNCHANGED <<bound, ivlmap, hits, vsum, pmin, recorded, nrec>>

CmpMin(r) ==
    /\ rec[r].pc = "cmpmin"
    /\ rec' = [rec EXCEPT ![r].pc =
                 IF rec[r].sample < pmin \/ pmin = 0 THEN "setmin" ELSE "bucket"]
    /\ UNCHANGED <<bound, ivlmap, hits, vsum, pmin, pmax, recorded, nrec>>

SetMin(r) ==
    /\ rec[r].pc = "setmin"
    /\ pmin' = rec[r].sample
    /\ rec' = [rec EXCEPT ![r].pc = "bucket"]
    /\ UNCHANGED <<bound, ivlmap, hits, vsum, pmax, recorded, nrec>>

\* atomic_add(&bkt->pcb_vadd, sample); atomic_add(&bkt->pcb_hits, 1);
\* The two atomic adds are separate steps: the emitter may read in between.
Bucket(r) ==
    /\ rec[r].pc = "bucket"
    /\ LET s == rec[r].sample
       IN  vsum' = [vsum EXCEPT ![LatdisBucket(bound, ivlmap, s)] = @ + s]
    /\ rec' = [rec EXCEPT ![r].pc = "hits"]
    /\ UNCHANGED <<bound, ivlmap, hits, pmin, pmax, recorded, nrec>>

BucketHits(r) ==
    /\ rec[r].pc = "hits"
    /\ LET s == rec[r].sample
       IN  /\ hits' = [hits EXCEPT ![LatdisBucket(bound, ivlmap, s)] = @ + 1]
           /\ recorded' = [recorded EXCEPT ![s] = @ + 1]
    /\ rec' = [rec EXCEPT ![r] = Idle]
    /\ UNCHANGED <<bound, ivlmap, vsum, pmin, pmax, nrec>>

\* Every record started has finished: nothing more happens.
Done ==
    /\ nrec = MaxRecords
    /\ \A r \in Recorders : rec[r].pc = "idle"
    /\ UNCHANGED vars

(***************************************************************************)
(* perfc_di_emit: the histogram array is added first; when that fails the  *)
(* function returns merr(ENOMEM), a non-zero value, from a bool function,  *)
(* so its caller sees success and keeps the counter object without any of  *)
(* its fields.  Otherwise it walks the buckets, reading each bucket's       *)
(* pcb_vadd and then its pcb_hits with separate atomic reads, appends      *)
(* {hits, average, boundary} and then advances the boundary; a failed      *)
(* bucket or field allocation deletes the counter object and returns false.*)
(* The "percentage" field is the configured sampling rate and is left out. *)
(***************************************************************************)
EmitStart ==
    /\ em.pc = "idle"
    /\ nemit < MaxEmits
    /\ Cnt <= EmitMaxCnt
    /\ nemit' = nemit + 1
    /\ \E fail \in FailPoints :
          IF fail = ArrayFail
          THEN /\ emitted' = [NoResult EXCEPT !.status = "ok"]
               /\ UNCHANGED em
          ELSE /\ em' = [NoEmit EXCEPT !.pc = "vadd", !.fail = fail,
                           !.hits0 = SumFunction(hits), !.vsum0 = SumFunction(vsum),
                           !.since = IF Quiescent THEN nrec ELSE -1]
               /\ UNCHANGED emitted

\* cJSON_CreateObject of the bucket, then val += atomic_read(&bkt->pcb_vadd).
EmitBucketVadd ==
    /\ em.pc = "vadd"
    /\ IF em.fail = em.i
       THEN /\ em' = NoEmit
            /\ emitted' = [NoResult EXCEPT !.status = "fail"]
       ELSE /\ em' = [em EXCEPT !.pc = "hits", !.val = vsum[em.i]]
            /\ UNCHANGED emitted

\* hits += atomic_read(&bkt->pcb_hits); the bucket is added to the array.
EmitBucketHits ==
    /\ em.pc = "hits"
    /\ LET h   == hits[em.i]
           avg == IF h > 0 THEN em.val \div h ELSE 0
       IN  em' = [em EXCEPT !.pc = IF em.i + 1 < HistLen THEN "vadd" ELSE "fin",
                            !.i = em.i + 1,
                            !.last = [hits |-> h, average |-> avg, boundary |-> em.bnd],
                            !.bnd = NextBoundary(em.i, em.bnd),
                            !.samples = @ + h, !.sum = @ + em.val]
    /\ UNCHANGED emitted

\* The summary fields; pdi_min and pdi_max are plain loads.
EmitFinish ==
    /\ em.pc = "fin"
    /\ em' = NoEmit
    /\ IF em.fail = Cnt + 1
       THEN emitted' = [NoResult EXCEPT !.status = "fail"]
       ELSE emitted' =
              [status |-> "ok", buckets |-> em.i, bktHits |-> em.samples, minimum |-> pmin, maximum |-> pmax,
               average |-> IF em.samples > 0 THEN em.sum \div em.samples ELSE 0,
               sum |-> em.sum, hits |-> IF em.samples > 0 THEN em.samples ELSE 1,
               hits0 |-> em.hits0, vsum0 |-> em.vsum0,
               hits1 |-> SumFunction(hits), vsum1 |-> SumFunction(vsum),
               quiet |-> QuietSince(em.since)]

(***************************************************************************)
(* perfc_init: build the default vector and create perfc_di_ivl from it;   *)
(* when perfc_ivl_create or dt_add fails, perfc_di_ivl is left NULL.       *)
(* perfc_fini destroys it and sets it NULL.                                *)
(***************************************************************************)
PerfcInit ==
    /\ diivl = <<>>
    /\ diivl' \in {DefaultBoundv, <<>>}
    /\ UNCHANGED vars

PerfcFini ==
    /\ diivl # <<>>
    /\ diivl' = <<>>
    /\ UNCHANGED vars

Next ==
    \/ /\ \/ \E r \in Recorders :
                \/ \E s \in Samples : Begin(r, s)
                \/ CmpMax(r) \/ SetMax(r) \/ CmpMin(r) \/ SetMin(r)
                \/ Bucket(r) \/ BucketHits(r)
          \/ Done
       /\ UNCHANGED <<diivl, em, emitted, nemit>>
    \/ (PerfcInit \/ PerfcFini) /\ UNCHANGED emvars
    \/ EmitStart /\ UNCHANGED <<vars, diivl>>
    \/ (EmitBucketVadd \/ EmitBucketHits \/ EmitFinish) /\ UNCHANGED <<vars, diivl, nemit>>

Spec == Init /\ [][Next]_<<vars, diivl, em, emitted, nemit>>

-----------------------------------------------------------------------------
TypeOK ==
    /\ bound \in BoundVectors
    /\ ivlmap \in [0..(MapSize - 1) -> 0..(Cnt - 1)]
    /\ hits \in [Buckets -> 0..MaxRecords]
    /\ pmin \in Samples /\ pmax \in Samples
    /\ rec \in [Recorders -> [pc : {"idle", "cmpmax", "setmax", "cmpmin",
                                    "setmin", "bucket", "hits"}, sample : Samples]]
    /\ nrec \in 0..MaxRecords

Seen      == {s \in Samples : recorded[s] > 0}

(***************************************************************************)
(* The histogram the emitter sums (perfc_di_emit) is exact: every bucket   *)
(* holds exactly the recorded samples that the bound vector puts in it,   *)
(* i.e. the ivl_map shortcut of perfc_ivl_create / perfc_latdis_record     *)
(* never skips a bucket and never stops early, for every interval vector;  *)
(* pcb_vadd is ahead by the samples of records between their two adds.     *)
(***************************************************************************)
HistogramExact ==
    \A k \in Buckets :
        LET inK     == {s \in Seen : RefBucket(bound, s) = k}
            pending == {r \in Recorders : rec[r].pc = "hits"
                                          /\ RefBucket(bound, rec[r].sample) = k}
        IN  /\ hits[k] = SumFunctionOnSet(recorded, inK)
            /\ vsum[k] = SumFunctionOnSet([s \in Samples |-> s * recorded[s]], inK)
                         + SumFunctionOnSet([r \in Recorders |-> rec[r].sample], pending)

(***************************************************************************)
(* A counter object perfc_di_emit returns as a success has a bucket for    *)
(* each of the ivl_cnt + 1 buckets, and its totals lie between the bucket   *)
(* totals when the call began and when it returned, however the recorders' *)
(* two adds and the emitter's two reads of every bucket interleave.         *)
(***************************************************************************)
Returned(e) == emitted' # emitted /\ emitted' = e /\ e.status = "ok"

EmitBracketed ==
    [][\A e \in {emitted'} :
          Returned(e) =>
            /\ e.buckets = Cnt + 1
            /\ e.hits0 <= e.bktHits /\ e.bktHits <= e.hits1
            /\ e.vsum0 <= e.sum /\ e.sum <= e.vsum1
      ]_emitted

(***************************************************************************)
(* An emit that no record overlapped reports, for each bucket, the number  *)
(* and the mean of the recorded samples from that bucket's "boundary" up   *)
(* to the next bucket's (the last bucket open-ended), then their total     *)
(* "sum" and the largest of them as "maximum": the boundary perfc_di_emit  *)
(* pairs with a bucket is the lower bound perfc_latdis_record files it     *)
(* under.  Each bucket is checked at the step that adds it.                *)
(***************************************************************************)
Mean(cnt, tot) == IF cnt > 0 THEN tot \div cnt ELSE 0
Weighted == [s \in Samples |-> s * recorded[s]]

QuiescentEmitExact ==
    [][/\ em.pc = "hits" /\ em'.i = em.i + 1 /\ QuietSince(em.since) =>
          LET b   == em'.last
              inJ == {s \in Seen : b.boundary <= s /\ (em'.pc = "fin" \/ s < em'.bnd)}
          IN  /\ b.hits = SumFunctionOnSet(recorded, inJ)
              /\ b.average = Mean(b.hits, SumFunctionOnSet(Weighted, inJ))
       /\ \A e \in {emitted'} :
          Returned(e) /\ e.quiet =>
             /\ e.sum = SumFunctionOnSet(Weighted, Seen)
             /\ Seen # {} => e.maximum = CHOOSE m \in Seen : \A s \in Seen : s <= m
      ]_<<em, emitted>>

\* The result is written by the emitter and read by no action.
EmitView == <<vars, diivl, em, nemit>>

(***************************************************************************)
(* Once every recorder has returned, pdi_max (emitted as "maximum") is the *)
(* largest sample recorded.                                                *)
(***************************************************************************)
MaxIsRecordedMaximum ==
    Quiescent /\ Seen # {} =>
        pmax = CHOOSE m \in Seen : \A s \in Seen : s <= m

(***************************************************************************)
(* Once perfc_init has set perfc_di_ivl, its default latency vector is    *)
(* one perfc_ivl_create accepts and spec 4.B describes: strictly           *)
(* increasing, bound i below 9 is 100 * (i + 1), and after that each bound *)
(* has one or two significant digits and is at most 1000 doubled up to    *)
(* index 23 and quadrupled after.                                          *)
(***************************************************************************)
SpecRaw(i) == IF i < 9 THEN 100 * (i + 1)
              ELSE 1000 * 2^((IF i < 23 THEN i ELSE 23) - 9)
                        * 4^(IF i > 23 THEN i - 23 ELSE 0)

TwoDigits(x) == \E k \in 0..9 : x % (10^k) = 0 /\ x \div (10^k) < 100

DefaultBoundsValid ==
    LET v == diivl IN
    v # <<>> =>
    /\ Len(v) = DefaultCnt
    /\ \A i \in 1..(Len(v) - 1) : v[i] < v[i + 1]
    /\ \A i \in 1..Len(v) :
          /\ TwoDigits(v[i]) /\ v[i] <= SpecRaw(i - 1)
          /\ i <= 9 => v[i] = SpecRaw(i - 1)
=============================================================================
