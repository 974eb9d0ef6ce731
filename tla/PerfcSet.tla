------------------------------ MODULE PerfcSet ------------------------------
(***************************************************************************)
(* Counter-set instances of the perf-counter engine and the data tree they *)
(* are registered in (perfc_alloc_impl, perfc_access_dte and perfc_free in *)
(* src/lib/util/lib/perfc.c).                                              *)
(*                                                                         *)
(* A caller owns a handle (struct perfc_set): ps_seti and ps_bitmap.  An   *)
(* instance lives at the data-tree path /data/perfc/<group>/<family>/<name>*)
(* and remembers the handle that made it (pcs_handle).  perfc_alloc_impl   *)
(* looks the path up with dt_access and, when an instance is there already, *)
(* attaches the handle to it; otherwise it builds an instance outside any  *)
(* lock and registers it with dt_add.  The data tree serialises dt_access, *)
(* dt_add and dt_remove, so alloc is two steps: Access, then Add.           *)
(*                                                                         *)
(* Group and set name are fixed, so a path is the family of the counters.  *)
(* A counter name is abstracted to what perfc_ctr_name2type parses from it: *)
(* its type ("INVAL" when it does not parse) and its family.                *)
(*                                                                         *)
(* Callers update the counters of their handle's instance (perfc_ison,     *)
(* perfc_add and perfc_sub are in a header that is not in the repository: *)
(* an update adds one to the vadd or the vsub of a counter whose bit is    *)
(* set).  The per-CPU cells of a counter are summed as one.  dt_emit runs   *)
(* perfc_emit_handler_ctrset on a registered instance under the tree's     *)
(* lock, so no access, add or remove happens during an emission, while     *)
(* updates go on between its counters; the handler emits each counter in  *)
(* one step, a rate counter through perfc_ra_emit, which moves the rate's  *)
(* baseline (pcr_old_val, pcr_old_time_ns) to what it read.                *)
(***************************************************************************)
EXTENDS Integers, FiniteSets, Sequences

CONSTANTS
    Handles,      \* struct perfc_set objects of the callers
    Families,     \* <family> parts of counter names, i.e. data-tree paths
    CtrVecs,      \* the counter-name vectors callers pass (ctrv, ctrc)
    Prios,        \* the prio argument / counter levels
    MaxCalls,     \* bound on perfc_alloc calls
    AllocMayFail, \* may aligned_alloc of the dte or the instance fail?
    CtrSub,       \* do callers subtract from counters (perfc_sub)?
    MaxUpdates,   \* bound on counter updates
    MaxEmits,     \* bound on dt_emit calls of a counter set
    MaxClock,     \* bound on get_time_ns, in ticks of one ns
    NsecPerSec,   \* NSEC_PER_SEC
    U64Wrapped,   \* a u64 difference that wrapped (2^64 is beyond TLC)
    EmitMayFail   \* may a cJSON allocation of the emit handler fail?

VARIABLES
    reg,      \* data tree: path -> registered instance (0: none)
    live,     \* instances allocated and not yet freed
    inst,     \* instance -> [path, handle (pcs_handle), ctrv]
    seti,     \* handle -> ps_seti (0: NULL)
    bitmap,   \* handle -> ps_bitmap, as the set of enabled counter indices
    th,       \* handle -> the caller's alloc in progress and its last result
    ncalls,   \* perfc_alloc calls made; call n builds instance n
    val,      \* instance -> counter -> [vadd, vsub]
    base,     \* instance -> counter -> rate baseline [val, time]
    clock,    \* get_time_ns
    em,       \* the emit handler in progress
    emitted,  \* the last ctrset emission: its path, result and counters
    nupd,     \* counter updates made
    nemit     \* dt_emit calls made

vars   == <<reg, live, inst, seti, bitmap, th, ncalls>>
ctrvar == <<val, base, clock, nupd>>
emvars == <<em, emitted, nemit>>

Insts == 1..MaxCalls
NoInst == [path |-> "none", handle |-> "none", ctrv |-> <<>>]
\* A returned call: its prio argument and its result.
Returned(e, prio) == [pc |-> "idle", ctrv |-> <<>>, prio |-> prio, id |-> 0, err |-> e]

\* perfc_ctr_name2type / the family check of the name loop of perfc_alloc_impl.
NamesValid(v) ==
    /\ \A i \in 1..Len(v) : v[i].type # "INVAL"
    /\ \A i \in 1..Len(v) : v[i].family = v[1].family

\* The path perfc_alloc_impl builds from the family of the first counter.
PathOf(v) == v[1].family

\* Variant for mutation checking: counter i sets bit i + 1.
EnabledOneBased(v, prio) == {k \in 1..Len(v) : prio >= v[k].level}

\* The counters whose level the priority reaches: ps_bitmap (0-based bits).
Enabled(v, prio) == {i - 1 : i \in {k \in 1..Len(v) : prio >= v[k].level}}

CtrcMax == CHOOSE n \in {Len(v) : v \in CtrVecs} : \A v \in CtrVecs : Len(v) <= n
Ctrs    == 1..CtrcMax

\* An emission in progress: instance, next counter, records so far, and
\* where a cJSON allocation fails (at 0: the ctrset, its members or its
\* array; at k: counter k's object, before its values are read, or one of
\* its members or its add to the array, after).
NoFail == [at |-> -1, after |-> FALSE]
NoEm   == [pc |-> "idle", i |-> 0, k |-> 0, out |-> <<>>, fail |-> NoFail]
FailPoints(n) ==
    {NoFail} \cup IF EmitMayFail THEN {[at |-> 0, after |-> FALSE]}
                                      \cup [at : 1..n, after : BOOLEAN]
                 ELSE {}
Emission(p, ok, ctrs, n) == [path |-> p, ok |-> ok, ctrs |-> ctrs, n |-> n]

\* vadd > vsub ? vadd - vsub : 0, as the handler and perfc_ra_emit compute it.
Value(v) == IF v.vadd > v.vsub THEN v.vadd - v.vsub ELSE 0

\* curr - prev in u64.
U64Sub(a, b) == IF a >= b THEN a - b ELSE U64Wrapped

(***************************************************************************)
(* perfc_ra_emit on a rate counter with baseline o and values v: dt is the *)
(* time since the baseline (0 for a first emission or a clock behind it),  *)
(* curr the value, dx = curr - prev in u64 and the rate dx * NSEC_PER_SEC  *)
(* / dt; the baseline becomes (curr, now).                                  *)
(***************************************************************************)
RaEmit(o, v) ==
    LET curr == Value(v)
        dt   == IF o.time = 0 \/ clock < o.time THEN 0 ELSE clock - o.time
        dx   == U64Sub(curr, o.val)
    IN  [rec  |-> [type |-> "RA", value |-> curr, previous |-> o.val, delta |-> dt,
                   rate |-> IF dt = 0 THEN 0 ELSE IF dx = U64Wrapped THEN U64Wrapped
                                                  ELSE (dx * NsecPerSec) \div dt],
         base |-> [val |-> curr, time |-> clock]]

\* perfc_read_hdr then the value of a basic counter.
BaEmit(v) == [type |-> "BA", value |-> Value(v), previous |-> 0, delta |-> 0, rate |-> 0]

-----------------------------------------------------------------------------
Init ==
    /\ reg = [p \in Families |-> 0]
    /\ live = {}
    /\ inst = [i \in Insts |-> NoInst]
    /\ seti = [h \in Handles |-> 0]
    /\ bitmap = [h \in Handles |-> {}]
    /\ th = [h \in Handles |-> Returned("OK", 0)]
    /\ ncalls = 0
    /\ val = [i \in Insts |-> [k \in Ctrs |-> [vadd |-> 0, vsub |-> 0]]]
    /\ base = [i \in Insts |-> [k \in Ctrs |-> [val |-> 0, time |-> 0]]]
    /\ clock = 1
    /\ em = NoEm
    /\ emitted = Emission("none", FALSE, <<>>, 0)
    /\ nupd = 0
    /\ nemit = 0

(***************************************************************************)
(* perfc_alloc_impl up to dt_access.  A counter count out of range returns *)
(* EINVAL before the handle is touched.  Otherwise the handle is cleared,  *)
(* the names are checked (EINVAL), and the path is looked up.  An instance *)
(* found there is attached by perfc_access_dte (pcs_handle and ps_seti are *)
(* set, the bitmap stays 0) and 0 is returned; on ENOENT the caller goes   *)
(* on to build a new instance.                                              *)
(***************************************************************************)
AllocAccess(h, v, prio) ==
    /\ th[h].pc = "idle"
    /\ ncalls < MaxCalls
    /\ ncalls' = ncalls + 1
    /\ UNCHANGED <<reg, live>>
    /\ \/ /\ Len(v) = 0
          /\ th' = [th EXCEPT ![h] = Returned("EINVAL", prio)]
          /\ UNCHANGED <<seti, bitmap, inst>>
       \/ /\ Len(v) > 0
          /\ bitmap' = [bitmap EXCEPT ![h] = {}]
          /\ IF ~NamesValid(v)
             THEN /\ th' = [th EXCEPT ![h] = Returned("EINVAL", prio)]
                  /\ seti' = [seti EXCEPT ![h] = 0]
                  /\ UNCHANGED inst
             ELSE IF reg[PathOf(v)] # 0
             THEN /\ seti' = [seti EXCEPT ![h] = reg[PathOf(v)]]
                  /\ inst' = [inst EXCEPT ![reg[PathOf(v)]].handle = h]
                  /\ th' = [th EXCEPT ![h] = Returned("OK", prio)]
             ELSE /\ th' = [th EXCEPT ![h] = [pc |-> "build", ctrv |-> v,
                                               prio |-> prio, id |-> ncalls + 1,
                                               err |-> "OK"]]
                  /\ seti' = [seti EXCEPT ![h] = 0]
                  /\ UNCHANGED inst

(***************************************************************************)
(* The rest of perfc_alloc_impl: allocate the dte and the instance         *)
(* (ENOMEM), set a bit of ps_bitmap for every counter whose level the prio *)
(* reaches, point the handle at the instance, and dt_add it.  dt_add fails *)
(* (EEXIST) when another caller registered the path since our dt_access;   *)
(* every error goes to errout, which clears the handle and frees both.     *)
(***************************************************************************)
\* Variant for mutation checking: errout after a failed dt_add does not free
\* the instance.
AllocAddLeak(h) ==
    /\ th[h].pc = "build"
    /\ LET v   == th[h].ctrv
           i   == th[h].id
           new == [path |-> PathOf(v), handle |-> h, ctrv |-> v]
       IN  \/ /\ AllocMayFail
              /\ seti' = [seti EXCEPT ![h] = 0]
              /\ bitmap' = [bitmap EXCEPT ![h] = {}]
              /\ th' = [th EXCEPT ![h] = Returned("ENOMEM", th[h].prio)]
              /\ UNCHANGED <<reg, live, inst>>
           \/ /\ reg[PathOf(v)] # 0
              /\ live' = live \cup {i}
              /\ inst' = [inst EXCEPT ![i] = new]
              /\ seti' = [seti EXCEPT ![h] = 0]
              /\ bitmap' = [bitmap EXCEPT ![h] = {}]
              /\ th' = [th EXCEPT ![h] = Returned("EEXIST", th[h].prio)]
              /\ UNCHANGED reg
           \/ /\ reg[PathOf(v)] = 0
              /\ reg' = [reg EXCEPT ![PathOf(v)] = i]
              /\ live' = live \cup {i}
              /\ inst' = [inst EXCEPT ![i] = new]
              /\ seti' = [seti EXCEPT ![h] = i]
              /\ bitmap' = [bitmap EXCEPT ![h] = Enabled(v, th[h].prio)]
              /\ th' = [th EXCEPT ![h] = Returned("OK", th[h].prio)]
    /\ UNCHANGED ncalls

AllocAdd(h) ==
    /\ th[h].pc = "build"
    /\ LET v   == th[h].ctrv
           i   == th[h].id
           new == [path |-> PathOf(v), handle |-> h, ctrv |-> v]
           Fail(e) == /\ seti' = [seti EXCEPT ![h] = 0]
                      /\ bitmap' = [bitmap EXCEPT ![h] = {}]
                      /\ th' = [th EXCEPT ![h] = Returned(e, th[h].prio)]
                      /\ UNCHANGED <<reg, live, inst>>
       IN  \/ /\ AllocMayFail
              /\ Fail("ENOMEM")
           \/ /\ reg[PathOf(v)] # 0
              /\ Fail("EEXIST")
           \/ /\ reg[PathOf(v)] = 0
              /\ reg' = [reg EXCEPT ![PathOf(v)] = i]
              /\ live' = live \cup {i}
              /\ inst' = [inst EXCEPT ![i] = new]
              /\ seti' = [seti EXCEPT ![h] = i]
              /\ bitmap' = [bitmap EXCEPT ![h] = Enabled(v, th[h].prio)]
              /\ th' = [th EXCEPT ![h] = Returned("OK", th[h].prio)]
    /\ UNCHANGED ncalls

(***************************************************************************)
(* perfc_free: dt_remove of the path stored in the handle's instance; the  *)
(* remove handler frees whatever instance is registered there.  ps_seti is *)
(* cleared, ps_bitmap is left as it is.                                    *)
(***************************************************************************)
Free(h) ==
    /\ th[h].pc = "idle"
    /\ seti[h] # 0
    /\ LET p == inst[seti[h]].path
       IN  /\ reg' = [reg EXCEPT ![p] = 0]
           /\ live' = live \ {reg[p]}
    /\ seti' = [seti EXCEPT ![h] = 0]
    /\ UNCHANGED <<inst, bitmap, th, ncalls>>

(***************************************************************************)
(* perfc_add / perfc_sub through a handle: perfc_ison finds the instance  *)
(* when ps_seti is set and the counter's bit is in ps_bitmap; the value is *)
(* added to the counter's vadd or vsub.                                    *)
(***************************************************************************)
Update(h, k, sub) ==
    /\ nupd < MaxUpdates
    /\ seti[h] # 0
    /\ k - 1 \in bitmap[h]
    /\ val' = [val EXCEPT ![seti[h]][k] = IF sub THEN [@ EXCEPT !.vsub = @ + 1]
                                                 ELSE [@ EXCEPT !.vadd = @ + 1]]
    /\ nupd' = nupd + 1
    /\ UNCHANGED <<base, clock>>

\* CLOCK_MONOTONIC advances.
Tick ==
    /\ clock < MaxClock
    /\ clock' = clock + 1
    /\ UNCHANGED <<val, base, nupd>>

(***************************************************************************)
(* perfc_emit_handler_ctrset up to its counter loop: the ctrset object,    *)
(* its path, name and enabled members and its counter array; a failure    *)
(* (ENOMEM) deletes the ctrset and returns.                                *)
(***************************************************************************)
EmitStart(p) ==
    /\ em.pc = "idle"
    /\ nemit < MaxEmits
    /\ reg[p] # 0
    /\ nemit' = nemit + 1
    /\ \E f \in FailPoints(Len(inst[reg[p]].ctrv)) :
         IF f.at = 0
         THEN emitted' = Emission(p, FALSE, <<>>, nemit + 1) /\ UNCHANGED em
         ELSE em' = [pc |-> "ctr", i |-> reg[p], k |-> 1, out |-> <<>>, fail |-> f]
                /\ UNCHANGED emitted

(***************************************************************************)
(* One pass of the counter loop: create the counter's object (a failure    *)
(* here goes to out before anything is read), emit it by its type (a rate  *)
(* counter through perfc_ra_emit), and add it to the array; on a failure  *)
(* after the read, the baseline has moved all the same.  At out the ctrset *)
(* is deleted on an error, else added to the root.                         *)
(***************************************************************************)
EmitCtr ==
    /\ em.pc = "ctr"
    /\ LET i    == em.i
           k    == em.k
           c    == inst[i].ctrv[k]
           read == ~(em.fail.at = k /\ ~em.fail.after)
           ra   == RaEmit(base[i][k], val[i][k])
           rec  == IF c.type = "RA" THEN ra.rec ELSE BaEmit(val[i][k])
           out  == Append(em.out, rec)
           p    == inst[i].path
       IN  /\ IF read /\ c.type = "RA"
              THEN base' = [base EXCEPT ![i][k] = ra.base]
              ELSE UNCHANGED base
           /\ IF em.fail.at = k
              THEN emitted' = Emission(p, FALSE, <<>>, nemit) /\ em' = NoEm
              ELSE IF k = Len(inst[i].ctrv)
              THEN emitted' = Emission(p, TRUE, out, nemit) /\ em' = NoEm
              ELSE em' = [em EXCEPT !.k = k + 1, !.out = out] /\ UNCHANGED emitted
    /\ UNCHANGED <<val, clock, nupd, nemit>>

\* Every instance that could be built has been: nothing more happens.
Stop ==
    /\ ncalls = MaxCalls
    /\ \A h \in Handles : th[h].pc = "idle"
    /\ UNCHANGED vars

\* The data tree's lock: dt_access, dt_add and dt_remove wait for dt_emit.
TreeFree == em.pc = "idle"

Next ==
    \/ /\ TreeFree
       /\ \E h \in Handles :
            \/ \E v \in CtrVecs, p \in Prios : AllocAccess(h, v, p)
            \/ AllocAdd(h)
            \/ Free(h)
       /\ UNCHANGED <<ctrvar, emvars>>
    \/ Stop /\ UNCHANGED <<ctrvar, emvars>>
    \/ /\ \/ \E h \in Handles, k \in Ctrs, sub \in IF CtrSub THEN BOOLEAN ELSE {FALSE} :
               Update(h, k, sub)
          \/ Tick
       /\ UNCHANGED <<vars, emvars>>
    \/ \E p \in Families : EmitStart(p) /\ UNCHANGED <<vars, ctrvar>>
    \/ EmitCtr /\ UNCHANGED vars

Spec == Init /\ [][Next]_<<vars, ctrvar, emvars>>

\* No guard reads emitted: the model checker's view leaves it out.
SetView == <<vars, ctrvar, em, nemit>>

-----------------------------------------------------------------------------

TypeOK ==
    /\ reg \in [Families -> 0..MaxCalls]
    /\ live \subseteq Insts
    /\ seti \in [Handles -> 0..MaxCalls]
    /\ \A h \in Handles : bitmap[h] \subseteq 0..(CtrcMax - 1)
    /\ th \in [Handles -> [pc : {"idle", "build"}, ctrv : CtrVecs \cup {<<>>},
                           prio : Prios \cup {0}, id : 0..MaxCalls,
                           err : {"OK", "EINVAL", "ENOMEM", "EEXIST"}]]
    /\ ncalls \in 0..MaxCalls
    /\ val \in [Insts -> [Ctrs -> [vadd : 0..MaxUpdates, vsub : 0..MaxUpdates]]]
    /\ base \in [Insts -> [Ctrs -> [val : 0..MaxUpdates, time : 0..MaxClock]]]
    /\ clock \in 1..MaxClock
    /\ em.pc \in {"idle", "ctr"} /\ em.fail \in FailPoints(CtrcMax)
    /\ nupd \in 0..MaxUpdates /\ nemit \in 0..MaxEmits

(***************************************************************************)
(* Every instance perfc_alloc_impl allocated is registered in the data     *)
(* tree until the remove handler frees it, and every registered instance   *)
(* is allocated: no errout path (ENOMEM, a lost dt_add race) leaks one,    *)
(* and perfc_free never frees one that stays registered.                   *)
(***************************************************************************)
RegistryOwnsLive == live = {reg[p] : p \in Families} \ {0}

(***************************************************************************)
(* A handle with ps_seti set points at a live instance: counters updated   *)
(* through perfc_ison never write freed memory.                            *)
(***************************************************************************)
HandleSeesLive == \A h \in Handles : seti[h] # 0 => seti[h] \in live
=============================================================================
