----------------------------- MODULE RegionMap -----------------------------
(***************************************************************************)
(* The free-space region map of an mblock file (mblock_rgn_alloc, _insert, *)
(* _free and _find in src/lib/mpool/mblock_file.c).  The rb-tree of free *)
(* intervals [start, end) of 1-based block keys is modelled as the SET of its *)
(* intervals; the tree shape is abstracted away.  Where the code's result *)
(* depends on which node a tree walk meets first, the model chooses       *)
(* nondeterministically among the nodes such a walk can meet, so every    *)
(* tree shape is covered.  Every operation runs under rm_lock and is one  *)
(* atomic step.                                                           *)
(*                                                                         *)
(* The operators Rgn* are pure (map in, set of possible outcomes out) so   *)
(* that MblockFile can INSTANCE this module and use them on its own map.  *)
(***************************************************************************)
EXTENDS Integers, FiniteSets

CONSTANTS
    MaxKey,       \* rmax = maxsz >> MBLOCK_SIZE_SHIFT: number of block keys
    KmemMayFail   \* may kmem_cache_alloc() of a new region node fail?

ASSUME MaxKey \in Nat \ {0}
ASSUME KmemMayFail \in BOOLEAN

VARIABLES
    rgns,   \* the set of free intervals in rm_root
    ret     \* the last operation and what it returned (observation only)

vars == <<rgns, ret>>

Keys == 1..MaxKey
Rgn  == [start : 1..MaxKey, end : 2..(MaxKey + 1)]

\* The block keys a region covers.
RgnKeys(r) == r.start..(r.end - 1)

\* All free keys of a map.
FreeKeys(R) == UNION {RgnKeys(r) : r \in R}

Outcome(R, e) == [map |-> R, err |-> e]

(***************************************************************************)
(* mblock_rgnmap_init: one interval covering every key.                    *)
(***************************************************************************)
RgnInit == {[start |-> 1, end |-> MaxKey + 1]}

(***************************************************************************)
(* mblock_rgn_alloc: take rb_first (smallest start), return its start and  *)
(* advance it; erase the node once it is empty.  Key 0 means ENOSPC.       *)
(***************************************************************************)
\* Variant for mutation checking: rb_last taken instead of rb_first.
RgnAllocLast(R) ==
    IF R = {} THEN [map |-> R, key |-> 0]
    ELSE LET r == CHOOSE x \in R : \A y \in R : x.start >= y.start
         IN  [key |-> r.start,
              map |-> (R \ {r}) \cup
                      IF r.start + 1 < r.end THEN {[r EXCEPT !.start = @ + 1]} ELSE {}]

\* Variant for mutation checking: the emptied node is not erased.
RgnAllocNoErase(R) ==
    IF R = {} THEN [map |-> R, key |-> 0]
    ELSE LET r == CHOOSE x \in R : \A y \in R : x.start <= y.start
         IN  [key |-> r.start, map |-> (R \ {r}) \cup {[r EXCEPT !.start = @ + 1]}]

RgnAlloc(R) ==
    IF R = {} THEN [map |-> R, key |-> 0]
    ELSE LET r    == CHOOSE x \in R : \A y \in R : x.start <= y.start
             rest == R \ {r}
         IN  [key |-> r.start,
              map |-> IF r.start + 1 < r.end
                      THEN rest \cup {[r EXCEPT !.start = @ + 1]}
                      ELSE rest]

(***************************************************************************)
(* mblock_rgn_find: 0 when the key is allocated, ENOENT when it lies in a  *)
(* free interval.                                                          *)
(***************************************************************************)
RgnFind(R, key) == IF \E r \in R : key \in RgnKeys(r) THEN "ENOENT" ELSE "OK"

(***************************************************************************)
(* mblock_rgn_insert: mark a free key allocated (used by the load path).   *)
(* The walk stops at a node containing key; a key at either end trims the  *)
(* node, an inner key splits it.  For the left half the code walks the     *)
(* right spine of the node's left subtree for a node ending at its start  *)
(* and extends it; failing that it allocates a node, and if that fails the *)
(* left half [start, key) is already cut off and is lost (ENOMEM).         *)
(***************************************************************************)
RgnInsert(R, key) ==
    LET hits == {r \in R : key \in RgnKeys(r)}
    IN
    IF hits = {} THEN {Outcome(R, "ENOENT")}
    ELSE UNION {
      LET rest  == R \ {this}
          left  == [start |-> this.start, end |-> key]
          right == [this EXCEPT !.start = key + 1]
      IN
      IF key = this.start
      THEN {Outcome(IF this.start + 1 = this.end THEN rest
                    ELSE rest \cup {right}, "OK")}
      ELSE IF key = this.end - 1
      THEN {Outcome(rest \cup {[this EXCEPT !.end = @ - 1]}, "OK")}
      ELSE   {Outcome((rest \ {a}) \cup {right, [a EXCEPT !.end = key]}, "OK")
                : a \in {x \in rest : x.end = this.start}}
         \cup {Outcome(rest \cup {right, left}, "OK")}
         \cup (IF KmemMayFail THEN {Outcome(rest \cup {right}, "ENOMEM")}
               ELSE {})
      : this \in hits}

(***************************************************************************)
(* rb_prev / rb_next of a node: its in-order neighbours by start.          *)
(***************************************************************************)
RbPrev(R, r) == {x \in R : x.start < r.start /\
                         \A y \in R : y.start < r.start => y.start <= x.start}
RbNext(R, r) == {x \in R : x.start > r.start /\
                          \A y \in R : y.start > r.start => x.start <= y.start}

(***************************************************************************)
(* The coalescing step of mblock_rgn_free: the extended node absorbs its   *)
(* neighbour when they touch on either side, and the neighbour is erased.  *)
(***************************************************************************)
\* Variant for mutation checking: the extended node never absorbs its neighbour.
CoalesceNever(R, this, nbrs) == R \cup {this}

Coalesce(R, this, nbrs) ==
    IF nbrs = {} THEN R \cup {this}
    ELSE LET that == CHOOSE x \in nbrs : TRUE
         IN  IF this.start = that.end
             THEN (R \ {that}) \cup {[this EXCEPT !.start = that.start]}
             ELSE IF this.end = that.start
             THEN (R \ {that}) \cup {[this EXCEPT !.end = that.end]}
             ELSE R \cup {this}

(***************************************************************************)
(* mblock_rgn_free: the walk stops at the first node that contains key     *)
(* (ENOENT) or that key touches: key = start - 1 extends it down and tries *)
(* rb_prev, key = end extends it up and tries rb_next.  When no node       *)
(* touches, a new node [key, key+1) is linked; if kmem_cache_alloc fails   *)
(* the key is silently not freed and 0 is returned.                        *)
(***************************************************************************)
RgnFree(R, key) ==
    LET stops == {r \in R : key \in RgnKeys(r) \/ key = r.start - 1
                                               \/ key = r.end}
    IN
    IF stops = {}
    THEN {Outcome(R \cup {[start |-> key, end |-> key + 1]}, "OK")}
         \cup (IF KmemMayFail THEN {Outcome(R, "OK")} ELSE {})
    ELSE {IF key \in RgnKeys(this) THEN Outcome(R, "ENOENT")
          ELSE IF key = this.start - 1
          THEN Outcome(Coalesce(R \ {this}, [this EXCEPT !.start = key],
                                RbPrev(R, this)), "OK")
          ELSE Outcome(Coalesce(R \ {this}, [this EXCEPT !.end = key + 1],
                                RbNext(R, this)), "OK")
          : this \in stops}

-----------------------------------------------------------------------------
(***************************************************************************)
(* The region map on its own: any sequence of calls, each with any key.    *)
(***************************************************************************)
Init ==
    /\ rgns = RgnInit
    /\ ret = [op |-> "none", key |-> 0, err |-> "OK"]

Alloc ==
    LET a == RgnAlloc(rgns)
    IN  /\ rgns' = a.map
        /\ ret' = [op |-> "alloc", key |-> a.key,
                   err |-> IF a.key = 0 THEN "ENOSPC" ELSE "OK"]

Insert(key) ==
    \E o \in RgnInsert(rgns, key) :
        /\ rgns' = o.map
        /\ ret' = [op |-> "insert", key |-> key, err |-> o.err]

Free(key) ==
    \E o \in RgnFree(rgns, key) :
        /\ rgns' = o.map
        /\ ret' = [op |-> "free", key |-> key, err |-> o.err]

Find(key) ==
    /\ ret' = [op |-> "find", key |-> key, err |-> RgnFind(rgns, key)]
    /\ UNCHANGED rgns

Next == Alloc \/ \E k \in Keys : Insert(k) \/ Free(k) \/ Find(k)

Spec == Init /\ [][Next]_vars

-----------------------------------------------------------------------------
TypeOK ==
    /\ rgns \subseteq Rgn
    /\ \A r \in rgns : r.start < r.end
    /\ ret.op \in {"none", "alloc", "insert", "free", "find"}

(***************************************************************************)
(* The tree invariant the free path relies on (spec 4.C): intervals are    *)
(* pairwise disjoint and never touch.  mblock_rgn_free detects a double    *)
(* free only because a key adjacent to one node can never lie inside      *)
(* another; a missed coalesce in free or a wrong trim in insert breaks it. *)
(***************************************************************************)
Disjoint(r, s) == r.end < s.start \/ s.end < r.start

WellFormed == \A r, s \in rgns : r # s => Disjoint(r, s)

(***************************************************************************)
(* The abstract region map: a set of free keys (AbstractRegionMap).  The   *)
(* refinement mapping is the union of the intervals; every call must       *)
(* return what the abstract allocator returns.                             *)
(***************************************************************************)
Abstract == INSTANCE AbstractRegionMap WITH free <- FreeKeys(rgns), ret <- ret

\* Every behaviour of the interval tree is a behaviour of the free-key set:
\* alloc hands out the smallest free key, insert/free succeed exactly when
\* the key is free/allocated, and find reports membership.
RefinesAbstract == Abstract!Spec

\* mblock_rgn_free returning 0 means the key is free afterwards (spec 4.C:
\* free either frees the key or fails); mblock_file_abort and
\* mblock_file_delete report success on the strength of it.
FreeSuccessFreesKey ==
    [][ret'.op = "free" /\ ret'.err = "OK" => ret'.key \in FreeKeys(rgns')]_vars
=============================================================================
