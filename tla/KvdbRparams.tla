----------------------------- MODULE KvdbRparams -----------------------------
(***************************************************************************)
(* The custom parameter kinds of the KVDB runtime parameters               *)
(* (src/lib/kvdb/kvdb_rparams.c): the media-class policy array (default    *)
(* builder, converter, validator, jsonify), throttling.init_policy and     *)
(* durability.mclass (converter, jsonify), and the record that             *)
(* kvdb_rparams_defaults builds and the key=value entries applied at open  *)
(* change.  None of the three is PARAM_FLAG_WRITABLE: kvdb_rparams_set     *)
(* refuses them, and only the bulk deserialize of the open path (the       *)
(* config file, then the caller's paramv) sets them.                       *)
(*                                                                         *)
(* The param engine that calls these callbacks (bulk deserialize) is       *)
(* outside src/ and is modelled from spec 4.A: for each entry the          *)
(* converter runs on the record's value, the validator checks the result,  *)
(* and on a failure the record keeps its prior value (the batch, and the   *)
(* open, fail; a later entry here is a later batch).                       *)
(*                                                                         *)
(* A cJSON tree is a record: an array node has "items", an object node the *)
(* set of its "keys" and its members, a string node its "val".  Only what  *)
(* the callbacks test is kept: the node kinds, the key names and the       *)
(* string values.  The name-length test is a name TooLong.  Messages of    *)
(* log_err are left out.                                                   *)
(***************************************************************************)
EXTENDS Integers, Sequences, FiniteSets, Functions

CONSTANTS
    MPolicyCount,   \* HSE_MPOLICY_COUNT: slots of the policy array
    DefaultName,    \* HSE_MPOLICY_DEFAULT_NAME: the empty-slot sentinel
    TooLong,        \* a name of HSE_MPOLICY_NAME_LEN_MAX characters or more
    PolicyInputs,   \* the JSON values offered to mclass_policies
    ThrottleInputs, \* ... to throttling.init_policy
    DurInputs,      \* ... to durability.mclass
    Modes,          \* the names kvdb_mode_string_to_value knows
    ModeInputs,     \* the JSON values offered to mode
    MaxSets         \* bound on the number of entries applied

VARIABLES
    pol,    \* mclass_policies[0..MPolicyCount-1]: [name, table]
    thr,    \* throttle_init_policy
    dur,    \* dur_mclass
    mode,   \* mode
    nsets   \* entries applied

vars == <<pol, thr, dur, mode, nsets>>

Ages     == {"root", "leaf"}            \* spec 4.A: the age groups
DTypes   == {"keys", "values"}          \* ... and data types of a policy
MClasses == {"capacity", "staging", "pmem"}
Slots    == 0..(MPolicyCount - 1)
NamesCnt == 6                            \* mclass_policy_names_cnt()
Tables   == [Ages \X DTypes -> MClasses]

\* A table from its four entries.
Tbl(rk, rv, lk, lv) ==
    [x \in Ages \X DTypes |->
        CASE x = <<"root", "keys">>   -> rk
          [] x = <<"root", "values">> -> rv
          [] x = <<"leaf", "keys">>   -> lk
          [] x = <<"leaf", "values">> -> lv]

(***************************************************************************)
(* mclass_policies_default_builder: the six built-in policies, and every   *)
(* other slot named with the sentinel and given the template table (root   *)
(* keys and values and leaf keys on staging, leaf values on capacity).     *)
(***************************************************************************)
Builtins ==
    <<[name |-> "capacity_only",
       table |-> Tbl("capacity", "capacity", "capacity", "capacity")],
      [name |-> "staging_only",
       table |-> Tbl("staging", "staging", "staging", "staging")],
      [name |-> "staging_max_capacity",
       table |-> Tbl("staging", "staging", "staging", "capacity")],
      [name |-> "staging_min_capacity",
       table |-> Tbl("staging", "staging", "capacity", "capacity")],
      [name |-> "pmem_only",
       table |-> Tbl("pmem", "pmem", "pmem", "pmem")],
      [name |-> "pmem_max_capacity",
       table |-> Tbl("pmem", "pmem", "pmem", "capacity")]>>

Template == [x \in Ages \X DTypes |->
                IF x[1] # "root" /\ x[2] = "values" THEN "capacity" ELSE "staging"]

MclassPoliciesDefaultBuilder ==
    [i \in Slots |-> IF i < NamesCnt THEN Builtins[i + 1]
                     ELSE [name |-> DefaultName, table |-> Template]]

(***************************************************************************)
(* mclass_policies_converter.  Each entry of the array goes to the next    *)
(* slot after the built-ins; the name is written first, then each age      *)
(* group's entries in order.  Any failure returns at once, with what was   *)
(* written so far left in place.                                           *)
(***************************************************************************)
RECURSIVE ConvEntries(_, _, _)
ConvEntries(tbl, age, es) ==
    IF es = <<>> THEN [ok |-> TRUE, tbl |-> tbl]
    ELSE LET e == Head(es) IN
         IF e.key \notin DTypes \/ e.kind # "string" \/ e.val \notin MClasses
         THEN [ok |-> FALSE, tbl |-> tbl]
         ELSE ConvEntries([tbl EXCEPT ![<<age, e.key>>] = e.val], age, Tail(es))

RECURSIVE ConvGroups(_, _)
ConvGroups(tbl, gs) ==
    IF gs = <<>> THEN [ok |-> TRUE, tbl |-> tbl]
    ELSE LET g == Head(gs) IN
         IF g.kind # "object" \/ g.key \notin Ages
         THEN [ok |-> FALSE, tbl |-> tbl]
         ELSE LET r == ConvEntries(tbl, g.key, g.entries) IN
              IF r.ok THEN ConvGroups(r.tbl, Tail(gs)) ELSE r

\* The checks made on a policy object before its name is written.
PolicyObjectOK(o) ==
    /\ o.kind = "object"
    /\ o.keys \subseteq {"name", "config"}
    /\ "name" \in o.keys /\ o.name.kind = "string"
    /\ "config" \in o.keys /\ o.config.kind = "object"
    /\ o.name.val # TooLong

RECURSIVE ConvPolicies(_, _, _)
ConvPolicies(p, os, i) ==
    IF os = <<>> THEN [ok |-> TRUE, pol |-> p]
    ELSE LET o == Head(os) IN
         IF i >= MPolicyCount \/ ~PolicyObjectOK(o)
         THEN [ok |-> FALSE, pol |-> p]
         ELSE LET named == [p EXCEPT ![i].name = o.name.val]
                  r     == ConvGroups(named[i].table, o.config.groups)
                  p2    == [named EXCEPT ![i].table = r.tbl]
              IN  IF r.ok THEN ConvPolicies(p2, Tail(os), i + 1)
                  ELSE [ok |-> FALSE, pol |-> p2]

MclassPoliciesConverter(p, node) ==
    IF node.kind # "array" THEN [ok |-> FALSE, pol |-> p]
    ELSE ConvPolicies(p, node.items, NamesCnt)

\* The slots before the first one holding the sentinel name.
Visible(p) == {i \in Slots : \A k \in 0..i : p[k].name # DefaultName}

(***************************************************************************)
(* mclass_policies_validator: every slot before the first sentinel has a   *)
(* name no other slot of the whole array has.                              *)
(***************************************************************************)
MclassPoliciesValidator(p) ==
    \A i \in Visible(p) : Cardinality({j \in Slots : p[j].name = p[i].name}) <= 1

(***************************************************************************)
(* mclass_policies_jsonify: the user slots up to the first sentinel, each  *)
(* as {"name", "config": {"leaf": {keys, values}, "root": {keys, values}}}.*)
(***************************************************************************)
GroupJson(a, t) ==
    [key |-> a, kind |-> "object",
     entries |-> <<[key |-> "keys", kind |-> "string", val |-> t[<<a, "keys">>]],
                   [key |-> "values", kind |-> "string", val |-> t[<<a, "values">>]]>>]

PolicyJson(s) ==
    [kind |-> "object", keys |-> {"name", "config"},
     name |-> [kind |-> "string", val |-> s.name],
     config |-> [kind |-> "object",
                 groups |-> <<GroupJson("leaf", s.table), GroupJson("root", s.table)>>]]

MclassPoliciesJsonify(p) ==
    LET n == Cardinality(Visible(p) \ (0..(NamesCnt - 1)))
    IN  [kind |-> "array", items |-> [k \in 1..n |-> PolicyJson(p[NamesCnt + k - 1])]]

-----------------------------------------------------------------------------
(***************************************************************************)
(* throttle_init_policy_converter / _jsonify.  "default" is read as heavy. *)
(***************************************************************************)
ThrottlePolicies == {"auto", "light", "medium", "heavy"}

ThrottleInitPolicyConverter(node) ==
    IF node.kind = "string" /\ node.val \in ThrottlePolicies \cup {"default"}
    THEN [ok |-> TRUE, val |-> IF node.val = "default" THEN "heavy" ELSE node.val]
    ELSE [ok |-> FALSE, val |-> "auto"]

ThrottleInitPolicyJsonify(v) == [kind |-> "string", val |-> v]

\* Variant for mutation checking: any string is taken.
DurMclassConverterAnyString(node) ==
    IF node.kind = "string"
    THEN [ok |-> TRUE, val |-> node.val]
    ELSE [ok |-> FALSE, val |-> "auto"]

\* dur_mclass_converter: "auto" or a media class name.
DurMclassConverter(node) ==
    IF node.kind = "string" /\ node.val \in MClasses \cup {"auto"}
    THEN [ok |-> TRUE, val |-> node.val]
    ELSE [ok |-> FALSE, val |-> "auto"]

(***************************************************************************)
(* dur_mclass_jsonify: "auto" is tested on the uint8_t, but a media class  *)
(* is named from the value read through an enum hse_mclass pointer: four   *)
(* bytes, the field and the three after it.  The struct layout is not in   *)
(* the repository.  With those bytes zero the name is right; otherwise the *)
(* index is out of range and the node is no media class name ("bad").     *)
(***************************************************************************)
DurMclassJsonify(v) ==
    IF v = "auto" THEN {[kind |-> "string", val |-> "auto"]}
    ELSE {[kind |-> "string", val |-> v], [kind |-> "bad", val |-> v]}

(***************************************************************************)
(* kvdb_open_mode_converter / _jsonify: the name is looked up by           *)
(* kvdb_mode_string_to_value (outside src/); an unknown name is invalid.   *)
(* jsonify prints kvdb_mode_to_string of the value.                        *)
(***************************************************************************)
KvdbOpenModeConverter(node) ==
    IF node.kind = "string" /\ node.val \in Modes
    THEN [ok |-> TRUE, val |-> node.val]
    ELSE [ok |-> FALSE, val |-> "rdwr"]

KvdbOpenModeJsonify(v) == [kind |-> "string", val |-> v]

-----------------------------------------------------------------------------
\* kvdb_rparams_defaults: the table's default values and the default builder.
Init ==
    /\ pol = MclassPoliciesDefaultBuilder
    /\ thr = "auto"
    /\ dur = "auto"
    /\ mode = "rdwr"
    /\ nsets = 0

(***************************************************************************)
(* An entry mclass_policies=json: the pspec binds the converter and the    *)
(* validator; convert, validate, and keep the prior value on failure       *)
(* (param engine, spec 4.A).                                               *)
(***************************************************************************)
ApplyPolicies(node) ==
    /\ nsets < MaxSets
    /\ nsets' = nsets + 1
    /\ LET r == MclassPoliciesConverter(pol, node) IN
       IF r.ok /\ MclassPoliciesValidator(r.pol)
       THEN pol' = r.pol
       ELSE UNCHANGED pol
    /\ UNCHANGED <<thr, dur, mode>>

\* Entries throttling.init_policy=json and durability.mclass=json: the
\* pspecs bind the converters and param_default_validator, whose bounds
\* (LIGHT..AUTO, BASE..AUTO) every converted value is within.
ApplyThrottle(node) ==
    /\ nsets < MaxSets
    /\ nsets' = nsets + 1
    /\ LET r == ThrottleInitPolicyConverter(node) IN
       thr' = IF r.ok THEN r.val ELSE thr
    /\ UNCHANGED <<pol, dur, mode>>

ApplyDur(node) ==
    /\ nsets < MaxSets
    /\ nsets' = nsets + 1
    /\ LET r == DurMclassConverter(node) IN
       dur' = IF r.ok THEN r.val ELSE dur
    /\ UNCHANGED <<pol, thr, mode>>

\* An entry mode=json: the pspec binds kvdb_open_mode_converter and
\* param_default_validator (KVDB_MODE_MIN..KVDB_MODE_MAX).
ApplyMode(node) ==
    /\ nsets < MaxSets
    /\ nsets' = nsets + 1
    /\ LET r == KvdbOpenModeConverter(node) IN
       mode' = IF r.ok THEN r.val ELSE mode
    /\ UNCHANGED <<pol, thr, dur>>

Next ==
    \/ \E n \in PolicyInputs : ApplyPolicies(n)
    \/ \E n \in ThrottleInputs : ApplyThrottle(n)
    \/ \E n \in DurInputs : ApplyDur(n)
    \/ \E n \in ModeInputs : ApplyMode(n)

Spec == Init /\ [][Next]_vars

-----------------------------------------------------------------------------
TypeOK ==
    /\ pol \in [Slots -> [name : {p.name : p \in Range(Builtins)} \cup {DefaultName}
                                 \cup {n.name.val : n \in UNION {Range(a.items) :
                                        a \in {x \in PolicyInputs : x.kind = "array"}}},
                          table : Tables]]
    /\ thr \in ThrottlePolicies
    /\ dur \in MClasses \cup {"auto"}
    /\ mode \in Modes
    /\ nsets \in 0..MaxSets

=============================================================================
