---------------------------- MODULE MCKvdbRparams ----------------------------
EXTENDS KvdbRparams, TLC

CONSTANTS u1, u2   \* names of user policies

\* A string node and an entry of an age group.
Str(v)        == [kind |-> "string", val |-> v]
Ent(k, v)     == [key |-> k, kind |-> "string", val |-> v]
Grp(a, es)    == [key |-> a, kind |-> "object", entries |-> es]

\* A policy object with the given keys, name and age groups.
Obj(keys, n, gs) ==
    [kind |-> "object", keys |-> keys, name |-> Str(n),
     config |-> [kind |-> "object", groups |-> gs]]

\* The policy of the unit test (leaf and root: keys capacity, values staging).
Full(n)    == Obj({"name", "config"}, n,
                  <<Grp("leaf", <<Ent("keys", "capacity"), Ent("values", "staging")>>),
                    Grp("root", <<Ent("keys", "capacity"), Ent("values", "staging")>>)>>)
\* Only the leaf keys given.
Part(n)    == Obj({"name", "config"}, n, <<Grp("leaf", <<Ent("keys", "pmem")>>)>>)
\* An unknown media class after a valid entry.
BadMc(n)   == Obj({"name", "config"}, n,
                  <<Grp("root", <<Ent("keys", "pmem"), Ent("values", "none")>>)>>)
\* An unknown age group.
BadAge(n)  == Obj({"name", "config"}, n, <<Grp("mid", <<Ent("keys", "pmem")>>)>>)
\* An unknown key next to name and config.
Extra(n)   == Obj({"name", "config", "extra"}, n, <<>>)

Arr(s) == [kind |-> "array", items |-> s]

MCPolicyInputs ==
    {Arr(<<>>), Arr(<<Full(u1)>>), Arr(<<Part(u2)>>), Arr(<<Full(u1), Part(u2)>>),
     Arr(<<Full(u1), Full(u1)>>), Arr(<<Full("capacity_only")>>),
     Arr(<<Full(u1), Part(u2), Full(u1)>>), Arr(<<BadMc(u2)>>), Arr(<<BadAge(u1)>>),
     Arr(<<Extra(u1)>>), Arr(<<Full(TooLong)>>), [kind |-> "string", items |-> <<>>]}

MCThrottleInputs ==
    {Str("auto"), Str("light"), Str("medium"), Str("heavy"), Str("default"),
     Str("none"), [kind |-> "number", val |-> "none"]}

MCDurInputs ==
    {Str("auto"), Str("capacity"), Str("staging"), Str("pmem"), Str("none")}

\* Two of the open modes; "rdwr" is the default.
MCModes == {"rdwr", "rdonly"}

MCModeInputs == {Str("rdwr"), Str("rdonly"), Str("none"), [kind |-> "number", val |-> "none"]}
=============================================================================
