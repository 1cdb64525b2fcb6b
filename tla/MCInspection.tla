---------------------------- MODULE MCInspection ----------------------------
EXTENDS Inspection

MCUris == {"ep", "a", "b", "c", "gone"}

Tree(kids) == [u \in MCUris |-> IF u \in DOMAIN kids THEN kids[u] ELSE <<>>]

\* AIM dumps: one or two roots, chains, and siblings with children.
MCForests ==
    {[top |-> <<"ep">>, children |-> Tree([ep |-> <<"a">>, a |-> <<"b">>, b |-> <<"c">>])],
     [top |-> <<"ep">>, children |-> Tree([ep |-> <<"a", "b">>, b |-> <<"c">>])],
     [top |-> <<"ep", "a">>, children |-> Tree([ep |-> <<"b">>, a |-> <<"c", "gone">>])],
     [top |-> <<"a", "ep">>, children |-> Tree([ep |-> <<"b", "c">>, b |-> <<"gone">>])]}

\* Trees of an agent's dump, one with a child that is not in the dump.
Trees ==
    {Tree([ep |-> <<"a">>, a |-> <<"b">>, b |-> <<"c">>]),
     Tree([ep |-> <<"a", "b">>, b |-> <<"c">>]),
     Tree([ep |-> <<"a">>, b |-> <<"c">>]),
     Tree([ep |-> <<"a">>, a |-> <<"gone", "b">>]),
     Tree([a |-> <<"b">>])}

Present == MCUris \ {"gone"}
Refs == {<<>>, <<"a">>, <<"c">>, <<"gone">>, <<"b", "gone">>, <<"ep", "c">>}

MCDumps ==
    {[objects |-> Present, children |-> tree, targets |-> refs @@ [u \in {"gone"} |-> <<>>]] :
        tree \in Trees, refs \in [Present -> Refs]}

\* Dumps that differ in an object, in a target, or in children.
MCDiffDumps ==
    {[objects |-> objects, children |-> Tree([ep |-> kids]), targets |-> Tree([a |-> refs])] :
        objects \in {{"ep", "a"}, {"ep", "a", "b"}, {"ep", "a", "c"}},
        kids \in {<<"a">>, <<"b", "a">>, <<"a", "b">>, <<>>}, refs \in {<<>>, <<"b">>, <<"c">>}}

\* The address of one endpoint is a part of the address of another; an endpoint
\* that ep leads to, one that is below ep, and one without an L2 endpoint.
MCL3Eps == <<[holds |-> {"10.0.0.1", "10.0.0.12"}, mac |-> "m2", uri |-> "c"],
             [holds |-> {"10.0.0.1"}, mac |-> "m1", uri |-> "a"],
             [holds |-> {"10.0.0.3"}, mac |-> "m3", uri |-> "a"]>>
MCL2Eps == <<[mac |-> "m1", uri |-> "b"], [mac |-> "m2", uri |-> "ep"]>>

MCLastTime == 7
MCLogs == UNION {[1..n -> 0..MCLastTime] : n \in 0..3}
MCWindows == [start : {0, 2}, stop : {1, 5, MCLastTime}, delta : {1, 2, MCLastTime}]
=============================================================================
