---------------------------- MODULE PolicyConfig ----------------------------
(* agent/policy_config.py: reading dumps of policy, as one command of
   policy_db.py does it.  A dump of the AIM database is nested and is flattened
   when it is loaded; a dump of an OpFlex agent is a flat list, in which ep-info
   follows children and targets, find-unresolved looks for missing targets, and
   diff compares two dumps.  Nothing but the URIs of the objects is kept, and of
   the properties only the targets.

   Every loop of these functions is a sequence of frames, the innermost last: a
   frame is what a for statement has still to walk. *)
EXTENDS Naturals, Sequences, FiniteSets, SequencesExt

CONSTANTS
    Uris,           \* of objects, in a dump or only referred to
    Forests,        \* AIM dumps: [top : Seq(Uris), children : [Uris -> Seq(Uris)]]
    Dumps,          \* agent dumps: [objects, children, targets]
    DiffDumps,      \* agent dumps that are compared
    Addresses,      \* that ep-info is asked for
    Bare,           \* objects without "children"
    L3Eps,          \* objects of type EpdrLocalL3Ep: [holds, mac, uri]
    L2Eps           \* objects of type EpdrLocalL2Ep: [mac, uri]

Dump == [objects : SUBSET Uris, children : [Uris -> Seq(Uris)], targets : [Uris -> Seq(Uris)]]

\* What a URI leads to, itself included, if next has one step.
From(next, uri) ==
    LET reach[n \in 0..Cardinality(Uris)] ==
            IF n = 0 THEN {uri} ELSE reach[n - 1] \cup UNION {next[u] : u \in reach[n - 1]}
    IN  reach[Cardinality(Uris)]

Children(d) == [u \in Uris |-> IF u \in d.objects THEN ToSet(d.children[u]) ELSE {}]
Targets(d) == [u \in Uris |-> IF u \in d.objects THEN ToSet(d.targets[u]) ELSE {}]

ASSUME DumpAssumption ==
    /\ IsFiniteSet(Uris)
    /\ Dumps \cup DiffDumps \subseteq Dump
    /\ \A d \in Dumps \cup DiffDumps, u \in Uris \cap Bare : d.children[u] = <<>>

\* No object is below itself, and each is once among the children of one other.
ASSUME TreeAssumption ==
    \A d \in Dumps :
        /\ \A u \in Uris : \A v \in Children(d)[u] : u \notin From(Children(d), v)
        /\ \A u \in d.objects : IsInjective(d.children[u])
        /\ \A u, v \in d.objects : u # v => ToSet(d.children[u]) \cap ToSet(d.children[v]) = {}

\* No object is twice in a nested dump, and each is below the top.
ASSUME ForestAssumption ==
    /\ Forests \subseteq [top : Seq(Uris), children : [Uris -> Seq(Uris)]]
    /\ \A f \in Forests :
          /\ IsInjective(f.top) /\ \A u \in Uris : IsInjective(f.children[u])
          /\ \A u \in Uris : ToSet(f.children[u]) \cap ToSet(f.top) = {}
          /\ \A u, v \in Uris : u # v => ToSet(f.children[u]) \cap ToSet(f.children[v]) = {}
          /\ \A S \in SUBSET Uris :
                ToSet(f.top) \cup UNION {ToSet(f.children[u]) : u \in S} \subseteq S
                    => {u \in Uris : f.children[u] # <<>>} \subseteq S

VARIABLES
    cmd,            \* "none", "aim", "ep-info", "find-unresolved" or "diff", and
                    \* "short": ep-info without an L2 endpoint, diff with an error
    input,          \* the dumps that were read
    frames,         \* the loops that run
    nested,         \* "_children" of each object of an AIM dump
    children,       \* "children" of each object of an AIM dump
    policy,         \* self.policy
    visited,        \* objects whose visited is True
    heading,        \* the L3 endpoint that ep-info printed first, if any
    printed,        \* objects printed after it
    report          \* what is said of a URI: <<kind, uri>>

policyVars == <<cmd, input, frames, nested, children, policy, visited, heading, printed, report>>

Childless == [u \in Uris |-> <<>>]

PolicyTypeOK ==
    /\ cmd \in {"none", "aim", "ep-info", "find-unresolved", "diff", "short"}
    /\ frames \in Seq(Seq(Uris))
    /\ nested \in [Uris -> Seq(Uris)] /\ children \in [Uris -> Seq(Uris)]
    /\ policy \in Seq(Uris) /\ printed \in Seq(Uris)
    /\ visited \subseteq Uris /\ heading \subseteq Uris
    /\ report \subseteq {"missing", "added", "deleted", "changed"} \X Uris
    /\ (cmd = "none" => frames = <<>>)

PolicyIdle ==
    /\ cmd = "none" /\ input = <<>> /\ frames = <<>>
    /\ nested = Childless /\ children = Childless /\ policy = <<>>
    /\ visited = {} /\ heading = {} /\ printed = <<>> /\ report = {}

PolicyExit ==
    /\ cmd # "none" /\ frames = <<>>
    /\ cmd' = "none" /\ input' = <<>> /\ frames' = <<>>
    /\ nested' = Childless /\ children' = Childless /\ policy' = <<>>
    /\ visited' = {} /\ heading' = {} /\ printed' = <<>> /\ report' = {}

Current == Head(Last(frames))
InLoop(command) == cmd = command /\ frames # <<>> /\ Last(frames) # <<>>
NextTurn == [frames EXCEPT ![Len(frames)] = Tail(@)]

\* The innermost loop is over.
Return ==
    /\ frames # <<>> /\ Last(frames) = <<>>
    /\ frames' = Front(frames)
    /\ UNCHANGED <<cmd, input, nested, children, policy, visited, heading, printed, report>>

----------------------------------------------------------------------------
(* AimPolicyIterator *)

LoadAim(forest) ==
    /\ cmd = "none"
    /\ cmd' = "aim" /\ input' = <<forest>>
    /\ frames' = <<forest.top>>
    /\ policy' = forest.top /\ nested' = forest.children
    /\ UNCHANGED <<children, visited, heading, printed, report>>

\* Mutant: get instead of pop.
FlattenObjectGet ==
    /\ InLoop("aim")
    /\ LET kids == nested[Current] IN
          /\ children' = [children EXCEPT ![Current] = kids]
          /\ policy' = policy \o kids
          /\ frames' = Append([NextTurn EXCEPT ![1] = @ \o kids], kids)
    /\ UNCHANGED <<cmd, input, nested, visited, heading, printed, report>>

\* One turn of flatten_dict.  The outermost loop runs over self.policy itself,
\* and so meets the children that are appended a second time, without theirs.
FlattenObject ==
    /\ InLoop("aim")
    /\ LET kids == nested[Current] IN
          /\ nested' = [nested EXCEPT ![Current] = <<>>]
          /\ children' = [children EXCEPT ![Current] = kids]
          /\ policy' = policy \o kids
          /\ frames' = Append([NextTurn EXCEPT ![1] = @ \o kids], kids)
    /\ UNCHANGED <<cmd, input, visited, heading, printed, report>>

----------------------------------------------------------------------------
(* ep-info *)

dump == input[1]

\* _find_matching_ep: the first endpoint that matches.
FirstOf(eps, hits) == {eps[k] : k \in {k \in hits : \A j \in hits : k <= j}}

\* The L3 endpoint of an IP address, which only has to be a part of its own.
L3EpOf(d, address) ==
    FirstOf(L3Eps, {k \in DOMAIN L3Eps : L3Eps[k].uri \in d.objects /\ address \in L3Eps[k].holds})

\* The L2 endpoint of a MAC address, or of the L3 endpoint of an IP address.
L2EpOf(d, address) ==
    LET macs == IF L3EpOf(d, address) = {} THEN {address} ELSE {ep.mac : ep \in L3EpOf(d, address)}
    IN  FirstOf(L2Eps, {k \in DOMAIN L2Eps : L2Eps[k].uri \in d.objects /\ L2Eps[k].mac \in macs})

UriOf(eps) == {ep.uri : ep \in eps}

\* Mutant: the first target only, as _get_property returns it.
TargetsOfFirst(node) ==
    IF dump.targets[node] = <<>> THEN <<>>
    ELSE SelectSeq(<<Head(dump.targets[node])>>, LAMBDA u : u \in dump.objects \ visited)

\* Mutant: the visited flag is not looked at.
TargetsOfAny(node) == SelectSeq(dump.targets[node], LAMBDA u : u \in dump.objects)

\* Targets that are in the dump and were not visited yet.
TargetsOf(node) ==
    FoldLeft(LAMBDA seq, u : IF u \in dump.objects \ (visited \cup ToSet(seq))
                             THEN Append(seq, u) ELSE seq, <<>>, dump.targets[node])

Missing(uris) == {"missing"} \X (uris \ dump.objects)

\* get_policy_for_ep: of an IP address the L3 endpoint is printed, then the L2
\* endpoint; if that has children, find_related_objects follows it.
EpInfo(d, address) ==
    /\ cmd = "none"
    /\ \E ep \in UriOf(L2EpOf(d, address)) :
          /\ cmd' = "ep-info" /\ input' = <<d, ep, address>>
          /\ IF d.children[ep] = <<>> THEN printed' = <<ep>> /\ frames' = <<>>
             ELSE printed' = <<>> /\ frames' = <<<<ep>>>>
    /\ heading' = UriOf(L3EpOf(d, address))
    /\ UNCHANGED <<nested, children, policy, visited, report>>

\* No endpoint has the address, or none the MAC address of the L3 endpoint: that
\* is all, whether it returns or fails on an endpoint that is None.
EpInfoShort(d, address) ==
    /\ cmd = "none" /\ L2EpOf(d, address) = {}
    /\ cmd' = "short" /\ input' = <<d>>
    /\ heading' = UriOf(L3EpOf(d, address))
    /\ UNCHANGED <<frames, nested, children, policy, visited, printed, report>>

\* An object is printed, and find_related_objects called for it.
PrintObject ==
    /\ InLoop("ep-info") /\ Current \in dump.objects
    /\ printed' = Append(printed, Current)
    /\ frames' = Append(NextTurn, dump.children[Current] \o TargetsOf(Current))
    /\ visited' = visited \cup ToSet(TargetsOf(Current))
    /\ report' = report \cup Missing(ToSet(dump.targets[Current]))
    /\ UNCHANGED <<cmd, input, nested, children, policy, heading>>

\* Mutant: the loop does not go on.
WarnMissingAgain ==
    /\ InLoop("ep-info") /\ Current \notin dump.objects
    /\ report' = report \cup Missing({Current})
    /\ UNCHANGED <<cmd, input, frames, nested, children, policy, visited, heading, printed>>

WarnMissing ==
    /\ InLoop("ep-info") /\ Current \notin dump.objects
    /\ report' = report \cup Missing({Current})
    /\ frames' = NextTurn
    /\ UNCHANGED <<cmd, input, nested, children, policy, visited, heading, printed>>

----------------------------------------------------------------------------
(* find-unresolved, diff *)

\* find_unresolved_policy: the first target of an object is all it looks at.
Unresolved(d) ==
    {<<"missing", d.targets[u][1]>> :
        u \in {o \in d.objects : d.targets[o] # <<>> /\ d.targets[o][1] \notin d.objects}}

FindUnresolved(d) ==
    /\ cmd = "none"
    /\ cmd' = "find-unresolved" /\ input' = <<d>>
    /\ report' = Unresolved(d)
    /\ UNCHANGED <<frames, nested, children, policy, visited, heading, printed>>

\* Mutant: children that are new are seen, children that are gone are not.
ChangedGrown(d1, d2, u) ==
    \/ d1.targets[u] # d2.targets[u]
    \/ ToSet(d2.children[u]) \ ToSet(d1.children[u]) # {}

\* The children of an object are compared as sets, everything else as it is.
Changed(d1, d2, u) ==
    \/ d1.targets[u] # d2.targets[u]
    \/ ToSet(d2.children[u]) \ ToSet(d1.children[u]) # {}
    \/ ToSet(d1.children[u]) \ ToSet(d2.children[u]) # {}

\* What is printed when the objects of these keys have been compared.
Differences(d1, d2, keys) ==
    ({"added"} \X (d2.objects \ d1.objects))
    \cup ({"deleted"} \X (d1.objects \ d2.objects))
    \cup ({"changed"} \X {u \in keys : Changed(d1, d2, u)})

Diff(d1, d2) ==
    /\ cmd = "none" /\ d1.objects \cap d2.objects \cap Bare = {}
    /\ cmd' = "diff" /\ input' = <<d1, d2>>
    /\ report' = Differences(d1, d2, d1.objects \cap d2.objects)
    /\ UNCHANGED <<frames, nested, children, policy, visited, heading, printed>>

\* pop('children') raises a KeyError for an object that has none.
DiffShort(d1, d2) ==
    /\ cmd = "none" /\ d1.objects \cap d2.objects \cap Bare # {}
    /\ cmd' = "short" /\ input' = <<d1, d2>>
    /\ \E keys \in SUBSET ((d1.objects \cap d2.objects) \ Bare) :
          report' = Differences(d1, d2, keys)
    /\ UNCHANGED <<frames, nested, children, policy, visited, heading, printed>>

PolicyStart ==
    \/ \E f \in Forests : LoadAim(f)
    \/ \E d \in Dumps : FindUnresolved(d) \/ \E a \in Addresses : EpInfo(d, a) \/ EpInfoShort(d, a)
    \/ \E d1, d2 \in DiffDumps : Diff(d1, d2) \/ DiffShort(d1, d2)

PolicyStep == FlattenObject \/ PrintObject \/ WarnMissing \/ Return \/ PolicyExit

----------------------------------------------------------------------------
Ended(command) == cmd = command /\ frames = <<>>

\* Although flatten_dict appends to the list it walks, and walks the children
\* twice, it ends with every object of an AIM dump exactly once, and what stood
\* at the top still has its children.
FlattenedOnce ==
    Ended("aim") =>
        /\ IsInjective(policy)
        /\ ToSet(policy) = ToSet(input[1].top) \cup UNION {ToSet(input[1].children[u]) : u \in Uris}
        /\ \A u \in ToSet(input[1].top) : children[u] = input[1].children[u]

Reached(d, uri) == From([u \in Uris |-> Children(d)[u] \cup Targets(d)[u]], uri)

\* Besides the L3 endpoint, ep-info prints everything that an L2 endpoint with
\* children leads to by children and targets, round cycles of targets too, warns
\* of every URI on the way that is not in the dump, and of nothing else.
EverythingPrinted ==
    Ended("ep-info") /\ dump.children[input[2]] # <<>> =>
        /\ ToSet(printed) = Reached(dump, input[2]) \cap dump.objects
        /\ report = Missing(Reached(dump, input[2]))

TimesPrinted(u) == Cardinality({k \in DOMAIN printed : printed[k] = u}) + (IF u \in heading THEN 1 ELSE 0)

\* The visited flag is set for targets only, so ep-info prints an object as often
\* as there are targets it stands below, once more if it is below the L2 endpoint,
\* and once more if it is the L3 endpoint of the address that was asked for.
PrintedPerReference ==
    Ended("ep-info") =>
        \A u \in dump.objects :
            LET Above == {x \in Uris : u \in From(Children(dump), x)}
            IN  TimesPrinted(u) = Cardinality(visited \cap Above) + (IF input[2] \in Above THEN 1 ELSE 0)
                           + (IF u \in UriOf(L3EpOf(dump, input[3])) THEN 1 ELSE 0)

\* Where diff prints nothing, every object leads to the same policy in both dumps.
QuietDiffSamePolicy ==
    Ended("diff") /\ report = {} =>
        /\ input[1].objects = input[2].objects
        /\ \A u \in input[1].objects : Reached(input[1], u) = Reached(input[2], u)

============================================================================
