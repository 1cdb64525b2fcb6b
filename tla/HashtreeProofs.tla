--------------------------- MODULE HashtreeProofs ---------------------------
(* What an import collects, and what it leaves behind, for any finite tree, any
   order of its keys and any resources. *)
EXTENDS HashtreeProcessor, SequenceFacts

----------------------------------------------------------------------------
(* What is left behind.  It does not depend on what is in the queue. *)

\* Resources that were pushed, or were tried.
Pushed == {queue[k] : k \in 1..(at - 1)}

\* A POST that fails takes nothing else with it.
EachTried == pc = "push" /\ Side = "apic" => Pushed \subseteq apic \cup failed

ImportInv ==
    /\ pc \in {"idle", "collect", "push"}
    /\ at \in Nat \ {0}
    /\ pc # "push" => touched = {}
    /\ PrefixStored
    /\ EachTried

LEMMA ImportInit == Init => ImportInv
BY DEF Init, ImportInv, PrefixStored, EachTried, Pushed

\* One more resource was pushed.
LEMMA PushedNext ==
    ASSUME at \in Nat \ {0}, at' = at + 1, queue' = queue
    PROVE  Pushed' = Pushed \cup {queue[at]}
<1>1. 1..(at' - 1) = (1..(at - 1)) \cup {at}
    OBVIOUS
<1> QED BY <1>1 DEF Pushed

LEMMA StoredFacts ==
    ASSUME NEW r
    PROVE  /\ db \subseteq Stored(r) /\ Stored(r) \subseteq db \cup {r}
           /\ r \in Plain => r \in Stored(r)
BY DEF Stored, Plain

LEMMA CollectStep ==
    ASSUME ImportInv, Collected \/ NextPass \/ Exit \/ TakeKey \/
           (\E options, order, mon : Start(options, order, mon))
    PROVE  ImportInv'
<1> USE DEF ImportInv, PrefixStored, EachTried, Pushed
<1>1. CASE Collected
    <2>1. {queue'[k] : k \in 1..(at' - 1)} = {}
        BY <1>1 DEF Collected
    <2> QED BY <1>1, <2>1 DEF Collected, Side
<1>2. CASE NextPass \/ Exit \/ TakeKey
    BY <1>2 DEF NextPass, Exit, TakeKey
<1>3. ASSUME NEW options, NEW order, NEW mon, Start(options, order, mon) PROVE ImportInv'
    BY <1>3 DEF Start
<1> QED BY <1>1, <1>2, <1>3

LEMMA AimStep == ImportInv /\ PushToAim => ImportInv'
<1> SUFFICES ASSUME ImportInv, PushToAim PROVE ImportInv'
    OBVIOUS
<1>1. /\ pc = "push" /\ Side = "db" /\ db' = Stored(queue[at]) /\ at' = at + 1
      /\ at \in Nat \ {0}
      /\ UNCHANGED <<pc, sides, queue, apic, failed, before, touched>>
    BY DEF PushToAim, Pushing, ImportInv
<1>2. Pushed' = Pushed \cup {queue[at]}
    BY <1>1, PushedNext
<1>3. /\ db \ touched \subseteq before \cup Pushed
      /\ before \subseteq db \cup touched
      /\ Pushed \cap Plain \subseteq db \cup touched
    BY <1>1 DEF ImportInv, PrefixStored, Pushed
<1>4. /\ db' \ touched' \subseteq before' \cup Pushed'
      /\ before' \subseteq db' \cup touched'
      /\ Pushed' \cap Plain \subseteq db' \cup touched'
    BY <1>1, <1>2, <1>3, StoredFacts
<1>5. PrefixStored'
    BY <1>4 DEF PrefixStored, Pushed
<1>6. EachTried'
    BY <1>1 DEF EachTried, Pushed, Side
<1> QED BY <1>1, <1>5, <1>6 DEF ImportInv

LEMMA ApicStep == ImportInv /\ (PushToApic \/ PushToApicFails) => ImportInv'
<1> SUFFICES ASSUME ImportInv, PushToApic \/ PushToApicFails PROVE ImportInv'
    OBVIOUS
<1>1. /\ pc = "push" /\ Side = "apic" /\ at' = at + 1 /\ at \in Nat \ {0}
      /\ apic \cup failed \cup {queue[at]} = apic' \cup failed'
      /\ UNCHANGED <<pc, sides, queue, db, before, touched>>
    BY DEF PushToApic, PushToApicFails, Pushing, ImportInv
<1>2. Pushed' = Pushed \cup {queue[at]}
    BY <1>1, PushedNext
<1>3. Pushed \subseteq apic \cup failed
    BY <1>1 DEF ImportInv, EachTried
<1>4. EachTried'
    BY <1>1, <1>2, <1>3 DEF EachTried
<1>5. PrefixStored'
    BY <1>1 DEF PrefixStored, Side
<1> QED BY <1>1, <1>4, <1>5 DEF ImportInv

LEMMA UserStep ==
    ASSUME ImportInv, NEW r \in Resources, UserCreates(r) \/ UserDeletes(r)
    PROVE  ImportInv'
<1>1. /\ UNCHANGED <<pc, sides, at, queue, apic, failed, before>>
      /\ db' \in {db \cup {r}, db \ {r}}
      /\ touched' = IF pc = "push" THEN touched \cup {r} ELSE touched
    BY DEF UserCreates, UserDeletes, tool
<1>2. EachTried'
    BY <1>1 DEF ImportInv, EachTried, Pushed, Side
<1>3. PrefixStored'
    <2> SUFFICES ASSUME pc = "push", Side = "db" PROVE PrefixStored'
        BY <1>1 DEF PrefixStored, Side
    <2>1. /\ db \ touched \subseteq before \cup Pushed
          /\ before \subseteq db \cup touched
          /\ Pushed \cap Plain \subseteq db \cup touched
        BY DEF ImportInv, PrefixStored, Pushed
    <2>2. Pushed' = Pushed
        BY <1>1 DEF Pushed
    <2>3. /\ db' \ touched' \subseteq before' \cup Pushed'
          /\ before' \subseteq db' \cup touched'
          /\ Pushed' \cap Plain \subseteq db' \cup touched'
        BY <1>1, <2>1, <2>2
    <2> QED BY <2>3 DEF PrefixStored, Pushed
<1> QED BY <1>1, <1>2, <1>3 DEF ImportInv

LEMMA ImportStep == ImportInv /\ [Next]_vars => ImportInv'
<1> SUFFICES ASSUME ImportInv, [Next]_vars PROVE ImportInv'
    OBVIOUS
<1>1. CASE UNCHANGED vars
    BY <1>1 DEF vars, tool, ImportInv, PrefixStored, EachTried, Pushed, Side
<1>2. CASE ToolStep \/ Kill
    BY <1>2, CollectStep, AimStep, ApicStep
    DEF ToolStep, Kill, SessionFails, PushToAimFails, Finish
<1> QED BY <1>1, <1>2, CollectStep, UserStep DEF Next

\* However a pass over the database ends, the resources of a prefix of the queue
\* are there, and nothing else has changed but what users did.
THEOREM ImportsPrefix == Spec => []PrefixStored
<1>1. ImportInv => PrefixStored
    BY DEF ImportInv
<1> QED BY <1>1, ImportInit, ImportStep, PTL DEF Spec

----------------------------------------------------------------------------
(* What the converter makes of the objects, turn by turn of its fold. *)

\* One object, given the resources so far.
Added(seq, n, lost) ==
    IF n \in Alone /\ Owner[n] \notin ToSet(seq) \cup lost THEN Append(seq, Owner[n]) ELSE seq

\* The fold is the last of as many turns as there are objects.
LEMMA ConvertSteps ==
    ASSUME NEW objects \in Seq(Objects), NEW lost
    PROVE  \E g \in [0..Len(objects) -> Seq(Resources)] :
              /\ g[0] = <<>>
              /\ \A k \in 1..Len(objects) : g[k] = Added(g[k - 1], objects[k], lost)
              /\ Convert(objects, lost) = g[Len(objects)]
<1> DEFINE n == Len(objects)
           V == Seq(Resources)
           step == [p \in (1..n) \X V |-> Added(p[2], objects[p[1]], lost)]
           Turn(h, s) == IF s = {} THEN <<>> ELSE Added(h[s \ {Max(s)}], objects[Max(s)], lost)
           fold == CHOOSE h : h = [s \in SUBSET (1..n) |-> Turn(h, s)]
<1>1. n \in Nat /\ DOMAIN objects = 1..n /\ \A k \in 1..n : objects[k] \in Objects
    OBVIOUS
<1>2. \A seq \in V, o \in Objects : Added(seq, o, lost) \in V
    BY TreeAssumption, AppendFacts DEF Added, Objects
<1>3. step \in [(1..n) \X V -> V] /\ <<>> \in V
    <2>1. \A p \in (1..n) \X V : Added(p[2], objects[p[1]], lost) \in V
        <3> HIDE DEF n, V
        <3> QED BY <1>1, <1>2
    <2> HIDE DEF n
    <2> QED BY <2>1
<1>4. PICK h \in [SUBSET (1..n) -> V] : FollowsSets(h, n, <<>>, step)
    <2> HIDE DEF n, V, step
    <2> QED BY <1>1, <1>3, RecursionOnSets
<1>5. \A k \in 1..n, seq \in V : step[<<k, seq>>] = Added(seq, objects[k], lost)
    <2> HIDE DEF n, V
    <2> QED OBVIOUS
<1>6. h = [s \in SUBSET (1..n) |-> Turn(h, s)]
    <2>1. ASSUME NEW s \in SUBSET (1..n) PROVE h[s] = Turn(h, s)
        <3>1. CASE s = {}
            BY <1>4, <3>1 DEF FollowsSets
        <3>2. CASE s # {}
            <4>1. Max(s) \in 1..n /\ s \ {Max(s)} \in SUBSET (1..n)
                <5> HIDE DEF n
                <5> QED BY <1>1, <3>2, MaxFacts
            <4>2. h[s \ {Max(s)}] \in V
                <5> HIDE DEF n, V
                <5> QED BY <1>4, <4>1
            <4>3. h[s] = step[<<Max(s), h[s \ {Max(s)}]>>]
                <5> HIDE DEF n, V, step
                <5> QED BY <1>4, <3>2 DEF FollowsSets
            <4> HIDE DEF n, V, step
            <4> QED BY <1>5, <3>2, <4>1, <4>2, <4>3
        <3> QED BY <3>1, <3>2
    <2> HIDE DEF n, V, Turn
    <2> QED BY <1>4, <2>1
<1>7. fold = [s \in SUBSET (1..n) |-> Turn(fold, s)]
    <2> HIDE DEF n, V, Turn
    <2> QED BY <1>6
<1>8. Convert(objects, lost) = fold[1..n]
    BY <1>1 DEF Convert, FoldLeft, MapThenFoldSet, Added
<1> HIDE DEF fold
<1>9. FollowsIntervals(fold, n, V, <<>>, step)
    <2>1. fold[1..0] = <<>>
        <3>1. 1..0 = {} /\ {} \in SUBSET (1..n)
            OBVIOUS
        <3> HIDE DEF n
        <3> QED BY <1>7, <3>1
    <2>2. ASSUME NEW k \in 1..n, fold[1..(k - 1)] \in V
          PROVE  fold[1..k] = step[<<k, fold[1..(k - 1)]>>]
        <3>1. 1..k \in SUBSET (1..n) /\ 1..k # {} /\ k \in Nat \ {0}
            <4>1. \A m \in Nat : \A j \in 1..m :
                     1..j \in SUBSET (1..m) /\ 1..j # {} /\ j \in Nat \ {0}
                <5>1. ASSUME NEW m \in Nat, NEW j \in 1..m
                      PROVE  1..j \in SUBSET (1..m) /\ 1..j # {} /\ j \in Nat \ {0}
                    <6>1. j \in Nat \ {0} /\ j \in 1..j
                        OBVIOUS
                    <6>2. ASSUME NEW i \in 1..j PROVE i \in 1..m
                        OBVIOUS
                    <6> QED BY <6>1, <6>2
                <5> QED BY <5>1
            <4> HIDE DEF n
            <4> QED BY <1>1, <4>1
        <3>2. Max(1..k) = k /\ (1..k) \ {k} = 1..(k - 1)
            BY <3>1, MaxOfInterval
        <3>3. fold[1..k] = Added(fold[1..(k - 1)], objects[k], lost)
            <4> HIDE DEF n
            <4> QED BY <1>7, <3>1, <3>2
        <3> HIDE DEF n, V, step
        <3> QED BY <1>5, <2>2, <3>3
    <2> HIDE DEF n, V, step
    <2> QED BY <2>1, <2>2 DEF FollowsIntervals
<1>10. PICK g \in [0..n -> V] : Along(g, n, <<>>, step) /\ fold[1..n] = g[n]
    <2> HIDE DEF n, V, step
    <2>1. FoldsAlong(fold, n, V, <<>>, step)
        BY <1>1, <1>3, <1>9, FoldAlong
    <2> QED BY <2>1 DEF FoldsAlong
<1>11. \A k \in 1..n : g[k] = Added(g[k - 1], objects[k], lost)
    <2>1. \A k \in 1..n : k - 1 \in 0..n
        OBVIOUS
    <2> HIDE DEF n, V, step
    <2> QED BY <1>5, <1>10, <2>1 DEF Along
<1>12. g[0] = <<>>
    BY <1>10 DEF Along
<1> HIDE DEF n, V, step
<1> QED BY <1>8, <1>10, <1>11, <1>12 DEF n, V

\* What the converter makes of a list of objects.
LEMMA ConvertFacts ==
    ASSUME NEW objects \in Seq(Objects), NEW lost
    PROVE  /\ Convert(objects, lost) \in Seq(Resources)
           /\ IsInjective(Convert(objects, lost))
           /\ ToSet(Convert(objects, lost)) = {Owner[o] : o \in ToSet(objects) \cap Alone} \ lost
<1> DEFINE n == Len(objects)
           upto(k) == {Owner[o] : o \in {objects[j] : j \in 1..k} \cap Alone} \ lost
<1>1. /\ n \in Nat /\ DOMAIN objects = 1..n /\ \A k \in 1..n : objects[k] \in Objects
      /\ \A k \in 1..n : k - 1 \in 0..n
    OBVIOUS
<1>2. PICK g \in [0..n -> Seq(Resources)] :
              /\ g[0] = <<>>
              /\ \A k \in 1..n : g[k] = Added(g[k - 1], objects[k], lost)
              /\ Convert(objects, lost) = g[n]
    BY ConvertSteps
<1> HIDE DEF n
<1> DEFINE Made(k) == k <= n => IsInjective(g[k]) /\ ToSet(g[k]) = upto(k)
           made == {k \in Nat : Made(k)}
<1>3. Made(0)
    <2>1. IsInjective(<<>>) /\ ToSet(<<>>) = {}
        BY DEF IsInjective, ToSet
    <2>2. {objects[j] : j \in 1..0} = {}
        OBVIOUS
    <2> QED BY <1>2, <2>1, <2>2
<1>4. ASSUME NEW k \in Nat, Made(k) PROVE Made(k + 1)
    <2>1. SUFFICES ASSUME k + 1 <= n
                   PROVE  IsInjective(g[k + 1]) /\ ToSet(g[k + 1]) = upto(k + 1)
        OBVIOUS
    <2> DEFINE o == objects[k + 1]
    <2>2. /\ k + 1 \in 1..n /\ (k + 1) - 1 = k /\ k \in 0..n
          /\ IsInjective(g[k]) /\ ToSet(g[k]) = upto(k)
        <3> HIDE DEF upto
        <3>1. k <= n
            BY <1>1, <2>1
        <3> QED BY <1>1, <1>4, <2>1, <3>1
    <2>3. o \in Objects /\ Owner[o] \in Resources /\ g[k] \in Seq(Resources)
        BY <1>1, <1>2, <2>2, TreeAssumption DEF Objects
    <2>4. g[k + 1] = Added(g[k], o, lost)
        BY <1>2, <2>2
    <2>5. {objects[j] : j \in 1..(k + 1)} = {objects[j] : j \in 1..k} \cup {o}
        <3>1. 1..(k + 1) = (1..k) \cup {k + 1}
            OBVIOUS
        <3> QED BY <3>1
    <2> HIDE DEF o
    <2>6. CASE o \in Alone /\ Owner[o] \notin ToSet(g[k]) \cup lost
        <3>1. g[k + 1] = Append(g[k], Owner[o])
            BY <2>4, <2>6 DEF Added
        <3>2. IsInjective(g[k + 1]) /\ ToSet(g[k + 1]) = ToSet(g[k]) \cup {Owner[o]}
            <4> HIDE DEF upto
            <4> DEFINE r == Owner[o]
            <4>1. r \in Resources /\ r \notin ToSet(g[k]) /\ g[k + 1] = Append(g[k], r)
                BY <2>3, <2>6, <3>1
            <4> HIDE DEF r
            <4>2. IsInjective(g[k + 1]) /\ ToSet(g[k + 1]) = ToSet(g[k]) \cup {r}
                BY <2>2, <2>3, <4>1, AppendFacts
            <4> QED BY <4>2 DEF r
        <3>3. upto(k + 1) = upto(k) \cup {Owner[o]}
            BY <2>5, <2>6
        <3> HIDE DEF upto
        <3> QED BY <2>2, <3>2, <3>3
    <2>7. CASE ~ (o \in Alone /\ Owner[o] \notin ToSet(g[k]) \cup lost)
        <3>1. g[k + 1] = g[k]
            BY <2>4, <2>7 DEF Added
        <3>2. upto(k + 1) = upto(k)
            BY <2>2, <2>5, <2>7
        <3> HIDE DEF upto
        <3> QED BY <2>2, <3>1, <3>2
    <2> QED BY <2>6, <2>7
<1>5. Made(n)
    <2> HIDE DEF Made
    <2>1. 0 \in made /\ \A k \in made \cap Nat : k + 1 \in made
        BY <1>3, <1>4
    <2>2. n \in made
        <3> HIDE DEF made
        <3> QED BY <1>1, <2>1, InductionFromZero
    <2> QED BY <2>2
<1>6. ToSet(objects) = {objects[j] : j \in 1..n} /\ n \in 0..n
    BY <1>1 DEF ToSet
<1>7. /\ g[n] \in Seq(Resources) /\ IsInjective(g[n])
      /\ ToSet(g[n]) = {Owner[o] : o \in ToSet(objects) \cap Alone} \ lost
    <2>1. n <= n /\ g[n] \in Seq(Resources)
        BY <1>1, <1>2, <1>6
    <2>2. IsInjective(g[n]) /\ ToSet(g[n]) = upto(n)
        <3> HIDE DEF upto
        <3> QED BY <1>5, <2>1
    <2>3. upto(n) = {Owner[o] : o \in ToSet(objects) \cap Alone} \ lost
        BY <1>6
    <2> HIDE DEF upto
    <2> QED BY <2>1, <2>2, <2>3
<1> HIDE DEF upto, Made
<1> QED BY <1>2, <1>7

\* What a key leads to.
LEMMA KeyFacts ==
    ASSUME NEW key \in Nodes
    PROVE  RelatedChildren(key) \in Seq(Nodes) /\ ParentNode(key) \in Seq(Nodes)
<1> DEFINE S == {n \in Related : Parent[n] = key /\ n # key}
<1>1. S \subseteq Nodes /\ IsFiniteSet(S) /\ Parent[key] \in Nodes
    BY TreeAssumption, FS_Subset DEF Objects
<1> HIDE DEF S
<1>2. Cardinality(S) \in Nat /\ ExistsBijection(1..Cardinality(S), S)
    BY <1>1, FS_CardinalityType
<1>3. SetToSeq(S) \in [1..Cardinality(S) -> S]
    BY <1>2 DEF SetToSeq, ExistsBijection, Bijection, Injection
<1>4. SetToSeq(S) \in Seq(Nodes)
    BY <1>1, <1>2, <1>3
<1> QED BY <1>1, <1>4 DEF RelatedChildren, ParentNode, S
----------------------------------------------------------------------------
(* The walk *)

Typed ==
    /\ pc \in {"idle", "collect", "push"}
    /\ sides \subseteq {"db", "apic"} /\ (pc # "idle" => sides # {})
    /\ keys \in Seq(Nodes) /\ found \in Seq(Objects) /\ queue \in Seq(Resources)
    /\ at \in Nat \ {0}
    /\ monitored \subseteq Objects /\ flagged \subseteq Resources
    /\ failed \subseteq Resources

Stores ==
    /\ db \subseteq Resources /\ apic \subseteq Resources
    /\ before \subseteq Resources /\ touched \subseteq Resources

\* The keys before the index are dealt with, and every object is a key.
Walked ==
    /\ IsInjective(found)
    /\ flagged = {Owner[n] : n \in ToSet(found) \cap monitored \cap Alone}
    /\ pc = "idle" => at = 1 /\ found = <<>> /\ queue = <<>>
    /\ pc # "idle" => Objects \subseteq ToSet(keys)
    /\ pc = "collect" => /\ at <= Len(keys) + 1 /\ queue = <<>>
                         /\ \A k \in 1..(at - 1) : keys[k] \in Objects => keys[k] \in ToSet(found)
    /\ pc = "push" => /\ at <= Len(queue) + 1
                      /\ ToSet(found) = Objects
                      /\ ToSet(queue) = {Owner[n] : n \in Objects \cap Alone} \ OfNoTenant
                      /\ IsInjective(queue)

WalkInv == Typed /\ Walked /\ Stores

LEMMA WalkInit == Init => WalkInv
<1> SUFFICES ASSUME Init PROVE WalkInv
    OBVIOUS
<1>1. Typed /\ Stores
    BY TreeAssumption DEF Init, Typed, Stores
<1>2. ToSet(found) = {} /\ IsInjective(found)
    BY DEF Init, ToSet, IsInjective
<1>3. Walked
    BY <1>2 DEF Init, Walked
<1> QED BY <1>1, <1>3 DEF WalkInv

LEMMA StartWalk ==
    ASSUME WalkInv, NEW options \in SUBSET {"db", "apic"}, NEW order \in Orders,
           NEW mon \in {{}, Objects}, Start(options, order, mon)
    PROVE  WalkInv'
<1>1. Typed' /\ Stores'
    BY TreeAssumption DEF WalkInv, Typed, Stores, Start
<1>2. /\ pc' = "collect" /\ at' = 1 /\ found' = <<>> /\ queue' = <<>>
      /\ Objects \subseteq ToSet(keys')
      /\ flagged' = flagged
    BY TreeAssumption DEF WalkInv, Walked, Start
<1>3. ToSet(found) = {} /\ ToSet(found') = {} /\ IsInjective(found')
    BY <1>2 DEF WalkInv, Walked, Start, ToSet, IsInjective
<1>4. flagged' = {}
    BY <1>2, <1>3 DEF WalkInv, Walked
<1>5. at' <= Len(keys') + 1 /\ 1..(at' - 1) = {}
    <2>1. Len(keys') \in Nat
        BY <1>1 DEF Typed
    <2>2. \A n \in Nat : 1 <= n + 1
        OBVIOUS
    <2>3. 1..(1 - 1) = {}
        OBVIOUS
    <2> QED BY <1>2, <2>1, <2>2, <2>3
<1>6. Walked'
    BY <1>2, <1>3, <1>4, <1>5 DEF Walked
<1> QED BY <1>1, <1>6 DEF WalkInv

\* An object that is appended to the result was not in it.
LEMMA TakeWalk == WalkInv /\ TakeKey => WalkInv'
<1> SUFFICES ASSUME WalkInv, TakeKey PROVE WalkInv'
    OBVIOUS
<1> DEFINE key == keys[at]
<1>1. /\ pc = "collect" /\ pc' = pc /\ at <= Len(keys) /\ at' = at + 1 /\ at \in Nat \ {0}
      /\ found' = found \o FillNode(key)
      /\ keys' = IF FillNode(key) = <<>> THEN keys
                 ELSE keys \o RelatedChildren(key) \o ParentNode(key)
      /\ flagged' = IF FillNode(key) # <<>> /\ key \in monitored
                       /\ (key \in Related => key \in Alone)
                    THEN flagged \cup {Owner[key]} ELSE flagged
      /\ UNCHANGED <<pc, sides, monitored, queue, db, apic, failed, before, touched>>
    BY DEF WalkInv, Typed, TakeKey
<1>2. /\ keys \in Seq(Nodes) /\ found \in Seq(Objects) /\ flagged \subseteq Resources
      /\ queue = <<>> /\ Objects \subseteq ToSet(keys) /\ IsInjective(found)
      /\ flagged = {Owner[n] : n \in ToSet(found) \cap monitored \cap Alone}
      /\ \A k \in 1..(at - 1) : keys[k] \in Objects => keys[k] \in ToSet(found)
    BY <1>1 DEF WalkInv, Typed, Walked
<1>3. key \in Nodes /\ at \in 1..Len(keys)
    BY <1>1, <1>2
<1> HIDE DEF key
<1>4. Stores'
    BY <1>1 DEF WalkInv, Stores
<1>5. \A k \in 1..at : k \in 1..(at - 1) \/ k = at
    BY <1>1
<1>6. CASE key \notin Objects \ ToSet(found)
    <2>1. FillNode(key) = <<>>
        BY <1>6 DEF FillNode
    <2>2. found' = found /\ keys' = keys /\ flagged' = flagged
        BY <1>1, <1>2, <2>1
    <2>3. Typed'
        <3>1. at + 1 \in Nat \ {0}
            BY <1>1
        <3> QED BY <1>1, <2>2, <3>1 DEF WalkInv, Typed
    <2>4. at' <= Len(keys) + 1 /\ at' - 1 = at
        BY <1>1, <1>2
    <2>5. \A k \in 1..at : keys[k] \in Objects => keys[k] \in ToSet(found)
        BY <1>2, <1>5, <1>6 DEF key
    <2>6. Walked'
        BY <1>1, <1>2, <2>2, <2>4, <2>5 DEF Walked
    <2> QED BY <1>4, <2>3, <2>6 DEF WalkInv
<1>7. CASE key \in Objects \ ToSet(found)
    <2>1. FillNode(key) = <<key>> /\ FillNode(key) # <<>>
        BY <1>7 DEF FillNode
    <2>2. found' = Append(found, key)
        BY <1>1, <1>2, <1>7, <2>1
    <2>3. found' \in Seq(Objects) /\ ToSet(found') = ToSet(found) \cup {key} /\ IsInjective(found')
        BY <1>2, <1>7, <2>2, AppendFacts
    <2> DEFINE more == RelatedChildren(key) \o ParentNode(key)
    <2>4. keys' = keys \o more /\ more \in Seq(Nodes)
        <3>1. RelatedChildren(key) \in Seq(Nodes) /\ ParentNode(key) \in Seq(Nodes)
            BY <1>3, KeyFacts
        <3>2. keys \o RelatedChildren(key) \o ParentNode(key) = keys \o more
            BY <1>2, <3>1, ConcatAssociative
        <3> QED BY <1>1, <2>1, <3>1, <3>2, ConcatProperties
    <2> HIDE DEF more
    <2>5. /\ keys' \in Seq(Nodes) /\ Len(keys') = Len(keys) + Len(more)
          /\ Len(keys) \in Nat /\ Len(more) \in Nat
          /\ \A k \in 1..Len(keys) : keys'[k] = keys[k] /\ k \in 1..Len(keys')
        <3>1. \A a, b \in Nat : \A k \in 1..a : k \in 1..(a + b) /\ k <= a
            OBVIOUS
        <3> QED BY <1>2, <2>4, <3>1, ConcatProperties, LenProperties
    <2>6. Objects \subseteq ToSet(keys')
        <3>1. DOMAIN keys = 1..Len(keys) /\ DOMAIN keys' = 1..Len(keys')
            BY <1>2, <2>5, LenProperties
        <3> QED BY <1>2, <2>5, <3>1 DEF ToSet
    <2>7. flagged' = {Owner[n] : n \in ToSet(found') \cap monitored \cap Alone}
        <3>1. (key \in Related => key \in Alone) <=> key \in Alone
            BY <1>7, TreeAssumption
        <3>2. flagged' = IF key \in monitored \cap Alone THEN flagged \cup {Owner[key]} ELSE flagged
            BY <1>1, <2>1, <3>1
        <3> QED BY <1>2, <2>3, <3>2
    <2>8. flagged' \subseteq Resources
        BY <1>1, <1>2, <1>3, TreeAssumption
    <2>9. Typed'
        BY <1>1, <2>3, <2>5, <2>8 DEF WalkInv, Typed
    <2>10. at' <= Len(keys') + 1 /\ at' - 1 = at
        <3>1. \A a, b, c \in Nat : c <= a => c + 1 <= (a + b) + 1 /\ (c + 1) - 1 = c
            OBVIOUS
        <3> QED BY <1>1, <2>5, <3>1
    <2>11. \A k \in 1..at : keys'[k] \in Objects => keys'[k] \in ToSet(found')
        <3>1. \A k \in 1..at : k \in 1..Len(keys)
            BY <1>1, <2>5
        <3> QED BY <1>2, <1>5, <2>3, <2>5, <3>1 DEF key
    <2>12. Walked'
        BY <1>1, <1>2, <2>3, <2>6, <2>7, <2>10, <2>11 DEF Walked
    <2> QED BY <1>4, <2>9, <2>12 DEF WalkInv
<1> QED BY <1>6, <1>7

\* At the end of the list every object has been met.
LEMMA CollectedWalk == WalkInv /\ Collected => WalkInv'
<1> SUFFICES ASSUME WalkInv, Collected PROVE WalkInv'
    OBVIOUS
<1>1. /\ pc = "collect" /\ pc' = "push" /\ at' = 1 /\ at > Len(keys) /\ at \in Nat \ {0}
      /\ at <= Len(keys) + 1
      /\ queue' = Convert(found, OfNoTenant) /\ before' = db
      /\ UNCHANGED <<sides, keys, monitored, found, flagged, db, apic, failed, touched>>
    BY DEF WalkInv, Typed, Walked, Collected
<1>2. /\ keys \in Seq(Nodes) /\ found \in Seq(Objects) /\ Objects \subseteq ToSet(keys)
      /\ IsInjective(found)
      /\ flagged = {Owner[n] : n \in ToSet(found) \cap monitored \cap Alone}
      /\ \A k \in 1..(at - 1) : keys[k] \in Objects => keys[k] \in ToSet(found)
    BY <1>1 DEF WalkInv, Typed, Walked
<1>3. queue' \in Seq(Resources) /\ IsInjective(queue')
      /\ ToSet(queue') = {Owner[o] : o \in ToSet(found) \cap Alone} \ OfNoTenant
    BY <1>1, <1>2, ConvertFacts
<1>4. ToSet(found) = Objects
    <2>1. DOMAIN keys = 1..Len(keys) /\ at - 1 = Len(keys) /\ DOMAIN found = 1..Len(found)
          /\ \A k \in 1..Len(found) : found[k] \in Objects
        BY <1>1, <1>2
    <2>2. \A k \in DOMAIN keys : keys[k] \in Objects => keys[k] \in ToSet(found)
        BY <1>2, <2>1
    <2> QED BY <1>2, <2>1, <2>2 DEF ToSet
<1>5. at' <= Len(queue') + 1
    <2>1. Len(queue') \in Nat
        BY <1>3
    <2>2. \A n \in Nat : 1 <= n + 1
        OBVIOUS
    <2> QED BY <1>1, <2>1, <2>2
<1>6. OfNoTenant' = OfNoTenant
    BY <1>1 DEF OfNoTenant, Side
<1>7. Typed' /\ Stores'
    BY <1>1, <1>3 DEF WalkInv, Typed, Stores
<1>8. Walked'
    BY <1>1, <1>2, <1>3, <1>4, <1>5, <1>6 DEF Walked
<1> QED BY <1>7, <1>8 DEF WalkInv

LEMMA ExitWalk == WalkInv /\ Exit => WalkInv'
<1> SUFFICES ASSUME WalkInv, Exit PROVE WalkInv'
    OBVIOUS
<1>1. Typed' /\ Stores'
    BY DEF WalkInv, Typed, Stores, Exit
<1>2. ToSet(found') = {} /\ IsInjective(found')
    BY DEF Exit, ToSet, IsInjective
<1>3. Walked'
    BY <1>2 DEF Exit, Walked
<1> QED BY <1>1, <1>3 DEF WalkInv

LEMMA NextPassWalk == WalkInv /\ NextPass => WalkInv'
<1> SUFFICES ASSUME WalkInv, NextPass PROVE WalkInv'
    OBVIOUS
<1>1. /\ pc = "push" /\ pc' = "collect" /\ at' = 1 /\ found' = <<>> /\ flagged' = {} /\ queue' = <<>>
      /\ before' = {} /\ touched' = {} /\ sides' = sides \ {Side} /\ sides # {Side} /\ sides # {}
      /\ UNCHANGED <<keys, monitored, db, apic, failed>>
    BY DEF WalkInv, Typed, NextPass
<1>2. Typed' /\ Stores'
    <2>1. sides' # {} /\ sides' \subseteq {"db", "apic"}
        BY <1>1 DEF WalkInv, Typed
    <2>2. <<>> \in Seq(Objects) /\ <<>> \in Seq(Resources)
        OBVIOUS
    <2>3. Typed'
        BY <1>1, <2>1, <2>2 DEF WalkInv, Typed
    <2>4. Stores'
        BY <1>1 DEF WalkInv, Stores
    <2> QED BY <2>3, <2>4
<1>3. ToSet(found') = {} /\ IsInjective(found')
    BY <1>1 DEF ToSet, IsInjective
<1>4. Objects \subseteq ToSet(keys')
    BY <1>1 DEF WalkInv, Walked
<1>5. at' <= Len(keys') + 1 /\ 1..(at' - 1) = {}
    <2>1. Len(keys') \in Nat
        BY <1>2 DEF Typed
    <2>2. \A n \in Nat : 1 <= n + 1
        OBVIOUS
    <2>3. 1..(1 - 1) = {}
        OBVIOUS
    <2> QED BY <1>1, <2>1, <2>2, <2>3
<1>6. Walked'
    BY <1>1, <1>3, <1>4, <1>5 DEF Walked
<1> QED BY <1>2, <1>6 DEF WalkInv

\* A push moves on in the queue, to the end at most.
LEMMA PushWalk == WalkInv /\ (PushToAim \/ PushToApic \/ PushToApicFails) => WalkInv'
<1> SUFFICES ASSUME WalkInv, PushToAim \/ PushToApic \/ PushToApicFails PROVE WalkInv'
    OBVIOUS
<1>1. /\ pc = "push" /\ at \in Nat \ {0} /\ at <= Len(queue) /\ at' = at + 1
      /\ UNCHANGED <<pc, sides, keys, monitored, found, flagged, queue, before, touched>>
      /\ queue \in Seq(Resources)
    BY DEF WalkInv, Typed, PushToAim, PushToApic, PushToApicFails, Pushing
<1>2. queue[at] \in Resources
    BY <1>1
<1>3. Stored(queue[at]) \subseteq Resources
    BY <1>2 DEF Stored, WalkInv, Stores
<1>4. Typed' /\ Stores'
    <2>1. /\ db' \subseteq Resources /\ apic' \subseteq Resources /\ failed' \subseteq Resources
        BY <1>2, <1>3 DEF WalkInv, Typed, Stores, PushToAim, PushToApic, PushToApicFails
    <2>2. at' \in Nat \ {0}
        BY <1>1
    <2> QED BY <1>1, <2>1, <2>2 DEF WalkInv, Typed, Stores
<1>5. at' <= Len(queue) + 1
    BY <1>1
<1>6. OfNoTenant' = OfNoTenant
    BY <1>1 DEF OfNoTenant, Side
<1>7. Walked'
    BY <1>1, <1>5, <1>6 DEF WalkInv, Walked
<1> QED BY <1>4, <1>7 DEF WalkInv

LEMMA UserWalk ==
    ASSUME WalkInv, NEW r \in Resources, UserCreates(r) \/ UserDeletes(r)
    PROVE  WalkInv'
<1>1. UNCHANGED <<pc, sides, keys, at, monitored, found, flagged, queue, apic, failed, before>>
    BY DEF UserCreates, UserDeletes, tool
<1>2. db' \subseteq Resources /\ touched' \subseteq Resources
    BY DEF UserCreates, UserDeletes, WalkInv, Stores
<1>3. Typed' /\ Stores'
    BY <1>1, <1>2 DEF WalkInv, Typed, Stores
<1>4. OfNoTenant' = OfNoTenant
    BY <1>1 DEF OfNoTenant, Side
<1>5. Walked'
    BY <1>1, <1>4 DEF WalkInv, Walked
<1> QED BY <1>3, <1>5 DEF WalkInv

LEMMA WalkStep == WalkInv /\ [Next]_vars => WalkInv'
<1> SUFFICES ASSUME WalkInv, [Next]_vars PROVE WalkInv'
    OBVIOUS
<1>1. CASE UNCHANGED vars
    <2>1. OfNoTenant' = OfNoTenant
        BY <1>1 DEF vars, tool, OfNoTenant, Side
    <2> QED BY <1>1, <2>1 DEF vars, tool, WalkInv, Typed, Walked, Stores
<1>2. CASE ToolStep \/ Kill
    BY <1>2, TakeWalk, CollectedWalk, ExitWalk, NextPassWalk, PushWalk
    DEF ToolStep, Kill, SessionFails, PushToAimFails, Finish
<1> QED BY <1>1, <1>2, StartWalk, UserWalk DEF Next

LEMMA WalkAlways == Spec => []WalkInv
BY WalkInit, WalkStep, PTL DEF Spec

\* Every variable of the processor keeps its type, and the index its list.
THEOREM TypeCorrect == Spec => []TypeOK
<1>1. WalkInv => TypeOK
    <2> SUFFICES ASSUME WalkInv PROVE TypeOK
        OBVIOUS
    <2>1. ToSet(keys) \subseteq Nodes /\ ToSet(found) \subseteq Objects /\ ToSet(queue) \subseteq Resources
        <3>1. \A S : \A s \in Seq(S) : ToSet(s) \subseteq S
            BY DEF ToSet
        <3> QED BY <3>1 DEF WalkInv, Typed
    <2>2. at <= Len(keys) + Len(queue) + 1
        <3>1. \A a, b, c \in Nat : c = 1 \/ c <= a + 1 \/ c <= b + 1 => c <= a + b + 1
            OBVIOUS
        <3> DEFINE m == Len(keys)
                   n == Len(queue)
        <3>2. m \in Nat /\ n \in Nat /\ at \in Nat
            BY DEF WalkInv, Typed
        <3>3. at = 1 \/ at <= m + 1 \/ at <= n + 1
            <4> HIDE DEF m, n
            <4>1. pc \in {"idle", "collect", "push"}
                BY DEF WalkInv, Typed
            <4> QED BY <4>1 DEF WalkInv, Walked, m, n
        <3> HIDE DEF m, n
        <3>4. at <= m + n + 1
            BY <3>1, <3>2, <3>3
        <3> QED BY <3>4 DEF m, n
    <2> QED BY <2>1, <2>2 DEF WalkInv, Typed, Stores, TypeOK
<1> QED BY <1>1, WalkAlways, PTL

\* For any tree and any order of its keys, each object is collected once and each
\* resource pushed once.
THEOREM ObjectsCollectedOnce == Spec => []EachObjectOnce
<1>1. WalkInv => EachObjectOnce
    <2> SUFFICES ASSUME WalkInv PROVE EachObjectOnce
        OBVIOUS
    <2>1. IsInjective(found)
        BY DEF WalkInv, Walked
    <2>2. ASSUME pc = "push"
          PROVE  /\ ToSet(found) = Objects
                 /\ ToSet(queue) = {Owner[n] : n \in Objects \cap Alone} \ OfNoTenant
                 /\ IsInjective(queue)
                 /\ flagged = {Owner[n] : n \in monitored \cap Alone}
        <3>1. Objects \cap monitored = monitored
            BY DEF WalkInv, Typed
        <3> QED BY <2>2, <3>1 DEF WalkInv, Walked
    <2> QED BY <2>1, <2>2 DEF EachObjectOnce, OfNoTenant
<1> QED BY <1>1, WalkAlways, PTL

----------------------------------------------------------------------------
(* What APIC is left with *)

\* Faults have no place in the queue of a pass over APIC.
NoFaults == apic \cap Faults = {}

LEMMA NoFaultsStep == WalkInv /\ NoFaults /\ [Next]_vars => NoFaults'
<1> SUFFICES ASSUME WalkInv, NoFaults, [Next]_vars PROVE NoFaults'
    OBVIOUS
<1>1. CASE PushToApic
    <2>1. /\ pc = "push" /\ Side = "apic" /\ at \in 1..Len(queue) /\ queue \in Seq(Resources)
          /\ apic' = apic \cup {queue[at]}
        BY <1>1 DEF WalkInv, Typed, PushToApic, Pushing
    <2>2. queue[at] \in ToSet(queue)
        BY <2>1 DEF ToSet
    <2>3. queue[at] \notin Faults
        BY <2>1, <2>2 DEF WalkInv, Walked, OfNoTenant
    <2> QED BY <2>1, <2>3 DEF NoFaults
<1>2. CASE apic' = apic
    BY <1>2 DEF NoFaults
<1>3. PushToApic \/ apic' = apic
    BY DEF Next, vars, tool, ToolStep, Kill, TakeKey, Collected, SessionFails, PushToAim,
           PushToAimFails, PushToApicFails, NextPass, Finish, Exit, Start, UserCreates, UserDeletes
<1> QED BY <1>1, <1>2, <1>3

\* For any tree and any order of its keys, whichever POSTs fail: a pass over APIC
\* that comes to its end has tried every resource of the dump but the faults.
THEOREM TreeTried == Spec => []ApicHasTree
<1>1. Init => NoFaults
    BY DEF Init, NoFaults
<1>2. WalkInv /\ ImportInv /\ NoFaults => ApicHasTree
    <2> SUFFICES ASSUME WalkInv, ImportInv, NoFaults, pc = "push", Side = "apic", at > Len(queue)
                 PROVE  {Owner[n] : n \in Objects \cap Alone} \ Faults \subseteq apic \cup failed
        BY DEF ApicHasTree, NoFaults
    <2>1. queue \in Seq(Resources) /\ at = Len(queue) + 1
        BY DEF WalkInv, Typed, Walked
    <2>2. ToSet(queue) = Pushed
        BY <2>1 DEF ToSet, Pushed
    <2>3. ToSet(queue) = {Owner[n] : n \in Objects \cap Alone} \ Faults
        BY DEF WalkInv, Walked, OfNoTenant
    <2> QED BY <2>2, <2>3 DEF ImportInv, EachTried
<1> QED BY <1>1, <1>2, NoFaultsStep, WalkAlways, ImportInit, ImportStep, PTL DEF Spec
=============================================================================
