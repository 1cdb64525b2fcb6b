---------------------------- MODULE ToggleProofs ----------------------------
(* What toggle-config leaves in neutron's files, for any files, sections and site
   values: whatever the order of the dicts, wherever a run is killed, and with
   aim-config run in between; and what aim-config generates then. *)
EXTENDS AimConfig, SequenceFacts

\* A file in memory: a key may be without a value.
MemInis == [Sections -> {NoSection} \cup [Keys -> Values \cup {Absent, None}]]

\* The changes, by their numbers.
N == 7
IsScoped(c) == c.section # Anywhere

LEMMA OneOfSeven == N \in Nat /\ \A i \in 1..N : i \in {1, 2, 3, 4, 5, 6, 7}
BY DEF N

LEMMA ChangeItems ==
    /\ Changes[1].item = "core_plugin" /\ Changes[2].item = "service_plugins"
    /\ Changes[3].item = "policy_drivers" /\ Changes[4].item = "mechanism_drivers "
    /\ Changes[5].item = "extension_drivers" /\ Changes[6].item = "extension_drivers"
    /\ Changes[7].item = "enable_iptables_firewall"
BY DEF Changes, Change

LEMMA ChangeSections ==
    /\ \A i \in {1, 2, 3, 4} : Changes[i].section = Anywhere
    /\ Changes[5].section = "ml2" /\ Changes[6].section = "group_policy"
    /\ Changes[7].section = "ml2_apic_aim"
<1>1. /\ Changes[1].section = Anywhere /\ Changes[2].section = Anywhere
      /\ Changes[3].section = Anywhere /\ Changes[4].section = Anywhere
    BY DEF Changes, Change
<1>2. /\ Changes[5].section = "ml2" /\ Changes[6].section = "group_policy"
      /\ Changes[7].section = "ml2_apic_aim"
    BY DEF Changes, Change
<1> QED BY <1>1, <1>2

LEMMA ChangeValues ==
    /\ \A i \in {1, 2, 3, 4} : Changes[i].old # None
    /\ \A i \in {5, 6, 7} : Changes[i].old = None
    /\ \A i \in 1..N : Changes[i].new # None
    /\ \A i \in 1..N : LET c == Changes[i] IN c["old"] = c.old /\ c["new"] = c.new
<1>1. /\ Changes[1].old # None /\ Changes[2].old # None
      /\ Changes[3].old # None /\ Changes[4].old # None
    BY DEF Changes, Change, None
<1>2. Changes[5].old = None /\ Changes[6].old = None /\ Changes[7].old = None
    BY DEF Changes, Change
<1>3. /\ Changes[1].new # None /\ Changes[2].new # None /\ Changes[3].new # None
      /\ Changes[4].new # None /\ Changes[5].new # None /\ Changes[6].new # None
      /\ Changes[7].new # None
    BY DEF Changes, Change, None
<1>4. \A i \in 1..N : LET c == Changes[i] IN c["old"] = c.old /\ c["new"] = c.new
    OBVIOUS
<1> QED BY <1>1, <1>2, <1>3, <1>4, OneOfSeven

LEMMA ChangeTyping ==
    /\ N \in Nat /\ DOMAIN Changes = 1..N
    /\ \A i \in 1..N : LET c == Changes[i] IN
          /\ c.item \in Keys /\ c.item # "agent_down_time"
          /\ c.old \in Values \cup {None} /\ c.new \in Values
          /\ IsScoped(c) => c.section \in Sections \ {"DEFAULT"} /\ c.old = None
          /\ ~IsScoped(c) => c.old \in Values
<1>1. /\ N \in Nat /\ DOMAIN Changes = 1..N
      /\ ToSet(Changes) = {Changes[i] : i \in 1..N}
    BY DEF Changes, N, ToSet
<1>2. \A i \in 1..N : Changes[i] \in ToSet(Changes)
    BY <1>1
<1>3. \A c \in ToSet(Changes) : c.item \in Keys
    BY FilesAssumption
<1>4. ASSUME NEW i \in 1..N
      PROVE  LET c == Changes[i] IN
                /\ c.item # "agent_down_time"
                /\ IsScoped(c) => c.section \in {"ml2", "group_policy", "ml2_apic_aim"} /\ c.old = None
                /\ ~IsScoped(c) => c.old # None
    <2>1. Changes[i].item # "agent_down_time"
        BY OneOfSeven, ChangeItems
    <2> QED BY <2>1, OneOfSeven, ChangeSections, ChangeValues DEF IsScoped, Anywhere
<1>5. \A i \in 1..N : \A t \in Types : Changes[i][t] \in Values \cup {None}
    <2> DEFINE C == ToSet(Changes)
    <2>1. Values = SiteValues \cup {DownTime[t] : t \in Types}
                      \cup ({c[t] : c \in C, t \in Types} \ {None})
        BY DEF Values
    <2>2. \A i \in 1..N : Changes[i] \in C
        BY <1>2
    <2> HIDE DEF C
    <2> QED BY <2>1, <2>2
<1>6. "old" \in Types /\ "new" \in Types
    BY DEF Types
<1>7. {"DEFAULT", "ml2", "group_policy", "ml2_apic_aim"} \subseteq Sections
    BY FilesAssumption
<1> QED BY <1>1, <1>2, <1>3, <1>4, <1>5, <1>6, <1>7, ChangeValues

\* No two changes are of the same place.
LEMMA ChangesDiffer ==
    \A i, j \in 1..N : i # j =>
        \/ Changes[i].item # Changes[j].item
        \/ /\ IsScoped(Changes[i]) /\ IsScoped(Changes[j])
           /\ Changes[i].section # Changes[j].section
<1> SUFFICES ASSUME NEW i \in 1..N, NEW j \in 1..N, i # j
             PROVE  \/ Changes[i].item # Changes[j].item
                    \/ /\ IsScoped(Changes[i]) /\ IsScoped(Changes[j])
                       /\ Changes[i].section # Changes[j].section
    OBVIOUS
<1>1. CASE {i, j} = {5, 6}
    BY <1>1, ChangeSections DEF IsScoped, Anywhere
<1>2. i \in {1, 2, 3, 4, 5, 6, 7} /\ j \in {1, 2, 3, 4, 5, 6, 7}
    BY OneOfSeven
<1> DEFINE item(n) == Changes[n].item
<1>3. /\ item(1) = "core_plugin" /\ item(2) = "service_plugins"
      /\ item(3) = "policy_drivers" /\ item(4) = "mechanism_drivers "
      /\ item(5) = "extension_drivers" /\ item(6) = "extension_drivers"
      /\ item(7) = "enable_iptables_firewall"
    BY ChangeItems
<1> HIDE DEF item
<1>4. i \in {5, 6} /\ j \notin {5, 6} => item(i) # item(j)
    BY <1>2, <1>3
<1>5. i = 1 => item(i) # item(j)
    BY <1>2, <1>3
<1>6. i = 2 => item(i) # item(j)
    BY <1>2, <1>3
<1>7. i = 3 => item(i) # item(j)
    BY <1>2, <1>3
<1>8. i = 4 => item(i) # item(j)
    BY <1>2, <1>3
<1>9. i = 7 => item(i) # item(j)
    BY <1>2, <1>3
<1>10. (i \in {5, 6} /\ j \in {5, 6}) \/ item(i) # item(j)
    BY <1>2, <1>4, <1>5, <1>6, <1>7, <1>8, <1>9
<1> QED BY <1>1, <1>10 DEF item

LEMMA NoneIsNoValue == None \notin Values /\ Absent \notin Values /\ None # Absent
<1>1. \A t \in Types : DownTime[t] # None
    BY DEF Types, DownTime, None
<1> QED BY <1>1, FilesAssumption DEF Values

LEMMA SetFacts ==
    ASSUME NEW ini \in MemInis, NEW s \in Sections, NEW key \in Keys,
           NEW value \in Values \cup {None}
    PROVE  /\ Set(ini, s, key, value) \in MemInis
           /\ \A t \in Sections, k \in Keys :
                 ValueOf(Set(ini, s, key, value), t, k)
                     = IF t = s /\ k = key THEN value ELSE ValueOf(ini, t, k)
           /\ \A t \in Sections :
                 Set(ini, s, key, value)[t] = NoSection <=> t # s /\ ini[t] = NoSection
<1> DEFINE row == [k \in Keys |-> IF k = key THEN value
                                  ELSE IF ini[s] = NoSection THEN Absent ELSE ini[s][k]]
<1>1. Set(ini, s, key, value) = [ini EXCEPT ![s] = row]
    BY DEF Set
<1>2. \A k \in Keys : ini[s] # NoSection => ini[s][k] \in Values \cup {Absent, None}
    BY DEF MemInis
<1>3. row \in [Keys -> Values \cup {Absent, None}] /\ row # NoSection
    BY <1>2, FilesAssumption
<1>4. \A k \in Keys : row[k] = IF k = key THEN value ELSE ValueOf(ini, s, k)
    BY DEF ValueOf
<1> HIDE DEF row
<1>5. Set(ini, s, key, value) \in MemInis
    BY <1>1, <1>3 DEF MemInis
<1>6. \A t \in Sections : Set(ini, s, key, value)[t] = IF t = s THEN row ELSE ini[t]
    BY <1>1 DEF MemInis
<1> HIDE DEF Set
<1> QED BY <1>3, <1>4, <1>5, <1>6 DEF ValueOf
----------------------------------------------------------------------------
(* _set_config *)

\* One turn.
Switched(x, c, type, order) ==
    IF Found(x, c, order) = {} THEN x
    ELSE Set(x, CHOOSE s \in Found(x, c, order) : TRUE, c.item, c[type])

\* Where a change may have an effect.
Reaches(x, c, t, k) ==
    /\ k = c.item
    /\ IF IsScoped(c) THEN t = c.section ELSE ValueOf(x, t, k) # Absent

SoleHolder(x, key, s) == \A t \in Sections : ValueOf(x, t, key) # Absent <=> t = s

LEMMA SwitchedFacts ==
    ASSUME NEW x \in MemInis, NEW i \in 1..N, NEW type \in Types, NEW order \in [Sections -> Nat]
    PROVE  LET c == Changes[i]
               y == Switched(x, c, type, order)
           IN  /\ y \in MemInis
               /\ \A t \in Sections, k \in Keys :
                     \/ ValueOf(y, t, k) = ValueOf(x, t, k)
                     \/ Reaches(x, c, t, k) /\ ValueOf(y, t, k) = c[type]
               /\ \A t \in Sections : y[t] = NoSection <=> x[t] = NoSection
               /\ IsScoped(c) /\ x[c.section] # NoSection => ValueOf(y, c.section, c.item) = c[type]
               /\ ~IsScoped(c) => \A s \in Sections : SoleHolder(x, c.item, s) =>
                     ValueOf(y, s, c.item) = c[type]
<1> DEFINE c == Changes[i]
           y == Switched(x, c, type, order)
           s == CHOOSE q \in Found(x, c, order) : TRUE
<1>1. /\ c.item \in Keys /\ c[type] \in Values \cup {None}
      /\ IsScoped(c) => c.section \in Sections
    BY ChangeTyping DEF Types
<1> HIDE DEF c
<1>2. \A q \in Sections, k \in Keys : Has(x, q, k) <=> ValueOf(x, q, k) # Absent
    BY DEF Has, ValueOf
<1>3. CASE Found(x, c, order) = {}
    <2>1. y = x
        BY <1>3 DEF Switched
    <2>2. IsScoped(c) => x[c.section] = NoSection
        BY <1>3 DEF Found, IsScoped
    <2>3. ~IsScoped(c) => \A q \in Sections : ~SoleHolder(x, c.item, q)
        <3> SUFFICES ASSUME ~IsScoped(c), NEW q \in Sections, SoleHolder(x, c.item, q)
                     PROVE  q \in Found(x, c, order)
            BY <1>3
        <3>1. order[q] <= order[q]
            OBVIOUS
        <3> QED BY <1>1, <1>2, <3>1 DEF Found, IsScoped, SoleHolder
    <2> HIDE DEF y
    <2> QED BY <2>1, <2>2, <2>3 DEF c, y
<1>4. CASE Found(x, c, order) # {}
    <2>1. s \in Found(x, c, order)
        BY <1>4
    <2>2. s \in Sections /\ Reaches(x, c, s, c.item) /\ x[s] # NoSection
        BY <1>1, <1>2, <2>1 DEF Found, IsScoped, Reaches, Has
    <2>3. y = Set(x, s, c.item, c[type])
        BY <1>4 DEF Switched
    <2> HIDE DEF s, y
    <2>4. /\ y \in MemInis
          /\ \A t \in Sections, k \in Keys :
                ValueOf(y, t, k) = IF t = s /\ k = c.item THEN c[type] ELSE ValueOf(x, t, k)
          /\ \A t \in Sections : y[t] = NoSection <=> t # s /\ x[t] = NoSection
        BY <1>1, <2>2, <2>3, SetFacts
    <2>5. IsScoped(c) => s = c.section
        BY <2>2 DEF Reaches
    <2>6. ASSUME ~IsScoped(c), NEW q \in Sections, SoleHolder(x, c.item, q) PROVE q = s
        BY <2>2, <2>6 DEF Reaches, SoleHolder
    <2> QED BY <1>1, <2>2, <2>4, <2>5, <2>6 DEF c, y
<1> QED BY <1>3, <1>4

\* The fold is the last of seven turns.
LEMMA SetConfigSteps ==
    ASSUME NEW ini \in MemInis, NEW type \in Types, NEW order \in [Sections -> Nat]
    PROVE  \E g \in [0..N -> MemInis] :
              /\ g[0] = ini
              /\ \A k \in 1..N : g[k] = Switched(g[k - 1], Changes[k], type, order)
              /\ SetConfig(ini, type, order) = g[N]
<1> DEFINE V == MemInis
           step == [p \in (1..N) \X V |-> Switched(p[2], Changes[p[1]], type, order)]
           Turn(h, s) == IF s = {} THEN ini ELSE Switched(h[s \ {Max(s)}], Changes[Max(s)], type, order)
           fold == CHOOSE h : h = [s \in SUBSET (1..N) |-> Turn(h, s)]
<1>1. N \in Nat /\ DOMAIN Changes = 1..N
    BY ChangeTyping
<1>2. \A i \in 1..N, x \in V : Switched(x, Changes[i], type, order) \in V
    BY SwitchedFacts
<1>3. step \in [(1..N) \X V -> V] /\ ini \in V
    <2>1. \A p \in (1..N) \X V : Switched(p[2], Changes[p[1]], type, order) \in V
        <3> HIDE DEF V
        <3> QED BY <1>2
    <2> QED BY <2>1
<1>4. PICK h \in [SUBSET (1..N) -> V] : FollowsSets(h, N, ini, step)
    <2> HIDE DEF V, step
    <2> QED BY <1>1, <1>3, RecursionOnSets
<1>5. \A k \in 1..N, x \in V : step[<<k, x>>] = Switched(x, Changes[k], type, order)
    <2> HIDE DEF V
    <2> QED OBVIOUS
<1>6. h = [s \in SUBSET (1..N) |-> Turn(h, s)]
    <2>1. ASSUME NEW s \in SUBSET (1..N) PROVE h[s] = Turn(h, s)
        <3>1. CASE s = {}
            BY <1>4, <3>1 DEF FollowsSets
        <3>2. CASE s # {}
            <4> HIDE DEF V, step
            <4>1. Max(s) \in 1..N /\ s \ {Max(s)} \in SUBSET (1..N)
                BY <1>1, <3>2, MaxFacts
            <4>2. h[s \ {Max(s)}] \in V
                BY <1>4, <4>1
            <4>3. h[s] = step[<<Max(s), h[s \ {Max(s)}]>>]
                BY <1>4, <3>2 DEF FollowsSets
            <4> QED BY <1>5, <3>2, <4>1, <4>2, <4>3
        <3> QED BY <3>1, <3>2
    <2> HIDE DEF V, Turn
    <2> QED BY <1>4, <2>1
<1>7. fold = [s \in SUBSET (1..N) |-> Turn(fold, s)]
    <2> HIDE DEF V, Turn
    <2> QED BY <1>6
<1>8. SetConfig(ini, type, order) = fold[1..N]
    BY <1>1 DEF SetConfig, FoldLeft, MapThenFoldSet, Switched
<1> HIDE DEF fold
<1>9. FollowsIntervals(fold, N, V, ini, step)
    <2>1. fold[1..0] = ini
        <3>1. 1..0 = {} /\ {} \in SUBSET (1..N)
            OBVIOUS
        <3> QED BY <1>7, <3>1
    <2>2. ASSUME NEW k \in 1..N, fold[1..(k - 1)] \in V
          PROVE  fold[1..k] = step[<<k, fold[1..(k - 1)]>>]
        <3>1. 1..k \in SUBSET (1..N) /\ 1..k # {} /\ k \in Nat \ {0}
            <4>1. k \in 1..k /\ \A j \in 1..k : j \in 1..N
                BY DEF N
            <4> QED BY <4>1
        <3>2. Max(1..k) = k /\ (1..k) \ {k} = 1..(k - 1)
            BY <3>1, MaxOfInterval
        <3>3. fold[1..k] = Switched(fold[1..(k - 1)], Changes[k], type, order)
            BY <1>7, <3>1, <3>2
        <3> HIDE DEF V, step
        <3> QED BY <1>5, <2>2, <3>3
    <2> HIDE DEF V, step
    <2> QED BY <2>1, <2>2 DEF FollowsIntervals
<1>10. PICK g \in [0..N -> V] : Along(g, N, ini, step) /\ fold[1..N] = g[N]
    <2> HIDE DEF V, step
    <2>1. FoldsAlong(fold, N, V, ini, step)
        BY <1>1, <1>3, <1>9, FoldAlong
    <2> QED BY <2>1 DEF FoldsAlong
<1>11. \A k \in 1..N : g[k] = Switched(g[k - 1], Changes[k], type, order)
    <2>1. \A k \in 1..N : k - 1 \in 0..N
        BY DEF N
    <2> HIDE DEF V, step
    <2> QED BY <1>5, <1>10, <2>1 DEF Along
<1>12. g[0] = ini
    BY <1>10 DEF Along
<1> HIDE DEF V, step
<1> QED BY <1>8, <1>10, <1>11, <1>12 DEF V

\* What seven turns come to.
SetByNow(x, ini, type, k) ==
    /\ \A t \in Sections, key \in Keys :
          \/ ValueOf(x, t, key) = ValueOf(ini, t, key)
          \/ \E j \in 1..k : Reaches(ini, Changes[j], t, key) /\ ValueOf(x, t, key) = Changes[j][type]
    /\ \A t \in Sections : x[t] = NoSection <=> ini[t] = NoSection
    /\ \A j \in 1..k : LET c == Changes[j] IN
          /\ IsScoped(c) /\ ini[c.section] # NoSection => ValueOf(x, c.section, c.item) = c[type]
          /\ ~IsScoped(c) => \A s \in Sections : SoleHolder(ini, c.item, s) =>
                ValueOf(x, s, c.item) = c[type]

LEMMA SetConfigFacts ==
    ASSUME NEW ini \in MemInis, NEW type \in Types, NEW order \in [Sections -> Nat]
    PROVE  /\ SetConfig(ini, type, order) \in MemInis
           /\ SetByNow(SetConfig(ini, type, order), ini, type, N)
<1>1. PICK g \in [0..N -> MemInis] :
              /\ g[0] = ini
              /\ \A k \in 1..N : g[k] = Switched(g[k - 1], Changes[k], type, order)
              /\ SetConfig(ini, type, order) = g[N]
    BY SetConfigSteps
<1> DEFINE Sofar(k) == k <= N => SetByNow(g[k], ini, type, k)
           sofar == {k \in Nat : Sofar(k)}
<1>2. Sofar(0)
    <2>1. 1..0 = {}
        OBVIOUS
    <2> QED BY <1>1, <2>1 DEF SetByNow
<1>3. ASSUME NEW k \in Nat, Sofar(k) PROVE Sofar(k + 1)
    <2>1. SUFFICES ASSUME k + 1 <= N PROVE SetByNow(g[k + 1], ini, type, k + 1)
        OBVIOUS
    <2>2. /\ k + 1 \in 1..N /\ (k + 1) - 1 = k /\ k \in 0..N /\ k <= N
          /\ \A j \in 1..(k + 1) : j \in 1..k \/ j = k + 1
          /\ \A j \in 1..k : j \in 1..N /\ j # k + 1 /\ j \in 1..(k + 1)
          /\ k + 1 \in 1..(k + 1)
        BY <2>1 DEF N
    <2> DEFINE m == k + 1
               x == g[k]
               y == g[m]
               c == Changes[m]
    <2>3. x \in MemInis /\ y = Switched(x, c, type, order) /\ SetByNow(x, ini, type, k)
        BY <1>1, <1>3, <2>2
    <2>4. /\ c.item \in Keys
          /\ IsScoped(c) => c.section \in Sections
          /\ \A j \in 1..N : /\ Changes[j].item \in Keys
                             /\ IsScoped(Changes[j]) => Changes[j].section \in Sections
        BY <2>2, ChangeTyping
    <2>5. m \in 1..N /\ \A j \in 1..k : j \in 1..N /\ j # m /\ j \in 1..m
        BY <2>2
    <2>6. (\A j \in 1..m : j \in 1..k \/ j = m) /\ m \in 1..m
        BY <2>2
    <2> HIDE DEF x, y, m
    <2>7. /\ \A t \in Sections, key \in Keys :
                     \/ ValueOf(y, t, key) = ValueOf(x, t, key)
                     \/ Reaches(x, c, t, key) /\ ValueOf(y, t, key) = c[type]
          /\ \A t \in Sections : y[t] = NoSection <=> x[t] = NoSection
          /\ IsScoped(c) /\ x[c.section] # NoSection => ValueOf(y, c.section, c.item) = c[type]
          /\ ~IsScoped(c) => \A s \in Sections : SoleHolder(x, c.item, s) =>
                     ValueOf(y, s, c.item) = c[type]
        BY <2>3, <2>5, SwitchedFacts
    <2>8. \A j \in 1..k : \/ Changes[j].item # c.item
                          \/ /\ IsScoped(Changes[j]) /\ IsScoped(c)
                             /\ Changes[j].section # c.section
        BY <2>5, ChangesDiffer
    <2>9. \A t \in Sections, key \in Keys :
          \/ ValueOf(x, t, key) = ValueOf(ini, t, key)
          \/ \E j \in 1..k : Reaches(ini, Changes[j], t, key) /\ ValueOf(x, t, key) = Changes[j][type]
        BY <2>3 DEF SetByNow
    <2>10. ~IsScoped(c) => \A t \in Sections : ValueOf(x, t, c.item) = ValueOf(ini, t, c.item)
        BY <2>4, <2>8, <2>9 DEF Reaches
    <2> HIDE DEF c
    <2>11. \A t \in Sections, key \in Keys : Reaches(x, c, t, key) => Reaches(ini, c, t, key)
        BY <2>10 DEF Reaches
    <2>12. ASSUME NEW t \in Sections, NEW key \in Keys
           PROVE  \/ ValueOf(y, t, key) = ValueOf(ini, t, key)
                  \/ \E j \in 1..m : Reaches(ini, Changes[j], t, key)
                                     /\ ValueOf(y, t, key) = Changes[j][type]
        <3>1. CASE ValueOf(y, t, key) = ValueOf(x, t, key)
            BY <2>5, <2>9, <3>1
        <3>2. CASE Reaches(x, c, t, key) /\ ValueOf(y, t, key) = c[type]
            BY <2>6, <2>11, <3>2 DEF c
        <3> QED BY <2>7, <3>1, <3>2
    <2>13. \A t \in Sections : y[t] = NoSection <=> ini[t] = NoSection
        BY <2>3, <2>7 DEF SetByNow
    <2>14. ASSUME NEW j \in 1..k, IsScoped(Changes[j]), ini[Changes[j].section] # NoSection
           PROVE  ValueOf(y, Changes[j].section, Changes[j].item) = Changes[j][type]
        <3> DEFINE t == Changes[j].section
                   key == Changes[j].item
        <3>1. ValueOf(x, t, key) = Changes[j][type]
            BY <2>3, <2>14 DEF SetByNow
        <3>2. t \in Sections /\ key \in Keys /\ ~Reaches(x, c, t, key)
            BY <2>4, <2>5, <2>8, <2>14 DEF Reaches
        <3> HIDE DEF t, key
        <3>3. ValueOf(y, t, key) = ValueOf(x, t, key)
            BY <2>7, <3>2
        <3> QED BY <3>1, <3>3 DEF t, key
    <2>15. ASSUME NEW j \in 1..k, ~IsScoped(Changes[j]), NEW s \in Sections,
                  SoleHolder(ini, Changes[j].item, s)
           PROVE  ValueOf(y, s, Changes[j].item) = Changes[j][type]
        <3> DEFINE key == Changes[j].item
        <3>1. ValueOf(x, s, key) = Changes[j][type]
            BY <2>3, <2>15 DEF SetByNow
        <3>2. key \in Keys /\ ~Reaches(x, c, s, key)
            BY <2>4, <2>5, <2>8, <2>15 DEF Reaches
        <3> HIDE DEF key
        <3>3. ValueOf(y, s, key) = ValueOf(x, s, key)
            BY <2>7, <3>2
        <3> QED BY <3>1, <3>3 DEF key
    <2>16. IsScoped(c) /\ ini[c.section] # NoSection => ValueOf(y, c.section, c.item) = c[type]
        BY <2>3, <2>4, <2>7 DEF SetByNow
    <2>17. ~IsScoped(c) => \A s \in Sections : SoleHolder(ini, c.item, s) =>
                     ValueOf(y, s, c.item) = c[type]
        BY <2>7, <2>10 DEF SoleHolder
    <2>18. SetByNow(y, ini, type, m)
        BY <2>6, <2>12, <2>13, <2>14, <2>15, <2>16, <2>17 DEF SetByNow, c
    <2> QED BY <2>18 DEF y, m
<1>4. Sofar(N)
    <2> HIDE DEF Sofar
    <2>1. 0 \in sofar /\ \A k \in sofar \cap Nat : k + 1 \in sofar
        BY <1>2, <1>3
    <2>2. N \in sofar
        <3> HIDE DEF sofar
        <3> QED BY <2>1, InductionFromZero, ChangeTyping
    <2> QED BY <2>2
<1>5. N \in 0..N /\ N <= N
    BY DEF N
<1> QED BY <1>1, <1>4, <1>5
----------------------------------------------------------------------------
(* The additions *)

\* The physical sections are those that o has.
SameSections(ini, o) == \A s \in PhysSections : ini[s] = NoSection <=> o[s] = NoSection

Completed(x, c) == IF c.old = None THEN Set(x, c.section, c.item, c.new) ELSE x

LEMMA CompletedFacts ==
    ASSUME NEW x \in MemInis, NEW i \in 1..N
    PROVE  LET c == Changes[i]
               y == Completed(x, c)
           IN  /\ y \in MemInis
               /\ \A t \in Sections, k \in Keys :
                     ValueOf(y, t, k) = IF IsScoped(c) /\ t = c.section /\ k = c.item
                                        THEN c.new ELSE ValueOf(x, t, k)
               /\ SameSections(y, x)
<1> DEFINE c == Changes[i]
<1>0. PhysSections \subseteq Sections /\ c.section \notin PhysSections
    BY AimAssumption, ChangeTyping DEF ToSet
<1>1. /\ c.item \in Keys /\ c.new \in Values
      /\ IsScoped(c) => c.section \in Sections /\ c.old = None
      /\ ~IsScoped(c) => c.old # None
    BY ChangeTyping, NoneIsNoValue
<1> HIDE DEF c
<1>2. CASE IsScoped(c)
    BY <1>0, <1>1, <1>2, SetFacts DEF Completed, SameSections, c
<1>3. CASE ~IsScoped(c)
    BY <1>1, <1>3 DEF Completed, SameSections, c
<1> QED BY <1>2, <1>3

LEMMA AddMissingSteps ==
    ASSUME NEW ini \in MemInis
    PROVE  \E g \in [0..N -> MemInis] :
              /\ g[0] = ini
              /\ \A k \in 1..N : g[k] = Completed(g[k - 1], Changes[k])
              /\ AddMissing(ini) = g[N]
<1> DEFINE V == MemInis
           step == [p \in (1..N) \X V |-> Completed(p[2], Changes[p[1]])]
           Turn(h, s) == IF s = {} THEN ini ELSE Completed(h[s \ {Max(s)}], Changes[Max(s)])
           fold == CHOOSE h : h = [s \in SUBSET (1..N) |-> Turn(h, s)]
<1>1. N \in Nat /\ DOMAIN Changes = 1..N
    BY ChangeTyping
<1>2. \A i \in 1..N, x \in V : Completed(x, Changes[i]) \in V
    BY CompletedFacts
<1>3. step \in [(1..N) \X V -> V] /\ ini \in V
    <2>1. \A p \in (1..N) \X V : Completed(p[2], Changes[p[1]]) \in V
        <3> HIDE DEF V
        <3> QED BY <1>2
    <2> QED BY <2>1
<1>4. PICK h \in [SUBSET (1..N) -> V] : FollowsSets(h, N, ini, step)
    <2> HIDE DEF V, step
    <2> QED BY <1>1, <1>3, RecursionOnSets
<1>5. \A k \in 1..N, x \in V : step[<<k, x>>] = Completed(x, Changes[k])
    <2> HIDE DEF V
    <2> QED OBVIOUS
<1>6. h = [s \in SUBSET (1..N) |-> Turn(h, s)]
    <2>1. ASSUME NEW s \in SUBSET (1..N) PROVE h[s] = Turn(h, s)
        <3>1. CASE s = {}
            BY <1>4, <3>1 DEF FollowsSets
        <3>2. CASE s # {}
            <4> HIDE DEF V, step
            <4>1. Max(s) \in 1..N /\ s \ {Max(s)} \in SUBSET (1..N)
                BY <1>1, <3>2, MaxFacts
            <4>2. h[s \ {Max(s)}] \in V
                BY <1>4, <4>1
            <4>3. h[s] = step[<<Max(s), h[s \ {Max(s)}]>>]
                BY <1>4, <3>2 DEF FollowsSets
            <4> QED BY <1>5, <3>2, <4>1, <4>2, <4>3
        <3> QED BY <3>1, <3>2
    <2> HIDE DEF V, Turn
    <2> QED BY <1>4, <2>1
<1>7. fold = [s \in SUBSET (1..N) |-> Turn(fold, s)]
    <2> HIDE DEF V, Turn
    <2> QED BY <1>6
<1>8. AddMissing(ini) = fold[1..N]
    BY <1>1 DEF AddMissing, FoldLeft, MapThenFoldSet, Completed
<1> HIDE DEF fold
<1>9. FollowsIntervals(fold, N, V, ini, step)
    <2>1. fold[1..0] = ini
        <3>1. 1..0 = {} /\ {} \in SUBSET (1..N)
            OBVIOUS
        <3> QED BY <1>7, <3>1
    <2>2. ASSUME NEW k \in 1..N, fold[1..(k - 1)] \in V
          PROVE  fold[1..k] = step[<<k, fold[1..(k - 1)]>>]
        <3>1. 1..k \in SUBSET (1..N) /\ 1..k # {} /\ k \in Nat \ {0}
            <4>1. k \in 1..k /\ \A j \in 1..k : j \in 1..N
                BY DEF N
            <4> QED BY <4>1
        <3>2. Max(1..k) = k /\ (1..k) \ {k} = 1..(k - 1)
            BY <3>1, MaxOfInterval
        <3>3. fold[1..k] = Completed(fold[1..(k - 1)], Changes[k])
            BY <1>7, <3>1, <3>2
        <3> HIDE DEF V, step
        <3> QED BY <1>5, <2>2, <3>3
    <2> HIDE DEF V, step
    <2> QED BY <2>1, <2>2 DEF FollowsIntervals
<1>10. PICK g \in [0..N -> V] : Along(g, N, ini, step) /\ fold[1..N] = g[N]
    <2> HIDE DEF V, step
    <2>1. FoldsAlong(fold, N, V, ini, step)
        BY <1>1, <1>3, <1>9, FoldAlong
    <2> QED BY <2>1 DEF FoldsAlong
<1>11. \A k \in 1..N : g[k] = Completed(g[k - 1], Changes[k])
    <2>1. \A k \in 1..N : k - 1 \in 0..N
        BY DEF N
    <2> HIDE DEF V, step
    <2> QED BY <1>5, <1>10, <2>1 DEF Along
<1>12. g[0] = ini
    BY <1>10 DEF Along
<1> HIDE DEF V, step
<1> QED BY <1>8, <1>10, <1>11, <1>12 DEF V

\* What the additions come to.
AddedByNow(x, ini, k) ==
    /\ \A t \in Sections, key \in Keys :
          \/ ValueOf(x, t, key) = ValueOf(ini, t, key)
          \/ \E j \in 1..k : /\ IsScoped(Changes[j])
                             /\ t = Changes[j].section /\ key = Changes[j].item
    /\ \A j \in 1..k : LET c == Changes[j] IN
          IsScoped(c) => ValueOf(x, c.section, c.item) = c.new
    /\ SameSections(x, ini)

LEMMA AddMissingFacts ==
    ASSUME NEW ini \in MemInis
    PROVE  AddMissing(ini) \in MemInis /\ AddedByNow(AddMissing(ini), ini, N)
<1>1. PICK g \in [0..N -> MemInis] :
              /\ g[0] = ini
              /\ \A k \in 1..N : g[k] = Completed(g[k - 1], Changes[k])
              /\ AddMissing(ini) = g[N]
    BY AddMissingSteps
<1> DEFINE Sofar(k) == k <= N => AddedByNow(g[k], ini, k)
           sofar == {k \in Nat : Sofar(k)}
<1>2. Sofar(0)
    <2>1. 1..0 = {}
        OBVIOUS
    <2> QED BY <1>1, <2>1 DEF AddedByNow, SameSections
<1>3. ASSUME NEW k \in Nat, Sofar(k) PROVE Sofar(k + 1)
    <2>1. SUFFICES ASSUME k + 1 <= N PROVE AddedByNow(g[k + 1], ini, k + 1)
        OBVIOUS
    <2>2. /\ k + 1 \in 1..N /\ (k + 1) - 1 = k /\ k \in 0..N /\ k <= N
          /\ \A j \in 1..(k + 1) : j \in 1..k \/ j = k + 1
          /\ \A j \in 1..k : j \in 1..N /\ j # k + 1 /\ j \in 1..(k + 1)
          /\ k + 1 \in 1..(k + 1)
        BY <2>1 DEF N
    <2> DEFINE m == k + 1
               x == g[k]
               y == g[m]
               c == Changes[m]
    <2>3. x \in MemInis /\ y = Completed(x, c) /\ AddedByNow(x, ini, k)
        BY <1>1, <1>3, <2>2
    <2>4. \A j \in 1..N : /\ Changes[j].item \in Keys
                          /\ IsScoped(Changes[j]) => Changes[j].section \in Sections
        BY ChangeTyping
    <2>5. m \in 1..N /\ \A j \in 1..k : j \in 1..N /\ j # m /\ j \in 1..m
        BY <2>2
    <2>6. (\A j \in 1..m : j \in 1..k \/ j = m) /\ m \in 1..m
        BY <2>2
    <2> HIDE DEF x, y, m
    <2>7. \A t \in Sections, key \in Keys :
             ValueOf(y, t, key) = IF IsScoped(c) /\ t = c.section /\ key = c.item
                                  THEN c.new ELSE ValueOf(x, t, key)
        BY <2>3, <2>5, CompletedFacts
    <2>8. \A j \in 1..k : \/ Changes[j].item # c.item
                          \/ Changes[j].section # c.section
                          \/ ~IsScoped(c)
        BY <2>5, ChangesDiffer
    <2>9. c.item \in Keys /\ (IsScoped(c) => c.section \in Sections)
        BY <2>4, <2>5
    <2>10. ASSUME NEW t \in Sections, NEW key \in Keys
           PROVE  \/ ValueOf(y, t, key) = ValueOf(ini, t, key)
                  \/ \E j \in 1..m : /\ IsScoped(Changes[j])
                                     /\ t = Changes[j].section /\ key = Changes[j].item
        <3>1. CASE IsScoped(c) /\ t = c.section /\ key = c.item
            BY <2>6, <3>1
        <3>2. CASE ~ (IsScoped(c) /\ t = c.section /\ key = c.item)
            <4>1. ValueOf(y, t, key) = ValueOf(x, t, key)
                BY <2>7, <3>2
            <4> QED BY <2>3, <2>5, <4>1 DEF AddedByNow
        <3> QED BY <3>1, <3>2
    <2>11. ASSUME NEW j \in 1..k, IsScoped(Changes[j])
           PROVE  ValueOf(y, Changes[j].section, Changes[j].item) = Changes[j].new
        <3>1. ValueOf(x, Changes[j].section, Changes[j].item) = Changes[j].new
            BY <2>3, <2>11 DEF AddedByNow
        <3> HIDE DEF c
        <3> QED BY <2>4, <2>5, <2>7, <2>8, <2>11, <3>1
    <2>12. IsScoped(c) => ValueOf(y, c.section, c.item) = c.new
        <3> HIDE DEF c
        <3> QED BY <2>7, <2>9
    <2>13. SameSections(y, ini)
        <3>1. SameSections(y, x)
            BY <2>3, <2>5, CompletedFacts
        <3> QED BY <2>3, <3>1 DEF AddedByNow, SameSections
    <2>14. AddedByNow(y, ini, m)
        BY <2>6, <2>10, <2>11, <2>12, <2>13 DEF AddedByNow
    <2> QED BY <2>14 DEF y, m
<1>4. Sofar(N)
    <2> HIDE DEF Sofar
    <2>1. 0 \in sofar /\ \A k \in sofar \cap Nat : k + 1 \in sofar
        BY <1>2, <1>3
    <2>2. N \in sofar
        <3> HIDE DEF sofar
        <3> QED BY <2>1, InductionFromZero, ChangeTyping
    <2> QED BY <2>2
<1>5. N \in 0..N /\ N <= N
    BY DEF N
<1> QED BY <1>1, <1>4, <1>5

----------------------------------------------------------------------------
(* A file, in memory and written, next to what it was at the outset. *)

\* A file in memory after new_config or old_config.
Toggled(ini, f, type, order, added) ==
    LET changed == SetConfig(ini, type, order)
    IN  SetDownTime(f, IF added THEN AddMissing(changed) ELSE changed, type)

\* Options that the tool does not know are as in o.
Kept(ini, o) ==
    \A s \in Sections, k \in Keys : Mine(s, k) \/ ValueOf(ini, s, k) = ValueOf(o, s, k)

\* The unscoped items are in the sections that they are in in o, with values.
SameHolders(ini, o) ==
    \A i \in 1..N : ~IsScoped(Changes[i]) => \A s \in Sections :
        /\ ValueOf(ini, s, Changes[i].item) # Absent <=> ValueOf(o, s, Changes[i].item) # Absent
        /\ ValueOf(ini, s, Changes[i].item) # None

\* The unscoped items that are in one section of o are of a type.
UnscopedAre(ini, o, type) ==
    \A i \in 1..N : ~IsScoped(Changes[i]) => \A s \in Sections :
        SoleHolder(o, Changes[i].item, s) => ValueOf(ini, s, Changes[i].item) = Changes[i][type]

\* The scoped items are not of another type.
ScopedAre(ini, type) ==
    \A i \in 1..N : LET c == Changes[i] IN
        IsScoped(c) => ValueOf(ini, c.section, c.item) \in {c[type], Absent}

HasScoped(ini) ==
    \A i \in 1..N : LET c == Changes[i] IN
        IsScoped(c) => ValueOf(ini, c.section, c.item) = c.new

DownTimeIs(ini, type) == ValueOf(ini, "DEFAULT", "agent_down_time") = DownTime[type]

LEMMA IniFacts ==
    ASSUME NEW ini \in Inis
    PROVE  /\ ini \in MemInis
           /\ \A s \in Sections, k \in Keys : ValueOf(ini, s, k) \in Values \cup {Absent}
           /\ \A s \in Sections, k \in Keys : ValueOf(ini, s, k) # None
<1>1. \A s \in Sections : ini[s] \in {NoSection} \cup [Keys -> Values \cup {Absent}]
    BY DEF Inis
<1>2. [Keys -> Values \cup {Absent}] \subseteq [Keys -> Values \cup {Absent, None}]
    <2>1. Values \cup {Absent} \subseteq Values \cup {Absent, None}
        OBVIOUS
    <2> HIDE DEF Values
    <2> QED BY <2>1
<1>3. ini \in MemInis
    <2>1. \A s \in Sections : ini[s] \in {NoSection} \cup [Keys -> Values \cup {Absent, None}]
        BY <1>1, <1>2
    <2>2. ini = [s \in Sections |-> ini[s]]
        BY DEF Inis
    <2> QED BY <2>1, <2>2 DEF MemInis
<1>4. \A s \in Sections, k \in Keys : ValueOf(ini, s, k) \in Values \cup {Absent}
    BY <1>1 DEF ValueOf
<1> QED BY <1>3, <1>4, NoneIsNoValue

LEMMA UnscopedValues ==
    \A i \in 1..N, type \in Types : ~IsScoped(Changes[i]) =>
        Changes[i][type] \in Values /\ Changes[i][type] # None /\ Changes[i][type] # Absent
BY ChangeTyping, NoneIsNoValue DEF Types

LEMMA MineFacts ==
    /\ \A i \in 1..N, s \in Sections :
          ~IsScoped(Changes[i]) \/ Changes[i].section = s => Mine(s, Changes[i].item)
    /\ Mine("DEFAULT", "agent_down_time")
<1>1. \A i \in 1..N : Changes[i] \in ToSet(Changes)
    BY ChangeTyping DEF ToSet
<1> QED BY <1>1 DEF Mine, IsScoped

LEMMA SetDownTimeFacts ==
    ASSUME NEW ini \in MemInis, NEW f, NEW type \in Types
    PROVE  /\ SetDownTime(f, ini, type) \in MemInis
           /\ \A s \in Sections, k \in Keys :
                 \/ ValueOf(SetDownTime(f, ini, type), s, k) = ValueOf(ini, s, k)
                 \/ s = "DEFAULT" /\ k = "agent_down_time"
           /\ f = NeutronConf => DownTimeIs(SetDownTime(f, ini, type), type)
           /\ SameSections(SetDownTime(f, ini, type), ini)
<1>0. PhysSections \subseteq Sections \ {"DEFAULT"}
    BY AimAssumption
<1>1. /\ "DEFAULT" \in Sections /\ "agent_down_time" \in Keys
      /\ DownTime[type] \in Values \cup {None}
    BY FilesAssumption DEF Values
<1> DEFINE time == DownTime[type]
<1>2. time \in Values \cup {None}
    BY <1>1
<1> HIDE DEF time
<1>3. CASE f = NeutronConf
    <2>1. SetDownTime(f, ini, type) = Set(ini, "DEFAULT", "agent_down_time", time)
        BY <1>3 DEF SetDownTime, time
    <2> QED BY <1>0, <1>1, <1>2, <2>1, SetFacts DEF DownTimeIs, SameSections, time
<1>4. CASE f # NeutronConf
    BY <1>4 DEF SetDownTime, SameSections
<1> QED BY <1>3, <1>4

LEMMA ToggledFacts ==
    ASSUME NEW ini \in Inis, NEW f, NEW type \in Types, NEW order \in [Sections -> Nat],
           NEW added \in BOOLEAN, added => type = "new"
    PROVE  LET y == Toggled(ini, f, type, order, added) IN
              /\ y \in MemInis
              /\ Kept(y, ini) /\ SameHolders(y, ini) /\ UnscopedAre(y, ini, type)
              /\ ScopedAre(y, type)
              /\ added => HasScoped(y)
              /\ f = NeutronConf => DownTimeIs(y, type)
              /\ SameSections(y, ini)
<1> DEFINE x == SetConfig(ini, type, order)
           z == IF added THEN AddMissing(x) ELSE x
           y == SetDownTime(f, z, type)
<1>1. x \in MemInis /\ SetByNow(x, ini, type, N)
    BY IniFacts, SetConfigFacts
<1> HIDE DEF x
<1>2. /\ z \in MemInis
      /\ \A t \in Sections, key \in Keys :
            \/ ValueOf(z, t, key) = ValueOf(x, t, key)
            \/ \E j \in 1..N : /\ added /\ IsScoped(Changes[j])
                               /\ t = Changes[j].section /\ key = Changes[j].item
      /\ added => HasScoped(z)
      /\ SameSections(z, x)
    BY <1>1, AddMissingFacts DEF AddedByNow, HasScoped, SameSections
<1> HIDE DEF z
<1>3. /\ y \in MemInis
      /\ \A s \in Sections, k \in Keys :
            \/ ValueOf(y, s, k) = ValueOf(z, s, k)
            \/ s = "DEFAULT" /\ k = "agent_down_time"
      /\ f = NeutronConf => DownTimeIs(y, type)
      /\ SameSections(y, z)
    BY <1>2, SetDownTimeFacts
<1> HIDE DEF y
<1>4. \A i \in 1..N : /\ Changes[i].item \in Keys /\ Changes[i].item # "agent_down_time"
                      /\ IsScoped(Changes[i]) => Changes[i].section \in Sections
    BY ChangeTyping
<1>5. \A i \in 1..N, s \in Sections :
         ValueOf(y, s, Changes[i].item) = ValueOf(z, s, Changes[i].item)
    BY <1>3, <1>4
<1>6. \A i \in 1..N, s \in Sections : ~IsScoped(Changes[i]) =>
         ValueOf(y, s, Changes[i].item) = ValueOf(x, s, Changes[i].item)
    BY <1>2, <1>4, <1>5, ChangesDiffer
<1>7. ASSUME NEW s \in Sections, NEW k \in Keys, ~Mine(s, k)
      PROVE  ValueOf(y, s, k) = ValueOf(ini, s, k)
    <2>1. ValueOf(y, s, k) = ValueOf(z, s, k)
        BY <1>3, <1>7, MineFacts
    <2>2. ValueOf(z, s, k) = ValueOf(x, s, k)
        BY <1>2, <1>7, MineFacts
    <2>3. ValueOf(x, s, k) = ValueOf(ini, s, k)
        BY <1>1, <1>7, MineFacts DEF SetByNow, Reaches
    <2> QED BY <2>1, <2>2, <2>3
<1>8. Kept(y, ini)
    BY <1>7 DEF Kept
<1>9. SameHolders(y, ini)
    <2> SUFFICES ASSUME NEW i \in 1..N, ~IsScoped(Changes[i]), NEW s \in Sections
                 PROVE  LET key == Changes[i].item IN
                           /\ ValueOf(y, s, key) # Absent <=> ValueOf(ini, s, key) # Absent
                           /\ ValueOf(y, s, key) # None
        BY DEF SameHolders
    <2> DEFINE key == Changes[i].item
    <2>1. key \in Keys /\ ValueOf(y, s, key) = ValueOf(x, s, key)
        BY <1>4, <1>6
    <2>2. ValueOf(ini, s, key) # None
        BY <2>1, IniFacts
    <2> HIDE DEF key
    <2>3. CASE ValueOf(x, s, key) = ValueOf(ini, s, key)
        BY <2>1, <2>2, <2>3 DEF key
    <2>4. ASSUME NEW j \in 1..N, Reaches(ini, Changes[j], s, key),
                 ValueOf(x, s, key) = Changes[j][type]
          PROVE  ValueOf(ini, s, key) # Absent /\ ValueOf(x, s, key) # Absent /\ ValueOf(x, s, key) # None
        <3>1. key = Changes[j].item
            BY <2>4 DEF Reaches
        <3>2. ~IsScoped(Changes[j])
            BY <3>1, ChangesDiffer DEF key
        <3> QED BY <2>4, <3>2, UnscopedValues DEF Reaches
    <2> QED BY <1>1, <2>1, <2>3, <2>4 DEF SetByNow, key
<1>10. UnscopedAre(y, ini, type)
    BY <1>1, <1>6 DEF UnscopedAre, SetByNow
<1>11. ScopedAre(y, type)
    <2> SUFFICES ASSUME NEW i \in 1..N, IsScoped(Changes[i])
                 PROVE  ValueOf(y, Changes[i].section, Changes[i].item) \in {Changes[i][type], Absent}
        BY DEF ScopedAre
    <2> DEFINE c == Changes[i]
    <2>1. c.section \in Sections /\ ValueOf(y, c.section, c.item) = ValueOf(z, c.section, c.item)
        BY <1>4, <1>5
    <2>2. CASE added
        BY <1>2, <2>1, <2>2, ChangeValues DEF HasScoped
    <2>3. CASE ~added
        <3>1. ValueOf(z, c.section, c.item) = ValueOf(x, c.section, c.item)
            BY <1>2, <1>4, <2>1, <2>3
        <3>2. CASE ini[c.section] = NoSection
            <4>1. x[c.section] = NoSection
                BY <1>1, <2>1, <3>2 DEF SetByNow
            <4> QED BY <2>1, <3>1, <4>1 DEF ValueOf
        <3>3. CASE ini[c.section] # NoSection
            BY <1>1, <2>1, <3>1, <3>3 DEF SetByNow
        <3> QED BY <3>2, <3>3
    <2> QED BY <2>2, <2>3
<1>12. added => HasScoped(y)
    BY <1>2, <1>4, <1>5 DEF HasScoped
<1>13. SameSections(y, ini)
    <2>1. \A s \in PhysSections : x[s] = NoSection <=> ini[s] = NoSection
        BY <1>1, AimAssumption DEF SetByNow
    <2> QED BY <1>2, <1>3, <2>1 DEF SameSections
<1>14. Toggled(ini, f, type, order, added) = y
    BY DEF Toggled, x, y, z
<1> QED BY <1>3, <1>8, <1>9, <1>10, <1>11, <1>12, <1>13, <1>14

LEMMA WrittenFacts ==
    ASSUME NEW ini \in MemInis
    PROVE  /\ Written(ini) \in Inis
           /\ \A s \in Sections, k \in Keys :
                 ValueOf(Written(ini), s, k)
                     = IF ValueOf(ini, s, k) = None THEN Absent ELSE ValueOf(ini, s, k)
           /\ SameSections(Written(ini), ini)
<1> DEFINE row(s) == [k \in Keys |-> IF ini[s][k] = None THEN Absent ELSE ini[s][k]]
<1>1. \A s \in Sections : ini[s] # NoSection => row(s) \in [Keys -> Values \cup {Absent}]
    <2>1. \A s \in Sections, k \in Keys : ini[s] # NoSection => ini[s][k] \in Values \cup {Absent, None}
        BY DEF MemInis
    <2> QED BY <2>1
<1>2. \A s \in Sections : row(s) # NoSection \/ ini[s] = NoSection
    <2>1. \A r \in [Keys -> Values \cup {Absent}] : r # NoSection
        <3>1. \A r \in [Keys -> Values \cup {Absent}] : r \in [Keys -> Values \cup {Absent, None}]
            OBVIOUS
        <3> QED BY <3>1, FilesAssumption
    <2> HIDE DEF row
    <2> QED BY <1>1, <2>1
<1>3. \A s \in Sections, k \in Keys : row(s)[k] = IF ini[s][k] = None THEN Absent ELSE ini[s][k]
    OBVIOUS
<1>4. Written(ini) = [s \in Sections |-> IF ini[s] = NoSection THEN NoSection ELSE row(s)]
    BY DEF Written
<1> HIDE DEF row
<1>5. Written(ini) \in Inis
    BY <1>1, <1>4 DEF Inis
<1>6. \A s \in Sections : Written(ini)[s] = IF ini[s] = NoSection THEN NoSection ELSE row(s)
    BY <1>4
<1>7. SameSections(Written(ini), ini)
    BY <1>2, <1>6, AimAssumption DEF SameSections
<1> QED BY <1>2, <1>3, <1>5, <1>6, <1>7, NoneIsNoValue DEF ValueOf

----------------------------------------------------------------------------
(* The invariant *)

\* A file that is not being written, was never damaged, and was o at the outset.
GoodFile(ini, o) ==
    /\ ini \in Inis /\ Kept(ini, o) /\ SameHolders(ini, o) /\ SameSections(ini, o)
    /\ ini = o \/ \E type \in Types : UnscopedAre(ini, o, type)

GoodMem(ini, o, type) ==
    Kept(ini, o) /\ SameHolders(ini, o) /\ SameSections(ini, o) /\ UnscopedAre(ini, o, type)

\* All files in memory, as far as it does not depend on what they were.
AllChanged(files, type) ==
    /\ \A f \in Files : ScopedAre(files[f], type)
    /\ type = "new" => \E f \in Files : HasScoped(files[f])
    /\ DownTimeIs(files[NeutronConf], type)

Typed ==
    /\ original \in [Files -> Inis] /\ disk \in [Files -> Inis \cup {Broken}]
    /\ mem \in [Files -> MemInis]
    /\ command \in Types \cup {"none"} /\ last \in Types \cup {"none"}
    /\ headless \subseteq Files /\ left \subseteq Files /\ open \in left \cup {NoFile}
    /\ damaged \subseteq Files /\ pristine \subseteq Files
    /\ command = "none" => left = {}
    /\ command # "none" => last = "none"

DiskGood == \A f \in Files \ (damaged \cup {open}) : GoodFile(disk[f], original[f])

MemGood ==
    command # "none" =>
        /\ \A f \in Files \ damaged : GoodMem(mem[f], original[f], command)
        /\ AllChanged(mem, command)
        /\ \A f \in Files \ left : disk[f] = Written(mem[f])

\* What a completed toggle has left.
DiskDone ==
    last # "none" /\ damaged = {} =>
        /\ \A f \in Files : UnscopedAre(disk[f], original[f], last)
        /\ \E m \in [Files -> MemInis] :
              AllChanged(m, last) /\ disk = [f \in Files |-> Written(m[f])]

ToggleInv == Typed /\ DiskGood /\ MemGood /\ DiskDone

LEMMA OriginalIsGood == \A o \in Inis : GoodFile(o, o)
BY IniFacts, ChangeTyping DEF GoodFile, Kept, SameHolders, SameSections

LEMMA GoodWritten ==
    ASSUME NEW m \in MemInis, NEW o \in Inis, NEW type \in Types, GoodMem(m, o, type)
    PROVE  GoodFile(Written(m), o) /\ UnscopedAre(Written(m), o, type)
<1> DEFINE w == Written(m)
<1>1. /\ w \in Inis
      /\ \A s \in Sections, k \in Keys :
            ValueOf(w, s, k) = IF ValueOf(m, s, k) = None THEN Absent ELSE ValueOf(m, s, k)
      /\ SameSections(w, m)
    BY WrittenFacts
<1> HIDE DEF w
<1>2. Kept(w, o)
    BY <1>1, IniFacts DEF GoodMem, Kept
<1>3. \A i \in 1..N : ~IsScoped(Changes[i]) => \A s \in Sections :
         ValueOf(w, s, Changes[i].item) = ValueOf(m, s, Changes[i].item)
    BY <1>1, ChangeTyping DEF GoodMem, SameHolders
<1>4. SameHolders(w, o) /\ UnscopedAre(w, o, type)
    BY <1>3 DEF GoodMem, SameHolders, UnscopedAre
<1>5. SameSections(w, o)
    BY <1>1 DEF GoodMem, SameSections
<1> QED BY <1>1, <1>2, <1>4, <1>5 DEF GoodFile, w

LEMMA GoodToggled ==
    ASSUME NEW ini, NEW o \in Inis, GoodFile(ini, o), NEW f, NEW type \in Types,
           NEW order \in [Sections -> Nat], NEW added \in BOOLEAN, added => type = "new"
    PROVE  GoodMem(Toggled(ini, f, type, order, added), o, type)
<1> DEFINE y == Toggled(ini, f, type, order, added)
<1>1. ini \in Inis /\ Kept(ini, o) /\ SameHolders(ini, o) /\ SameSections(ini, o)
    BY DEF GoodFile
<1>2. Kept(y, ini) /\ SameHolders(y, ini) /\ SameSections(y, ini) /\ UnscopedAre(y, ini, type)
    BY <1>1, ToggledFacts
<1> HIDE DEF y
<1>3. Kept(y, o)
    BY <1>1, <1>2 DEF Kept
<1>4. SameHolders(y, o)
    BY <1>1, <1>2 DEF SameHolders
<1>5. UnscopedAre(y, o, type)
    BY <1>1, <1>2 DEF SameHolders, UnscopedAre, SoleHolder
<1>6. SameSections(y, o)
    BY <1>1, <1>2 DEF SameSections
<1> QED BY <1>3, <1>4, <1>5, <1>6 DEF GoodMem, y

LEMMA NoIniTyped == NoIni \in Inis /\ NoIni \in MemInis
<1>1. NoIni \in Inis
    BY DEF NoIni, Inis
<1> QED BY <1>1, IniFacts

LEMMA ToggleInit == Init => ToggleInv
<1> SUFFICES ASSUME Init PROVE ToggleInv
    OBVIOUS
<1>1. disk \in [Files -> Inis]
    BY FilesAssumption DEF Init
<1>2. Typed
    <2>1. mem \in [Files -> MemInis]
        BY NoIniTyped DEF Init
    <2>2. [Files -> Inis] \subseteq [Files -> Inis \cup {Broken}]
        <3> HIDE DEF Inis
        <3> QED OBVIOUS
    <2> QED BY <1>1, <2>1, <2>2 DEF Init, Typed
<1>3. DiskGood
    BY <1>1, OriginalIsGood DEF Init, DiskGood
<1>4. MemGood /\ DiskDone
    BY DEF Init, MemGood, DiskDone
<1> QED BY <1>2, <1>3, <1>4 DEF ToggleInv

LEMMA ToggleStep == ASSUME ToggleInv, NEW type \in Types, Toggle(type) PROVE ToggleInv'
<1>1. /\ command = "none" /\ \A f \in Files : disk[f] # Broken
      /\ command' = type /\ headless' = {f \in Files : disk[f] = NoIni} /\ left' = Files
      /\ last' = "none"
      /\ UNCHANGED <<disk, open, damaged, pristine, original>>
    BY DEF Toggle
<1>2. PICK orders \in [Files -> DictOrders], first \in Files :
          mem' = [f \in Files |-> Toggled(disk[f], f, type, orders[f], type = "new" /\ f = first)]
    BY DEF Toggle, Toggled
<1>3. \A f \in Files : disk[f] \in Inis /\ original[f] \in Inis /\ orders[f] \in [Sections -> Nat]
    BY <1>1, FilesAssumption DEF ToggleInv, Typed
<1>4. open = NoFile /\ left = {} /\ type # "none"
    BY <1>1 DEF ToggleInv, Typed, Types
<1>5. \A f \in Files : mem'[f] = Toggled(disk[f], f, type, orders[f], type = "new" /\ f = first)
    BY <1>2
<1>6. \A f \in Files : /\ mem'[f] \in MemInis
                       /\ ScopedAre(mem'[f], type)
                       /\ type = "new" /\ f = first => HasScoped(mem'[f])
                       /\ f = NeutronConf => DownTimeIs(mem'[f], type)
    <2> SUFFICES ASSUME NEW f \in Files
                 PROVE  /\ mem'[f] \in MemInis
                        /\ ScopedAre(mem'[f], type)
                        /\ type = "new" /\ f = first => HasScoped(mem'[f])
                        /\ f = NeutronConf => DownTimeIs(mem'[f], type)
        OBVIOUS
    <2> DEFINE added == type = "new" /\ f = first
    <2>1. added \in BOOLEAN /\ (added => type = "new")
        OBVIOUS
    <2>2. mem'[f] = Toggled(disk[f], f, type, orders[f], added)
        BY <1>5
    <2>3. type = "new" /\ f = first => added
        OBVIOUS
    <2> HIDE DEF added
    <2> QED BY <1>3, <2>1, <2>2, <2>3, ToggledFacts
<1>7. \A f \in Files \ damaged : GoodMem(mem'[f], original[f], type)
    <2> SUFFICES ASSUME NEW f \in Files \ damaged PROVE GoodMem(mem'[f], original[f], type)
        OBVIOUS
    <2> DEFINE added == type = "new" /\ f = first
    <2>1. added \in BOOLEAN /\ (added => type = "new")
        OBVIOUS
    <2>2. mem'[f] = Toggled(disk[f], f, type, orders[f], added)
        BY <1>5
    <2>3. f # NoFile
        BY FilesAssumption
    <2>4. GoodFile(disk[f], original[f])
        BY <1>4, <2>3 DEF ToggleInv, DiskGood
    <2> HIDE DEF added
    <2> QED BY <1>3, <2>1, <2>2, <2>4, GoodToggled
<1>8. AllChanged(mem', type)
    BY <1>6, FilesAssumption DEF AllChanged
<1>9. Typed'
    <2>1. mem' \in [Files -> MemInis]
        BY <1>2, <1>6
    <2>2. open' \in left' \cup {NoFile} /\ headless' \subseteq Files
        BY <1>1, <1>4
    <2> QED BY <1>1, <1>4, <2>1, <2>2 DEF ToggleInv, Typed
<1>10. DiskGood'
    BY <1>1 DEF ToggleInv, DiskGood
<1>11. MemGood'
    BY <1>1, <1>7, <1>8 DEF MemGood
<1>12. DiskDone'
    BY <1>1 DEF DiskDone
<1> QED BY <1>9, <1>10, <1>11, <1>12 DEF ToggleInv

LEMMA OpenStep == ASSUME ToggleInv, NEW f \in Files, OpenFile(f) PROVE ToggleInv'
<1>1. /\ command # "none" /\ open = NoFile /\ f \in left /\ open' = f
      /\ disk' = [disk EXCEPT ![f] = NoIni] /\ last = "none"
      /\ UNCHANGED <<command, mem, headless, left, last, damaged, original>>
      /\ pristine' = pristine \ {f}
    BY DEF OpenFile, ToggleInv, Typed
<1>2. \A g \in Files : disk'[g] = IF g = f THEN NoIni ELSE disk[g]
    BY <1>1 DEF ToggleInv, Typed
<1>3. disk' \in [Files -> Inis \cup {Broken}]
    <2>1. disk \in [Files -> Inis \cup {Broken}] /\ NoIni \in Inis \cup {Broken}
        BY NoIniTyped DEF ToggleInv, Typed
    <2> HIDE DEF Inis, NoIni
    <2> QED BY <1>1, <2>1
<1>4. Typed'
    BY <1>1, <1>3 DEF ToggleInv, Typed
<1>5. DiskGood'
    BY <1>1, <1>2, FilesAssumption DEF ToggleInv, DiskGood
<1>6. MemGood'
    BY <1>1, <1>2 DEF ToggleInv, MemGood
<1>7. DiskDone'
    BY <1>1 DEF DiskDone
<1> QED BY <1>4, <1>5, <1>6, <1>7 DEF ToggleInv

LEMMA CloseStep == ToggleInv /\ CloseFile => ToggleInv'
<1> SUFFICES ASSUME ToggleInv, CloseFile PROVE ToggleInv'
    OBVIOUS
<1>1. /\ open \in left /\ open \in Files
      /\ disk' = [disk EXCEPT ![open] = Written(mem[open])]
      /\ left' = left \ {open} /\ open' = NoFile
      /\ UNCHANGED <<command, mem, headless, last, damaged, pristine, original>>
    BY DEF CloseFile, ToggleInv, Typed
<1>2. command # "none" /\ command \in Types /\ last = "none"
    BY <1>1 DEF ToggleInv, Typed
<1>3. \A g \in Files : disk'[g] = IF g = open THEN Written(mem[open]) ELSE disk[g]
    BY <1>1 DEF ToggleInv, Typed
<1>4. mem[open] \in MemInis /\ original[open] \in Inis
    BY <1>1 DEF ToggleInv, Typed
<1>5. Written(mem[open]) \in Inis
    BY <1>4, WrittenFacts
<1>6. disk' \in [Files -> Inis \cup {Broken}]
    <2>1. disk \in [Files -> Inis \cup {Broken}]
        BY DEF ToggleInv, Typed
    <2> DEFINE w == Written(mem[open])
    <2>2. w \in Inis \cup {Broken} /\ disk' = [disk EXCEPT ![open] = w]
        BY <1>1, <1>5
    <2> HIDE DEF w
    <2> QED BY <2>1, <2>2
<1>7. Typed'
    BY <1>1, <1>2, <1>6 DEF ToggleInv, Typed
<1>8. open \notin damaged => GoodFile(Written(mem[open]), original[open])
    BY <1>1, <1>2, <1>4, GoodWritten DEF ToggleInv, MemGood
<1>9. DiskGood'
    BY <1>1, <1>3, <1>8 DEF ToggleInv, DiskGood
<1>10. MemGood'
    BY <1>1, <1>3 DEF ToggleInv, MemGood
<1>11. DiskDone'
    BY <1>1, <1>2 DEF DiskDone
<1> QED BY <1>7, <1>9, <1>10, <1>11 DEF ToggleInv

\* With nothing left to write, what was in memory is on the disk.
LEMMA DoneStep == ToggleInv /\ Done => ToggleInv'
<1> SUFFICES ASSUME ToggleInv, Done PROVE ToggleInv'
    OBVIOUS
<1>1. /\ command # "none" /\ command \in Types /\ left = {} /\ last' = command /\ command' = "none"
      /\ left' = {} /\ open' = NoFile /\ headless' = {} /\ mem' = [f \in Files |-> NoIni]
      /\ UNCHANGED <<disk, damaged, pristine, original>>
    BY DEF Done, Stop, ToggleInv, Typed
<1>2. Typed'
    <2>1. mem' \in [Files -> MemInis]
        BY <1>1, NoIniTyped
    <2> QED BY <1>1, <2>1 DEF ToggleInv, Typed
<1>3. open = NoFile
    BY <1>1 DEF ToggleInv, Typed
<1>4. DiskGood' /\ MemGood'
    BY <1>1, <1>3 DEF ToggleInv, DiskGood, MemGood
<1>5. /\ AllChanged(mem, command) /\ mem \in [Files -> MemInis] /\ original \in [Files -> Inis]
      /\ \A f \in Files \ damaged : GoodMem(mem[f], original[f], command)
      /\ \A f \in Files : disk[f] = Written(mem[f])
    BY <1>1 DEF ToggleInv, MemGood, Typed
<1>6. disk = [f \in Files |-> Written(mem[f])]
    <2>1. disk = [f \in Files |-> disk[f]]
        BY DEF ToggleInv, Typed
    <2> QED BY <1>5, <2>1
<1>7. damaged = {} => \A f \in Files : UnscopedAre(disk[f], original[f], command)
    <2> SUFFICES ASSUME damaged = {}, NEW f \in Files PROVE UnscopedAre(disk[f], original[f], command)
        OBVIOUS
    <2>1. mem[f] \in MemInis /\ original[f] \in Inis /\ GoodMem(mem[f], original[f], command)
        BY <1>5
    <2> QED BY <1>1, <1>5, <2>1, GoodWritten
<1>8. DiskDone'
    BY <1>1, <1>5, <1>6, <1>7 DEF DiskDone
<1> QED BY <1>2, <1>4, <1>8 DEF ToggleInv

\* Whatever part of a file was written, it is damaged.
LEMMA PartsTyped == ASSUME NEW ini \in MemInis, NEW part \in Parts(ini) PROVE part \in Inis
<1> DEFINE cuts == {0} \cup {o[s] + 1 : o \in DictOrders, s \in Sections}
           cut(order, n) == [s \in Sections |-> IF order[s] < n THEN Written(ini)[s] ELSE NoSection]
<1>1. PICK order \in DictOrders, n \in cuts : part = cut(order, n)
    <2>1. Parts(ini) = {cut(order, n) : order \in DictOrders, n \in cuts}
        BY DEF Parts
    <2> HIDE DEF cuts, cut
    <2> QED BY <2>1
<1>2. Written(ini) \in Inis
    BY WrittenFacts
<1>3. \A s \in Sections : Written(ini)[s] \in {NoSection} \cup [Keys -> Values \cup {Absent}]
    BY <1>2 DEF Inis
<1> QED BY <1>1, <1>3 DEF Inis

LEMMA StopStep ==
    ASSUME ToggleInv, command # "none", Stop, UNCHANGED <<last, pristine, original>>,
           \/ open = NoFile /\ UNCHANGED <<disk, damaged>>
           \/ /\ open # NoFile /\ damaged' = damaged \cup {open}
              /\ \E part \in Inis \cup {Broken} : disk' = [disk EXCEPT ![open] = part]
    PROVE  ToggleInv'
<1>1. /\ last = "none" /\ last' = "none" /\ command' = "none" /\ left' = {} /\ open' = NoFile
      /\ headless' = {} /\ mem' = [f \in Files |-> NoIni] /\ original' = original
      /\ pristine' = pristine
    BY DEF Stop, ToggleInv, Typed
<1>2. disk' \in [Files -> Inis \cup {Broken}] /\ damaged' \subseteq Files
    <2>1. disk \in [Files -> Inis \cup {Broken}] /\ damaged \subseteq Files
          /\ (open # NoFile => open \in Files)
        BY DEF ToggleInv, Typed
    <2> HIDE DEF Inis
    <2> QED BY <2>1
<1>3. Typed'
    <2>1. mem' \in [Files -> MemInis]
        BY <1>1, NoIniTyped
    <2> QED BY <1>1, <1>2, <2>1 DEF ToggleInv, Typed
<1>4. \A f \in Files \ (damaged' \cup {open'}) : f \notin damaged \cup {open} /\ disk'[f] = disk[f]
    <2>1. DOMAIN disk = Files
        BY DEF ToggleInv, Typed
    <2> QED BY <1>1, <2>1, FilesAssumption
<1>5. DiskGood'
    BY <1>1, <1>4 DEF ToggleInv, DiskGood
<1>6. MemGood' /\ DiskDone'
    BY <1>1 DEF MemGood, DiskDone
<1> QED BY <1>3, <1>5, <1>6 DEF ToggleInv

LEMMA KillStep == ToggleInv /\ (Kill \/ WriteFails) => ToggleInv'
<1> SUFFICES ASSUME ToggleInv, Kill \/ WriteFails PROVE ToggleInv'
    OBVIOUS
<1>1. open # NoFile => open \in Files /\ mem[open] \in MemInis /\ command # "none"
    BY DEF ToggleInv, Typed
<1>2. open # NoFile => Parts(mem[open]) \subseteq Inis
    BY <1>1, PartsTyped
<1>3. CASE Kill
    BY <1>2, <1>3, StopStep DEF Kill
<1>4. CASE WriteFails
    <2>1. open # NoFile
        BY <1>4, FilesAssumption DEF WriteFails, ToggleInv, Typed
    <2> QED BY <1>1, <1>2, <1>4, <2>1, StopStep DEF WriteFails
<1> QED BY <1>3, <1>4

LEMMA RestoreStep == ASSUME ToggleInv, NEW f \in Files, Restore(f) PROVE ToggleInv'
<1>1. /\ command = "none" /\ f \in damaged /\ disk' = [disk EXCEPT ![f] = original[f]]
      /\ damaged' = damaged \ {f} /\ last' = "none" /\ open = NoFile /\ left = {}
      /\ UNCHANGED <<command, mem, headless, left, open, original>>
      /\ pristine' = pristine \cup {f}
    BY DEF Restore, ToggleInv, Typed
<1>2. original[f] \in Inis
    BY DEF ToggleInv, Typed
<1>3. disk' \in [Files -> Inis \cup {Broken}]
    <2>1. disk \in [Files -> Inis \cup {Broken}]
        BY DEF ToggleInv, Typed
    <2> HIDE DEF Inis
    <2> QED BY <1>1, <1>2, <2>1
<1>4. Typed'
    BY <1>1, <1>3 DEF ToggleInv, Typed
<1>5. \A g \in Files : disk'[g] = IF g = f THEN original[f] ELSE disk[g]
    BY <1>1 DEF ToggleInv, Typed
<1>6. GoodFile(original[f], original[f])
    BY <1>2, OriginalIsGood
<1>7. DiskGood'
    BY <1>1, <1>5, <1>6 DEF ToggleInv, DiskGood
<1>8. MemGood' /\ DiskDone'
    BY <1>1 DEF MemGood, DiskDone
<1> QED BY <1>4, <1>7, <1>8 DEF ToggleInv

LEMMA ToggleNext == ToggleInv /\ [Next]_vars => ToggleInv'
<1> SUFFICES ASSUME ToggleInv, [Next]_vars PROVE ToggleInv'
    OBVIOUS
<1>1. CASE UNCHANGED vars
    BY <1>1 DEF vars, ToggleInv, Typed, DiskGood, MemGood, DiskDone
<1> QED BY <1>1, ToggleStep, OpenStep, CloseStep, DoneStep, KillStep, RestoreStep DEF Next

----------------------------------------------------------------------------
(* With aim-config in between. *)

GeneratedFiles == {"aim", "aimctl"}

\* What aim-config works on: files that are like those of the outset, in some order.
LikeOriginal(in) ==
    /\ in.order \in Orders
    /\ \A f \in Files : GoodFile(in.inis[f], original[f])

ToolInv ==
    /\ ToggleInv
    /\ original \in Originals
    /\ stage \in {"idle", "aim", "aimctl", "done"}
    /\ command # "none" => stage = "idle"
    /\ \A f \in Files : input.inis[f] # Broken
    /\ sound => stage # "idle" /\ LikeOriginal(input)
    /\ DOMAIN generated = GeneratedFiles
    /\ \A file \in GeneratedFiles :
          /\ generated[file] \in {NoFile, Broken, Contents(file, input)}
          /\ stage = "idle" => generated[file] = NoFile

LEMMA OriginalStays == [Next]_vars => original' = original
BY DEF Next, vars, Toggle, OpenFile, Restore, CloseFile, Done, WriteFails, Kill

LEMMA ToolInvAlways == ToolSpec => []ToolInv
<1>1. ToolInit => ToolInv
    <2> SUFFICES ASSUME ToolInit PROVE ToolInv
        OBVIOUS
    <2>1. /\ ToggleInv /\ stage = "idle" /\ input = NoInput /\ sound = FALSE
          /\ generated = [aim |-> NoFile, aimctl |-> NoFile]
          /\ original \in Originals /\ command = "none"
        BY ToggleInit DEF ToolInit, Init
    <2>2. \A f \in Files : NoInput.inis[f] # Broken
        BY NoIniTyped, FilesAssumption DEF NoInput
    <2> QED BY <2>1, <2>2 DEF ToolInv, GeneratedFiles
<1>2. ToolInv /\ [ToolNext]_toolVars => ToolInv'
    <2> SUFFICES ASSUME ToolInv, [ToolNext]_toolVars PROVE ToolInv'
        OBVIOUS
    <2>1. [Next]_vars /\ ToggleInv
        BY DEF ToolInv, ToolNext, toolVars, ReadFiles, Truncate, Fill, AimEnds
    <2>2. ToggleInv' /\ original' = original
        BY <2>1, ToggleNext, OriginalStays
    <2>3. UNCHANGED <<input, original>> => (LikeOriginal(input) => LikeOriginal(input)')
        BY DEF LikeOriginal
    <2>4. \A file : UNCHANGED input => Contents(file, input)' = Contents(file, input)
        BY DEF Contents, AimContents, AimctlContents, UpdateParameters, UpdateSection,
               FindConfigItem, PhysicalConfig, VmmDomain, WithItem, WithLegacy, Having,
               Option, FirstOf, LastOf, Places, Has
    <2>5. CASE UNCHANGED aimVars /\ (stage = "idle" \/ UNCHANGED command)
        BY <2>2, <2>3, <2>4, <2>5 DEF ToolInv, aimVars
    <2>6. ASSUME NEW order \in Orders, ReadFiles(order) PROVE ToolInv'
        <3>1. /\ command = "none" /\ command' = "none" /\ stage = "idle" /\ stage' = "aim"
              /\ \A f \in Files : disk[f] # Broken
              /\ input' = [inis |-> disk, order |-> order]
              /\ sound' = (damaged = {}) /\ generated' = generated
            BY <2>6 DEF ReadFiles, vars
        <3>2. open \notin Files
            BY <3>1, FilesAssumption DEF ToolInv, ToggleInv, Typed
        <3>3. damaged = {} => LikeOriginal(input)'
            BY <2>2, <3>1, <3>2 DEF LikeOriginal, ToolInv, ToggleInv, DiskGood
        <3> QED BY <2>2, <3>1, <3>3 DEF ToolInv
    <2>7. ASSUME NEW file \in GeneratedFiles, Truncate(file) \/ Fill(file) PROVE ToolInv'
        <3>1. /\ UNCHANGED <<command, input, sound>> /\ stage # "idle" /\ stage' # "idle"
              /\ stage' \in {"aim", "aimctl", "done"}
            BY <2>7 DEF Truncate, Fill, PutTogether, vars, GeneratedFiles
        <3>2. PICK new \in {Broken, Contents(file, input)} :
                  generated' = [generated EXCEPT ![file] = new]
            BY <2>7 DEF Truncate, Fill
        <3> QED BY <2>2, <2>3, <2>4, <3>1, <3>2 DEF ToolInv
    <2>8. CASE AimEnds
        <3>1. /\ command' = command /\ stage' = "idle" /\ input' = NoInput /\ sound' = FALSE
              /\ generated' = [aim |-> NoFile, aimctl |-> NoFile]
            BY <2>8 DEF AimEnds, vars
        <3>2. \A f \in Files : NoInput.inis[f] # Broken
            BY NoIniTyped, FilesAssumption DEF NoInput
        <3> QED BY <2>2, <3>1, <3>2 DEF ToolInv, GeneratedFiles
    <2> QED BY <2>5, <2>6, <2>7, <2>8 DEF ToolNext, toolVars, vars, GeneratedFiles
<1> QED BY <1>1, <1>2, PTL DEF ToolSpec

\* Every variable of the two commands keeps its type; toggle-config runs only
\* while aim-config does not, which has read no broken file.
THEOREM TypeCorrect == ToolSpec => []ToolTypeOK
<1>1. ToolInv => ToolTypeOK
    <2> SUFFICES ASSUME ToolInv PROVE ToolTypeOK
        OBVIOUS
    <2>1. /\ disk \in [Files -> Inis \cup {Broken}] /\ mem \in [Files -> MemInis]
          /\ command \in Types \cup {"none"} /\ last \in Types \cup {"none"}
          /\ headless \subseteq Files /\ left \subseteq Files /\ open \in left \cup {NoFile}
          /\ damaged \subseteq Files /\ pristine \subseteq Files
        BY DEF ToolInv, ToggleInv, Typed
    <2>2. ASSUME NEW f \in Files, disk[f] # Broken, NEW s \in Sections, disk[f][s] # NoSection,
                 NEW k \in Keys
          PROVE  disk[f][s][k] \in Values \cup {Absent}
        BY <2>1, <2>2 DEF Inis
    <2>3. ASSUME NEW f \in Files, NEW s \in Sections, mem[f][s] # NoSection, NEW k \in Keys
          PROVE  mem[f][s][k] \in Values \cup {Absent, None}
        BY <2>1, <2>3 DEF MemInis
    <2>4. TypeOK
        BY <2>1, <2>2, <2>3 DEF TypeOK
    <2> QED BY <2>4 DEF ToolInv, ToolTypeOK
<1> QED BY <1>1, ToolInvAlways, PTL

\* No number of toggles, nor a kill at any point, loses or changes an option that
\* the tool does not know, in any file but those whose write was cut short: one
\* that a file gives once keeps its value, one that it gives several times the
\* value that ConfigInfo reads.
THEOREM OthersAreKept == ToolSpec => []OthersKept
<1>1. ToolInv => OthersKept
    <2>1. SUFFICES ASSUME ToolInv, NEW f \in Files \ (damaged \cup {open}),
                          NEW s \in Sections, NEW k \in Keys, ~Mine(s, k)
                   PROVE  \/ Given(f, s, k) = GivenAtOutset(f, s, k)
                          \/ /\ DroppedOf(f, s, k) # {}
                             /\ ValueOf(disk[f], s, k) = ValueOf(original[f], s, k)
        BY DEF OthersKept
    <2>2. ValueOf(disk[f], s, k) = ValueOf(original[f], s, k)
        BY <2>1 DEF ToolInv, ToggleInv, DiskGood, GoodFile, Kept
    <2> QED BY <2>2 DEF Given, GivenAtOutset
<1> QED BY <1>1, ToolInvAlways, PTL

LEMMA UnscopedFacts ==
    ASSUME NEW f \in Files, NEW c \in Unscoped(f)
    PROVE  \E i \in 1..N, s \in Sections :
              /\ c = Changes[i] /\ ~IsScoped(c) /\ SoleHolder(original[f], c.item, s)
              /\ Holders(f, c.item) = {s}
<1>1. c \in ToSet(Changes) /\ c.section = Anywhere /\ Cardinality(Holders(f, c.item)) = 1
    BY DEF Unscoped
<1>2. PICK i \in 1..N : c = Changes[i]
    BY <1>1, ChangeTyping DEF ToSet
<1>3. IsFiniteSet(Holders(f, c.item))
    BY FilesAssumption, FS_Subset DEF Holders
<1>4. PICK s : Holders(f, c.item) = {s}
    BY <1>1, <1>3, FS_Singleton
<1>5. s \in Sections /\ \A t \in Sections : Has(original[f], t, c.item) <=> t = s
    BY <1>4 DEF Holders
<1>6. SoleHolder(original[f], c.item, s)
    BY <1>5 DEF SoleHolder, Has, ValueOf
<1> QED BY <1>1, <1>2, <1>4, <1>5, <1>6 DEF IsScoped

LEMMA UnscopedAreOf ==
    ASSUME NEW f \in Files, NEW type, UnscopedAre(disk[f], original[f], type)
    PROVE  \A c \in Unscoped(f) : IsOf(f, c, type)
BY UnscopedFacts DEF UnscopedAre, IsOf

\* Wherever a run is killed, each file is of one driver, or as it was.
THEOREM EachOfOneKind == ToolSpec => []FilesOfOneKind
<1>1. ToolInv => FilesOfOneKind
    <2> SUFFICES ASSUME ToolInv, NEW f \in Files \ (damaged \cup {open}), disk[f] # original[f]
                 PROVE  \E type \in Types : \A c \in Unscoped(f) : IsOf(f, c, type)
        BY DEF FilesOfOneKind
    <2>1. PICK type \in Types : UnscopedAre(disk[f], original[f], type)
        BY DEF ToolInv, ToggleInv, DiskGood, GoodFile
    <2> QED BY <2>1, UnscopedAreOf
<1> QED BY <1>1, ToolInvAlways, PTL

LEMMA DoneEverything == SpeltAlike /\ ToolInv => TogglesEverything
<1> SUFFICES ASSUME SpeltAlike, ToolInv, last # "none", damaged = {}
             PROVE  /\ \A f \in Files : \A c \in Unscoped(f) : IsOf(f, c, last)
                    /\ \A c \in Scoped : Effective(c.section, c.item) = {c[last]} \ {None}
                    /\ ValueOf(disk[NeutronConf], "DEFAULT", "agent_down_time") = DownTime[last]
    BY DEF TogglesEverything
<1>1. /\ last \in Types
      /\ \A f \in Files : UnscopedAre(disk[f], original[f], last)
    BY DEF ToolInv, ToggleInv, Typed, DiskDone
<1>2. PICK m \in [Files -> MemInis] :
          AllChanged(m, last) /\ disk = [f \in Files |-> Written(m[f])]
    BY DEF ToolInv, ToggleInv, DiskDone
<1>3. \A f \in Files, s \in Sections, k \in Keys :
         ValueOf(disk[f], s, k) = IF ValueOf(m[f], s, k) = None THEN Absent ELSE ValueOf(m[f], s, k)
    <2> SUFFICES ASSUME NEW f \in Files
                 PROVE  \A s \in Sections, k \in Keys :
            ValueOf(disk[f], s, k) = IF ValueOf(m[f], s, k) = None THEN Absent ELSE ValueOf(m[f], s, k)
        OBVIOUS
    <2>1. m[f] \in MemInis /\ disk[f] = Written(m[f])
        BY <1>2
    <2> QED BY <2>1, WrittenFacts
<1>4. \A f \in Files : \A c \in Unscoped(f) : IsOf(f, c, last)
    BY <1>1, UnscopedAreOf
<1>5. ASSUME NEW c \in Scoped PROVE Effective(c.section, c.item) = {c[last]} \ {None}
    <2>1. PICK i \in 1..N : c = Changes[i] /\ IsScoped(Changes[i])
        BY ChangeTyping DEF Scoped, ToSet, IsScoped
    <2>2. /\ c.section \in Sections /\ c.item \in Keys /\ c.old = None /\ c.new \in Values
          /\ c["old"] = c.old /\ c["new"] = c.new
        BY <2>1, ChangeTyping, ChangeValues
    <2>3. \A f \in Files : ValueOf(m[f], c.section, c.item) \in {c[last], Absent}
        BY <1>2, <2>1 DEF AllChanged, ScopedAre
    <2>4. last = "new" => \E f \in Files : ValueOf(m[f], c.section, c.item) = c.new
        BY <1>2, <2>1 DEF AllChanged, HasScoped
    <2>5. Effective(c.section, c.item) = {ValueOf(disk[f], c.section, c.item) : f \in Files} \ {Absent}
        <3>1. {x \in Keys : OptionOf[x] = c.item} = {c.item}
            BY <2>2 DEF SpeltAlike
        <3> QED BY <3>1 DEF Effective
    <2>6. CASE last = "old"
        <3>1. \A f \in Files : ValueOf(disk[f], c.section, c.item) = Absent
            BY <1>3, <2>2, <2>3, <2>6
        <3> QED BY <2>2, <2>5, <2>6, <3>1
    <2>7. CASE last = "new"
        <3>1. \A f \in Files : ValueOf(disk[f], c.section, c.item) \in {c.new, Absent}
            BY <1>3, <2>2, <2>3, <2>7
        <3>2. \E f \in Files : ValueOf(disk[f], c.section, c.item) = c.new
            BY <1>3, <2>2, <2>4, <2>7, NoneIsNoValue
        <3> QED BY <2>2, <2>5, <2>7, <3>1, <3>2, NoneIsNoValue
    <2> QED BY <1>1, <2>6, <2>7 DEF Types
<1>6. ValueOf(disk[NeutronConf], "DEFAULT", "agent_down_time") = DownTime[last]
    <2>1. ValueOf(m[NeutronConf], "DEFAULT", "agent_down_time") = DownTime[last]
        BY <1>2 DEF AllChanged, DownTimeIs
    <2>2. DownTime[last] # None
        BY <1>1 DEF Types, DownTime, None
    <2> QED BY <1>3, <2>1, <2>2, FilesAssumption
<1> QED BY <1>4, <1>5, <1>6

\* A toggle that completes has switched everything, in every file, if the keys of
\* the options that it adds are spelt as it spells them.
THEOREM AllIsToggled == ASSUME SpeltAlike PROVE ToolSpec => []TogglesEverything
<1>1. ToolInv => TogglesEverything
    BY SpeltAlike, DoneEverything
<1> QED BY <1>1, ToolInvAlways, PTL

----------------------------------------------------------------------------
(* What aim-config generates *)

LEMMA AtMostOne ==
    ASSUME NEW S, IsFiniteSet(S), Cardinality(S) <= 1
    PROVE  \A x, y \in S : x = y
<1>1. Cardinality(S) \in Nat
    BY FS_CardinalityType
<1>2. CASE Cardinality(S) = 0
    BY <1>2, FS_EmptySet
<1>3. CASE Cardinality(S) = 1
    BY <1>3, FS_Singleton
<1> QED BY <1>1, <1>2, <1>3

\* The one file of a set is both its first and its last in any order.
LEMMA OneFile ==
    ASSUME NEW in, in.order \in Orders, NEW f \in Files
    PROVE  FirstOf(in, {f}) = f /\ LastOf(in, {f}) = f
<1> DEFINE n == Cardinality(Files)
           o == in.order
<1>1. n \in Nat /\ IsFiniteSet(1..n) /\ Cardinality(1..n) = n
    BY AimAssumption, FS_CardinalityType, FS_Interval
<1>2. o \in Injection(1..n, Files)
    BY DEF Orders, Injection
<1>3. o \in Surjection(1..n, Files)
    BY <1>1, <1>2, AimAssumption, FS_Injection
<1>4. PICK i \in 1..n : o[i] = f
    BY <1>3 DEF Surjection
<1>5. DOMAIN o = 1..n /\ \A a, b \in 1..n : o[a] = o[b] => a = b
    BY DEF Orders, IsInjective
<1>6. Places(in, {f}) = {i}
    BY <1>4, <1>5 DEF Places
<1>7. Min({i}) = i /\ Max({i}) = i
    BY <1>1 DEF Min, Max
<1> QED BY <1>4, <1>6, <1>7 DEF FirstOf, LastOf

\* What an option that is nowhere twice is, of the files at the outset.
Holding(s, k) == {f \in Files : ValueOf(original[f], s, k) # Absent}

LEMMA OptionFacts ==
    ASSUME Unambiguous, NEW in, LikeOriginal(in), NEW s \in Sections, NEW k \in Keys, ~Mine(s, k)
    PROVE  /\ Having(in, s, k) = Holding(s, k)
           /\ \A f \in Holding(s, k) : Option(in, s, k) = ValueOf(original[f], s, k)
<1>1. \A f \in Files : ValueOf(in.inis[f], s, k) = ValueOf(original[f], s, k)
    BY DEF LikeOriginal, GoodFile, Kept
<1>2. Having(in, s, k) = Holding(s, k)
    BY <1>1 DEF Having, Holding, Has, ValueOf
<1>3. ASSUME NEW f \in Holding(s, k) PROVE Option(in, s, k) = ValueOf(original[f], s, k)
    <2>1. {g \in Files : Has(original[g], s, k)} = Holding(s, k)
        BY DEF Holding, Has, ValueOf
    <2>2. IsFiniteSet(Holding(s, k)) /\ Cardinality(Holding(s, k)) <= 1
        BY <2>1, AimAssumption, FS_Subset DEF Unambiguous, Unique, Holding
    <2>3. Holding(s, k) = {f} /\ f \in Files
        BY <1>3, <2>2, AtMostOne DEF Holding
    <2>4. LastOf(in, Having(in, s, k)) = f
        BY <1>2, <2>3, OneFile DEF LikeOriginal
    <2>5. Has(in.inis[f], s, k)
        BY <1>2, <1>3 DEF Having
    <2> QED BY <1>1, <2>3, <2>4, <2>5 DEF Option, ValueOf, Has
<1> QED BY <1>2, <1>3

LEMMA SameOption ==
    ASSUME Unambiguous, NEW in, LikeOriginal(in), NEW jn, LikeOriginal(jn),
           NEW s \in Sections, NEW k \in Keys, ~Mine(s, k)
    PROVE  /\ Having(in, s, k) = Having(jn, s, k)
           /\ Having(in, s, k) # {} => Option(in, s, k) = Option(jn, s, k)
<1>1. /\ Having(in, s, k) = Holding(s, k)
      /\ \A f \in Holding(s, k) : Option(in, s, k) = ValueOf(original[f], s, k)
    BY OptionFacts
<1>2. /\ Having(jn, s, k) = Holding(s, k)
      /\ \A f \in Holding(s, k) : Option(jn, s, k) = ValueOf(original[f], s, k)
    BY OptionFacts
<1> QED BY <1>1, <1>2

\* Options that aim-config asks for and toggle-config does not change.
AskedFor(params) ==
    \A s \in DOMAIN params : \A k \in DOMAIN params[s] :
        s \in Sections /\ k \in Keys /\ ~Mine(s, k)

LEMMA SameParameters ==
    ASSUME Unambiguous, NEW in, LikeOriginal(in), NEW jn, LikeOriginal(jn),
           NEW params, AskedFor(params)
    PROVE  UpdateParameters(params, in) = UpdateParameters(params, jn)
<1> DEFINE value(i, s, k) == IF Having(i, s, k) = {} THEN params[s][k] ELSE Option(i, s, k)
<1>1. ASSUME NEW s \in DOMAIN params, NEW k \in DOMAIN params[s]
      PROVE  value(in, s, k) = value(jn, s, k)
    BY <1>1, SameOption DEF AskedFor
<1>2. /\ UpdateParameters(params, in)
           = [s \in DOMAIN params |-> [k \in DOMAIN params[s] |-> value(in, s, k)]]
      /\ UpdateParameters(params, jn)
           = [s \in DOMAIN params |-> [k \in DOMAIN params[s] |-> value(jn, s, k)]]
    BY DEF UpdateParameters
<1> HIDE DEF value
<1>3. \A s \in DOMAIN params : [k \in DOMAIN params[s] |-> value(in, s, k)]
                                 = [k \in DOMAIN params[s] |-> value(jn, s, k)]
    BY <1>1
<1> QED BY <1>2, <1>3

\* Outside of the sections that it sets by name, toggle-config changes items that
\* it looks for in all sections.
LEMMA MineElsewhere ==
    ASSUME NEW s, s \notin {"DEFAULT"} \cup {c.section : c \in ToSet(Changes)}, NEW k, Mine(s, k)
    PROVE  \E i \in 1..N : ~IsScoped(Changes[i]) /\ Changes[i].item = k
<1>1. PICK c \in ToSet(Changes) : c.item = k /\ c.section \in {s, Anywhere}
    BY DEF Mine
<1>2. PICK i \in 1..N : c = Changes[i]
    BY <1>1, ChangeTyping DEF ToSet
<1> QED BY <1>1, <1>2 DEF IsScoped

LEMMA SectionsOfChanges ==
    {c.section : c \in ToSet(Changes)} = {Anywhere, "ml2", "group_policy", "ml2_apic_aim"}
<1>1. ToSet(Changes) = {Changes[i] : i \in 1..N}
    BY ChangeTyping DEF ToSet
<1>2. 1..N = {1, 2, 3, 4, 5, 6, 7}
    BY DEF N
<1> QED BY <1>1, <1>2, ChangeSections

LEMMA LegacyElsewhere ==
    "ml2_cisco_apic" \notin {"DEFAULT"} \cup {c.section : c \in ToSet(Changes)}
BY SectionsOfChanges DEF Anywhere

LEMMA SameLegacy ==
    ASSUME Unambiguous, NEW in, LikeOriginal(in), NEW jn, LikeOriginal(jn), NEW params,
           \A k \in DOMAIN params["apic"] : k \in Keys /\ ~Mine("ml2_cisco_apic", k)
    PROVE  UpdateSection(params, in) = UpdateSection(params, jn)
<1> DEFINE s == "ml2_cisco_apic"
           with == {f \in Files : \E k \in Keys : ValueOf(original[f], s, k) # Absent}
<1>1. s \in Sections
    BY AimAssumption
<1>2. ASSUME NEW i, LikeOriginal(i) PROVE WithLegacy(i) = with
    <2>1. ASSUME NEW f \in Files, NEW k \in Keys
          PROVE  ValueOf(i.inis[f], s, k) # Absent <=> ValueOf(original[f], s, k) # Absent
        <3>1. Kept(i.inis[f], original[f]) /\ SameHolders(i.inis[f], original[f])
            BY <1>2 DEF LikeOriginal, GoodFile
        <3>2. CASE Mine(s, k)
            BY <1>1, <3>1, <3>2, MineElsewhere, LegacyElsewhere DEF SameHolders
        <3>3. CASE ~Mine(s, k)
            BY <1>1, <3>1, <3>3 DEF Kept
        <3> QED BY <3>2, <3>3
    <2>2. WithLegacy(i) = {f \in Files : \E k \in Keys : ValueOf(i.inis[f], s, k) # Absent}
        BY DEF WithLegacy, Has, ValueOf
    <2> QED BY <2>1, <2>2
<1>3. WithLegacy(in) = with /\ WithLegacy(jn) = with
    BY <1>2
<1>4. CASE with = {}
    BY <1>3, <1>4 DEF UpdateSection
<1>5. ASSUME NEW f \in with PROVE UpdateSection(params, in) = UpdateSection(params, jn)
    <2>1. with \subseteq FilesOfLegacy /\ IsFiniteSet(FilesOfLegacy)
        BY AimAssumption, FS_Subset DEF FilesOfLegacy, ValueOf
    <2>2. with = {f}
        BY <1>5, <2>1, AtMostOne DEF Unambiguous
    <2>3. FirstOf(in, with) = f /\ FirstOf(jn, with) = f
        BY <2>2, OneFile DEF LikeOriginal
    <2>4. \A k \in DOMAIN params["apic"] :
             ValueOf(in.inis[f], s, k) = ValueOf(jn.inis[f], s, k)
        BY <1>1 DEF LikeOriginal, GoodFile, Kept
    <2> DEFINE row(i) == [k \in DOMAIN params["apic"] |->
                   IF Has(i.inis[f], s, k) THEN i.inis[f][s][k] ELSE params["apic"][k]]
    <2>5. \A k \in DOMAIN params["apic"] :
             /\ Has(in.inis[f], s, k) <=> Has(jn.inis[f], s, k)
             /\ Has(in.inis[f], s, k) => in.inis[f][s][k] = jn.inis[f][s][k]
        BY <2>4 DEF Has, ValueOf
    <2>6. row(in) = row(jn)
        BY <2>5
    <2>7. /\ UpdateSection(params, in) = [params EXCEPT !["apic"] = row(in)]
          /\ UpdateSection(params, jn) = [params EXCEPT !["apic"] = row(jn)]
        BY <1>3, <1>5, <2>3 DEF UpdateSection
    <2> HIDE DEF row
    <2> QED BY <2>6, <2>7
<1> QED BY <1>4, <1>5

LEMMA SearchedIsKept == \A item \in Searched : item \in Keys /\ \A s : ~Mine(s, item)
<1>1. ASSUME NEW item \in Searched, NEW i \in 1..N PROVE Changes[i].item # item
    BY ChangeItems, OneOfSeven DEF Searched
<1>2. \A item \in Searched : item # "agent_down_time"
    BY DEF Searched
<1> QED BY <1>1, <1>2, ChangeTyping, AimAssumption DEF Mine, ToSet

LEMMA SameItem ==
    ASSUME Unambiguous, NEW in, LikeOriginal(in), NEW jn, LikeOriginal(jn), NEW item \in Searched
    PROVE  FindConfigItem(in, item) = FindConfigItem(jn, item)
<1> DEFINE with == {f \in Files : \E s \in Sections : Has(original[f], s, item)}
           there(ini) == {u \in Sections : Has(ini, u, item)}
<1>1. ASSUME NEW i, LikeOriginal(i), NEW f \in Files, NEW s \in Sections
      PROVE  ValueOf(i.inis[f], s, item) = ValueOf(original[f], s, item)
    BY <1>1, SearchedIsKept DEF LikeOriginal, GoodFile, Kept
<1>2. \A f \in Files, s \in Sections :
         /\ Has(in.inis[f], s, item) <=> Has(original[f], s, item)
         /\ Has(jn.inis[f], s, item) <=> Has(original[f], s, item)
    BY <1>1 DEF Has, ValueOf
<1>3. WithItem(in, item) = with /\ WithItem(jn, item) = with
    BY <1>2 DEF WithItem
<1>4. CASE with = {}
    BY <1>3, <1>4 DEF FindConfigItem
<1>5. ASSUME NEW f \in with PROVE FindConfigItem(in, item) = FindConfigItem(jn, item)
    <2>1. with = {f} /\ f \in Files
        <3>1. with \subseteq Files
            OBVIOUS
        <3>2. Cardinality(with) <= 1
            BY DEF Unambiguous
        <3> HIDE DEF with
        <3>3. IsFiniteSet(with)
            BY <3>1, AimAssumption, FS_Subset
        <3> QED BY <1>5, <3>1, <3>2, <3>3, AtMostOne
    <2>2. FirstOf(in, with) = f /\ FirstOf(jn, with) = f
        BY <2>1, OneFile DEF LikeOriginal
    <2>3. there(in.inis[f]) = there(original[f]) /\ there(jn.inis[f]) = there(original[f])
        BY <1>2, <2>1
    <2> DEFINE s == CHOOSE t \in there(original[f]) : TRUE
    <2>4. s \in Sections /\ Has(original[f], s, item)
        <3>1. there(original[f]) # {} /\ there(original[f]) \subseteq Sections
            BY <1>5
        <3> QED BY <3>1
    <2>5. /\ FindConfigItem(in, item) = in.inis[f][s][item]
          /\ FindConfigItem(jn, item) = jn.inis[f][s][item]
        BY <1>3, <1>5, <2>2, <2>3 DEF FindConfigItem
    <2> HIDE DEF s
    <2>6. ValueOf(in.inis[f], s, item) = ValueOf(jn.inis[f], s, item)
        BY <1>1, <2>1, <2>4
    <2>7. Has(in.inis[f], s, item) /\ Has(jn.inis[f], s, item)
        BY <1>2, <2>1, <2>4
    <2> QED BY <2>5, <2>6, <2>7 DEF ValueOf, Has
<1> QED BY <1>4, <1>5

\* No file has a changed item in a physical section.
LEMMA SamePhysicalOption ==
    ASSUME Unambiguous, original \in Originals, NEW in, LikeOriginal(in), NEW jn, LikeOriginal(jn),
           NEW s \in PhysSections, NEW k \in Keys
    PROVE  /\ Having(in, s, k) = Having(jn, s, k)
           /\ Having(in, s, k) # {} => Option(in, s, k) = Option(jn, s, k)
<1>1. s \in Sections /\ s \notin {"DEFAULT"} \cup {c.section : c \in ToSet(Changes)}
    BY AimAssumption
<1>2. CASE ~Mine(s, k)
    BY <1>1, <1>2, SameOption
<1>3. CASE Mine(s, k)
    <2>1. PICK i \in 1..N : ~IsScoped(Changes[i]) /\ Changes[i].item = k
        BY <1>1, <1>3, MineElsewhere
    <2>2. Changes[i] \in ToSet(Changes)
        BY ChangeTyping DEF ToSet
    <2>3. \A f \in Files : ValueOf(original[f], s, k) = Absent
        BY <2>1, <2>2, AimAssumption DEF Has, ValueOf
    <2>4. ASSUME NEW j, LikeOriginal(j) PROVE Having(j, s, k) = {}
        <3>1. \A f \in Files : ValueOf(j.inis[f], s, k) = Absent
            BY <1>1, <2>1, <2>3, <2>4 DEF LikeOriginal, GoodFile, SameHolders
        <3> QED BY <3>1 DEF Having, Has, ValueOf
    <2> QED BY <2>4
<1> QED BY <1>2, <1>3

LEMMA SamePhysical ==
    ASSUME Unambiguous, original \in Originals, NEW in, LikeOriginal(in), NEW jn, LikeOriginal(jn)
    PROVE  PhysicalConfig(in) = PhysicalConfig(jn)
<1> DEFINE sections(i) == {t \in PhysSections : \E f \in Files : i.inis[f][t] # NoSection}
           keys(i, s) == {x \in Keys : Having(i, s, x) # {}}
           row(i, s) == [k \in keys(i, s) |-> Option(i, s, k)]
<1>1. sections(in) = sections(jn)
    BY DEF LikeOriginal, GoodFile, SameSections
<1>2. ASSUME NEW s \in PhysSections PROVE row(in, s) = row(jn, s)
    <2>1. keys(in, s) = keys(jn, s)
        BY SamePhysicalOption
    <2>2. \A k \in keys(in, s) : Option(in, s, k) = Option(jn, s, k)
        BY SamePhysicalOption
    <2> HIDE DEF keys
    <2> QED BY <2>1, <2>2
<1>3. /\ PhysicalConfig(in) = [s \in sections(in) |-> row(in, s)]
      /\ PhysicalConfig(jn) = [s \in sections(jn) |-> row(jn, s)]
    BY DEF PhysicalConfig
<1>4. sections(in) \subseteq PhysSections
    OBVIOUS
<1> HIDE DEF sections, row
<1> QED BY <1>1, <1>2, <1>3, <1>4

\* The tables of defaults name none of the items that toggle-config changes.
LEMMA DefaultsAskedFor ==
    /\ AskedFor(AimDefault) /\ AskedFor(AimctlDefault)
    /\ \A k \in DOMAIN AimDefault["apic"] \cup DOMAIN AimctlDefault["apic"] :
          k \in Keys /\ ~Mine("ml2_cisco_apic", k)
<1> DEFINE plain == {"debug", "aim_system_id", "apic_hosts", "apic_username", "apic_system_id",
                     "scope_infra", "apic_vpc_pairs"}
<1>1. ASSUME NEW k \in plain, NEW s PROVE ~Mine(s, k)
    <2>1. \A i \in 1..N : Changes[i].item # k
        BY ChangeItems, OneOfSeven
    <2>2. k # "agent_down_time"
        OBVIOUS
    <2> HIDE DEF plain
    <2> QED BY <2>1, <2>2, ChangeTyping DEF Mine, ToSet
<1>2. ~Mine("aim", "agent_down_time")
    BY ChangeTyping DEF Mine, ToSet
<1>3. /\ DOMAIN AimDefault = {"DEFAULT", "aim", "apic"}
      /\ DOMAIN AimDefault["DEFAULT"] = {"debug"}
      /\ DOMAIN AimDefault["aim"] = {"agent_down_time", "aim_system_id"}
      /\ DOMAIN AimDefault["apic"] = {"apic_hosts", "apic_username"}
    BY DEF AimDefault
<1>4. /\ DOMAIN AimctlDefault = {"DEFAULT", "apic"}
      /\ DOMAIN AimctlDefault["DEFAULT"] = {"apic_system_id"}
      /\ DOMAIN AimctlDefault["apic"] = {"scope_infra", "apic_vpc_pairs"}
    BY DEF AimctlDefault
<1>5. /\ {"DEFAULT", "aim", "apic"} \subseteq Sections
      /\ \A s \in DOMAIN AimDefault : DOMAIN AimDefault[s] \subseteq Keys
      /\ \A s \in DOMAIN AimctlDefault : DOMAIN AimctlDefault[s] \subseteq Keys
    BY AimAssumption
<1>6. AskedFor(AimDefault)
    BY <1>1, <1>2, <1>3, <1>5 DEF AskedFor
<1>7. AskedFor(AimctlDefault)
    BY <1>1, <1>4, <1>5 DEF AskedFor
<1>8. \A k \in DOMAIN AimDefault["apic"] \cup DOMAIN AimctlDefault["apic"] :
          k \in Keys /\ ~Mine("ml2_cisco_apic", k)
    BY <1>1, <1>3, <1>4, <1>5
<1> QED BY <1>6, <1>7, <1>8

LEMMA SameContents ==
    ASSUME Unambiguous, original \in Originals, NEW in, LikeOriginal(in), NEW jn, LikeOriginal(jn),
           NEW file
    PROVE  Contents(file, in) = Contents(file, jn)
<1> DEFINE aim == UpdateParameters(AimDefault, in)
           aimctl == UpdateParameters(AimctlDefault, in)
<1>1. aim = UpdateParameters(AimDefault, jn) /\ aimctl = UpdateParameters(AimctlDefault, jn)
    BY SameParameters, DefaultsAskedFor
<1>2. /\ DOMAIN aim["apic"] = DOMAIN AimDefault["apic"]
      /\ DOMAIN aimctl["apic"] = DOMAIN AimctlDefault["apic"]
    <2>1. "apic" \in DOMAIN AimDefault /\ "apic" \in DOMAIN AimctlDefault
        BY DEF AimDefault, AimctlDefault
    <2> QED BY <2>1 DEF UpdateParameters
<1> HIDE DEF aim, aimctl
<1>3. /\ UpdateSection(aim, in) = UpdateSection(aim, jn)
      /\ UpdateSection(aimctl, in) = UpdateSection(aimctl, jn)
    <2>1. /\ \A k \in DOMAIN aim["apic"] : k \in Keys /\ ~Mine("ml2_cisco_apic", k)
          /\ \A k \in DOMAIN aimctl["apic"] : k \in Keys /\ ~Mine("ml2_cisco_apic", k)
        BY <1>2, DefaultsAskedFor
    <2> QED BY <2>1, SameLegacy
<1>4. \A item \in Searched : FindConfigItem(in, item) = FindConfigItem(jn, item)
    BY SameItem
<1>5. AimContents(in) = AimContents(jn)
    BY <1>1, <1>3, <1>4 DEF AimContents, Searched, aim
<1>6. VmmDomain(in) = VmmDomain(jn)
    BY <1>4 DEF VmmDomain, Searched
<1>7. PhysicalConfig(in) = PhysicalConfig(jn)
    BY SamePhysical
<1>8. AimctlContents(in) = AimctlContents(jn)
    BY <1>1, <1>3, <1>6, <1>7 DEF AimctlContents, aimctl
<1> QED BY <1>5, <1>8 DEF Contents

\* Neither toggles nor kills in between, nor the order of the files, change what
\* aim-config generates, while no file is damaged and nothing is in two files.
THEOREM GeneratedAsAtOutset == ToolSpec => []GeneratedFromOriginals
<1>1. ToolInv => GeneratedFromOriginals
    <2> SUFFICES ASSUME ToolInv, sound, Unambiguous, NEW file \in {"aim", "aimctl"},
                        NEW order \in Orders
                 PROVE  generated[file] \in
                            {NoFile, Broken, Contents(file, [inis |-> original, order |-> order])}
        BY DEF GeneratedFromOriginals
    <2> DEFINE outset == [inis |-> original, order |-> order]
    <2>1. LikeOriginal(outset)
        <3>1. \A f \in Files : original[f] \in Inis
            BY DEF ToolInv, ToggleInv, Typed
        <3> QED BY <3>1, OriginalIsGood DEF LikeOriginal
    <2>2. LikeOriginal(input) /\ original \in Originals
        BY DEF ToolInv
    <2> HIDE DEF outset
    <2>3. Contents(file, input) = Contents(file, outset)
        BY <2>1, <2>2, SameContents
    <2>4. generated[file] \in {NoFile, Broken, Contents(file, input)}
        BY DEF ToolInv, GeneratedFiles
    <2> QED BY <2>3, <2>4 DEF outset
<1> QED BY <1>1, ToolInvAlways, PTL
=============================================================================
