------------------------- MODULE AgentUpgradeProofs -------------------------
(* What the upgrade playbooks promise, for any hosts and any configuration.
   A task is done on a host of the play when the play is past it, or the host is:
   the promises follow from what a host is like after each of its tasks. *)
EXTENDS AgentUpgrade, TLAPS

DoneOn(h, k) == h \in active /\ (task > k \/ (task = k /\ h \notin todo))

\* While packages are replaced: hosts that did not boot meanwhile.
BinariesInv ==
    play = "binaries" => \A h \in active \ rebooted :
        /\ DoneOn(h, 1) => host[h].loaded = {} /\ (host[h].up <=> DoneOn(h, 4))
        /\ DoneOn(h, 3) => host[h].conf = {}

\* While the configuration is restored.
RunInv ==
    play = "run" => \A h \in active \ resaved :
        /\ DoneOn(h, 1) => h \notin pending
        /\ DoneOn(h, 2) => host[h].loaded = Lines

\* A host passes "run" with the last task of a play, and nothing but a reboot
\* happens to it before it is in a play again.
PassedInv ==
    /\ play # "none" => \A h \in active : "run" \notin passed[h]
    /\ \A h \in Hosts \ resaved :
          "run" \in passed[h] => host[h].conf = Lines /\ host[h].loaded = Lines

UpgradeInv == OriginalKept /\ RunInv /\ PassedInv

----------------------------------------------------------------------------
(* The playbooks, and what tasks do to a host *)

LEMMA PlayFacts ==
    /\ DOMAIN Plays = {"binaries", "run"}
    /\ DOMAIN Plays["binaries"] = 1..6 /\ Len(Plays["binaries"]) = 6
    /\ DOMAIN Plays["run"] = 1..2 /\ Len(Plays["run"]) = 2
BY DEF Plays

LEMMA BinariesTasks ==
    ASSUME play = "binaries", task \in 1..6
    PROVE  /\ Name = "stop" <=> task = 1
           /\ Name = "save" <=> task = 2
           /\ Name = "disable" <=> task = 3
           /\ Name = "start" <=> task = 4
           /\ Name = "replace" <=> task = 6
           /\ Name \notin {"restore", "restart"}
BY DEF Plays, Name

LEMMA RunTasks ==
    ASSUME play = "run", task \in 1..2
    PROVE  /\ Name = "restore" <=> task = 1
           /\ Name = "restart" <=> task = 2
           /\ Name \notin {"stop", "save", "disable", "start", "replace"}
BY DEF Plays, Name

\* A host after a task that succeeds.
LEMMA AfterFacts ==
    ASSUME NEW s \in HostStates, NEW name, NEW t \in After(s, name),
           ~ s.up => s.loaded = {}
    PROVE  /\ t \in HostStates /\ (~ t.up => t.loaded = {})
           /\ name = "stop" => ~ t.up /\ t.loaded = {}
           /\ name \notin {"disable", "restore"} => t.conf = s.conf
           /\ name = "disable" => t.conf = {}
           /\ name = "restore" => s.saved # NoFile /\ t.conf = s.saved
           /\ name = "save" => t.saved = s.conf
           /\ name # "save" => t.saved = s.saved
           /\ name = "start" /\ ~ s.up => t.up /\ t.loaded = s.conf
           /\ name = "restart" => t.up /\ t.loaded = s.conf
           /\ name \notin {"stop", "start", "restart"} => t.up = s.up /\ t.loaded = s.loaded
<1> USE DEF HostStates
<1>1. CASE name = "stop"
    BY <1>1 DEF After
<1>2. CASE name = "save"
    BY <1>2 DEF After
<1>3. CASE name = "disable"
    BY <1>3 DEF After
<1>4. CASE name = "start" /\ s.up
    BY <1>4 DEF After
<1>5. CASE name = "start" /\ ~ s.up
    BY <1>5 DEF After, Started
<1>6. CASE name = "replace"
    BY <1>6 DEF After
<1>7. CASE name = "restore"
    BY <1>7 DEF After, Restored
<1>8. CASE name = "restart"
    BY <1>8 DEF After, Started
<1>9. CASE name \notin {"stop", "save", "disable", "start", "replace", "restore", "restart"}
    BY <1>9 DEF After
<1> QED BY <1>1, <1>2, <1>3, <1>4, <1>5, <1>6, <1>7, <1>8, <1>9

\* A host after a task that fails.
LEMMA HalfwayFacts ==
    ASSUME NEW s \in HostStates, NEW name, NEW t \in Halfway(s, name),
           ~ s.up => s.loaded = {}
    PROVE  /\ t \in HostStates /\ (~ t.up => t.loaded = {})
           /\ name # "disable" => t.conf = s.conf
           /\ t.saved = s.saved
<1> USE DEF HostStates
<1>1. CASE name = "disable"
    BY <1>1 DEF Halfway
<1>2. CASE name = "restart"
    BY <1>2 DEF Halfway
<1>3. CASE name \notin {"disable", "restart"}
    BY <1>3 DEF Halfway
<1> QED BY <1>1, <1>2, <1>3

----------------------------------------------------------------------------
(* Types *)

LEMMA TypeInit == Init => TypeOK
BY DEF Init, TypeOK, HostStates

\* What a task that was begun may change.
LEMMA TaskType ==
    ASSUME TypeOK, NEW h \in Hosts, h \in todo, play # "none",
           NEW s \in HostStates, ~ s.up => s.loaded = {},
           host' = [host EXCEPT ![h] = s],
           todo' = todo \ {h}, active' \in {active, active \ {h}},
           pending' \in {pending, pending \cup {h}, pending \ {h}},
           resaved' \in {resaved, resaved \cup {h}},
           UNCHANGED <<play, task, passed, rebooted>>
    PROVE  TypeOK'
<1>1. host' \in [Hosts -> HostStates]
    BY DEF TypeOK
<1>2. \A g \in Hosts : host'[g].up \/ host'[g].loaded = {}
    BY DEF TypeOK
<1>3. pending' \subseteq Hosts /\ resaved' \subseteq Hosts
    BY DEF TypeOK
<1> QED BY <1>1, <1>2, <1>3 DEF TypeOK

LEMMA RecordFacts ==
    ASSUME NEW h, Record(h)
    PROVE  /\ pending' \in {pending, pending \cup {h}, pending \ {h}}
           /\ resaved' \in {resaved, resaved \cup {h}}
           /\ Name = "disable" => pending' = pending \cup {h}
           /\ Name = "restore" => pending' = pending \ {h}
           /\ Name \notin {"disable", "restore"} => pending' = pending
           /\ Name = "save" /\ h \in pending => h \in resaved'
<1>1. CASE Name = "disable"
    BY <1>1 DEF Record
<1>2. CASE Name = "restore"
    BY <1>2 DEF Record
<1>3. CASE Name \notin {"disable", "restore"}
    BY <1>3 DEF Record
<1> QED BY <1>1, <1>2, <1>3

\* The host after a task, done or failed, and what it was before.
LEMMA DoneFacts ==
    ASSUME TypeOK, NEW h \in Hosts, TaskDone(h)
    PROVE  /\ h \in todo /\ h \in active /\ play # "none"
           /\ host[h] \in HostStates /\ (~ host[h].up => host[h].loaded = {})
           /\ \E s \in After(host[h], Name) : s \in HostStates /\ host' = [host EXCEPT ![h] = s]
           /\ host'[h] \in After(host[h], Name)
           /\ \A g \in Hosts \ {h} : host'[g] = host[g]
BY AfterFacts DEF TaskDone, TypeOK

LEMMA FailsFacts ==
    ASSUME TypeOK, NEW h \in Hosts, TaskFails(h)
    PROVE  /\ h \in todo /\ h \in active /\ play # "none"
           /\ host[h] \in HostStates /\ (~ host[h].up => host[h].loaded = {})
           /\ \E s \in Halfway(host[h], Name) : s \in HostStates /\ host' = [host EXCEPT ![h] = s]
           /\ host'[h] \in Halfway(host[h], Name)
           /\ \A g \in Hosts \ {h} : host'[g] = host[g]
BY HalfwayFacts DEF TaskFails, TypeOK

LEMMA TypeStep == TypeOK /\ [Next]_vars => TypeOK'
<1> SUFFICES ASSUME TypeOK, [Next]_vars PROVE TypeOK'
    OBVIOUS
<1>1. ASSUME NEW p \in DOMAIN Plays, NEW hosts \in SUBSET Hosts, Run(p, hosts) PROVE TypeOK'
    BY <1>1, PlayFacts DEF Run, TypeOK
<1>2. ASSUME NEW h \in Hosts, TaskDone(h) PROVE TypeOK'
    <2>1. PICK s \in After(host[h], Name) : s \in HostStates /\ host' = [host EXCEPT ![h] = s]
        BY <1>2, DoneFacts
    <2>2. ~ s.up => s.loaded = {}
        BY <1>2, <2>1, DoneFacts, AfterFacts
    <2> QED BY <1>2, <2>1, <2>2, DoneFacts, RecordFacts, TaskType DEF TaskDone
<1>3. ASSUME NEW h \in Hosts, TaskFails(h) PROVE TypeOK'
    <2>1. PICK s \in Halfway(host[h], Name) : s \in HostStates /\ host' = [host EXCEPT ![h] = s]
        BY <1>3, FailsFacts
    <2>2. ~ s.up => s.loaded = {}
        BY <1>3, <2>1, FailsFacts, HalfwayFacts
    <2>3. /\ pending' \in {pending, pending \cup {h}, pending \ {h}}
          /\ resaved' \in {resaved, resaved \cup {h}}
        BY <1>3, RecordFacts DEF TaskFails
    <2> QED BY <1>3, <2>1, <2>2, <2>3, FailsFacts, TaskType DEF TaskFails
<1>4. CASE NextTask
    BY <1>4, PlayFacts DEF NextTask, TypeOK, history
<1>5. CASE EndPlay
    BY <1>5 DEF EndPlay, PlayOver, TypeOK
<1>6. CASE Interrupt
    BY <1>6 DEF Interrupt, PlayOver, TypeOK
<1>7. ASSUME NEW h \in Hosts, Reboot(h) PROVE TypeOK'
    <2> DEFINE s == Started(host[h])
    <2>1. host[h] \in HostStates
        BY DEF TypeOK
    <2>2. s \in HostStates /\ s.up
        BY <2>1 DEF Started, HostStates
    <2>3. host' = [host EXCEPT ![h] = s]
        BY <1>7 DEF Reboot
    <2> HIDE DEF s
    <2>4. host' \in [Hosts -> HostStates] /\ \A g \in Hosts : host'[g].up \/ host'[g].loaded = {}
        BY <2>2, <2>3 DEF TypeOK
    <2>5. rebooted' \subseteq Hosts
        BY <1>7 DEF Reboot, TypeOK
    <2> QED BY <1>7, <2>4, <2>5 DEF Reboot, TypeOK, ansible, history
<1>8. CASE UNCHANGED vars
    BY <1>8 DEF vars, ansible, history, TypeOK
<1> QED BY <1>1, <1>2, <1>3, <1>4, <1>5, <1>6, <1>7, <1>8 DEF Next, AnsibleStep

\* The types of states: a container that is down runs nothing, a play is at one
\* of its tasks.
THEOREM TypeCorrect == Spec => []TypeOK
BY TypeInit, TypeStep, PTL DEF Spec

----------------------------------------------------------------------------
(* The saved configuration *)

LEMMA KeptStep == TypeOK /\ OriginalKept /\ [Next]_vars => OriginalKept'
<1> SUFFICES ASSUME TypeOK, OriginalKept, [Next]_vars PROVE OriginalKept'
    OBVIOUS
<1>1. ASSUME NEW p \in DOMAIN Plays, NEW hosts \in SUBSET Hosts, Run(p, hosts)
      PROVE  OriginalKept'
    BY <1>1 DEF Run, OriginalKept
<1>2. ASSUME NEW h \in Hosts, TaskDone(h) PROVE OriginalKept'
    <2> SUFFICES ASSUME NEW g \in Hosts \ resaved'
                 PROVE  /\ host'[g].saved \in {NoFile, Lines}
                        /\ g \notin pending' => host'[g].conf = Lines
        BY DEF OriginalKept
    <2>1. Record(h)
        BY <1>2 DEF TaskDone
    <2>2. g \notin resaved /\ (Name = "save" /\ g = h => g \notin pending)
        BY <2>1, RecordFacts
    <2>3. host[g].saved \in {NoFile, Lines} /\ (g \notin pending => host[g].conf = Lines)
        BY <2>2 DEF OriginalKept
    <2>4. CASE g # h
        BY <2>1, <2>3, <2>4, <1>2, DoneFacts, RecordFacts
    <2>5. CASE g = h
        <3>1. /\ host[h] \in HostStates /\ (~ host[h].up => host[h].loaded = {})
              /\ host'[h] \in After(host[h], Name)
            BY <1>2, DoneFacts
        <3>2. /\ Name \notin {"disable", "restore"} => host'[h].conf = host[h].conf
              /\ Name = "restore" => host[h].saved # NoFile /\ host'[h].conf = host[h].saved
              /\ Name = "save" => host'[h].saved = host[h].conf
              /\ Name # "save" => host'[h].saved = host[h].saved
            BY <3>1, AfterFacts
        <3> QED BY <2>1, <2>2, <2>3, <2>5, <3>2, RecordFacts
    <2> QED BY <2>4, <2>5
<1>3. ASSUME NEW h \in Hosts, TaskFails(h) PROVE OriginalKept'
    <2> SUFFICES ASSUME NEW g \in Hosts \ resaved'
                 PROVE  /\ host'[g].saved \in {NoFile, Lines}
                        /\ g \notin pending' => host'[g].conf = Lines
        BY DEF OriginalKept
    <2>1. /\ Name = "disable" => pending' = pending \cup {h}
          /\ Name # "disable" => pending' = pending
          /\ g \notin resaved
        BY <1>3, RecordFacts DEF TaskFails
    <2>2. /\ host[h] \in HostStates /\ (~ host[h].up => host[h].loaded = {})
          /\ host'[h] \in Halfway(host[h], Name)
        BY <1>3, FailsFacts
    <2>3. /\ Name # "disable" => host'[h].conf = host[h].conf
          /\ host'[h].saved = host[h].saved
        BY <2>2, HalfwayFacts
    <2>4. g # h => host'[g] = host[g]
        BY <1>3, FailsFacts
    <2> QED BY <2>1, <2>3, <2>4 DEF OriginalKept
<1>4. CASE NextTask
    BY <1>4 DEF NextTask, OriginalKept, history
<1>5. CASE EndPlay
    BY <1>5 DEF EndPlay, PlayOver, OriginalKept
<1>6. CASE Interrupt
    BY <1>6 DEF Interrupt, PlayOver, OriginalKept
<1>7. ASSUME NEW h \in Hosts, Reboot(h) PROVE OriginalKept'
    BY <1>7 DEF Reboot, Started, OriginalKept, TypeOK, HostStates, history
<1>8. CASE UNCHANGED vars
    BY <1>8 DEF vars, history, OriginalKept
<1> QED BY <1>1, <1>2, <1>3, <1>4, <1>5, <1>6, <1>7, <1>8 DEF Next, AnsibleStep

\* update-opflex-agent-binaries.yaml:10 keeps the original configuration, however
\* the plays fail and whatever hosts they are run on again, unless it is executed
\* on a host that is disabled.
THEOREM OriginalSurvives == Spec => []OriginalKept
<1>1. ASSUME Init PROVE OriginalKept
    <2>1. \A h \in Hosts : host[h].saved = NoFile /\ host[h].conf = Lines
        BY <1>1 DEF Init
    <2> QED BY <2>1 DEF OriginalKept
<1> QED BY <1>1, TypeInit, TypeStep, KeptStep, PTL DEF Spec

----------------------------------------------------------------------------
(* Packages are replaced under stopped programs *)

LEMMA BinariesStep == TypeOK /\ BinariesInv /\ [Next]_vars => BinariesInv'
<1> SUFFICES ASSUME TypeOK, BinariesInv, [Next]_vars PROVE BinariesInv'
    OBVIOUS
<1>1. ASSUME NEW p \in DOMAIN Plays, NEW hosts \in SUBSET Hosts, Run(p, hosts)
      PROVE  BinariesInv'
    BY <1>1 DEF Run, BinariesInv, DoneOn
<1>2. ASSUME NEW h \in Hosts, TaskDone(h) PROVE BinariesInv'
    <2> SUFFICES ASSUME play' = "binaries", NEW g \in active' \ rebooted'
                 PROVE  /\ DoneOn(g, 1)' => host'[g].loaded = {} /\ (host'[g].up <=> DoneOn(g, 4)')
                        /\ DoneOn(g, 3)' => host'[g].conf = {}
        BY DEF BinariesInv
    <2>1. /\ play = "binaries" /\ task \in 1..6 /\ task' = task
          /\ g \in active \ rebooted /\ g \in Hosts /\ active' = active
          /\ todo' = todo \ {h}
        BY <1>2, PlayFacts DEF TaskDone, TypeOK
    <2>2. /\ DoneOn(g, 1) => host[g].loaded = {} /\ (host[g].up <=> DoneOn(g, 4))
          /\ DoneOn(g, 3) => host[g].conf = {}
        BY <2>1 DEF BinariesInv
    <2>3. CASE g # h
        BY <1>2, <2>1, <2>2, <2>3, DoneFacts DEF DoneOn
    <2>4. CASE g = h
        <3>1. /\ host[h] \in HostStates /\ (~ host[h].up => host[h].loaded = {})
              /\ host'[h] \in After(host[h], Name) /\ h \in todo /\ h \in active
            BY <1>2, DoneFacts
        <3>2. /\ Name = "stop" => ~ host'[h].up /\ host'[h].loaded = {}
              /\ Name \notin {"disable", "restore"} => host'[h].conf = host[h].conf
              /\ Name = "disable" => host'[h].conf = {}
              /\ Name = "start" /\ ~ host[h].up => host'[h].up /\ host'[h].loaded = host[h].conf
              /\ Name \notin {"stop", "start", "restart"} =>
                    host'[h].up = host[h].up /\ host'[h].loaded = host[h].loaded
            BY <3>1, AfterFacts
        <3>3. /\ DoneOn(h, 1) <=> task > 1
              /\ DoneOn(h, 3) <=> task > 3
              /\ DoneOn(h, 4) <=> task > 4
              /\ DoneOn(h, 1)'
              /\ DoneOn(h, 3)' <=> task >= 3
              /\ DoneOn(h, 4)' <=> task >= 4
            BY <2>1, <3>1 DEF DoneOn
        <3>4. CASE task = 1
            BY <2>1, <2>4, <3>2, <3>3, <3>4, BinariesTasks
        <3>5. CASE task = 2
            BY <2>1, <2>2, <2>4, <3>2, <3>3, <3>5, BinariesTasks
        <3>6. CASE task = 3
            BY <2>1, <2>2, <2>4, <3>2, <3>3, <3>6, BinariesTasks
        <3>7. CASE task = 4
            BY <2>1, <2>2, <2>4, <3>2, <3>3, <3>7, BinariesTasks
        <3>8. CASE task \in {5, 6}
            BY <2>1, <2>2, <2>4, <3>2, <3>3, <3>8, BinariesTasks
        <3> QED BY <2>1, <3>4, <3>5, <3>6, <3>7, <3>8
    <2> QED BY <2>3, <2>4
<1>3. ASSUME NEW h \in Hosts, TaskFails(h) PROVE BinariesInv'
    <2>1. \A g \in active' : g \in active /\ g # h /\ host'[g] = host[g]
        BY <1>3, FailsFacts DEF TaskFails, TypeOK
    <2> QED BY <1>3, <2>1 DEF TaskFails, BinariesInv, DoneOn
<1>4. CASE NextTask
    <2>1. task \in Nat
        BY <1>4, PlayFacts DEF NextTask, TypeOK
    <2> QED BY <1>4, <2>1 DEF NextTask, BinariesInv, DoneOn
<1>5. CASE EndPlay
    BY <1>5 DEF EndPlay, PlayOver, BinariesInv
<1>6. CASE Interrupt
    BY <1>6 DEF Interrupt, PlayOver, BinariesInv
<1>7. ASSUME NEW h \in Hosts, Reboot(h) PROVE BinariesInv'
    BY <1>7 DEF Reboot, BinariesInv, DoneOn, TypeOK, ansible
<1>8. CASE UNCHANGED vars
    BY <1>8 DEF vars, ansible, BinariesInv, DoneOn
<1> QED BY <1>1, <1>2, <1>3, <1>4, <1>5, <1>6, <1>7, <1>8 DEF Next, AnsibleStep

\* Whatever fails on which host, replace-binaries.sh is never executed in a
\* container that runs the programs it replaces, unless its host booted during
\* the play.
THEOREM ReplacedWhileStopped == Spec => []StoppedWhileReplaced
<1>1. Init => BinariesInv
    BY DEF Init, BinariesInv
<1>2. TypeOK /\ BinariesInv => StoppedWhileReplaced
    <2> SUFFICES ASSUME TypeOK, BinariesInv, NEW h \in todo \ rebooted,
                        play = "binaries", Name = "replace"
                 PROVE  host[h].up /\ host[h].loaded = {}
        BY DEF StoppedWhileReplaced
    <2>1. task = 6 /\ h \in active
        BY PlayFacts, BinariesTasks DEF TypeOK
    <2> QED BY <2>1 DEF BinariesInv, DoneOn
<1> QED BY <1>1, <1>2, TypeInit, TypeStep, BinariesStep, PTL DEF Spec

----------------------------------------------------------------------------
(* Hosts that were upgraded *)

LEMMA RunStep == TypeOK /\ OriginalKept /\ RunInv /\ [Next]_vars => RunInv'
<1> SUFFICES ASSUME TypeOK, OriginalKept, RunInv, [Next]_vars PROVE RunInv'
    OBVIOUS
<1>1. ASSUME NEW p \in DOMAIN Plays, NEW hosts \in SUBSET Hosts, Run(p, hosts)
      PROVE  RunInv'
    BY <1>1 DEF Run, RunInv, DoneOn
<1>2. ASSUME NEW h \in Hosts, TaskDone(h) PROVE RunInv'
    <2> SUFFICES ASSUME play' = "run", NEW g \in active' \ resaved'
                 PROVE  /\ DoneOn(g, 1)' => g \notin pending'
                        /\ DoneOn(g, 2)' => host'[g].loaded = Lines
        BY DEF RunInv
    <2>1. /\ play = "run" /\ task \in 1..2 /\ task' = task
          /\ active' = active /\ todo' = todo \ {h} /\ g \in Hosts /\ Record(h)
        BY <1>2, PlayFacts DEF TaskDone, TypeOK
    <2>2. g \in active \ resaved
        BY <2>1, RecordFacts
    <2>3. /\ DoneOn(g, 1) => g \notin pending
          /\ DoneOn(g, 2) => host[g].loaded = Lines
          /\ g \notin pending => host[g].conf = Lines
        BY <2>1, <2>2 DEF RunInv, OriginalKept
    <2>4. /\ pending' \subseteq pending
          /\ Name = "restore" => pending' = pending \ {h}
        BY <2>1, RunTasks, RecordFacts
    <2>5. CASE g # h
        BY <1>2, <2>1, <2>3, <2>4, <2>5, DoneFacts DEF DoneOn
    <2>6. CASE g = h
        <3>1. /\ host[h] \in HostStates /\ (~ host[h].up => host[h].loaded = {})
              /\ host'[h] \in After(host[h], Name) /\ h \in todo /\ h \in active
            BY <1>2, DoneFacts
        <3>2. Name = "restart" => host'[h].loaded = host[h].conf
            BY <3>1, AfterFacts
        <3>3. /\ DoneOn(h, 1) <=> task > 1
              /\ DoneOn(h, 2)' <=> task >= 2
            BY <2>1, <3>1 DEF DoneOn
        <3>4. CASE task = 1
            BY <2>1, <2>4, <2>6, <3>3, <3>4, RunTasks
        <3>5. CASE task = 2
            BY <2>1, <2>3, <2>4, <2>6, <3>2, <3>3, <3>5, RunTasks
        <3> QED BY <2>1, <3>4, <3>5
    <2> QED BY <2>5, <2>6
<1>3. ASSUME NEW h \in Hosts, TaskFails(h) PROVE RunInv'
    <2> SUFFICES ASSUME play' = "run", NEW g \in active' \ resaved'
                 PROVE  /\ DoneOn(g, 1)' => g \notin pending'
                        /\ DoneOn(g, 2)' => host'[g].loaded = Lines
        BY DEF RunInv
    <2>1. /\ play = "run" /\ task' = task /\ g \in active /\ g # h /\ host'[g] = host[g]
          /\ todo' = todo \ {h} /\ active' = active \ {h} /\ g \in Hosts
        BY <1>3, FailsFacts DEF TaskFails, TypeOK
    <2>2. g \notin resaved /\ (g \in pending' => g \in pending)
        BY <1>3, <2>1, RecordFacts DEF TaskFails
    <2> QED BY <2>1, <2>2 DEF RunInv, DoneOn
<1>4. CASE NextTask
    <2>1. task \in Nat
        BY <1>4, PlayFacts DEF NextTask, TypeOK
    <2> QED BY <1>4, <2>1 DEF NextTask, RunInv, DoneOn, history
<1>5. CASE EndPlay
    BY <1>5 DEF EndPlay, PlayOver, RunInv
<1>6. CASE Interrupt
    BY <1>6 DEF Interrupt, PlayOver, RunInv
<1>7. ASSUME NEW h \in Hosts, Reboot(h) PROVE RunInv'
    <2> SUFFICES ASSUME play = "run", NEW g \in active \ resaved
                 PROVE  /\ DoneOn(g, 1) => g \notin pending
                        /\ DoneOn(g, 2) => host'[g].loaded = Lines
        BY <1>7 DEF Reboot, RunInv, DoneOn, ansible, history
    <2>1. /\ DoneOn(g, 1) => g \notin pending
          /\ DoneOn(g, 2) => host[g].loaded = Lines
        BY DEF RunInv
    <2>2. DoneOn(g, 2) => DoneOn(g, 1)
        BY PlayFacts DEF DoneOn, TypeOK
    <2>3. g \in Hosts /\ (g \notin pending => host[g].conf = Lines)
        BY DEF OriginalKept, TypeOK
    <2>4. host'[g].loaded \in {host[g].loaded, host[g].conf}
        BY <1>7, <2>3 DEF Reboot, Started, TypeOK, HostStates
    <2> QED BY <2>1, <2>2, <2>3, <2>4
<1>8. CASE UNCHANGED vars
    BY <1>8 DEF vars, ansible, history, RunInv, DoneOn
<1> QED BY <1>1, <1>2, <1>3, <1>4, <1>5, <1>6, <1>7, <1>8 DEF Next, AnsibleStep

LEMMA PassedStep == TypeOK /\ UpgradeInv /\ [Next]_vars => PassedInv'
<1> SUFFICES ASSUME TypeOK, UpgradeInv, [Next]_vars PROVE PassedInv'
    OBVIOUS
<1> USE DEF UpgradeInv
<1>1. ASSUME NEW p \in DOMAIN Plays, NEW hosts \in SUBSET Hosts, Run(p, hosts)
      PROVE  PassedInv'
    BY <1>1 DEF Run, PassedInv, TypeOK
<1>2. ASSUME NEW h \in Hosts, TaskDone(h) \/ TaskFails(h) PROVE PassedInv'
    <2>1. /\ h \in active /\ play # "none"
          /\ \A g \in Hosts \ {h} : host'[g] = host[g]
        BY <1>2, DoneFacts, FailsFacts
    <2>2. resaved \subseteq resaved'
        BY <1>2, RecordFacts DEF TaskDone, TaskFails
    <2>3. play' = play /\ passed' = passed /\ active' \subseteq active
        BY <1>2 DEF TaskDone, TaskFails
    <2> QED BY <2>1, <2>2, <2>3 DEF PassedInv
<1>4. CASE NextTask
    BY <1>4 DEF NextTask, PassedInv, history
<1>5. CASE EndPlay
    <2>1. play' = "none" /\ host' = host /\ resaved' = resaved
        BY <1>5 DEF EndPlay, PlayOver
    <2>2. ASSUME NEW h \in Hosts \ resaved, "run" \in passed'[h]
          PROVE  host[h].conf = Lines /\ host[h].loaded = Lines
        <3>1. CASE "run" \in passed[h]
            BY <3>1 DEF PassedInv
        <3>2. CASE "run" \notin passed[h]
            <4>1. h \in active /\ play = "run"
                BY <1>5, <2>2, <3>2 DEF EndPlay, TypeOK
            <4>2. DoneOn(h, 1) /\ DoneOn(h, 2)
                BY <1>5, <4>1, PlayFacts DEF EndPlay, DoneOn
            <4> QED BY <4>1, <4>2 DEF RunInv, OriginalKept
        <3> QED BY <3>1, <3>2
    <2> QED BY <2>1, <2>2 DEF PassedInv
<1>6. CASE Interrupt
    BY <1>6 DEF Interrupt, PlayOver, PassedInv
<1>7. ASSUME NEW h \in Hosts, Reboot(h) PROVE PassedInv'
    BY <1>7 DEF Reboot, Started, PassedInv, TypeOK, HostStates, ansible, history
<1>8. CASE UNCHANGED vars
    BY <1>8 DEF vars, ansible, history, PassedInv
<1> QED BY <1>1, <1>2, <1>4, <1>5, <1>6, <1>7, <1>8 DEF Next, AnsibleStep

\* A host that passed both playbooks runs all programs with the original
\* configuration, whatever happened to it or to others before.
THEOREM UpgradeCompletes == Spec => []UpgradedHostsRun
<1>1. Init => UpgradeInv
    <2>1. ASSUME Init PROVE OriginalKept
        <3>1. \A h \in Hosts : host[h].saved = NoFile /\ host[h].conf = Lines
            BY <2>1 DEF Init
        <3> QED BY <3>1 DEF OriginalKept
    <2>2. Init => RunInv
        BY DEF Init, RunInv
    <2>3. Init => PassedInv
        BY DEF Init, PassedInv
    <2> QED BY <2>1, <2>2, <2>3 DEF UpgradeInv
<1>2. TypeOK /\ UpgradeInv /\ [Next]_vars => UpgradeInv'
    BY KeptStep, RunStep, PassedStep DEF UpgradeInv
<1>3. UpgradeInv => UpgradedHostsRun
    BY DEF UpgradeInv, PassedInv, UpgradedHostsRun
<1> QED BY <1>1, <1>2, <1>3, TypeInit, TypeStep, PTL DEF Spec
=============================================================================
