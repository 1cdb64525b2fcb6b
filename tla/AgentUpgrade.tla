---------------------------- MODULE AgentUpgrade ----------------------------
(* agent/tools/updates: the two ansible playbooks that replace the binaries of the
   opflex agent inside its container.  "binaries" saves supervisord's
   configuration, disables the programs in it, starts the container without them
   and replaces the packages; "run" restores the configuration and restarts the
   container.  The optional third one, an example to be tailored, edits a file
   that nothing here depends on, and is left out.

   ansible executes a task on every host of the play before it goes on to the
   next one.  A host on which a task fails, perhaps half done, leaves the play;
   the operator may run any playbook again, on any hosts.  The container starts
   with a host that boots. *)
EXTENDS Naturals, Sequences

CONSTANTS
    Hosts,
    Lines,          \* lines of supervisord's configuration that are disabled
    NoFile

Plays ==
    [binaries |-> <<"stop", "save", "disable", "start", "copy", "replace">>,
     run      |-> <<"restore", "restart">>]

HostStates ==
    [up : BOOLEAN, loaded : SUBSET Lines, conf : SUBSET Lines,
     saved : (SUBSET Lines) \cup {NoFile}]

VARIABLES
    host,           \* container, programs it runs, and files of a host
    play,           \* the playbook that runs, or "none"
    task,           \* the index of its task
    active,         \* hosts that are left in the play
    todo,           \* active hosts that have the task before them
    passed,         \* history: "binaries" if a host passed it, "run" if it did since
    pending,        \* history: hosts whose configuration was disabled, maybe in
                    \* part, and not restored since
    resaved,        \* history: hosts where "save" was executed while pending
    rebooted        \* history: hosts that booted during the play

ansible == <<play, task, active, todo>>
history == <<passed, pending, resaved>>
vars == <<host, ansible, history, rebooted>>

TypeOK ==
    /\ host \in [Hosts -> HostStates]
    /\ play \in DOMAIN Plays \cup {"none"}
    /\ play # "none" => task \in DOMAIN Plays[play]
    /\ todo \subseteq active /\ active \subseteq Hosts
    /\ passed \in [Hosts -> SUBSET DOMAIN Plays]
    /\ pending \subseteq Hosts /\ resaved \subseteq Hosts /\ rebooted \subseteq Hosts
    /\ \A h \in Hosts : host[h].up \/ host[h].loaded = {}

Init ==
    /\ host = [h \in Hosts |-> [up |-> TRUE, loaded |-> Lines, conf |-> Lines,
                                saved |-> NoFile]]
    /\ play = "none" /\ task = 1 /\ active = {} /\ todo = {}
    /\ passed = [h \in Hosts |-> {}]
    /\ pending = {} /\ resaved = {} /\ rebooted = {}

----------------------------------------------------------------------------
(* Tasks *)

Name == Plays[play][task]

Started(s) == [s EXCEPT !.up = TRUE, !.loaded = s.conf]

\* Mutant: source and destination are exchanged.
RestoredSwapped(s) == {[s EXCEPT !.saved = s.conf]}

Restored(s) == IF s.saved = NoFile THEN {} ELSE {[s EXCEPT !.conf = s.saved]}

\* What a host may be like after a task that succeeds.  Packages are not part of
\* it: replace-binaries.sh ends with rm -f, and so succeeds whatever rpm did.
After(s, name) ==
    CASE name = "stop"    -> {[s EXCEPT !.up = FALSE, !.loaded = {}]}
      [] name = "save"    -> {[s EXCEPT !.saved = s.conf]}
      [] name = "disable" -> {[s EXCEPT !.conf = {}]}
      [] name = "start"   -> IF s.up THEN {s} ELSE {Started(s)}
      [] name = "replace" -> IF s.up THEN {s} ELSE {}
      [] name = "restore" -> Restored(s)
      [] name = "restart" -> {Started(s)}
      [] OTHER            -> {s}

\* After one that fails: some items of a loop, or a part of a script, are done.
Halfway(s, name) ==
    CASE name = "disable" -> {[s EXCEPT !.conf = c] : c \in SUBSET s.conf}
      [] name = "restart" -> {s, [s EXCEPT !.up = FALSE, !.loaded = {}]}
      [] OTHER            -> {s}

\* The operator starts a playbook, for all hosts or some (-l).
Run(p, hosts) ==
    /\ play = "none" /\ hosts # {}
    /\ play' = p /\ task' = 1 /\ active' = hosts /\ todo' = hosts
    /\ passed' = [h \in Hosts |-> IF h \notin hosts THEN passed[h]
                                  ELSE passed[h] \ {p, "run"}]
    /\ rebooted' = {}
    /\ UNCHANGED <<host, pending, resaved>>

\* History of a task that was begun on a host.
Record(h) ==
    /\ pending' = CASE Name = "disable" -> pending \cup {h}
                    [] Name = "restore" -> pending \ {h}
                    [] OTHER -> pending
    /\ resaved' = IF Name = "save" /\ h \in pending THEN resaved \cup {h} ELSE resaved

TaskDone(h) ==
    /\ play # "none" /\ h \in todo
    /\ \E s \in After(host[h], Name) : host' = [host EXCEPT ![h] = s]
    /\ todo' = todo \ {h}
    /\ Record(h)
    /\ UNCHANGED <<play, task, active, passed, rebooted>>

\* Mutant: the error is ignored, and the host stays in the play.
TaskFailsStays(h) ==
    /\ play # "none" /\ h \in todo
    /\ \E s \in Halfway(host[h], Name) : host' = [host EXCEPT ![h] = s]
    /\ todo' = todo \ {h}
    /\ IF Name = "disable" THEN Record(h) ELSE UNCHANGED <<pending, resaved>>
    /\ UNCHANGED <<play, task, active, passed, rebooted>>

\* Mutant: the host is tried again.
TaskFailsRetries(h) ==
    /\ play # "none" /\ h \in todo
    /\ \E s \in Halfway(host[h], Name) : host' = [host EXCEPT ![h] = s]
    /\ IF Name = "disable" THEN Record(h) ELSE UNCHANGED <<pending, resaved>>
    /\ UNCHANGED <<ansible, passed, rebooted>>

TaskFails(h) ==
    /\ play # "none" /\ h \in todo
    /\ \E s \in Halfway(host[h], Name) : host' = [host EXCEPT ![h] = s]
    /\ todo' = todo \ {h} /\ active' = active \ {h}
    /\ IF Name = "disable" THEN Record(h) ELSE UNCHANGED <<pending, resaved>>
    /\ UNCHANGED <<play, task, passed, rebooted>>

\* Mutant: the end of the list is not noticed.
NextTaskPastEnd ==
    /\ play # "none" /\ todo = {} /\ active # {}
    /\ task' = task + 1 /\ todo' = active
    /\ UNCHANGED <<host, play, active, history, rebooted>>

NextTask ==
    /\ play # "none" /\ todo = {} /\ active # {} /\ task < Len(Plays[play])
    /\ task' = task + 1 /\ todo' = active
    /\ UNCHANGED <<host, play, active, history, rebooted>>

PlayOver ==
    /\ play' = "none" /\ task' = 1 /\ active' = {} /\ todo' = {}
    /\ rebooted' = {}
    /\ UNCHANGED <<host, pending, resaved>>

\* The last task is done, or no host is left.
EndPlay ==
    /\ play # "none" /\ todo = {}
    /\ active = {} \/ task = Len(Plays[play])
    /\ LET counts(h) == h \in active /\ (play = "run" => "binaries" \in passed[h])
       IN  passed' = [h \in Hosts |-> IF counts(h) THEN passed[h] \cup {play} ELSE passed[h]]
    /\ PlayOver

Interrupt == play # "none" /\ UNCHANGED passed /\ PlayOver

Reboot(h) ==
    /\ host' = [host EXCEPT ![h] = Started(host[h])]
    /\ rebooted' = IF play = "binaries" THEN rebooted \cup {h} ELSE {}
    /\ UNCHANGED <<ansible, history>>

AnsibleStep == NextTask \/ EndPlay \/ \E h \in Hosts : TaskDone(h) \/ TaskFails(h)

Next ==
    \/ \E p \in DOMAIN Plays, hosts \in SUBSET Hosts : Run(p, hosts)
    \/ AnsibleStep \/ Interrupt
    \/ \E h \in Hosts : Reboot(h)

\* ansible goes on with a play until it is over.
Spec == Init /\ [][Next]_vars /\ WF_vars(AnsibleStep)

----------------------------------------------------------------------------
\* update-opflex-agent-binaries.yaml:10 saves whatever configuration it finds:
\* the saved file is the original however plays fail and are run again, as long
\* as "save" is not executed between a first "disable" and a "restore".
OriginalKept ==
    \A h \in Hosts \ resaved :
        /\ host[h].saved \in {NoFile, Lines}
        /\ h \notin pending => host[h].conf = Lines

\* While packages are replaced on a host its container runs none of the programs,
\* unless the host booted in the middle of the play: then "start" finds the
\* container running, with whatever the configuration was at that time.
StoppedWhileReplaced ==
    \A h \in todo \ rebooted :
        play = "binaries" /\ Name = "replace" => host[h].up /\ host[h].loaded = {}

\* A host that passed "binaries" and then "run", whatever failed on it or on
\* others in between, runs all its programs with the original configuration.
UpgradedHostsRun ==
    \A h \in Hosts \ resaved :
        {"binaries", "run"} \subseteq passed[h] /\ h \notin active =>
            host[h].conf = Lines /\ host[h].loaded = Lines

\* Every play comes to an end, with hosts failing at any task.
PlaysEnd == play # "none" ~> play = "none"

============================================================================
