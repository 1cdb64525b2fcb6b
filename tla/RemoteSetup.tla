----------------------------- MODULE RemoteSetup -----------------------------
(* legacy_migration/configure-vlan.py and legacy_migration/fix-computes.py: a
   straight-line program on the controller that edits files and restarts
   services, on the controller itself with subprocess.check_output, and on each
   compute host with paramiko's exec_command.

   check_output waits, and raises when the command fails: the script ends there
   with a traceback.  exec_command returns as soon as the remote shell is
   started; nobody reads its output or waits for its exit status, so the
   commands sent to a host run at the same time as each other and as the rest
   of the script, and fail unnoticed.  sed -i reads its file, and replaces it by
   a renamed copy when it is done.

   Data abstraction: every service has one configuration file, named here like
   the service, and a file is the set of edits it carries; restarting
   neutron-opflex-agent restarts the metadata agents it supervises. *)
EXTENDS Naturals, Sequences, SequencesExt

CONSTANTS
    HostSeq,        \* the hosts, in the order the neutron or nova client lists them
    DhcpHost,       \* the first host the client lists as running a DHCP agent
    Controller,     \* where the script runs
    NeutronEdits,   \* SED_LISTs of reconfigure_neutron, in order
    VlanEdits,      \* SED_LIST of update_agent_ovs_cfg, in order
    ForceMetadata,  \* the edit of dhcp_agent.ini
    ProxyConfig,    \* what only the first host's metadata_agent.ini has
    MaxRuns         \* bound: times the operator runs the script

Hosts == ToSet(HostSeq)
Nodes == Hosts \cup {Controller}
Edits == ToSet(NeutronEdits) \cup ToSet(VlanEdits) \cup {ForceMetadata, ProxyConfig}
Services == {"neutron-server", "agent-ovs", "dhcp-agent", "metadata"}

ASSUME HostsAssumption ==
    /\ Len(HostSeq) > 0
    /\ \A i, j \in 1..Len(HostSeq) : HostSeq[i] = HostSeq[j] => i = j
    /\ DhcpHost \in Hosts
    /\ Controller \notin Hosts
    /\ MaxRuns \in Nat \ {0}

ASSUME ListsAssumption ==
    HostSeq \in Seq(Hosts) /\ NeutronEdits \in Seq(Edits) /\ VlanEdits \in Seq(Edits)

----------------------------------------------------------------------------
(* The programs, statement by statement. *)

Statement(do, node, on, edit) == [do |-> do, node |-> node, on |-> on, edit |-> edit]
Sed(n, file, edit) == Statement("sed", n, file, edit)
Restart(n, service) == Statement("restart", n, service, "")
Kill(n, service) == Statement("kill", n, service, "")
Connect(n) == Statement("connect", n, "", "")   \* ssh.connect
Fetch(n, file) == Statement("fetch", n, file, "")   \* scp from the host
Copy(n, file) == Statement("copy", n, file, "")     \* scp to the host

SedAll(n, file, edits) == [k \in 1..Len(edits) |-> Sed(n, file, edits[k])]
First == HostSeq[1]

\* update_agent_ovs_cfg and restart_agent_ovs; add_bridge_port touches neither.
FixOpflexAgent(h) ==
    <<Connect(h)>> \o SedAll(h, "agent-ovs", VlanEdits) \o <<Restart(h, "agent-ovs")>>

\* Mutant: the compute hosts are done before neutron-server is restarted.
ConfigureVlanHostsFirst ==
    SedAll(Controller, "neutron-server", NeutronEdits)
    \o FlattenSeq([k \in 1..Len(HostSeq) |-> FixOpflexAgent(HostSeq[k])])
    \o <<Restart(Controller, "neutron-server")>>

ConfigureVlan ==
    SedAll(Controller, "neutron-server", NeutronEdits)
    \o <<Restart(Controller, "neutron-server")>>
    \o FlattenSeq([k \in 1..Len(HostSeq) |-> FixOpflexAgent(HostSeq[k])])

\* Mutant: the copy to the last host is forgotten.
UpdateMetadataShort ==
    <<Fetch(First, "metadata")>>
    \o [k \in 1..(Len(HostSeq) - 2) |-> Copy(HostSeq[k + 1], "metadata")]

UpdateMetadataAgentCfg ==
    <<Fetch(First, "metadata")>>
    \o [k \in 1..(Len(HostSeq) - 1) |-> Copy(HostSeq[k + 1], "metadata")]

UpdateDhcpAgentCfg(h) ==
    <<Sed(h, "dhcp-agent", ForceMetadata), Restart(h, "dhcp-agent")>>

\* Kills supervisord, then restarts neutron-opflex-agent.
RestartMetadataAgent(h) == <<Kill(h, "metadata"), Restart(h, "metadata")>>

FixComputes ==
    UpdateMetadataAgentCfg
    \o FlattenSeq([k \in 1..Len(HostSeq) |->
           LET h == HostSeq[k]
           IN  <<Connect(h)>>
               \o (IF h = DhcpHost THEN UpdateDhcpAgentCfg(h) ELSE <<>>)
               \o (IF h # First THEN RestartMetadataAgent(h) ELSE <<>>)
               \o <<Restart(h, "agent-ovs")>>])

Programs == {ConfigureVlan, FixComputes}

----------------------------------------------------------------------------
VARIABLES
    program,        \* the script's statements
    pc,             \* the next one
    active,         \* whether the script is running
    runs,           \* how often it was started
    fetched,        \* the local copy of metadata_agent.ini
    file,           \* edits in the file of each service on each node
    loaded,         \* edits each service has read; {} also when it is down
    remote,         \* commands started on the hosts and not yet finished
    failed          \* history: edits alone on their file that failed last time

vars == <<program, pc, active, runs, fetched, file, loaded, remote, failed>>
script == <<program, pc, active, runs, fetched>>

Commands == [cmd : {program[k] : k \in 1..Len(program)},
             read : BOOLEAN, copy : SUBSET Edits]

TypeOK ==
    /\ program \in Programs
    /\ pc \in 1..(Len(program) + 1)
    /\ active \in BOOLEAN
    /\ runs \in 0..MaxRuns
    /\ fetched \subseteq Edits
    /\ file \in [Nodes -> [Services -> SUBSET Edits]]
    /\ loaded \in [Nodes -> [Services -> SUBSET Edits]]
    /\ remote \subseteq Commands
    /\ failed \subseteq ToSet(program)

Init ==
    /\ program \in Programs
    /\ pc = 1
    /\ active = FALSE
    /\ runs = 0
    /\ fetched = {}
    /\ file = [n \in Nodes |-> [s \in Services |->
                  IF n = First /\ s = "metadata" THEN {ProxyConfig} ELSE {}]]
    /\ loaded = file
    /\ remote = {}
    /\ failed = {}

\* The operator runs the script, again if it likes, but not in the seconds that
\* the commands of the run before take to end.
Run ==
    /\ ~ active
    /\ remote = {}
    /\ runs < MaxRuns
    /\ active' = TRUE
    /\ pc' = 1
    /\ runs' = runs + 1
    /\ UNCHANGED <<program, fetched, file, loaded, remote, failed>>

Current == program[pc]
Waits == Current.node = Controller \/ Current.do \in {"connect", "fetch", "copy"}

Advance ==
    /\ active
    /\ pc <= Len(program)
    /\ pc' = pc + 1
    /\ UNCHANGED <<program, active, runs>>

\* Mutant: sed without -i writes to its standard output.
EffectNoInPlace(c, copy) ==
    /\ file' = IF c.do = "copy" THEN [file EXCEPT ![c.node][c.on] = copy] ELSE file
    /\ loaded' = CASE c.do = "restart" -> [loaded EXCEPT ![c.node][c.on] = file[c.node][c.on]]
                   [] c.do = "kill" -> [loaded EXCEPT ![c.node][c.on] = {}]
                   [] OTHER -> loaded

\* What a command that has run to its end has done to file and loaded; sed
\* writes its copy of the file.
Effect(c, copy) ==
    /\ file' = IF c.do \in {"sed", "copy"}
               THEN [file EXCEPT ![c.node][c.on] = copy] ELSE file
    /\ loaded' = CASE c.do = "restart" -> [loaded EXCEPT ![c.node][c.on] = file[c.node][c.on]]
                   [] c.do = "kill" -> [loaded EXCEPT ![c.node][c.on] = {}]
                   [] OTHER -> loaded

Edited(c) == file[c.node][c.on] \cup {c.edit}

\* The edits a run of the program makes to a file.
EditsOf(n, s) ==
    {program[k].edit : k \in {j \in 1..Len(program) :
        program[j].do = "sed" /\ program[j].node = n /\ program[j].on = s}}

Alone(c) == c.do = "sed" /\ EditsOf(c.node, c.on) = {c.edit}

\* A statement the script waits for.
RunLocal ==
    /\ Advance
    /\ Waits
    /\ Effect(Current, IF Current.do = "copy" THEN fetched ELSE Edited(Current))
    /\ fetched' = IF Current.do = "fetch" THEN file[Current.node][Current.on]
                  ELSE fetched
    /\ UNCHANGED <<remote, failed>>

\* Mutant: sed works on a pristine copy of the file, with its own edit only.
ExecFromOriginal ==
    /\ Advance
    /\ ~ Waits
    /\ remote' = remote \cup {[cmd |-> Current, read |-> TRUE, copy |-> {Current.edit}]}
    /\ UNCHANGED <<fetched, file, loaded, failed>>

\* exec_command: the command is started, and the script goes on.
Exec ==
    /\ Advance
    /\ ~ Waits
    /\ remote' = remote \cup {[cmd |-> Current, read |-> FALSE, copy |-> {}]}
    /\ UNCHANGED <<fetched, file, loaded, failed>>

\* check_output, ssh.connect or scp fails, or the script is interrupted.
Abort ==
    /\ active
    /\ active' = FALSE
    /\ UNCHANGED <<program, pc, runs, fetched, file, loaded, remote, failed>>

\* Mutant: statements are counted from zero.
EndRewinds ==
    /\ active
    /\ pc > Len(program)
    /\ active' = FALSE
    /\ pc' = 0
    /\ UNCHANGED <<program, runs, fetched, file, loaded, remote, failed>>

End ==
    /\ active
    /\ pc > Len(program)
    /\ active' = FALSE
    /\ UNCHANGED <<program, pc, runs, fetched, file, loaded, remote, failed>>

\* sed -i opens the file and reads it to its end.
SedRead(r) ==
    /\ r.cmd.do = "sed"
    /\ ~ r.read
    /\ remote' = (remote \ {r}) \cup {[r EXCEPT !.read = TRUE, !.copy = Edited(r.cmd)]}
    /\ UNCHANGED <<script, file, loaded, failed>>

\* A remote command succeeds: sed renames its copy, a restarted service has read
\* its configuration, a killed one is gone.
Finish(r) ==
    /\ r.cmd.do = "sed" => r.read
    /\ Effect(r.cmd, r.copy)
    /\ remote' = remote \ {r}
    /\ failed' = failed \ {r.cmd}
    /\ UNCHANGED script

\* A remote command fails, or ends with its connection.  sed leaves the file as
\* it was, a service may have stopped and not started again.
Fail(r) ==
    /\ remote' = remote \ {r}
    /\ failed' = IF Alone(r.cmd) THEN failed \cup {r.cmd} ELSE failed
    /\ \/ loaded' = loaded
       \/ r.cmd.do = "restart" /\ loaded' = [loaded EXCEPT ![r.cmd.node][r.cmd.on] = {}]
    /\ UNCHANGED <<script, file>>

Next ==
    \/ Run \/ RunLocal \/ Exec \/ Abort \/ End
    \/ \E r \in remote : SedRead(r) \/ Finish(r) \/ Fail(r)

Spec == Init /\ [][Next]_vars

----------------------------------------------------------------------------
Settled(n) == \A r \in remote : r.cmd.node # n
Executed == {program[k] : k \in 1..(pc - 1)}

\* No OpFlex agent runs with a VLAN configuration before neutron-server runs
\* with all of its own, wherever a run of configure-vlan.py is interrupted.
NeutronFirst ==
    \A h \in Hosts :
        loaded[h]["agent-ovs"] \cap ToSet(VlanEdits) # {} =>
            ToSet(NeutronEdits) \subseteq loaded[Controller]["neutron-server"]

\* fix-computes.py restarts the metadata agents of no host that does not have
\* the first host's configuration yet.
MetadataFileFirst ==
    \A r \in remote :
        r.cmd.do = "restart" /\ r.cmd.on = "metadata" =>
            file[r.cmd.node]["metadata"] = file[First]["metadata"]

\* An edit that is alone on its file is there once the host is quiet, unless the
\* command failed.
SoleEditsStick ==
    \A c \in Executed \ failed :
        /\ Alone(c)
        /\ Settled(c.node)
        => c.edit \in file[c.node][c.on]

\* Running the script again never loses an edit that a quiet host had: the races
\* of a run can only lose edits of that same run.
SettledEditsKept ==
    \A h \in Hosts, e \in ToSet(VlanEdits) :
        [](Settled(h) /\ e \in file[h]["agent-ovs"]
             => [](e \in file[h]["agent-ovs"]))

\* What update_agent_ovs_cfg (configure-vlan.py:66) and update_dhcp_agent_cfg
\* (fix-computes.py:30) say: the option is set and the service restarted.  After
\* a complete run, once all commands have ended, the service runs with the edits.
ServiceRunsEdited ==
    pc > Len(program) /\ remote = {} =>
        \A c \in Executed :
            c.do = "restart" => EditsOf(c.node, c.on) \subseteq loaded[c.node][c.on]

============================================================================
