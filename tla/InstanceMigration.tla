------------------------- MODULE InstanceMigration -------------------------
(* The three host scripts that move the instances of a compute host from the
   hybrid plug (tap - Linux bridge qbr - qvo port of br-int) to a tap plugged
   straight into br-int, and back:

     legacy_migration/prepare-instances.sh   run while the guests run
     legacy_migration/update-saved.sh        run when they are suspended
     legacy_migration/rollback.sh            undoes update-saved.sh

   The scripts share no lock and keep no journal.  What they know of each
   other is the directory migration-data: one file of external-ids per qvo
   port (idsFile) and one rollback XML per instance (rollbackXml).  Around
   them nova, libvirt and the guests keep moving, a script can be killed, and
   none of them stops when virsh ("libvirtError") or ovs-vsctl ("ovsError")
   fails: the scripts do not set -e.  A failed command that lists or dumps
   something prints nothing, and its > leaves an empty file.

   The order in which an operator runs the scripts is written in their
   comments only.  Spec follows it; a member of Deviations allows one
   departure from it, or one fault of the environment.

   Data abstraction: a port is its neutron UUID, its tap, qbr and qvo names at
   once; of a domain XML only the interface elements and the dummy metadata
   remain; DRYRUN is "False" as shipped. *)

CONSTANTS
    Instances,      \* libvirt domains of the host
    Ports,          \* neutron ports, by UUID
    Owner,          \* the instance whose XML lists the port's tap
    Plugged,        \* ports whose qvo interface carries its UUID at the outset
    NoId,           \* external-ids without a UUID: {}, an empty or a missing file
    Qbr,            \* the interface source qbrXXX, as opposed to br-int
    NoXml,          \* a missing or empty XML file
    Deviations      \* departures from the procedure that this instance allows

AllDeviations == {"earlySave", "race", "crash", "libvirtError", "ovsError",
                  "rerunPrepare", "rerunUpdate"}

ASSUME OwnerAssumption == Owner \in [Ports -> Instances]
ASSUME PluggedAssumption == Plugged \subseteq Ports
ASSUME IdAssumption == NoId \notin Ports /\ Qbr \notin Ports /\ Qbr # NoId
ASSUME DeviationsAssumption == Deviations \subseteq AllDeviations

Scripts == {"prepare", "update", "rollback"}
PortsOf(i) == {p \in Ports : Owner[p] = i}

\* What the scripts read and change in a domain XML: per interface its bridge
\* (Qbr, or br-int with an interfaceid), and the ports it holds padding for.
Vifs == Ports \cup {NoId, Qbr}
Xmls == [vif : [Ports -> Vifs], pad : SUBSET Ports]
PlainXml == [vif |-> [p \in Ports |-> Qbr], pad |-> {}]
Padded(x, ports) == [vif |-> x.vif, pad |-> ports]
WithoutPadding(x) == Padded(x, {})      \* grep -v ${add-PORTID}
ToBrInt(x, p, id) ==
    [vif |-> [x.vif EXCEPT ![p] = IF @ = Qbr THEN id ELSE @], pad |-> {}]
ConvertedIn(x) == {p \in Ports : x.vif[p] # Qbr}

ASSUME NoXmlAssumption == NoXml \notin Xmls

VARIABLES
    domState,       \* "running", "saved" (suspended by managed save) or "shutoff"
    xml,            \* XML of the running domain or of its managed-save image
    room,           \* ports whose virtualport element fits the image's header
    ovsdb,          \* external-ids of the qvo interface, reduced to the UUID
    idsFile,        \* migration-data/qvoXXX-external-ids.txt
    rollbackXml,    \* migration-data/<instance>-rollback.xml
    script,         \* the script that runs, or "none"
    loop,           \* 1: the running or saved instances, 2: those shut off
    step,           \* "next" instance, each of its "ports", or "write" its XML
    todo,           \* rest of ${RUNNING} or ${SHUTDOWN}
    inst,           \* ${INSTANCE}
    ifaces,         \* rest of ${IFACES}
    work,           \* metadata.xml or update.xml: the XML being prepared
    \* history, which no script can see
    began,          \* scripts the operator has started
    done,           \* scripts whose latest run reached its end
    missed,         \* ports whose ids prepare failed to read, unnoticed
    uncleared       \* ports whose qvo interface kept its ids when told to drop them

host == <<domState, xml, room, ovsdb>>
files == <<idsFile, rollbackXml>>
local == <<script, loop, step, todo, inst, ifaces, work>>
faults == <<missed, uncleared>>
history == <<began, done, missed, uncleared>>
vars == <<domState, xml, room, ovsdb, idsFile, rollbackXml, script, loop, step,
          todo, inst, ifaces, work, began, done, missed, uncleared>>

TypeOK ==
    /\ domState \in [Instances -> {"running", "saved", "shutoff"}]
    /\ xml \in [Instances -> Xmls]
    /\ room \in [Instances -> SUBSET Ports]
    /\ ovsdb \in [Ports -> Ports \cup {NoId}]
    /\ idsFile \in [Ports -> Ports \cup {NoId}]
    /\ rollbackXml \in [Instances -> Xmls \cup {NoXml}]
    /\ script \in Scripts \cup {"none"}
    /\ loop \in {1, 2}
    /\ step \in {"next", "ports", "write"}
    /\ todo \subseteq Instances
    /\ inst \in Instances
    /\ ifaces \subseteq Ports
    /\ work \in Xmls
    /\ began \subseteq Scripts
    /\ done \subseteq Scripts
    /\ missed \subseteq Ports
    /\ uncleared \subseteq Ports

\* Every instance uses the hybrid plug; a few may be suspended already.
Init ==
    /\ domState \in [Instances -> {"running", "shutoff"}
                       \cup (IF "earlySave" \in Deviations THEN {"saved"} ELSE {})]
    /\ xml = [i \in Instances |-> PlainXml]
    /\ room = [i \in Instances |-> {}]
    /\ ovsdb = [p \in Ports |-> IF p \in Plugged THEN p ELSE NoId]
    /\ idsFile = [p \in Ports |-> NoId]
    /\ rollbackXml = [i \in Instances |-> NoXml]
    /\ script = "none"
    /\ loop = 1
    /\ step = "next"
    /\ todo = {}
    /\ inst \in Instances
    /\ ifaces = {}
    /\ work = PlainXml
    /\ began = {}
    /\ done = {}
    /\ missed = {}
    /\ uncleared = {}

----------------------------------------------------------------------------
(* What the three scripts have in common. *)

InState(s) == {i \in Instances : domState[i] = s}

LibvirtMayFail == "libvirtError" \in Deviations
OvsMayFail == "ovsError" \in Deviations

\* virsh list: a script that gets no answer has nothing to do.
List(listed) == todo' = listed \/ (LibvirtMayFail /\ todo' = {})

\* virsh dumpxml and xmllint: the interfaces that a script finds.
Shown(i) == {PortsOf(i)} \cup (IF LibvirtMayFail THEN {{}} ELSE {})

\* prepare-instances.sh leaves out these instances: of their ports those are
\* missed whose ids are not on file already.
LeaveOut(instances) ==
    missed' = missed \cup
                  {p \in Ports : Owner[p] \in instances /\ idsFile[p] # ovsdb[p]}

\* The operator starts a script; it lists the domains of its first loop.
Start(s, listed) ==
    /\ script = "none"
    /\ script' = s
    /\ loop' = 1
    /\ step' = "next"
    /\ List(listed)
    /\ LeaveOut(IF s = "prepare" THEN listed \ todo' ELSE {})
    /\ began' = began \cup {s}
    /\ done' = done \ {s}
    /\ UNCHANGED <<host, files, inst, ifaces, work, uncleared>>

At(s, l, where) == script = s /\ loop = l /\ step = where

\* The loop turns to instance i, whose XML shows the interfaces shown.
TakeInstance(i, shown) ==
    /\ i \in todo
    /\ todo' = todo \ {i}
    /\ inst' = i
    /\ ifaces' = shown
    /\ step' = IF shown = {} THEN "next" ELSE "ports"
    /\ UNCHANGED <<script, loop>>

\* The inner loop handles interface p; after the last one comes where.
TakePort(p, where) ==
    /\ p \in ifaces
    /\ ifaces' = ifaces \ {p}
    /\ step' = IF ifaces = {p} THEN where ELSE "ports"
    /\ UNCHANGED <<script, loop, todo, inst>>

\* Mutant: the second loop is over the interfaces of all instances.
ListShutdownPorts ==
    /\ script # "none" /\ loop = 1 /\ step = "next" /\ todo = {}
    /\ loop' = 2
    /\ todo' = UNION {PortsOf(i) : i \in InState("shutoff")}
    /\ UNCHANGED <<host, files, script, step, inst, ifaces, work, history>>

\* The first loop is over: list the instances that are shut off by now.
ListShutdown ==
    /\ script # "none" /\ loop = 1 /\ step = "next" /\ todo = {}
    /\ loop' = 2
    /\ List(InState("shutoff"))
    /\ LeaveOut(IF script = "prepare" THEN InState("shutoff") \ todo' ELSE {})
    /\ UNCHANGED <<host, files, script, step, inst, ifaces, work, began, done,
                   uncleared>>

Finished(s) == script = s /\ loop = 2 /\ step = "next" /\ todo = {}

\* The process is gone.  Files it was preparing are written anew by the next.
Gone ==
    /\ script # "none" /\ script' = "none"
    /\ loop' = 1
    /\ step' = "next"
    /\ todo' = {}
    /\ ifaces' = {}
    /\ work' = PlainXml
    /\ UNCHANGED inst

Exit ==
    /\ Finished(script)
    /\ Gone
    /\ done' = done \cup {script}
    /\ UNCHANGED <<host, files, began, faults>>

\* virsh dumpxml: the live XML, or the persistent one of a domain that is not
\* running, which neither the padding nor a conversion reaches.
DumpXml(i) == IF domState[i] = "running" THEN xml[i] ELSE PlainXml

\* virsh managedsave-define: there must be an image, and its header does not
\* grow.  Without padding for every converted interface it may be refused;
\* the scripts ignore the outcome.
ManagedSaveDefine(i, x) ==
    \/ /\ domState[i] = "saved"
       /\ xml' = [xml EXCEPT ![i] = x]
    \/ /\ \/ domState[i] # "saved"
          \/ ~ (ConvertedIn(x) \subseteq room[i])
          \/ LibvirtMayFail
       /\ xml' = xml

\* ovs-vsctl set ... external-ids={}
ClearIds(p) ==
    \/ /\ ovsdb' = [ovsdb EXCEPT ![p] = NoId]
       /\ uncleared' = uncleared \ {p}
    \/ /\ OvsMayFail /\ ovsdb[p] # NoId
       /\ ovsdb' = ovsdb
       /\ uncleared' = uncleared \cup {p}

----------------------------------------------------------------------------
(* prepare-instances.sh *)

StartPrepare ==
    /\ began \subseteq {"prepare"} \/ "rerunPrepare" \in Deviations
    /\ Start("prepare", InState("running"))

PrepareDump(i) ==
    /\ At("prepare", 1, "next")
    /\ \E shown \in Shown(i) :
           TakeInstance(i, shown) /\ LeaveOut(IF shown = PortsOf(i) THEN {} ELSE {i})
    /\ work' = DumpXml(i)
    /\ UNCHANGED <<host, files, began, done, uncleared>>

\* ovs-vsctl get ... external-ids > qvoXXX-external-ids.txt
SaveIds(p) ==
    \/ /\ idsFile' = [idsFile EXCEPT ![p] = ovsdb[p]]
       /\ missed' = missed \ {p}
    \/ /\ OvsMayFail /\ ovsdb[p] # NoId
       /\ idsFile' = [idsFile EXCEPT ![p] = NoId]
       /\ missed' = missed \cup {p}

\* Mutant: no dummy metadata for the port.
PrepareExtractUnpadded(p) ==
    /\ At("prepare", 1, "ports")
    /\ TakePort(p, "write")
    /\ SaveIds(p)
    /\ UNCHANGED <<host, rollbackXml, work, began, done, uncleared>>

\* Save the external-ids; a port without an id gets no dummy metadata.
PrepareExtract(p) ==
    /\ At("prepare", 1, "ports")
    /\ TakePort(p, "write")
    /\ SaveIds(p)
    /\ work' = IF idsFile'[p] = NoId THEN work
               ELSE Padded(work, work.pad \cup {p})
    /\ UNCHANGED <<host, rollbackXml, began, done, uncleared>>

\* virsh metadata --live works on a running domain only.  metadata.xml is removed.
PrepareSetMetadata ==
    /\ At("prepare", 1, "write")
    /\ step' = "next"
    /\ work' = PlainXml
    /\ \/ /\ domState[inst] = "running"
          /\ xml' = [xml EXCEPT ![inst] = Padded(@, work.pad)]
       \/ /\ domState[inst] # "running" \/ LibvirtMayFail
          /\ xml' = xml
    /\ UNCHANGED <<domState, room, ovsdb, files, script, loop, todo, inst,
                   ifaces, history>>

PrepareShutDump(i) ==
    /\ At("prepare", 2, "next")
    /\ \E shown \in Shown(i) :
           TakeInstance(i, shown) /\ LeaveOut(IF shown = PortsOf(i) THEN {} ELSE {i})
    /\ UNCHANGED <<host, files, work, began, done, uncleared>>

\* Mutant: the external-ids are read and not written to the file.
PrepareShutExtractNoFile(p) ==
    /\ At("prepare", 2, "ports")
    /\ TakePort(p, "next")
    /\ UNCHANGED <<host, files, work, history>>

PrepareShutExtract(p) ==
    /\ At("prepare", 2, "ports")
    /\ TakePort(p, "next")
    /\ SaveIds(p)
    /\ UNCHANGED <<host, rollbackXml, work, began, done, uncleared>>

----------------------------------------------------------------------------
(* update-saved.sh *)

\* Mutant: the operator does not wait for the end of prepare-instances.sh.
StartUpdateUnprepared ==
    /\ began = {"prepare"}
    /\ Start("update", InState("saved"))

StartUpdate ==
    /\ "prepare" \in done
    /\ began = {"prepare"} \/ "rerunUpdate" \in Deviations
    /\ Start("update", InState("saved"))

\* The dump of a domain that left the saved state meanwhile is an empty file.
UpdateDump(i) ==
    \E dumped \in BOOLEAN :
        /\ At("update", 1, "next")
        /\ dumped => domState[i] = "saved"
        /\ ~ dumped => domState[i] # "saved" \/ LibvirtMayFail
        /\ TakeInstance(i, IF dumped THEN PortsOf(i) ELSE {})
        /\ rollbackXml' = [rollbackXml EXCEPT ![i] = IF dumped THEN xml[i] ELSE NoXml]
        /\ work' = IF dumped THEN xml[i] ELSE work
        /\ UNCHANGED <<host, idsFile, history>>

\* Mutant: OVSDB is cleared first, and asked for the id afterwards.
UpdateConvertLateRead(p) ==
    /\ At("update", 1, "ports")
    /\ TakePort(p, "write")
    /\ ClearIds(p)
    /\ work' = ToBrInt(work, p, ovsdb'[p])
    /\ UNCHANGED <<domState, xml, room, files, began, done, missed>>

\* Mutant: the old qvo interface keeps its external-ids.
UpdateConvertUncleared(p) ==
    /\ At("update", 1, "ports")
    /\ TakePort(p, "write")
    /\ work' = ToBrInt(work, p, idsFile[p])
    /\ UNCHANGED <<host, files, history>>

\* One interface: drop the dummy metadata, move a qbr interface to br-int with
\* the id of the file, whatever it is, and clear the qvo port's external-ids.
UpdateConvert(p) ==
    /\ At("update", 1, "ports")
    /\ TakePort(p, "write")
    /\ work' = ToBrInt(work, p, idsFile[p])
    /\ ClearIds(p)
    /\ UNCHANGED <<domState, xml, room, files, began, done, missed>>

\* Mutant: the rollback XML is copied when the conversion is complete.
UpdateDefineLateCopy ==
    /\ At("update", 1, "write")
    /\ step' = "next"
    /\ ManagedSaveDefine(inst, work)
    /\ work' = PlainXml
    /\ rollbackXml' = [rollbackXml EXCEPT ![inst] = work]
    /\ UNCHANGED <<domState, room, ovsdb, idsFile, script, loop, todo, inst,
                   ifaces, history>>

\* update.xml is removed in the end.
UpdateDefine ==
    /\ At("update", 1, "write")
    /\ step' = "next"
    /\ ManagedSaveDefine(inst, work)
    /\ work' = PlainXml
    /\ UNCHANGED <<domState, room, ovsdb, files, script, loop, todo, inst,
                   ifaces, history>>

UpdateShutDump(i) ==
    /\ At("update", 2, "next")
    /\ \E shown \in Shown(i) : TakeInstance(i, shown)
    /\ UNCHANGED <<host, files, work, history>>

UpdateShutClear(p) ==
    /\ At("update", 2, "ports")
    /\ TakePort(p, "next")
    /\ ClearIds(p)
    /\ UNCHANGED <<domState, xml, room, files, work, began, done, missed>>

----------------------------------------------------------------------------
(* rollback.sh *)

StartRollback ==
    /\ "update" \in began
    /\ Start("rollback", InState("saved"))

\* An instance whose interfaces differ from those of its rollback XML is skipped.
RollbackDump(i) ==
    \E current \in IF domState[i] = "saved" THEN Shown(i) ELSE {{}} :
        LET before == IF rollbackXml[i] = NoXml THEN {} ELSE PortsOf(i)
        IN  /\ At("rollback", 1, "next")
            /\ TakeInstance(i, IF current = before THEN current ELSE {})
            /\ UNCHANGED <<host, files, work, history>>

\* ovs-vsctl set ... external-ids=$(cat ...): a file with no id either clears
\* them or makes ovs-vsctl fail.
RestoreIds(p) ==
    /\ \/ \E id \in IF idsFile[p] = NoId THEN {NoId, ovsdb[p]} ELSE {idsFile[p]} :
              ovsdb' = [ovsdb EXCEPT ![p] = id]
       \/ OvsMayFail /\ ovsdb' = ovsdb
    /\ uncleared' = IF ovsdb'[p] = NoId THEN uncleared \ {p} ELSE uncleared

RollbackRestore(p) ==
    /\ At("rollback", 1, "ports")
    /\ TakePort(p, "write")
    /\ RestoreIds(p)
    /\ UNCHANGED <<domState, xml, room, files, work, began, done, missed>>

RollbackDefine ==
    /\ At("rollback", 1, "write")
    /\ step' = "next"
    /\ ManagedSaveDefine(inst, WithoutPadding(rollbackXml[inst]))
    /\ UNCHANGED <<domState, room, ovsdb, files, script, loop, todo, inst,
                   ifaces, work, history>>

RollbackShutDump(i) ==
    /\ At("rollback", 2, "next")
    /\ \E shown \in Shown(i) : TakeInstance(i, shown)
    /\ UNCHANGED <<host, files, work, history>>

RollbackShutRestore(p) ==
    /\ At("rollback", 2, "ports")
    /\ TakePort(p, "next")
    /\ RestoreIds(p)
    /\ UNCHANGED <<domState, xml, room, files, work, began, done, missed>>

----------------------------------------------------------------------------
(* The host around the scripts. *)

MayInterfere == script = "none" \/ "race" \in Deviations

\* Suspending an instance saves its live XML; the header of the image is as
\* long as that XML, padding included.
Suspend(i) ==
    /\ MayInterfere
    /\ "prepare" \in done \/ "earlySave" \in Deviations
    /\ domState[i] = "running"
    /\ domState' = [domState EXCEPT ![i] = "saved"]
    /\ room' = [room EXCEPT ![i] = xml[i].pad \cup ConvertedIn(xml[i])]
    /\ UNCHANGED <<xml, ovsdb, files, local, history>>

Resume(i) ==
    /\ MayInterfere
    /\ domState[i] = "saved"
    /\ domState' = [domState EXCEPT ![i] = "running"]
    /\ UNCHANGED <<xml, room, ovsdb, files, local, history>>

\* A guest shuts down: the live XML is gone, the persistent one remains.
PowerOff(i) ==
    /\ MayInterfere
    /\ domState[i] = "running"
    /\ domState' = [domState EXCEPT ![i] = "shutoff"]
    /\ xml' = [xml EXCEPT ![i] = PlainXml]
    /\ UNCHANGED <<room, ovsdb, files, local, history>>

\* The script is killed.  The file it had just opened with > stays empty.
Crash ==
    /\ "crash" \in Deviations
    /\ Gone
    /\ \/ UNCHANGED files
       \/ /\ script = "prepare" /\ step = "ports"
          /\ \E p \in ifaces : idsFile' = [idsFile EXCEPT ![p] = NoId]
          /\ UNCHANGED rollbackXml
       \/ /\ At("update", 1, "next")
          /\ \E i \in todo : rollbackXml' = [rollbackXml EXCEPT ![i] = NoXml]
          /\ UNCHANGED idsFile
    /\ UNCHANGED <<host, history>>

PrepareStep ==
    \/ \E i \in Instances : PrepareDump(i) \/ PrepareShutDump(i)
    \/ \E p \in Ports : PrepareExtract(p) \/ PrepareShutExtract(p)
    \/ PrepareSetMetadata

UpdateStep ==
    \/ \E i \in Instances : UpdateDump(i) \/ UpdateShutDump(i)
    \/ \E p \in Ports : UpdateConvert(p) \/ UpdateShutClear(p)
    \/ UpdateDefine

RollbackStep ==
    \/ \E i \in Instances : RollbackDump(i) \/ RollbackShutDump(i)
    \/ \E p \in Ports : RollbackRestore(p) \/ RollbackShutRestore(p)
    \/ RollbackDefine

ScriptStep == PrepareStep \/ UpdateStep \/ RollbackStep \/ ListShutdown \/ Exit

HostStep == \E i \in Instances : Suspend(i) \/ Resume(i) \/ PowerOff(i)

Operator == StartPrepare \/ StartUpdate \/ StartRollback

Next == ScriptStep \/ HostStep \/ Operator \/ Crash

Spec == Init /\ [][Next]_vars

----------------------------------------------------------------------------
(* Correctness. *)

\* Nothing else on the host holds the full UUID of a hybrid-plugged port, so
\* losing both is final.
Recoverable(p) == ovsdb[p] = p \/ idsFile[p] = p

\* The UUID of a plugged port can always be found again on the host: what
\* update-saved.sh clears in OVSDB is in the port's external-ids file, unless
\* prepare-instances.sh could not read it.  Of such a port it is lost, although the
\* script means to "save for later" (line 42), since nobody notices.
PortIdRecoverable == \A p \in Plugged \ missed : Recoverable(p)

\* An interface that was moved to br-int asks for its own port, never for a
\* blank one (prepare-instances.sh:48, "We can't update the libvirt XML without
\* a PORTID"), unless prepare-instances.sh could not read the id.
ConvertedKeepsId ==
    \A p \in Plugged \ missed : xml[Owner[p]].vif[p] \in {Qbr, p}

\* Until a rollback starts, a tap bound to a port UUID and the qvo interface of
\* the same port never both carry it, unless ovs-vsctl did not clear the
\* latter: the agent would see one port twice.
ClearedBeforeConverted ==
    "rollback" \notin began =>
        \A p \in Ports \ uncleared : xml[Owner[p]].vif[p] # Qbr => ovsdb[p] = NoId

\* When update-saved.sh ends, every suspended instance whose ports were all
\* plugged is on br-int with its ports' UUIDs (the padding of
\* prepare-instances.sh was enough), and no qvo interface of a suspended or
\* shut-off instance still claims a port.  A single port without an id leaves
\* its instance without the padding for it, and may leave it unconverted.
UpdateConverts ==
    Finished("update") =>
        \A p \in Plugged :
            /\ domState[Owner[p]] = "saved" /\ PortsOf(Owner[p]) \subseteq Plugged =>
                   xml[Owner[p]].vif[p] = p
            /\ domState[Owner[p]] # "running" => ovsdb[p] = NoId

\* When rollback.sh ends, every suspended or shut-off instance is as it was
\* before update-saved.sh, wherever that script was killed: on its Linux bridge,
\* and its qvo interfaces claim their ports.
RollbackRestores ==
    Finished("rollback") =>
        \A p \in Plugged :
            domState[Owner[p]] # "running" =>
                xml[Owner[p]].vif[p] = Qbr /\ ovsdb[p] = p

----------------------------------------------------------------------------
(* The abstract specification, for the plugged ports. *)

Claims(p) ==
    {c \in {"qvo", "tap"} : IF c = "qvo" THEN ovsdb[p] = p ELSE xml[Owner[p]].vif[p] = p}

Handover == INSTANCE PortHandover WITH
    Ports <- Plugged,
    claims <- [p \in Plugged |-> Claims(p)],
    copies <- {p \in Plugged : idsFile[p] = p},
    undoing <- "rollback" \in began,
    uncopied <- missed \cap Plugged,
    unreleased <- uncleared \cap Plugged

\* The scripts, in whatever order they meet guests, failing commands and kills,
\* hand each port over as PortHandover says: no claim is given up without an
\* attempt at a copy, none is made without a copy, and before a rollback never
\* two at once but where the first could not be given up.
ImplementsHandover == Handover!Spec

============================================================================
