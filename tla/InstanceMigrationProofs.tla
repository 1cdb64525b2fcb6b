----------------------- MODULE InstanceMigrationProofs -----------------------
(* Safety of the migration scripts for every host: any number of instances and
   ports, any ownership, any interleaving with the guests, scripts killed
   anywhere, any command of libvirt and Open vSwitch failing.  What is assumed of the operator is
   DisciplinedOperator: no instance is suspended before prepare-instances.sh has
   completed, and prepare-instances.sh is not run again once update-saved.sh
   has been started.  That the migration also arrives at either end needs more,
   ProcedureFollowed below. *)
EXTENDS InstanceMigration, TLAPS

DisciplinedOperator ==
    "earlySave" \notin Deviations /\ "rerunPrepare" \notin Deviations

\* While rollback.sh works on an instance, its rollback XML exists.
RollbackXmlPresent ==
    script = "rollback" /\ loop = 1 /\ step \in {"ports", "write"} =>
        rollbackXml[inst] # NoXml

TypeInv == TypeOK /\ RollbackXmlPresent

LEMMA PlainXmlType == PlainXml \in Xmls
BY DEF PlainXml, Xmls, Vifs

LEMMA PaddedType ==
    ASSUME NEW x \in Xmls, NEW ports \in SUBSET Ports
    PROVE  Padded(x, ports) \in Xmls
BY DEF Padded, Xmls

LEMMA ToBrIntType ==
    ASSUME NEW x \in Xmls, NEW p \in Ports, NEW id \in Ports \cup {NoId}
    PROVE  ToBrInt(x, p, id) \in Xmls
BY DEF ToBrInt, Xmls, Vifs

LEMMA TypeInit == Init => TypeInv
<1> SUFFICES ASSUME Init PROVE TypeInv
    OBVIOUS
<1>1. \A i \in Instances : domState[i] \in {"running", "saved", "shutoff"}
    BY DEF Init
<1>2. domState \in [Instances -> {"running", "saved", "shutoff"}]
    BY <1>1 DEF Init
<1>3. ovsdb \in [Ports -> Ports \cup {NoId}]
    BY DEF Init
<1>4. TypeOK
    BY <1>2, <1>3, PlainXmlType DEF Init, TypeOK, Scripts
<1>5. RollbackXmlPresent
    BY DEF Init, RollbackXmlPresent
<1> QED BY <1>4, <1>5 DEF TypeInv

\* A script that starts, moves to another instance or port, or ends.
LEMMA TypePrepare == TypeInv /\ (PrepareStep \/ StartPrepare) => TypeInv'
<1> SUFFICES ASSUME TypeInv, PrepareStep \/ StartPrepare PROVE TypeInv'
    OBVIOUS
<1> USE DEF TypeInv, TypeOK, RollbackXmlPresent, host, files, local, history, faults,
            At, TakeInstance, TakePort, PortsOf, Scripts
<1>1. CASE StartPrepare
    BY <1>1 DEF StartPrepare, Start, List, LeaveOut, InState
<1>2. ASSUME NEW i \in Instances, PrepareDump(i) PROVE TypeInv'
    BY <1>2, PlainXmlType DEF PrepareDump, DumpXml, Shown, LeaveOut
<1>3. ASSUME NEW i \in Instances, PrepareShutDump(i) PROVE TypeInv'
    BY <1>3 DEF PrepareShutDump, Shown, LeaveOut
<1>4. ASSUME NEW p \in Ports, PrepareExtract(p) PROVE TypeInv'
    <2>1. work' \in Xmls
        <3>1. work.pad \cup {p} \in SUBSET Ports
            BY DEF Xmls
        <3> QED BY <1>4, <3>1, PaddedType DEF PrepareExtract, SaveIds
    <2> QED BY <1>4, <2>1 DEF PrepareExtract, SaveIds
<1>5. ASSUME NEW p \in Ports, PrepareShutExtract(p) PROVE TypeInv'
    BY <1>5 DEF PrepareShutExtract, SaveIds
<1>6. CASE PrepareSetMetadata
    <2>1. Padded(xml[inst], work.pad) \in Xmls
        <3>1. work.pad \in SUBSET Ports
            BY DEF Xmls
        <3> QED BY <3>1, PaddedType
    <2>2. xml' \in [Instances -> Xmls]
        BY <1>6, <2>1 DEF PrepareSetMetadata
    <2> QED BY <1>6, <2>2, PlainXmlType DEF PrepareSetMetadata
<1> QED BY <1>1, <1>2, <1>3, <1>4, <1>5, <1>6 DEF PrepareStep

LEMMA TypeUpdate == TypeInv /\ (UpdateStep \/ StartUpdate) => TypeInv'
<1> SUFFICES ASSUME TypeInv, UpdateStep \/ StartUpdate PROVE TypeInv'
    OBVIOUS
<1> USE DEF TypeInv, TypeOK, RollbackXmlPresent, host, files, local, history, faults,
            At, TakeInstance, TakePort, PortsOf, Scripts
<1>1. CASE StartUpdate
    BY <1>1 DEF StartUpdate, Start, List, LeaveOut, InState
<1>2. ASSUME NEW i \in Instances, UpdateDump(i) PROVE TypeInv'
    BY <1>2 DEF UpdateDump
<1>3. ASSUME NEW i \in Instances, UpdateShutDump(i) PROVE TypeInv'
    BY <1>3 DEF UpdateShutDump, Shown
<1>4. ASSUME NEW p \in Ports, UpdateConvert(p) PROVE TypeInv'
    BY <1>4, ToBrIntType DEF UpdateConvert, ClearIds
<1>5. ASSUME NEW p \in Ports, UpdateShutClear(p) PROVE TypeInv'
    BY <1>5 DEF UpdateShutClear, ClearIds
<1>6. CASE UpdateDefine
    BY <1>6, PlainXmlType DEF UpdateDefine, ManagedSaveDefine
<1> QED BY <1>1, <1>2, <1>3, <1>4, <1>5, <1>6 DEF UpdateStep

LEMMA TypeRollback == TypeInv /\ (RollbackStep \/ StartRollback) => TypeInv'
<1> SUFFICES ASSUME TypeInv, RollbackStep \/ StartRollback PROVE TypeInv'
    OBVIOUS
<1> USE DEF TypeInv, TypeOK, RollbackXmlPresent, host, files, local, history, faults,
            At, TakeInstance, TakePort, PortsOf, Scripts
<1>1. CASE StartRollback
    BY <1>1 DEF StartRollback, Start, List, LeaveOut, InState
<1>2. ASSUME NEW i \in Instances, RollbackDump(i) PROVE TypeInv'
    BY <1>2 DEF RollbackDump, Shown
<1>3. ASSUME NEW i \in Instances, RollbackShutDump(i) PROVE TypeInv'
    BY <1>3 DEF RollbackShutDump, Shown
<1>4. ASSUME NEW p \in Ports, RollbackRestore(p) PROVE TypeInv'
    BY <1>4 DEF RollbackRestore, RestoreIds
<1>5. ASSUME NEW p \in Ports, RollbackShutRestore(p) PROVE TypeInv'
    BY <1>5 DEF RollbackShutRestore, RestoreIds
<1>6. CASE RollbackDefine
    <2>1. rollbackXml[inst] \in Xmls
        BY <1>6 DEF RollbackDefine
    <2>2. WithoutPadding(rollbackXml[inst]) \in Xmls
        BY <2>1, PaddedType DEF WithoutPadding
    <2>3. xml' \in [Instances -> Xmls]
        BY <1>6, <2>2 DEF RollbackDefine, ManagedSaveDefine
    <2> QED BY <1>6, <2>3 DEF RollbackDefine
<1> QED BY <1>1, <1>2, <1>3, <1>4, <1>5, <1>6 DEF RollbackStep

LEMMA TypeOther == TypeInv /\ (ListShutdown \/ Exit \/ HostStep \/ Crash) => TypeInv'
<1> SUFFICES ASSUME TypeInv, ListShutdown \/ Exit \/ HostStep \/ Crash PROVE TypeInv'
    OBVIOUS
<1> USE DEF TypeInv, TypeOK, RollbackXmlPresent, host, files, local, history, Scripts
<1>1. CASE ListShutdown
    BY <1>1 DEF ListShutdown, List, LeaveOut, InState
<1>2. CASE Exit
    <2>1. done' \in SUBSET Scripts
        BY <1>2 DEF Exit, Gone
    <2> QED BY <1>2, <2>1, PlainXmlType DEF Exit, Gone, faults
<1>3. ASSUME NEW i \in Instances, Suspend(i) PROVE TypeInv'
    BY <1>3 DEF Suspend, ConvertedIn, Xmls
<1>4. ASSUME NEW i \in Instances, Resume(i) PROVE TypeInv'
    BY <1>4 DEF Resume
<1>5. ASSUME NEW i \in Instances, PowerOff(i) PROVE TypeInv'
    BY <1>5, PlainXmlType DEF PowerOff
<1>6. CASE Crash
    BY <1>6, PlainXmlType DEF Crash, Gone, At
<1> QED BY <1>1, <1>2, <1>3, <1>4, <1>5, <1>6 DEF HostStep

LEMMA TypeStep == TypeInv /\ [Next]_vars => TypeInv'
<1>1. TypeInv /\ UNCHANGED vars => TypeInv'
    BY DEF TypeInv, TypeOK, RollbackXmlPresent, vars
<1> QED BY <1>1, TypePrepare, TypeUpdate, TypeRollback, TypeOther
        DEF Next, ScriptStep, Operator

\* Every variable keeps its type under any departure from the procedure: in
\* particular rollback.sh never defines a domain from a missing rollback XML.
THEOREM TypeCorrect == Spec => []TypeOK
<1>1. TypeInv => TypeOK
    BY DEF TypeInv
<1> QED BY <1>1, TypeInit, TypeStep, PTL DEF Spec

----------------------------------------------------------------------------
(* The inductive invariant of the port UUIDs.  Losing one takes three steps of
   two scripts: a file is missing or overwritten, then OVSDB is cleared.  So the
   invariant says, phase by phase, where each UUID is. *)

\* Ids never mix between ports.
OwnIds ==
    \A p \in Ports : ovsdb[p] \in {p, NoId} /\ idsFile[p] \in {p, NoId}

\* The phases: update and rollback come after a complete prepare.
Phases ==
    /\ ~ (began \subseteq {"prepare"}) => "prepare" \in done
    /\ script = "prepare" => "prepare" \notin done /\ began \subseteq {"prepare"}
    /\ script \in {"update", "rollback"} => script \in began

\* Before update-saved.sh is first started OVSDB is as it was.
OvsdbIntact ==
    began \subseteq {"prepare"} => \A p \in Plugged : ovsdb[p] = p

\* After a complete prepare-instances.sh every UUID that could be read is on
\* file; a suspended instance has its UUIDs on file in any phase.
FilesComplete ==
    \A p \in Plugged \ missed :
        "prepare" \in done \/ domState[Owner[p]] = "saved" => idsFile[p] = p

\* What prepare-instances.sh has not extracted yet it still has before it.
PrepareProgress ==
    script = "prepare" =>
        /\ \A i \in todo : domState[i] # "saved"
        /\ step = "ports" =>
               domState[inst] # "saved" /\ \A p \in ifaces : Owner[p] = inst
        /\ \A p \in Plugged \ missed :
               \/ idsFile[p] = p
               \/ Owner[p] \in todo
               \/ step = "ports" /\ p \in ifaces
               \/ loop = 1 /\ domState[Owner[p]] = "shutoff"

IdsInv == OwnIds /\ Phases /\ OvsdbIntact /\ FilesComplete /\ PrepareProgress

LEMMA IdsInit == DisciplinedOperator /\ Init => IdsInv
<1> SUFFICES ASSUME DisciplinedOperator, Init PROVE IdsInv
    OBVIOUS
<1>1. domState \in [Instances -> {"running", "shutoff"}]
    BY DEF Init, DisciplinedOperator
<1> QED BY <1>1, OwnerAssumption, PluggedAssumption
        DEF Init, IdsInv, OwnIds, Phases, OvsdbIntact, FilesComplete, PrepareProgress

LEMMA IdsPrepare ==
    ASSUME DisciplinedOperator, TypeInv, IdsInv, PrepareStep \/ StartPrepare
    PROVE  IdsInv'
<1> USE DEF IdsInv, OwnIds, Phases, OvsdbIntact, FilesComplete, PrepareProgress,
            TypeInv, TypeOK, host, files, local, history, faults,
            At, TakeInstance, TakePort, PortsOf, Scripts
<1>1. CASE StartPrepare
    BY <1>1, OwnerAssumption, PluggedAssumption, IdAssumption DEF StartPrepare, Start, List, LeaveOut, InState, DisciplinedOperator
<1>2. ASSUME NEW i \in Instances, PrepareDump(i) PROVE IdsInv'
    BY <1>2, OwnerAssumption, PluggedAssumption, IdAssumption DEF PrepareDump, Shown, LeaveOut
<1>3. ASSUME NEW i \in Instances, PrepareShutDump(i) PROVE IdsInv'
    BY <1>3, OwnerAssumption, PluggedAssumption, IdAssumption DEF PrepareShutDump, Shown, LeaveOut
<1>4. ASSUME NEW p \in Ports, PrepareExtract(p) PROVE IdsInv'
    BY <1>4, OwnerAssumption, PluggedAssumption, IdAssumption DEF PrepareExtract, SaveIds
<1>5. ASSUME NEW p \in Ports, PrepareShutExtract(p) PROVE IdsInv'
    BY <1>5, OwnerAssumption, PluggedAssumption, IdAssumption DEF PrepareShutExtract, SaveIds
<1>6. CASE PrepareSetMetadata
    BY <1>6, OwnerAssumption, PluggedAssumption, IdAssumption DEF PrepareSetMetadata, PlainXml
<1> QED BY <1>1, <1>2, <1>3, <1>4, <1>5, <1>6 DEF PrepareStep

LEMMA IdsUpdate ==
    ASSUME DisciplinedOperator, TypeInv, IdsInv, UpdateStep \/ StartUpdate
    PROVE  IdsInv'
<1> USE DEF IdsInv, OwnIds, Phases, OvsdbIntact, FilesComplete, PrepareProgress,
            TypeInv, TypeOK, host, files, local, history, faults,
            At, TakeInstance, TakePort, PortsOf, Scripts
<1>1. CASE StartUpdate
    BY <1>1, OwnerAssumption, PluggedAssumption, IdAssumption DEF StartUpdate, Start, List, LeaveOut, InState
<1>2. ASSUME NEW i \in Instances, UpdateDump(i) PROVE IdsInv'
    BY <1>2, OwnerAssumption, PluggedAssumption, IdAssumption DEF UpdateDump
<1>3. ASSUME NEW i \in Instances, UpdateShutDump(i) PROVE IdsInv'
    BY <1>3, OwnerAssumption, PluggedAssumption, IdAssumption DEF UpdateShutDump, Shown
<1>4. ASSUME NEW p \in Ports, UpdateConvert(p) PROVE IdsInv'
    BY <1>4, OwnerAssumption, PluggedAssumption, IdAssumption DEF UpdateConvert, ClearIds
<1>5. ASSUME NEW p \in Ports, UpdateShutClear(p) PROVE IdsInv'
    BY <1>5, OwnerAssumption, PluggedAssumption, IdAssumption DEF UpdateShutClear, ClearIds
<1>6. CASE UpdateDefine
    BY <1>6, OwnerAssumption, PluggedAssumption, IdAssumption DEF UpdateDefine
<1> QED BY <1>1, <1>2, <1>3, <1>4, <1>5, <1>6 DEF UpdateStep

LEMMA IdsRollback ==
    ASSUME DisciplinedOperator, TypeInv, IdsInv, RollbackStep \/ StartRollback
    PROVE  IdsInv'
<1> USE DEF IdsInv, OwnIds, Phases, OvsdbIntact, FilesComplete, PrepareProgress,
            TypeInv, TypeOK, host, files, local, history, faults,
            At, TakeInstance, TakePort, PortsOf, Scripts
<1>1. CASE StartRollback
    BY <1>1, OwnerAssumption, PluggedAssumption, IdAssumption DEF StartRollback, Start, List, LeaveOut, InState
<1>2. ASSUME NEW i \in Instances, RollbackDump(i) PROVE IdsInv'
    BY <1>2, OwnerAssumption, PluggedAssumption, IdAssumption DEF RollbackDump, Shown
<1>3. ASSUME NEW i \in Instances, RollbackShutDump(i) PROVE IdsInv'
    BY <1>3, OwnerAssumption, PluggedAssumption, IdAssumption DEF RollbackShutDump, Shown
<1>4. ASSUME NEW p \in Ports, RollbackRestore(p) PROVE IdsInv'
    BY <1>4, OwnerAssumption, PluggedAssumption, IdAssumption DEF RollbackRestore, RestoreIds
<1>5. ASSUME NEW p \in Ports, RollbackShutRestore(p) PROVE IdsInv'
    BY <1>5, OwnerAssumption, PluggedAssumption, IdAssumption DEF RollbackShutRestore, RestoreIds
<1>6. CASE RollbackDefine
    BY <1>6, OwnerAssumption, PluggedAssumption, IdAssumption DEF RollbackDefine
<1> QED BY <1>1, <1>2, <1>3, <1>4, <1>5, <1>6 DEF RollbackStep

LEMMA IdsOther ==
    ASSUME DisciplinedOperator, TypeInv, IdsInv, ListShutdown \/ Exit \/ HostStep \/ Crash
    PROVE  IdsInv'
<1> USE DEF IdsInv, OwnIds, Phases, OvsdbIntact, FilesComplete, PrepareProgress,
            TypeInv, TypeOK, host, files, local, history, faults,
            At, TakeInstance, TakePort, PortsOf, Scripts
<1>1. CASE ListShutdown
    BY <1>1, OwnerAssumption, PluggedAssumption, IdAssumption DEF ListShutdown, List, LeaveOut, InState
<1>2. CASE Exit
    BY <1>2, OwnerAssumption, PluggedAssumption, IdAssumption DEF Exit, Gone, Finished, PlainXml
<1>3. ASSUME NEW i \in Instances, Suspend(i) PROVE IdsInv'
    BY <1>3, OwnerAssumption, PluggedAssumption, IdAssumption DEF Suspend, DisciplinedOperator
<1>4. ASSUME NEW i \in Instances, Resume(i) PROVE IdsInv'
    BY <1>4, OwnerAssumption, PluggedAssumption, IdAssumption DEF Resume
<1>5. ASSUME NEW i \in Instances, PowerOff(i) PROVE IdsInv'
    BY <1>5, OwnerAssumption, PluggedAssumption, IdAssumption DEF PowerOff
<1>6. CASE Crash
    BY <1>6, OwnerAssumption, PluggedAssumption, IdAssumption DEF Crash, Gone, PlainXml
<1> QED BY <1>1, <1>2, <1>3, <1>4, <1>5, <1>6 DEF HostStep

LEMMA IdsStep ==
    ASSUME DisciplinedOperator, TypeInv, IdsInv, [Next]_vars
    PROVE  IdsInv'
<1>1. CASE UNCHANGED vars
    BY <1>1 DEF IdsInv, OwnIds, Phases, OvsdbIntact, FilesComplete,
                PrepareProgress, vars
<1>2. CASE Next
    BY <1>2, IdsPrepare, IdsUpdate, IdsRollback, IdsOther
    DEF Next, ScriptStep, Operator
<1> QED BY <1>1, <1>2

\* A disciplined operator never loses the UUID of a plugged port that
\* prepare-instances.sh could read, whatever the guests do, whatever other
\* command fails and wherever the scripts are killed.
THEOREM UuidsSurvive == DisciplinedOperator => (Spec => []PortIdRecoverable)
<1> SUFFICES ASSUME DisciplinedOperator PROVE Spec => []PortIdRecoverable
    OBVIOUS
<1>1. Init => TypeInv /\ IdsInv
    BY TypeInit, IdsInit
<1>2. TypeInv /\ IdsInv /\ [Next]_vars => TypeInv' /\ IdsInv'
    BY TypeStep, IdsStep
<1>3. IdsInv => PortIdRecoverable
    BY DEF IdsInv, OvsdbIntact, FilesComplete, Phases, PortIdRecoverable, Recoverable
<1> QED BY <1>1, <1>2, <1>3, PTL DEF Spec

----------------------------------------------------------------------------
(* Every XML, live, saved, under conversion or kept for a rollback, that is
   converted at all names what the port's file says, and none is converted
   before update-saved.sh begins, from when on the files stay as they are. *)

KeepsIds(x) ==
    \A p \in Plugged :
        x.vif[p] # Qbr => ~ (began \subseteq {"prepare"}) /\ x.vif[p] = idsFile[p]

XmlInv ==
    /\ \A i \in Instances : KeepsIds(xml[i])
    /\ KeepsIds(work)
    /\ \A i \in Instances : rollbackXml[i] # NoXml => KeepsIds(rollbackXml[i])

LEMMA XmlInit == Init => XmlInv
BY PluggedAssumption DEF Init, XmlInv, KeepsIds, PlainXml

LEMMA XmlPrepare ==
    ASSUME TypeInv, IdsInv, XmlInv, PrepareStep \/ StartPrepare
    PROVE  XmlInv'
<1> USE DEF XmlInv, KeepsIds, IdsInv, Phases, FilesComplete, TypeInv, TypeOK, RollbackXmlPresent,
            host, files, local, history, faults, At, TakeInstance, TakePort, PortsOf, Scripts
<1>1. CASE StartPrepare
    BY <1>1, OwnerAssumption, PluggedAssumption, IdAssumption DEF StartPrepare, Start, List, LeaveOut
<1>2. ASSUME NEW i \in Instances, PrepareDump(i) PROVE XmlInv'
    BY <1>2, OwnerAssumption, PluggedAssumption, IdAssumption DEF PrepareDump, DumpXml, Shown, LeaveOut, PlainXml
<1>3. ASSUME NEW i \in Instances, PrepareShutDump(i) PROVE XmlInv'
    BY <1>3, OwnerAssumption, PluggedAssumption, IdAssumption DEF PrepareShutDump, Shown, LeaveOut
<1>4. ASSUME NEW p \in Ports, PrepareExtract(p) PROVE XmlInv'
    BY <1>4, OwnerAssumption, PluggedAssumption, IdAssumption DEF PrepareExtract, SaveIds, Padded
<1>5. ASSUME NEW p \in Ports, PrepareShutExtract(p) PROVE XmlInv'
    BY <1>5, OwnerAssumption, PluggedAssumption, IdAssumption DEF PrepareShutExtract, SaveIds
<1>6. CASE PrepareSetMetadata
    <2>1. /\ \A j \in Instances, p \in Ports : xml'[j].vif[p] = xml[j].vif[p]
          /\ work' = PlainXml
          /\ UNCHANGED <<rollbackXml, idsFile, began>>
        BY <1>6 DEF PrepareSetMetadata, Padded
    <2>2. \A p \in Plugged : work'.vif[p] = Qbr
        BY <2>1, PluggedAssumption DEF PlainXml
    <2>3. \A p \in Plugged : p \in Ports
        BY PluggedAssumption
    <2> QED BY <2>1, <2>2, <2>3
<1> QED BY <1>1, <1>2, <1>3, <1>4, <1>5, <1>6 DEF PrepareStep

LEMMA XmlUpdate ==
    ASSUME TypeInv, IdsInv, XmlInv, UpdateStep \/ StartUpdate
    PROVE  XmlInv'
<1> USE DEF XmlInv, KeepsIds, IdsInv, Phases, FilesComplete, TypeInv, TypeOK, RollbackXmlPresent,
            host, files, local, history, faults, At, TakeInstance, TakePort, PortsOf, Scripts
<1>1. CASE StartUpdate
    BY <1>1, OwnerAssumption, PluggedAssumption, IdAssumption DEF StartUpdate, Start, List, LeaveOut
<1>2. ASSUME NEW i \in Instances, UpdateDump(i) PROVE XmlInv'
    BY <1>2, OwnerAssumption, PluggedAssumption, IdAssumption DEF UpdateDump
<1>3. ASSUME NEW i \in Instances, UpdateShutDump(i) PROVE XmlInv'
    BY <1>3, OwnerAssumption, PluggedAssumption, IdAssumption DEF UpdateShutDump, Shown
<1>4. ASSUME NEW p \in Ports, UpdateConvert(p) PROVE XmlInv'
    BY <1>4, OwnerAssumption, PluggedAssumption, IdAssumption DEF UpdateConvert, ClearIds, ToBrInt, Xmls
<1>5. ASSUME NEW p \in Ports, UpdateShutClear(p) PROVE XmlInv'
    BY <1>5, OwnerAssumption, PluggedAssumption, IdAssumption DEF UpdateShutClear, ClearIds
<1>6. CASE UpdateDefine
    BY <1>6, OwnerAssumption, PluggedAssumption, IdAssumption DEF UpdateDefine, ManagedSaveDefine, PlainXml
<1> QED BY <1>1, <1>2, <1>3, <1>4, <1>5, <1>6 DEF UpdateStep

LEMMA XmlRollback ==
    ASSUME TypeInv, IdsInv, XmlInv, RollbackStep \/ StartRollback
    PROVE  XmlInv'
<1> USE DEF XmlInv, KeepsIds, IdsInv, Phases, FilesComplete, TypeInv, TypeOK, RollbackXmlPresent,
            host, files, local, history, faults, At, TakeInstance, TakePort, PortsOf, Scripts
<1>1. CASE StartRollback
    BY <1>1, OwnerAssumption, PluggedAssumption, IdAssumption DEF StartRollback, Start, List, LeaveOut
<1>2. ASSUME NEW i \in Instances, RollbackDump(i) PROVE XmlInv'
    BY <1>2, OwnerAssumption, PluggedAssumption, IdAssumption DEF RollbackDump, Shown
<1>3. ASSUME NEW i \in Instances, RollbackShutDump(i) PROVE XmlInv'
    BY <1>3, OwnerAssumption, PluggedAssumption, IdAssumption DEF RollbackShutDump, Shown
<1>4. ASSUME NEW p \in Ports, RollbackRestore(p) PROVE XmlInv'
    BY <1>4, OwnerAssumption, PluggedAssumption, IdAssumption DEF RollbackRestore, RestoreIds
<1>5. ASSUME NEW p \in Ports, RollbackShutRestore(p) PROVE XmlInv'
    BY <1>5, OwnerAssumption, PluggedAssumption, IdAssumption DEF RollbackShutRestore, RestoreIds
<1>6. CASE RollbackDefine
    BY <1>6, OwnerAssumption, PluggedAssumption, IdAssumption DEF RollbackDefine, ManagedSaveDefine, WithoutPadding, Padded
<1> QED BY <1>1, <1>2, <1>3, <1>4, <1>5, <1>6 DEF RollbackStep

LEMMA XmlOther ==
    ASSUME TypeInv, IdsInv, XmlInv, ListShutdown \/ Exit \/ HostStep \/ Crash
    PROVE  XmlInv'
<1> USE DEF XmlInv, KeepsIds, IdsInv, Phases, FilesComplete, TypeInv, TypeOK, RollbackXmlPresent,
            host, files, local, history, faults, At, TakeInstance, TakePort, PortsOf, Scripts
<1>1. CASE ListShutdown
    BY <1>1, OwnerAssumption, PluggedAssumption, IdAssumption DEF ListShutdown, List, LeaveOut, InState
<1>2. CASE Exit
    BY <1>2, OwnerAssumption, PluggedAssumption, IdAssumption DEF Exit, Gone, Finished, PlainXml
<1>3. ASSUME NEW i \in Instances, Suspend(i) PROVE XmlInv'
    BY <1>3, OwnerAssumption, PluggedAssumption, IdAssumption DEF Suspend
<1>4. ASSUME NEW i \in Instances, Resume(i) PROVE XmlInv'
    BY <1>4, OwnerAssumption, PluggedAssumption, IdAssumption DEF Resume
<1>5. ASSUME NEW i \in Instances, PowerOff(i) PROVE XmlInv'
    BY <1>5, OwnerAssumption, PluggedAssumption, IdAssumption DEF PowerOff, PlainXml
<1>6. CASE Crash
    BY <1>6, OwnerAssumption, PluggedAssumption, IdAssumption DEF Crash, Gone, PlainXml
<1> QED BY <1>1, <1>2, <1>3, <1>4, <1>5, <1>6 DEF HostStep

LEMMA XmlStep ==
    ASSUME TypeInv, IdsInv, XmlInv, [Next]_vars
    PROVE  XmlInv'
<1>1. CASE UNCHANGED vars
    BY <1>1 DEF XmlInv, KeepsIds, vars
<1>2. CASE Next
    BY <1>2, XmlPrepare, XmlUpdate, XmlRollback, XmlOther
    DEF Next, ScriptStep, Operator
<1> QED BY <1>1, <1>2

\* Under a disciplined operator update-saved.sh never gives an interface of a
\* plugged port a blank interfaceid, nor another port's, unless
\* prepare-instances.sh could not read the port's.
THEOREM ConversionKeepsIds == DisciplinedOperator => (Spec => []ConvertedKeepsId)
<1> SUFFICES ASSUME DisciplinedOperator PROVE Spec => []ConvertedKeepsId
    OBVIOUS
<1>1. Init => TypeInv /\ IdsInv /\ XmlInv
    BY TypeInit, IdsInit, XmlInit
<1>2. TypeInv /\ IdsInv /\ XmlInv /\ [Next]_vars => TypeInv' /\ IdsInv' /\ XmlInv'
    BY TypeStep, IdsStep, XmlStep
<1>3. IdsInv /\ XmlInv => ConvertedKeepsId
    BY OwnerAssumption, PluggedAssumption
    DEF XmlInv, KeepsIds, ConvertedKeepsId, IdsInv, Phases, FilesComplete
<1> QED BY <1>1, <1>2, <1>3, PTL DEF Spec

----------------------------------------------------------------------------
(* The order clear, then define: until rollback.sh runs, an interface that is
   on br-int, or about to be, has no rival in OVSDB. *)

NoRival(x, i) ==
    \A p \in PortsOf(i) \ uncleared : x.vif[p] # Qbr => ovsdb[p] = NoId

ClearFirst ==
    /\ script = "rollback" => "rollback" \in began
    /\ "rollback" \notin began =>
          /\ \A i \in Instances : NoRival(xml[i], i)
          /\ script = "update" /\ loop = 1 /\ step \in {"ports", "write"} =>
                 NoRival(work, inst)

LEMMA ClearInit == Init => ClearFirst
BY DEF Init, ClearFirst, NoRival, PlainXml, PortsOf, Scripts

LEMMA ClearPrepare ==
    ASSUME TypeInv, ClearFirst, PrepareStep \/ StartPrepare
    PROVE  ClearFirst'
<1> USE DEF ClearFirst, NoRival, TypeInv, TypeOK,
            host, files, local, history, faults, At, TakeInstance, TakePort, PortsOf, Scripts
<1>1. CASE StartPrepare
    BY <1>1, OwnerAssumption, IdAssumption DEF StartPrepare, Start, List, LeaveOut
<1>2. ASSUME NEW i \in Instances, PrepareDump(i) PROVE ClearFirst'
    BY <1>2, OwnerAssumption, IdAssumption DEF PrepareDump, DumpXml, Shown, LeaveOut, PlainXml
<1>3. ASSUME NEW i \in Instances, PrepareShutDump(i) PROVE ClearFirst'
    BY <1>3, OwnerAssumption, IdAssumption DEF PrepareShutDump, Shown, LeaveOut
<1>4. ASSUME NEW p \in Ports, PrepareExtract(p) PROVE ClearFirst'
    BY <1>4, OwnerAssumption, IdAssumption DEF PrepareExtract, SaveIds, Padded
<1>5. ASSUME NEW p \in Ports, PrepareShutExtract(p) PROVE ClearFirst'
    BY <1>5, OwnerAssumption, IdAssumption DEF PrepareShutExtract, SaveIds
<1>6. CASE PrepareSetMetadata
    BY <1>6, OwnerAssumption, IdAssumption DEF PrepareSetMetadata, Padded, PlainXml
<1> QED BY <1>1, <1>2, <1>3, <1>4, <1>5, <1>6 DEF PrepareStep

LEMMA ClearUpdate ==
    ASSUME TypeInv, ClearFirst, UpdateStep \/ StartUpdate
    PROVE  ClearFirst'
<1> USE DEF ClearFirst, NoRival, TypeInv, TypeOK,
            host, files, local, history, faults, At, TakeInstance, TakePort, PortsOf, Scripts
<1>1. CASE StartUpdate
    BY <1>1, OwnerAssumption, IdAssumption DEF StartUpdate, Start, List, LeaveOut
<1>2. ASSUME NEW i \in Instances, UpdateDump(i) PROVE ClearFirst'
    BY <1>2, OwnerAssumption, IdAssumption DEF UpdateDump
<1>3. ASSUME NEW i \in Instances, UpdateShutDump(i) PROVE ClearFirst'
    BY <1>3, OwnerAssumption, IdAssumption DEF UpdateShutDump, Shown
<1>4. ASSUME NEW p \in Ports, UpdateConvert(p) PROVE ClearFirst'
    <2>1. /\ script = "update" /\ loop = 1 /\ step = "ports"
          /\ UNCHANGED <<script, loop, inst, xml, began>>
          /\ \A q \in Ports : q # p => work'.vif[q] = work.vif[q]
        BY <1>4 DEF UpdateConvert, ToBrInt, Xmls
    <2>2. /\ ovsdb'[p] = NoId \/ p \in uncleared'
          /\ \A q \in Ports : q # p =>
                 ovsdb'[q] = ovsdb[q] /\ (q \in uncleared' <=> q \in uncleared)
        BY <1>4 DEF UpdateConvert, ClearIds
    <2>3. ASSUME "rollback" \notin began
          PROVE  NoRival(work, inst)' /\ \A i \in Instances : NoRival(xml[i], i)'
        BY <2>1, <2>2, <2>3
    <2> QED BY <2>1, <2>3
<1>5. ASSUME NEW p \in Ports, UpdateShutClear(p) PROVE ClearFirst'
    BY <1>5, OwnerAssumption, IdAssumption DEF UpdateShutClear, ClearIds
<1>6. CASE UpdateDefine
    BY <1>6, OwnerAssumption, IdAssumption DEF UpdateDefine, ManagedSaveDefine, PlainXml
<1> QED BY <1>1, <1>2, <1>3, <1>4, <1>5, <1>6 DEF UpdateStep

LEMMA ClearRollback ==
    ASSUME TypeInv, ClearFirst, RollbackStep \/ StartRollback
    PROVE  ClearFirst'
<1> USE DEF ClearFirst, NoRival, TypeInv, TypeOK,
            host, files, local, history, faults, At, TakeInstance, TakePort, PortsOf, Scripts
<1>1. CASE StartRollback
    BY <1>1, OwnerAssumption, IdAssumption DEF StartRollback, Start, List, LeaveOut
<1>2. ASSUME NEW i \in Instances, RollbackDump(i) PROVE ClearFirst'
    BY <1>2, OwnerAssumption, IdAssumption DEF RollbackDump, Shown
<1>3. ASSUME NEW i \in Instances, RollbackShutDump(i) PROVE ClearFirst'
    BY <1>3, OwnerAssumption, IdAssumption DEF RollbackShutDump, Shown
<1>4. ASSUME NEW p \in Ports, RollbackRestore(p) PROVE ClearFirst'
    BY <1>4, OwnerAssumption, IdAssumption DEF RollbackRestore, RestoreIds
<1>5. ASSUME NEW p \in Ports, RollbackShutRestore(p) PROVE ClearFirst'
    BY <1>5, OwnerAssumption, IdAssumption DEF RollbackShutRestore, RestoreIds
<1>6. CASE RollbackDefine
    BY <1>6, OwnerAssumption, IdAssumption DEF RollbackDefine, ManagedSaveDefine, WithoutPadding, Padded
<1> QED BY <1>1, <1>2, <1>3, <1>4, <1>5, <1>6 DEF RollbackStep

LEMMA ClearOther ==
    ASSUME TypeInv, ClearFirst, ListShutdown \/ Exit \/ HostStep \/ Crash
    PROVE  ClearFirst'
<1> USE DEF ClearFirst, NoRival, TypeInv, TypeOK,
            host, files, local, history, faults, At, TakeInstance, TakePort, PortsOf, Scripts
<1>1. CASE ListShutdown
    BY <1>1, OwnerAssumption, IdAssumption DEF ListShutdown, List, LeaveOut, InState
<1>2. CASE Exit
    BY <1>2, OwnerAssumption, IdAssumption DEF Exit, Gone, Finished, PlainXml
<1>3. ASSUME NEW i \in Instances, Suspend(i) PROVE ClearFirst'
    BY <1>3, OwnerAssumption, IdAssumption DEF Suspend
<1>4. ASSUME NEW i \in Instances, Resume(i) PROVE ClearFirst'
    BY <1>4, OwnerAssumption, IdAssumption DEF Resume
<1>5. ASSUME NEW i \in Instances, PowerOff(i) PROVE ClearFirst'
    BY <1>5, OwnerAssumption, IdAssumption DEF PowerOff, PlainXml
<1>6. CASE Crash
    BY <1>6, OwnerAssumption, IdAssumption DEF Crash, Gone, PlainXml
<1> QED BY <1>1, <1>2, <1>3, <1>4, <1>5, <1>6 DEF HostStep

\* For any operator: until a rollback is started, no port UUID is claimed by a
\* converted interface and by its old qvo interface at once, but where the
\* command that clears the latter failed.
THEOREM NoRivalClaim == Spec => []ClearedBeforeConverted
<1>1. Init => TypeInv /\ ClearFirst
    BY TypeInit, ClearInit
<1>2. TypeInv /\ ClearFirst /\ [Next]_vars => TypeInv' /\ ClearFirst'
    <2>1. ASSUME ClearFirst, UNCHANGED vars PROVE ClearFirst'
        BY <2>1 DEF ClearFirst, NoRival, vars
    <2>2. ASSUME TypeInv, ClearFirst, Next PROVE ClearFirst'
        BY <2>2, ClearPrepare, ClearUpdate, ClearRollback, ClearOther
        DEF Next, ScriptStep, Operator
    <2> QED BY <2>1, <2>2, TypeStep
<1>3. ClearFirst => ClearedBeforeConverted
    BY OwnerAssumption DEF ClearFirst, NoRival, PortsOf, ClearedBeforeConverted
<1> QED BY <1>1, <1>2, <1>3, PTL DEF Spec

----------------------------------------------------------------------------
(* Both ends of the migration, for an operator who follows the procedure: each
   script is run to its end or killed, prepare-instances.sh again as often as
   it takes, update-saved.sh once, rollback.sh as often as it takes, and the
   guests move between the scripts only. *)

ProcedureFollowed == Deviations \subseteq {"crash"}

\* An XML with every interface on its Linux bridge.
Unconverted(x) == \A p \in Ports : x.vif[p] = Qbr

\* update-saved.sh meets no rollback file: it has not run before.
UpdateOnce ==
    /\ began \subseteq {"prepare"} => \A i \in Instances : rollbackXml[i] = NoXml
    /\ script = "update" /\ loop = 1 => \A i \in todo : rollbackXml[i] = NoXml

\* An instance without a rollback XML has not been touched by update-saved.sh,
\* but for the qvo ports of one that is shut off.
Untouched ==
    \A i \in Instances :
        rollbackXml[i] = NoXml =>
            /\ Unconverted(xml[i])
            /\ domState[i] # "shutoff" =>
                   \A p \in Plugged : Owner[p] = i => ovsdb[p] = p

\* A rollback XML leads back to the Linux bridges, and so does a power-off.
WayBack ==
    \A i \in Instances :
        /\ rollbackXml[i] # NoXml => Unconverted(rollbackXml[i])
        /\ domState[i] = "shutoff" => Unconverted(xml[i])

\* The instance that update-saved.sh works on has its rollback XML already, and
\* in the second loop it is shut off.
UpdateScope ==
    script = "update" =>
        /\ step \in {"ports", "write"} => \A p \in ifaces : Owner[p] = inst
        /\ loop = 1 /\ step \in {"ports", "write"} =>
               /\ rollbackXml[inst] # NoXml
               /\ \A p \in Ports : work.vif[p] # Qbr => Owner[p] = inst
        /\ loop = 2 =>
               /\ \A i \in todo : domState[i] = "shutoff"
               /\ step = "ports" => domState[inst] = "shutoff"

\* Nothing that could have failed was allowed to.
NoFaults == missed = {} /\ uncleared = {}

ScopeInv == NoFaults /\ UpdateOnce /\ Untouched /\ WayBack /\ UpdateScope

\* What rollback.sh has not restored yet it still has before it.
RollbackProgress ==
    script = "rollback" =>
        \A p \in Plugged :
            domState[Owner[p]] # "running" =>
                /\ \/ ovsdb[p] = p
                   \/ loop = 1 /\ (Owner[p] \in todo \/ domState[Owner[p]] = "shutoff")
                   \/ loop = 2 /\ Owner[p] \in todo
                   \/ step = "ports" /\ p \in ifaces
                /\ \/ xml[Owner[p]].vif[p] = Qbr
                   \/ loop = 1 /\ Owner[p] \in todo
                   \/ loop = 1 /\ step \in {"ports", "write"} /\ inst = Owner[p]

\* Every port of the instance had its UUID: prepare-instances.sh pads for all.
AllPlugged(i) == PortsOf(i) \subseteq Plugged

\* The padding of an instance: in its XML until it is suspended, then in the
\* header of its image; and what prepare-instances.sh has still to pad.
Padding ==
    \A i \in Instances :
        AllPlugged(i) =>
            /\ domState[i] = "saved" /\ (began \subseteq {"prepare"} \/ script = "update") =>
                   PortsOf(i) \subseteq room[i]
            /\ began \subseteq {"prepare"} /\ domState[i] = "saved" =>
                   PortsOf(i) \subseteq xml[i].pad
            /\ began \subseteq {"prepare"} /\ "prepare" \in done /\ domState[i] = "running" =>
                   PortsOf(i) \subseteq xml[i].pad
            /\ script = "prepare" /\ loop = 1 /\ step \in {"ports", "write"} /\ inst = i =>
                   PortsOf(i) \subseteq work.pad \cup (IF step = "ports" THEN ifaces ELSE {})
            /\ script = "prepare" /\ domState[i] = "running" =>
                   \/ loop = 1 /\ i \in todo
                   \/ loop = 1 /\ step \in {"ports", "write"} /\ inst = i
                   \/ PortsOf(i) \subseteq xml[i].pad

\* What update-saved.sh has not converted or cleared yet it still has before it.
UpdateProgress ==
    script = "update" =>
        \A p \in Plugged :
            /\ domState[Owner[p]] = "saved" /\ AllPlugged(Owner[p]) =>
                   \/ loop = 1 /\ Owner[p] \in todo
                   \/ /\ loop = 1 /\ inst = Owner[p]
                      /\ \/ step = "ports" /\ (p \in ifaces \/ work.vif[p] = p)
                         \/ step = "write" /\ work.vif[p] = p
                   \/ /\ xml[Owner[p]].vif[p] = p
                      /\ loop = 1 /\ step \in {"ports", "write"} => inst # Owner[p]
            /\ domState[Owner[p]] # "running" =>
                   \/ ovsdb[p] = NoId
                   \/ loop = 1 /\ (Owner[p] \in todo \/ domState[Owner[p]] = "shutoff")
                   \/ loop = 2 /\ Owner[p] \in todo
                   \/ step = "ports" /\ p \in ifaces

LEMMA ScopePrepare ==
    ASSUME ProcedureFollowed, TypeInv, IdsInv, ScopeInv,
           PrepareStep \/ StartPrepare
    PROVE  ScopeInv'
<1> USE OwnerAssumption, PluggedAssumption, IdAssumption
        DEF TypeInv, TypeOK, RollbackXmlPresent, IdsInv, OwnIds, Phases,
            OvsdbIntact, FilesComplete,
            ScopeInv, NoFaults, UpdateOnce, Untouched, WayBack, UpdateScope, Unconverted,
            ProcedureFollowed, LibvirtMayFail, OvsMayFail, host, files, local, history, faults, At, TakeInstance, TakePort, PortsOf
<1>1. CASE StartPrepare
    BY <1>1 DEF StartPrepare, Start, List, LeaveOut, InState
<1>2. ASSUME NEW i \in Instances, PrepareDump(i) PROVE ScopeInv'
    BY <1>2 DEF PrepareDump, DumpXml, Shown, LeaveOut
<1>3. ASSUME NEW i \in Instances, PrepareShutDump(i) PROVE ScopeInv'
    BY <1>3 DEF PrepareShutDump, Shown, LeaveOut
<1>4. ASSUME NEW p \in Ports, PrepareExtract(p) PROVE ScopeInv'
    BY <1>4 DEF PrepareExtract, SaveIds, Padded
<1>5. ASSUME NEW p \in Ports, PrepareShutExtract(p) PROVE ScopeInv'
    BY <1>5 DEF PrepareShutExtract, SaveIds
<1>6. CASE PrepareSetMetadata
    <2>1. \A j \in Instances : xml'[j].vif = xml[j].vif
        BY <1>6 DEF PrepareSetMetadata, Padded, PlainXml
    <2>2. /\ began \subseteq {"prepare"} /\ script = "prepare"
          /\ UNCHANGED <<domState, ovsdb, rollbackXml, script, began, missed, uncleared>>
        BY <1>6 DEF PrepareSetMetadata, PlainXml
    <2> QED BY <2>1, <2>2
<1> QED BY <1>1, <1>2, <1>3, <1>4, <1>5, <1>6 DEF PrepareStep

LEMMA ScopeUpdate ==
    ASSUME ProcedureFollowed, TypeInv, IdsInv, ScopeInv,
           UpdateStep \/ StartUpdate
    PROVE  ScopeInv'
<1> USE OwnerAssumption, PluggedAssumption, IdAssumption
        DEF TypeInv, TypeOK, RollbackXmlPresent, IdsInv, OwnIds, Phases,
            OvsdbIntact, FilesComplete,
            ScopeInv, NoFaults, UpdateOnce, Untouched, WayBack, UpdateScope, Unconverted,
            ProcedureFollowed, LibvirtMayFail, OvsMayFail, host, files, local, history, faults, At, TakeInstance, TakePort, PortsOf
<1>1. CASE StartUpdate
    BY <1>1 DEF StartUpdate, Start, List, LeaveOut, InState
<1>2. ASSUME NEW i \in Instances, UpdateDump(i) PROVE ScopeInv'
    <2>1. /\ script = "update" /\ loop = 1 /\ rollbackXml[i] = NoXml
          /\ i \in todo /\ todo' = todo \ {i} /\ inst' = i
          /\ UNCHANGED <<script, loop, domState, xml, ovsdb, began, missed, uncleared>>
        BY <1>2 DEF UpdateDump
    <2>2. xml[i] \in Xmls /\ Unconverted(xml[i])
        BY <2>1
    <2>3. /\ rollbackXml' = [rollbackXml EXCEPT ![i] = IF domState[i] = "saved" THEN xml[i] ELSE NoXml]
          /\ domState[i] = "saved" => work' = xml[i] /\ ifaces' = PortsOf(i)
          /\ domState[i] # "saved" => ifaces' = {}
          /\ step' = IF ifaces' = {} THEN "next" ELSE "ports"
        BY <1>2 DEF UpdateDump
    <2>4. NoFaults' /\ UpdateOnce'
        BY <2>1, <2>3
    <2>5. Untouched' /\ WayBack'
        BY <2>1, <2>2, <2>3, NoXmlAssumption
    <2>6. UpdateScope'
        BY <2>1, <2>2, <2>3, NoXmlAssumption
    <2> QED BY <2>4, <2>5, <2>6
<1>3. ASSUME NEW i \in Instances, UpdateShutDump(i) PROVE ScopeInv'
    BY <1>3 DEF UpdateShutDump, Shown
<1>4. ASSUME NEW p \in Ports, UpdateConvert(p) PROVE ScopeInv'
    BY <1>4 DEF UpdateConvert, ClearIds, ToBrInt
<1>5. ASSUME NEW p \in Ports, UpdateShutClear(p) PROVE ScopeInv'
    BY <1>5 DEF UpdateShutClear, ClearIds
<1>6. CASE UpdateDefine
    BY <1>6 DEF UpdateDefine, ManagedSaveDefine, PlainXml
<1> QED BY <1>1, <1>2, <1>3, <1>4, <1>5, <1>6 DEF UpdateStep

LEMMA ScopeRollback ==
    ASSUME ProcedureFollowed, TypeInv, IdsInv, ScopeInv,
           RollbackStep \/ StartRollback
    PROVE  ScopeInv'
<1> USE OwnerAssumption, PluggedAssumption, IdAssumption
        DEF TypeInv, TypeOK, RollbackXmlPresent, IdsInv, OwnIds, Phases,
            OvsdbIntact, FilesComplete,
            ScopeInv, NoFaults, UpdateOnce, Untouched, WayBack, UpdateScope, Unconverted,
            ProcedureFollowed, LibvirtMayFail, OvsMayFail, host, files, local, history, faults, At, TakeInstance, TakePort, PortsOf
<1>1. CASE StartRollback
    BY <1>1 DEF StartRollback, Start, List, LeaveOut, InState
<1>2. ASSUME NEW i \in Instances, RollbackDump(i) PROVE ScopeInv'
    BY <1>2 DEF RollbackDump, Shown
<1>3. ASSUME NEW i \in Instances, RollbackShutDump(i) PROVE ScopeInv'
    BY <1>3 DEF RollbackShutDump, Shown
<1>4. ASSUME NEW p \in Ports, RollbackRestore(p) PROVE ScopeInv'
    BY <1>4 DEF RollbackRestore, RestoreIds
<1>5. ASSUME NEW p \in Ports, RollbackShutRestore(p) PROVE ScopeInv'
    BY <1>5 DEF RollbackShutRestore, RestoreIds
<1>6. CASE RollbackDefine
    <2>1. /\ rollbackXml[inst] # NoXml /\ script = "rollback"
          /\ UNCHANGED <<domState, ovsdb, rollbackXml, script, began, missed, uncleared>>
        BY <1>6 DEF RollbackDefine
    <2> DEFINE x == WithoutPadding(rollbackXml[inst])
    <2>2. Unconverted(x)
        BY <2>1 DEF WithoutPadding, Padded
    <2> HIDE DEF x
    <2>4. xml' = xml \/ xml' = [xml EXCEPT ![inst] = x]
        BY <1>6 DEF RollbackDefine, ManagedSaveDefine, x
    <2>3. \A j \in Instances : xml'[j] = xml[j] \/ Unconverted(xml'[j])
        BY <2>2, <2>4
    <2> QED BY <2>1, <2>3
<1> QED BY <1>1, <1>2, <1>3, <1>4, <1>5, <1>6 DEF RollbackStep

LEMMA ScopeOther ==
    ASSUME ProcedureFollowed, TypeInv, IdsInv, ScopeInv,
           ListShutdown \/ Exit \/ HostStep \/ Crash
    PROVE  ScopeInv'
<1> USE OwnerAssumption, PluggedAssumption, IdAssumption
        DEF TypeInv, TypeOK, RollbackXmlPresent, IdsInv, OwnIds, Phases,
            OvsdbIntact, FilesComplete,
            ScopeInv, NoFaults, UpdateOnce, Untouched, WayBack, UpdateScope, Unconverted,
            ProcedureFollowed, LibvirtMayFail, OvsMayFail, host, files, local, history, faults, At, TakeInstance, TakePort, PortsOf
<1>1. CASE ListShutdown
    BY <1>1 DEF ListShutdown, List, LeaveOut, InState
<1>2. CASE Exit
    BY <1>2 DEF Exit, Gone, Finished, PlainXml
<1>3. ASSUME NEW i \in Instances, Suspend(i) PROVE ScopeInv'
    BY <1>3 DEF Suspend, MayInterfere
<1>4. ASSUME NEW i \in Instances, Resume(i) PROVE ScopeInv'
    BY <1>4 DEF Resume, MayInterfere
<1>5. ASSUME NEW i \in Instances, PowerOff(i) PROVE ScopeInv'
    BY <1>5 DEF PowerOff, MayInterfere, PlainXml
<1>6. CASE Crash
    BY <1>6 DEF Crash, Gone, PlainXml
<1> QED BY <1>1, <1>2, <1>3, <1>4, <1>5, <1>6 DEF HostStep

LEMMA RestorePrepare ==
    ASSUME ProcedureFollowed, TypeInv, IdsInv, ScopeInv, RollbackProgress,
           PrepareStep \/ StartPrepare
    PROVE  RollbackProgress'
<1> USE OwnerAssumption, PluggedAssumption, IdAssumption
        DEF TypeInv, TypeOK, RollbackXmlPresent, IdsInv, OwnIds, Phases,
            OvsdbIntact, FilesComplete,
            RollbackProgress, ScopeInv, NoFaults, UpdateOnce, Untouched, WayBack, UpdateScope, Unconverted,
            ProcedureFollowed, LibvirtMayFail, OvsMayFail, host, files, local, history, faults, At, TakeInstance, TakePort, PortsOf
<1>1. CASE StartPrepare
    BY <1>1 DEF StartPrepare, Start, List, LeaveOut, InState
<1>2. ASSUME NEW i \in Instances, PrepareDump(i) PROVE RollbackProgress'
    BY <1>2 DEF PrepareDump, DumpXml, Shown, LeaveOut
<1>3. ASSUME NEW i \in Instances, PrepareShutDump(i) PROVE RollbackProgress'
    BY <1>3 DEF PrepareShutDump, Shown, LeaveOut
<1>4. ASSUME NEW p \in Ports, PrepareExtract(p) PROVE RollbackProgress'
    BY <1>4 DEF PrepareExtract, SaveIds, Padded
<1>5. ASSUME NEW p \in Ports, PrepareShutExtract(p) PROVE RollbackProgress'
    BY <1>5 DEF PrepareShutExtract, SaveIds
<1>6. CASE PrepareSetMetadata
    BY <1>6 DEF PrepareSetMetadata, Padded, PlainXml
<1> QED BY <1>1, <1>2, <1>3, <1>4, <1>5, <1>6 DEF PrepareStep

LEMMA RestoreUpdate ==
    ASSUME ProcedureFollowed, TypeInv, IdsInv, ScopeInv, RollbackProgress,
           UpdateStep \/ StartUpdate
    PROVE  RollbackProgress'
<1> USE OwnerAssumption, PluggedAssumption, IdAssumption
        DEF TypeInv, TypeOK, RollbackXmlPresent, IdsInv, OwnIds, Phases,
            OvsdbIntact, FilesComplete,
            RollbackProgress, ScopeInv, NoFaults, UpdateOnce, Untouched, WayBack, UpdateScope, Unconverted,
            ProcedureFollowed, LibvirtMayFail, OvsMayFail, host, files, local, history, faults, At, TakeInstance, TakePort, PortsOf
<1>1. CASE StartUpdate
    BY <1>1 DEF StartUpdate, Start, List, LeaveOut, InState
<1>2. ASSUME NEW i \in Instances, UpdateDump(i) PROVE RollbackProgress'
    BY <1>2 DEF UpdateDump
<1>3. ASSUME NEW i \in Instances, UpdateShutDump(i) PROVE RollbackProgress'
    BY <1>3 DEF UpdateShutDump, Shown
<1>4. ASSUME NEW p \in Ports, UpdateConvert(p) PROVE RollbackProgress'
    BY <1>4 DEF UpdateConvert, ClearIds, ToBrInt
<1>5. ASSUME NEW p \in Ports, UpdateShutClear(p) PROVE RollbackProgress'
    BY <1>5 DEF UpdateShutClear, ClearIds
<1>6. CASE UpdateDefine
    BY <1>6 DEF UpdateDefine, ManagedSaveDefine, PlainXml
<1> QED BY <1>1, <1>2, <1>3, <1>4, <1>5, <1>6 DEF UpdateStep

LEMMA RestoreRollback ==
    ASSUME ProcedureFollowed, TypeInv, IdsInv, ScopeInv, RollbackProgress,
           RollbackStep \/ StartRollback
    PROVE  RollbackProgress'
<1> USE OwnerAssumption, PluggedAssumption, IdAssumption
        DEF TypeInv, TypeOK, RollbackXmlPresent, IdsInv, OwnIds, Phases,
            OvsdbIntact, FilesComplete,
            RollbackProgress, ScopeInv, NoFaults, UpdateOnce, Untouched, WayBack, UpdateScope, Unconverted,
            ProcedureFollowed, LibvirtMayFail, OvsMayFail, host, files, local, history, faults, At, TakeInstance, TakePort, PortsOf
<1>1. CASE StartRollback
    BY <1>1 DEF StartRollback, Start, List, LeaveOut, InState
<1>2. ASSUME NEW i \in Instances, RollbackDump(i) PROVE RollbackProgress'
    <2>1. /\ script = "rollback" /\ loop = 1 /\ step = "next"
          /\ i \in todo /\ todo' = todo \ {i} /\ inst' = i
          /\ UNCHANGED <<script, loop, domState, xml, ovsdb>>
        BY <1>2 DEF RollbackDump, Shown
    <2>2. domState[i] = "saved" /\ rollbackXml[i] # NoXml /\ PortsOf(i) # {} =>
             ifaces' = PortsOf(i) /\ step' = "ports"
        BY <1>2 DEF RollbackDump, Shown
    <2>3. ASSUME NEW p \in Plugged, domState[Owner[p]] # "running"
          PROVE  \/ ovsdb[p] = p
                 \/ Owner[p] \in todo \ {i} \/ domState[Owner[p]] = "shutoff"
                 \/ step' = "ports" /\ p \in ifaces'
        BY <2>1, <2>2, <2>3
    <2>4. ASSUME NEW p \in Plugged, domState[Owner[p]] # "running"
          PROVE  \/ xml[Owner[p]].vif[p] = Qbr
                 \/ Owner[p] \in todo \ {i}
                 \/ step' = "ports" /\ i = Owner[p]
        BY <2>1, <2>2, <2>4
    <2> QED BY <2>1, <2>3, <2>4
<1>3. ASSUME NEW i \in Instances, RollbackShutDump(i) PROVE RollbackProgress'
    BY <1>3 DEF RollbackShutDump, Shown
<1>4. ASSUME NEW p \in Ports, RollbackRestore(p) PROVE RollbackProgress'
    BY <1>4 DEF RollbackRestore, RestoreIds
<1>5. ASSUME NEW p \in Ports, RollbackShutRestore(p) PROVE RollbackProgress'
    BY <1>5 DEF RollbackShutRestore, RestoreIds
<1>6. CASE RollbackDefine
    <2>1. /\ script = "rollback" /\ loop = 1 /\ step = "write" /\ step' = "next"
          /\ rollbackXml[inst] # NoXml
          /\ UNCHANGED <<script, loop, todo, inst, ifaces, domState, ovsdb>>
        BY <1>6 DEF RollbackDefine
    <2> DEFINE x == WithoutPadding(rollbackXml[inst])
    <2>2. Unconverted(x)
        BY <2>1 DEF WithoutPadding, Padded
    <2>3. ConvertedIn(x) = {}
        BY <2>2 DEF ConvertedIn
    <2>4. /\ domState[inst] = "saved" => xml' = [xml EXCEPT ![inst] = x]
          /\ xml' = xml \/ xml' = [xml EXCEPT ![inst] = x]
        <3> HIDE DEF x
        <3> QED BY <1>6, <2>3 DEF RollbackDefine, ManagedSaveDefine, x
    <2> HIDE DEF x
    <2>5. ASSUME NEW p \in Plugged, domState[Owner[p]] # "running"
          PROVE  xml'[Owner[p]].vif[p] = Qbr \/ Owner[p] \in todo
        <3>1. CASE Owner[p] = inst /\ domState[inst] = "saved"
            BY <2>2, <2>4, <3>1
        <3>2. CASE Owner[p] = inst /\ domState[inst] = "shutoff"
            BY <2>2, <2>4, <3>2
        <3>3. CASE Owner[p] # inst
            BY <2>1, <2>4, <2>5, <3>3
        <3> QED BY <2>5, <3>1, <3>2, <3>3
    <2> QED BY <2>1, <2>5
<1> QED BY <1>1, <1>2, <1>3, <1>4, <1>5, <1>6 DEF RollbackStep

LEMMA RestoreOther ==
    ASSUME ProcedureFollowed, TypeInv, IdsInv, ScopeInv, RollbackProgress,
           ListShutdown \/ Exit \/ HostStep \/ Crash
    PROVE  RollbackProgress'
<1> USE OwnerAssumption, PluggedAssumption, IdAssumption
        DEF TypeInv, TypeOK, RollbackXmlPresent, IdsInv, OwnIds, Phases,
            OvsdbIntact, FilesComplete,
            RollbackProgress, ScopeInv, NoFaults, UpdateOnce, Untouched, WayBack, UpdateScope, Unconverted,
            ProcedureFollowed, LibvirtMayFail, OvsMayFail, host, files, local, history, faults, At, TakeInstance, TakePort, PortsOf
<1>1. CASE ListShutdown
    BY <1>1 DEF ListShutdown, List, LeaveOut, InState
<1>2. CASE Exit
    BY <1>2 DEF Exit, Gone, Finished, PlainXml
<1>3. ASSUME NEW i \in Instances, Suspend(i) PROVE RollbackProgress'
    BY <1>3 DEF Suspend, MayInterfere
<1>4. ASSUME NEW i \in Instances, Resume(i) PROVE RollbackProgress'
    BY <1>4 DEF Resume, MayInterfere
<1>5. ASSUME NEW i \in Instances, PowerOff(i) PROVE RollbackProgress'
    BY <1>5 DEF PowerOff, MayInterfere, PlainXml
<1>6. CASE Crash
    BY <1>6 DEF Crash, Gone, PlainXml
<1> QED BY <1>1, <1>2, <1>3, <1>4, <1>5, <1>6 DEF HostStep

LEMMA PadPrepare ==
    ASSUME ProcedureFollowed, TypeInv, IdsInv, Padding,
           PrepareStep \/ StartPrepare
    PROVE  Padding'
<1> USE OwnerAssumption, PluggedAssumption, IdAssumption
        DEF TypeInv, TypeOK, RollbackXmlPresent, IdsInv, OwnIds, Phases,
            OvsdbIntact, FilesComplete,
            Padding, AllPlugged,
            ProcedureFollowed, LibvirtMayFail, OvsMayFail, host, files, local, history, faults, At, TakeInstance, TakePort, PortsOf
<1>1. CASE StartPrepare
    BY <1>1 DEF StartPrepare, Start, List, LeaveOut, InState
<1>2. ASSUME NEW i \in Instances, PrepareDump(i) PROVE Padding'
    BY <1>2 DEF PrepareDump, DumpXml, Shown, LeaveOut
<1>3. ASSUME NEW i \in Instances, PrepareShutDump(i) PROVE Padding'
    BY <1>3 DEF PrepareShutDump, Shown, LeaveOut
<1>4. ASSUME NEW p \in Ports, PrepareExtract(p) PROVE Padding'
    BY <1>4 DEF PrepareExtract, SaveIds, Padded
<1>5. ASSUME NEW p \in Ports, PrepareShutExtract(p) PROVE Padding'
    BY <1>5 DEF PrepareShutExtract, SaveIds
<1>6. CASE PrepareSetMetadata
    BY <1>6 DEF PrepareSetMetadata, Padded, PlainXml
<1> QED BY <1>1, <1>2, <1>3, <1>4, <1>5, <1>6 DEF PrepareStep

LEMMA PadUpdate ==
    ASSUME ProcedureFollowed, TypeInv, IdsInv, Padding,
           UpdateStep \/ StartUpdate
    PROVE  Padding'
<1> USE OwnerAssumption, PluggedAssumption, IdAssumption
        DEF TypeInv, TypeOK, RollbackXmlPresent, IdsInv, OwnIds, Phases,
            OvsdbIntact, FilesComplete,
            Padding, AllPlugged,
            ProcedureFollowed, LibvirtMayFail, OvsMayFail, host, files, local, history, faults, At, TakeInstance, TakePort, PortsOf
<1>1. CASE StartUpdate
    BY <1>1 DEF StartUpdate, Start, List, LeaveOut, InState
<1>2. ASSUME NEW i \in Instances, UpdateDump(i) PROVE Padding'
    BY <1>2 DEF UpdateDump
<1>3. ASSUME NEW i \in Instances, UpdateShutDump(i) PROVE Padding'
    BY <1>3 DEF UpdateShutDump, Shown
<1>4. ASSUME NEW p \in Ports, UpdateConvert(p) PROVE Padding'
    BY <1>4 DEF UpdateConvert, ClearIds, ToBrInt
<1>5. ASSUME NEW p \in Ports, UpdateShutClear(p) PROVE Padding'
    BY <1>5 DEF UpdateShutClear, ClearIds
<1>6. CASE UpdateDefine
    BY <1>6 DEF UpdateDefine, ManagedSaveDefine, PlainXml
<1> QED BY <1>1, <1>2, <1>3, <1>4, <1>5, <1>6 DEF UpdateStep

LEMMA PadRollback ==
    ASSUME ProcedureFollowed, TypeInv, IdsInv, Padding,
           RollbackStep \/ StartRollback
    PROVE  Padding'
<1> USE OwnerAssumption, PluggedAssumption, IdAssumption
        DEF TypeInv, TypeOK, RollbackXmlPresent, IdsInv, OwnIds, Phases,
            OvsdbIntact, FilesComplete,
            Padding, AllPlugged,
            ProcedureFollowed, LibvirtMayFail, OvsMayFail, host, files, local, history, faults, At, TakeInstance, TakePort, PortsOf
<1>1. CASE StartRollback
    BY <1>1 DEF StartRollback, Start, List, LeaveOut, InState
<1>2. ASSUME NEW i \in Instances, RollbackDump(i) PROVE Padding'
    BY <1>2 DEF RollbackDump, Shown
<1>3. ASSUME NEW i \in Instances, RollbackShutDump(i) PROVE Padding'
    BY <1>3 DEF RollbackShutDump, Shown
<1>4. ASSUME NEW p \in Ports, RollbackRestore(p) PROVE Padding'
    BY <1>4 DEF RollbackRestore, RestoreIds
<1>5. ASSUME NEW p \in Ports, RollbackShutRestore(p) PROVE Padding'
    BY <1>5 DEF RollbackShutRestore, RestoreIds
<1>6. CASE RollbackDefine
    BY <1>6 DEF RollbackDefine, ManagedSaveDefine, WithoutPadding, Padded
<1> QED BY <1>1, <1>2, <1>3, <1>4, <1>5, <1>6 DEF RollbackStep

LEMMA PadOther ==
    ASSUME ProcedureFollowed, TypeInv, IdsInv, Padding,
           ListShutdown \/ Exit \/ HostStep \/ Crash
    PROVE  Padding'
<1> USE OwnerAssumption, PluggedAssumption, IdAssumption
        DEF TypeInv, TypeOK, RollbackXmlPresent, IdsInv, OwnIds, Phases,
            OvsdbIntact, FilesComplete,
            Padding, AllPlugged,
            ProcedureFollowed, LibvirtMayFail, OvsMayFail, host, files, local, history, faults, At, TakeInstance, TakePort, PortsOf
<1>1. CASE ListShutdown
    BY <1>1 DEF ListShutdown, List, LeaveOut, InState
<1>2. CASE Exit
    BY <1>2 DEF Exit, Gone, Finished, PlainXml
<1>3. ASSUME NEW i \in Instances, Suspend(i) PROVE Padding'
    BY <1>3 DEF Suspend, MayInterfere
<1>4. ASSUME NEW i \in Instances, Resume(i) PROVE Padding'
    BY <1>4 DEF Resume, MayInterfere
<1>5. ASSUME NEW i \in Instances, PowerOff(i) PROVE Padding'
    BY <1>5 DEF PowerOff, MayInterfere, PlainXml
<1>6. CASE Crash
    BY <1>6 DEF Crash, Gone, PlainXml
<1> QED BY <1>1, <1>2, <1>3, <1>4, <1>5, <1>6 DEF HostStep

LEMMA ConvertPrepare ==
    ASSUME ProcedureFollowed, TypeInv, IdsInv, XmlInv, ScopeInv, Padding,
           UpdateProgress,
           PrepareStep \/ StartPrepare
    PROVE  UpdateProgress'
<1> USE OwnerAssumption, PluggedAssumption, IdAssumption
        DEF TypeInv, TypeOK, RollbackXmlPresent, IdsInv, OwnIds, Phases,
            OvsdbIntact, FilesComplete,
            UpdateProgress, AllPlugged, UpdateScope,
            ProcedureFollowed, LibvirtMayFail, OvsMayFail, host, files, local, history, faults, At, TakeInstance, TakePort, PortsOf
<1>1. CASE StartPrepare
    BY <1>1 DEF StartPrepare, Start, List, LeaveOut, InState
<1>2. ASSUME NEW i \in Instances, PrepareDump(i) PROVE UpdateProgress'
    BY <1>2 DEF PrepareDump, DumpXml, Shown, LeaveOut
<1>3. ASSUME NEW i \in Instances, PrepareShutDump(i) PROVE UpdateProgress'
    BY <1>3 DEF PrepareShutDump, Shown, LeaveOut
<1>4. ASSUME NEW p \in Ports, PrepareExtract(p) PROVE UpdateProgress'
    BY <1>4 DEF PrepareExtract, SaveIds, Padded
<1>5. ASSUME NEW p \in Ports, PrepareShutExtract(p) PROVE UpdateProgress'
    BY <1>5 DEF PrepareShutExtract, SaveIds
<1>6. CASE PrepareSetMetadata
    BY <1>6 DEF PrepareSetMetadata, Padded, PlainXml
<1> QED BY <1>1, <1>2, <1>3, <1>4, <1>5, <1>6 DEF PrepareStep

LEMMA ConvertUpdate ==
    ASSUME ProcedureFollowed, TypeInv, IdsInv, XmlInv, ScopeInv, Padding,
           UpdateProgress,
           UpdateStep \/ StartUpdate
    PROVE  UpdateProgress'
<1> USE OwnerAssumption, PluggedAssumption, IdAssumption
        DEF TypeInv, TypeOK, RollbackXmlPresent, IdsInv, OwnIds, Phases,
            OvsdbIntact, FilesComplete,
            UpdateProgress, AllPlugged, UpdateScope,
            ProcedureFollowed, LibvirtMayFail, OvsMayFail, host, files, local, history, faults, At, TakeInstance, TakePort, PortsOf
<1>1. CASE StartUpdate
    BY <1>1 DEF StartUpdate, Start, List, LeaveOut, InState
<1>2. ASSUME NEW i \in Instances, UpdateDump(i) PROVE UpdateProgress'
    BY <1>2 DEF UpdateDump
<1>3. ASSUME NEW i \in Instances, UpdateShutDump(i) PROVE UpdateProgress'
    BY <1>3 DEF UpdateShutDump, Shown
<1>4. ASSUME NEW p \in Ports, UpdateConvert(p) PROVE UpdateProgress'
    <2>1. /\ script = "update" /\ loop = 1 /\ step = "ports" /\ p \in ifaces
          /\ ifaces' = ifaces \ {p}
          /\ step' = IF ifaces = {p} THEN "write" ELSE "ports"
          /\ UNCHANGED <<script, loop, todo, inst, domState, xml>>
          /\ ovsdb' = [ovsdb EXCEPT ![p] = NoId]
          /\ work' = ToBrInt(work, p, idsFile[p])
        BY <1>4 DEF UpdateConvert, ClearIds
    <2>2. /\ \A q \in Ports \ {p} : work'.vif[q] = work.vif[q]
          /\ work.vif[p] = Qbr => work'.vif[p] = idsFile[p]
          /\ work.vif[p] # Qbr => work'.vif[p] = work.vif[p]
        BY <2>1 DEF ToBrInt, Xmls
    <2>3. p \in Plugged => work'.vif[p] = p
        <3>1. p \in Plugged => idsFile[p] = p
            BY <2>1 DEF ScopeInv, NoFaults
        <3> QED BY <2>1, <2>2, <3>1 DEF XmlInv, KeepsIds
    <2>4. ASSUME NEW q \in Plugged, domState[Owner[q]] = "saved", AllPlugged(Owner[q])
          PROVE  \/ Owner[q] \in todo
                 \/ /\ inst = Owner[q]
                    /\ \/ step' = "ports" /\ (q \in ifaces' \/ work'.vif[q] = q)
                       \/ step' = "write" /\ work'.vif[q] = q
                 \/ xml[Owner[q]].vif[q] = q /\ inst # Owner[q]
        BY <2>1, <2>2, <2>3, <2>4
    <2>5. ASSUME NEW q \in Plugged, domState[Owner[q]] # "running"
          PROVE  \/ ovsdb'[q] = NoId
                 \/ Owner[q] \in todo \/ domState[Owner[q]] = "shutoff"
                 \/ step' = "ports" /\ q \in ifaces'
        BY <2>1, <2>5
    <2> QED BY <2>1, <2>4, <2>5
<1>5. ASSUME NEW p \in Ports, UpdateShutClear(p) PROVE UpdateProgress'
    BY <1>5 DEF UpdateShutClear, ClearIds
<1>6. CASE UpdateDefine
    <2>1. /\ script = "update" /\ loop = 1 /\ step = "write" /\ step' = "next"
          /\ UNCHANGED <<script, loop, todo, inst, ifaces, domState, ovsdb>>
          /\ ManagedSaveDefine(inst, work)
        BY <1>6 DEF UpdateDefine
    <2>2. ConvertedIn(work) \subseteq PortsOf(inst)
        BY <2>1 DEF ScopeInv, ConvertedIn
    <2>3. /\ xml' = xml \/ xml' = [xml EXCEPT ![inst] = work]
          /\ domState[inst] = "saved" /\ AllPlugged(inst) => xml' = [xml EXCEPT ![inst] = work]
        BY <2>1, <2>2 DEF ManagedSaveDefine, Padding
    <2>4. ASSUME NEW q \in Plugged, domState[Owner[q]] = "saved", AllPlugged(Owner[q])
          PROVE  Owner[q] \in todo \/ xml'[Owner[q]].vif[q] = q
        <3>1. \/ Owner[q] \in todo
              \/ inst = Owner[q] /\ work.vif[q] = q
              \/ xml[Owner[q]].vif[q] = q /\ inst # Owner[q]
            BY <2>1, <2>4
        <3>2. CASE Owner[q] = inst
            BY <2>3, <2>4, <3>1, <3>2
        <3>3. CASE Owner[q] # inst
            BY <2>3, <3>1, <3>3
        <3> QED BY <3>2, <3>3
    <2>5. ASSUME NEW q \in Plugged, domState[Owner[q]] # "running"
          PROVE  ovsdb[q] = NoId \/ Owner[q] \in todo \/ domState[Owner[q]] = "shutoff"
        BY <2>1, <2>5
    <2> QED BY <2>1, <2>4, <2>5
<1> QED BY <1>1, <1>2, <1>3, <1>4, <1>5, <1>6 DEF UpdateStep

LEMMA ConvertRollback ==
    ASSUME ProcedureFollowed, TypeInv, IdsInv, XmlInv, ScopeInv, Padding,
           UpdateProgress,
           RollbackStep \/ StartRollback
    PROVE  UpdateProgress'
<1> USE OwnerAssumption, PluggedAssumption, IdAssumption
        DEF TypeInv, TypeOK, RollbackXmlPresent, IdsInv, OwnIds, Phases,
            OvsdbIntact, FilesComplete,
            UpdateProgress, AllPlugged, UpdateScope,
            ProcedureFollowed, LibvirtMayFail, OvsMayFail, host, files, local, history, faults, At, TakeInstance, TakePort, PortsOf
<1>1. CASE StartRollback
    BY <1>1 DEF StartRollback, Start, List, LeaveOut, InState
<1>2. ASSUME NEW i \in Instances, RollbackDump(i) PROVE UpdateProgress'
    BY <1>2 DEF RollbackDump, Shown
<1>3. ASSUME NEW i \in Instances, RollbackShutDump(i) PROVE UpdateProgress'
    BY <1>3 DEF RollbackShutDump, Shown
<1>4. ASSUME NEW p \in Ports, RollbackRestore(p) PROVE UpdateProgress'
    BY <1>4 DEF RollbackRestore, RestoreIds
<1>5. ASSUME NEW p \in Ports, RollbackShutRestore(p) PROVE UpdateProgress'
    BY <1>5 DEF RollbackShutRestore, RestoreIds
<1>6. CASE RollbackDefine
    BY <1>6 DEF RollbackDefine, ManagedSaveDefine, WithoutPadding, Padded
<1> QED BY <1>1, <1>2, <1>3, <1>4, <1>5, <1>6 DEF RollbackStep

LEMMA ConvertOther ==
    ASSUME ProcedureFollowed, TypeInv, IdsInv, XmlInv, ScopeInv, Padding,
           UpdateProgress,
           ListShutdown \/ Exit \/ HostStep \/ Crash
    PROVE  UpdateProgress'
<1> USE OwnerAssumption, PluggedAssumption, IdAssumption
        DEF TypeInv, TypeOK, RollbackXmlPresent, IdsInv, OwnIds, Phases,
            OvsdbIntact, FilesComplete,
            UpdateProgress, AllPlugged, UpdateScope,
            ProcedureFollowed, LibvirtMayFail, OvsMayFail, host, files, local, history, faults, At, TakeInstance, TakePort, PortsOf
<1>1. CASE ListShutdown
    BY <1>1 DEF ListShutdown, List, LeaveOut, InState
<1>2. CASE Exit
    BY <1>2 DEF Exit, Gone, Finished, PlainXml
<1>3. ASSUME NEW i \in Instances, Suspend(i) PROVE UpdateProgress'
    BY <1>3 DEF Suspend, MayInterfere
<1>4. ASSUME NEW i \in Instances, Resume(i) PROVE UpdateProgress'
    BY <1>4 DEF Resume, MayInterfere
<1>5. ASSUME NEW i \in Instances, PowerOff(i) PROVE UpdateProgress'
    BY <1>5 DEF PowerOff, MayInterfere, PlainXml
<1>6. CASE Crash
    BY <1>6 DEF Crash, Gone, PlainXml
<1> QED BY <1>1, <1>2, <1>3, <1>4, <1>5, <1>6 DEF HostStep

\* What the four parts hold of together.
QuietInv == ScopeInv /\ RollbackProgress /\ Padding /\ UpdateProgress

LEMMA QuietInit == ProcedureFollowed /\ Init => QuietInv
<1> SUFFICES ASSUME ProcedureFollowed, Init PROVE QuietInv
    OBVIOUS
<1>1. \A i \in Instances : domState[i] \in {"running", "shutoff"}
    BY DEF Init, ProcedureFollowed
<1>2. ScopeInv
    BY OwnerAssumption, PluggedAssumption
    DEF Init, ScopeInv, NoFaults, UpdateOnce, Untouched, WayBack, UpdateScope, Unconverted, PlainXml
<1>3. RollbackProgress /\ UpdateProgress
    BY DEF Init, RollbackProgress, UpdateProgress
<1>4. Padding
    BY <1>1 DEF Init, Padding
<1> QED BY <1>2, <1>3, <1>4 DEF QuietInv

LEMMA QuietStep ==
    ASSUME ProcedureFollowed, TypeInv, IdsInv, XmlInv, QuietInv, [Next]_vars
    PROVE  QuietInv'
<1>1. CASE UNCHANGED vars
    BY <1>1 DEF vars, QuietInv, ScopeInv, NoFaults, UpdateOnce, Untouched, WayBack, UpdateScope,
                Unconverted, RollbackProgress, Padding, AllPlugged, PortsOf, UpdateProgress
<1>2. CASE Next
    <2>1. CASE PrepareStep \/ StartPrepare
        BY <2>1, ScopePrepare, RestorePrepare, PadPrepare, ConvertPrepare DEF QuietInv
    <2>2. CASE UpdateStep \/ StartUpdate
        BY <2>2, ScopeUpdate, RestoreUpdate, PadUpdate, ConvertUpdate DEF QuietInv
    <2>3. CASE RollbackStep \/ StartRollback
        BY <2>3, ScopeRollback, RestoreRollback, PadRollback, ConvertRollback DEF QuietInv
    <2>4. CASE ListShutdown \/ Exit \/ HostStep \/ Crash
        BY <2>4, ScopeOther, RestoreOther, PadOther, ConvertOther DEF QuietInv
    <2> QED BY <1>2, <2>1, <2>2, <2>3, <2>4 DEF Next, ScriptStep, Operator
<1> QED BY <1>1, <1>2

LEMMA QuietAlways ==
    ASSUME ProcedureFollowed
    PROVE  Spec => [](IdsInv /\ QuietInv)
<1>1. DisciplinedOperator
    BY DEF ProcedureFollowed, DisciplinedOperator
<1>2. Init => TypeInv /\ IdsInv /\ XmlInv /\ QuietInv
    BY <1>1, TypeInit, IdsInit, XmlInit, QuietInit
<1>3. TypeInv /\ IdsInv /\ XmlInv /\ QuietInv /\ [Next]_vars
          => TypeInv' /\ IdsInv' /\ XmlInv' /\ QuietInv'
    BY <1>1, TypeStep, IdsStep, XmlStep, QuietStep
<1> QED BY <1>2, <1>3, PTL DEF Spec

\* A followed procedure converts: when update-saved.sh ends, every suspended
\* instance all of whose ports were plugged is on br-int under its ports' UUIDs
\* (the padding of prepare-instances.sh was always enough), and no qvo interface
\* of a suspended or shut-off instance claims a port.
THEOREM UpdateDoesConvert == ProcedureFollowed => (Spec => []UpdateConverts)
<1> SUFFICES ASSUME ProcedureFollowed PROVE Spec => []UpdateConverts
    OBVIOUS
<1>1. QuietInv => UpdateConverts
    BY DEF QuietInv, UpdateProgress, UpdateConverts, Finished, AllPlugged
<1> QED BY <1>1, QuietAlways, PTL

\* And it can be undone: when rollback.sh ends, every instance that does not run
\* is on its Linux bridge and its qvo interfaces claim their ports, wherever
\* update-saved.sh was killed and however often rollback.sh was.
THEOREM RollbackDoesRestore == ProcedureFollowed => (Spec => []RollbackRestores)
<1> SUFFICES ASSUME ProcedureFollowed PROVE Spec => []RollbackRestores
    OBVIOUS
<1>1. QuietInv => RollbackRestores
    BY DEF QuietInv, RollbackProgress, RollbackRestores, Finished
<1> QED BY <1>1, QuietAlways, PTL

----------------------------------------------------------------------------
(* The scripts implement PortHandover, for every host and under every
   disciplined operator.  One lemma says what each kind of change to OVSDB, the
   files and the XMLs is as a step of the abstract specification; the invariants
   above say that the change is allowed there. *)

Taps == {p \in Plugged : xml[Owner[p]].vif[p] = p}

\* What the abstract specification sees besides claims and copies.
SameFaults == UNCHANGED <<missed, uncleared>>
SamePhase == ("rollback" \in began') <=> ("rollback" \in began)

\* The state functions of the mapping are unchanged when their variables are.
LEMMA SameMapping ==
    /\ idsFile' = idsFile => {q \in Plugged : idsFile[q] = q}' = {q \in Plugged : idsFile[q] = q}
    /\ missed' = missed => (missed \cap Plugged)' = missed \cap Plugged
    /\ uncleared' = uncleared => (uncleared \cap Plugged)' = uncleared \cap Plugged
    /\ SamePhase => ("rollback" \in began)' = ("rollback" \in began)
    /\ ovsdb' = ovsdb /\ xml' = xml =>
           [q \in Plugged |-> Claims(q)]' = [q \in Plugged |-> Claims(q)]
BY DEF Claims, SamePhase

\* Nothing of a port's claims, copies and phase changes.
LEMMA StutterStep ==
    ASSUME UNCHANGED <<ovsdb, idsFile>>, SameFaults, SamePhase,
           \A p \in Plugged : xml'[Owner[p]].vif[p] = xml[Owner[p]].vif[p]
    PROVE  UNCHANGED Handover!vars
<1>1. [p \in Plugged |-> Claims(p)]' = [p \in Plugged |-> Claims(p)]
    BY DEF Claims
<1> QED BY <1>1, SameMapping DEF Handover!vars, SameFaults

\* A file with external-ids is written.
LEMMA CopyStep ==
    ASSUME TypeOK, NEW p \in Plugged, ovsdb[p] = p,
           idsFile' = [idsFile EXCEPT ![p] = p], missed' = missed \ {p},
           UNCHANGED <<ovsdb, xml, began, uncleared>>
    PROVE  Handover!Copy(p)
<1> DEFINE copies == {q \in Plugged : idsFile[q] = q}
<1>1. "qvo" \in [q \in Plugged |-> Claims(q)][p]
    BY DEF Claims
<1>2. copies' = copies \cup {p}
    BY PluggedAssumption DEF TypeOK
<1>3. (missed \cap Plugged)' = (missed \cap Plugged) \ {p}
    OBVIOUS
<1> QED BY <1>1, <1>2, <1>3, SameMapping DEF Handover!Copy, SamePhase

\* A kill leaves it empty.
LEMMA SpoilStep ==
    ASSUME TypeOK, NEW p \in Plugged, ovsdb[p] = p,
           idsFile' = [idsFile EXCEPT ![p] = NoId],
           UNCHANGED <<ovsdb, xml, began, missed, uncleared>>
    PROVE  Handover!Spoil(p)
<1> DEFINE copies == {q \in Plugged : idsFile[q] = q}
<1>1. "qvo" \in [q \in Plugged |-> Claims(q)][p]
    BY DEF Claims
<1>2. copies' = copies \ {p}
    BY PluggedAssumption, IdAssumption DEF TypeOK
<1> QED BY <1>1, <1>2, SameMapping DEF Handover!Spoil, Handover!faults, SamePhase

\* ovs-vsctl leaves it empty, or libvirt leaves ports out that have none.
LEMMA MissStep ==
    ASSUME NEW ports \in SUBSET Plugged, \A p \in ports : ovsdb[p] = p,
           missed' \cap Plugged = (missed \cap Plugged) \cup ports,
           \A q \in Plugged : q \in ports => idsFile'[q] # q,
           \A q \in Plugged : q \notin ports => idsFile'[q] = idsFile[q],
           UNCHANGED <<ovsdb, xml, uncleared>>, SamePhase
    PROVE  Handover!CopiesFail(ports)
<1> DEFINE copies == {q \in Plugged : idsFile[q] = q}
<1>1. \A p \in ports : "qvo" \in [q \in Plugged |-> Claims(q)][p]
    BY DEF Claims
<1>2. copies' = copies \ ports
    OBVIOUS
<1>3. (missed \cap Plugged)' = (missed \cap Plugged) \cup ports
    OBVIOUS
<1> QED BY <1>1, <1>2, <1>3, SameMapping DEF Handover!CopiesFail

\* OVSDB forgets a port, or is told again.
LEMMA ReleaseStep ==
    ASSUME TypeOK, NEW p \in Plugged, idsFile[p] = p \/ p \in missed,
           ovsdb' = [ovsdb EXCEPT ![p] = NoId], uncleared' = uncleared \ {p},
           UNCHANGED <<idsFile, xml, began, missed>>
    PROVE  Handover!Release(p)
<1> DEFINE claims == [q \in Plugged |-> Claims(q)]
<1>1. \A q \in Plugged : ovsdb'[q] = IF q = p THEN NoId ELSE ovsdb[q]
    BY PluggedAssumption DEF TypeOK
<1>2. \A q \in Plugged : Claims(q)' = IF q = p THEN Claims(q) \ {"qvo"} ELSE Claims(q)
    BY <1>1, IdAssumption, PluggedAssumption DEF Claims
<1>3. claims' = [claims EXCEPT ![p] = @ \ {"qvo"}]
    BY <1>2
<1>4. (uncleared \cap Plugged)' = (uncleared \cap Plugged) \ {p}
    OBVIOUS
<1>5. p \in {q \in Plugged : idsFile[q] = q} \cup (missed \cap Plugged)
    OBVIOUS
<1> QED BY <1>3, <1>4, <1>5, SameMapping DEF Handover!Release, SamePhase

LEMMA ReleaseFailsStep ==
    ASSUME NEW p \in Plugged, ovsdb[p] = p, idsFile[p] = p \/ p \in missed,
           uncleared' = uncleared \cup {p},
           UNCHANGED <<ovsdb, idsFile, xml, began, missed>>
    PROVE  Handover!ReleaseFails(p)
<1>1. "qvo" \in [q \in Plugged |-> Claims(q)][p]
    BY DEF Claims
<1>2. (uncleared \cap Plugged)' = (uncleared \cap Plugged) \cup {p}
    OBVIOUS
<1>3. p \in {q \in Plugged : idsFile[q] = q} \cup (missed \cap Plugged)
    OBVIOUS
<1> QED BY <1>1, <1>2, <1>3, SameMapping DEF Handover!ReleaseFails, SamePhase

LEMMA ReclaimStep ==
    ASSUME TypeOK, NEW p \in Plugged, idsFile[p] = p, "rollback" \in began,
           ovsdb' = [ovsdb EXCEPT ![p] = p],
           UNCHANGED <<idsFile, xml, began, missed, uncleared>>
    PROVE  Handover!Reclaim(p)
<1> DEFINE claims == [q \in Plugged |-> Claims(q)]
<1>1. \A q \in Plugged : ovsdb'[q] = IF q = p THEN p ELSE ovsdb[q]
    BY PluggedAssumption DEF TypeOK
<1>2. \A q \in Plugged : Claims(q)' = IF q = p THEN Claims(q) \cup {"qvo"} ELSE Claims(q)
    BY <1>1 DEF Claims
<1>3. claims' = [claims EXCEPT ![p] = @ \cup {"qvo"}]
    BY <1>2
<1> QED BY <1>3, SameMapping DEF Handover!Reclaim, Handover!faults, SamePhase

\* An XML is replaced.
LEMMA RewireStep ==
    ASSUME UNCHANGED <<ovsdb, idsFile, began, missed, uncleared>>,
           \A p \in Taps' \ Taps :
               /\ idsFile[p] = p
               /\ "rollback" \in began \/ ovsdb[p] # p \/ p \in uncleared
    PROVE  Handover!Rewire(Taps')
<1> DEFINE claims == [q \in Plugged |-> Claims(q)]
<1>1. Handover!Tapped = Taps
    BY DEF Handover!Tapped, Claims, Taps
<1>2. \A p \in Plugged : ("qvo" \in claims[p] <=> ovsdb[p] = p)
    BY DEF Claims
<1>3. \A p \in Plugged : Claims(p)' = (Claims(p) \ {"tap"})
                                       \cup (IF p \in Taps' THEN {"tap"} ELSE {})
    BY DEF Claims, Taps
<1>4. claims' = [p \in Plugged |-> (claims[p] \ {"tap"})
                                    \cup (IF p \in Taps' THEN {"tap"} ELSE {})]
    BY <1>3
<1>6. \A p \in Taps' \ Taps : p \in Plugged
    BY DEF Taps
<1> QED BY <1>1, <1>2, <1>4, <1>6, SameMapping
        DEF Handover!Rewire, Handover!faults, SamePhase

----------------------------------------------------------------------------
LEMMA HandoverInit == Init => Handover!Init
<1> SUFFICES ASSUME Init PROVE Handover!Init
    OBVIOUS
<1>1. \A p \in Plugged : ovsdb[p] = p /\ idsFile[p] = NoId /\ xml[Owner[p]].vif[p] = Qbr
    BY OwnerAssumption, PluggedAssumption DEF Init, PlainXml
<1>2. \A p \in Plugged : Claims(p) = {"qvo"}
    BY <1>1, IdAssumption, PluggedAssumption DEF Claims
<1>3. {p \in Plugged : idsFile[p] = p} = {}
    BY <1>1, IdAssumption, PluggedAssumption
<1> QED BY <1>2, <1>3 DEF Init, Handover!Init

HandoverInv == TypeInv /\ IdsInv /\ XmlInv /\ ClearFirst

LEMMA HandoverInvStep ==
    DisciplinedOperator => (HandoverInv /\ [Next]_vars => HandoverInv')
<1> SUFFICES ASSUME DisciplinedOperator, HandoverInv, [Next]_vars PROVE HandoverInv'
    OBVIOUS
<1>1. TypeInv' /\ IdsInv'
    BY TypeStep, IdsStep DEF HandoverInv
<1>2. CASE UNCHANGED vars
    BY <1>1, <1>2 DEF HandoverInv, XmlInv, KeepsIds, ClearFirst, NoRival, vars
<1>3. CASE Next
    BY <1>1, <1>3, XmlPrepare, XmlUpdate, XmlRollback, XmlOther,
       ClearPrepare, ClearUpdate, ClearRollback, ClearOther
    DEF HandoverInv, Next, ScriptStep, Operator
<1> QED BY <1>2, <1>3

\* A copy that is there from the end of a preparation on, if it could be made.
LEMMA CopyThere ==
    ASSUME HandoverInv, script \in {"update", "rollback"}, NEW p \in Plugged
    PROVE  idsFile[p] = p \/ p \in missed
<1>1. "prepare" \in done
    BY DEF HandoverInv, IdsInv, Phases
<1> QED BY <1>1 DEF HandoverInv, IdsInv, FilesComplete

\* update-saved.sh and rollback.sh define a saved domain.
LEMMA DefineStep ==
    ASSUME HandoverInv, HandoverInv',
           UNCHANGED <<ovsdb, idsFile, began, missed, uncleared>>
    PROVE  Handover!Next
<1>1. \A p \in Taps' : idsFile[p] = p
    <2> SUFFICES ASSUME NEW p \in Plugged, xml'[Owner[p]].vif[p] = p
                 PROVE  idsFile'[p] = p
        BY DEF Taps
    <2> QED BY IdAssumption, OwnerAssumption, PluggedAssumption
            DEF HandoverInv, XmlInv, KeepsIds
<1>2. \A p \in Taps' : "rollback" \in began \/ ovsdb[p] # p \/ p \in uncleared
    <2> SUFFICES ASSUME NEW p \in Plugged, xml'[Owner[p]].vif[p] = p,
                        "rollback" \notin began, p \notin uncleared
                 PROVE  ovsdb[p] # p
        BY DEF Taps
    <2>1. ovsdb'[p] = NoId
        BY IdAssumption, OwnerAssumption, PluggedAssumption
        DEF HandoverInv, ClearFirst, NoRival, PortsOf
    <2> QED BY <2>1, IdAssumption, PluggedAssumption
<1>3. Handover!Rewire(Taps')
    BY <1>1, <1>2, RewireStep
<1>4. Taps' \in SUBSET Plugged
    BY DEF Taps
<1> QED BY <1>3, <1>4 DEF Handover!Next

\* prepare-instances.sh leaves out instances that libvirt did not show it.
LEMMA LeaveOutStep ==
    ASSUME HandoverInv, began \subseteq {"prepare"}, NEW out, LeaveOut(out),
           UNCHANGED <<ovsdb, idsFile, xml, uncleared>>, SamePhase
    PROVE  Handover!Next
<1>1. PICK ports \in SUBSET Plugged :
          ports = {p \in Plugged : Owner[p] \in out /\ idsFile[p] # ovsdb[p]}
    OBVIOUS
<1>2. missed' \cap Plugged = (missed \cap Plugged) \cup ports
    BY <1>1, PluggedAssumption DEF LeaveOut
<1>3. \A p \in Plugged : ovsdb[p] = p
    BY DEF HandoverInv, IdsInv, OvsdbIntact
<1>4. /\ \A p \in ports : ovsdb[p] = p
      /\ \A q \in Plugged : q \in ports => idsFile'[q] # q
      /\ \A q \in Plugged : q \notin ports => idsFile'[q] = idsFile[q]
    BY <1>1, <1>3
<1>5. Handover!CopiesFail(ports)
    BY <1>2, <1>4, MissStep
<1> QED BY <1>5 DEF Handover!Next

LEMMA LeaveOutNone == LeaveOut({}) => missed' = missed
BY DEF LeaveOut

LEMMA HandoverPrepare ==
    ASSUME DisciplinedOperator, HandoverInv, PrepareStep \/ StartPrepare
    PROVE  [Handover!Next]_(Handover!vars)
<1> USE DEF host, files, local, history, faults, At, TakeInstance, TakePort
<1>1. CASE StartPrepare
    <2>1. began \subseteq {"prepare"} /\ \E out : LeaveOut(out)
        BY <1>1 DEF StartPrepare, Start, DisciplinedOperator
    <2>2. UNCHANGED <<ovsdb, idsFile, xml, uncleared>> /\ SamePhase
        BY <1>1 DEF StartPrepare, Start, SamePhase
    <2> QED BY <2>1, <2>2, LeaveOutStep
<1>2. ASSUME NEW i \in Instances, PrepareDump(i) \/ PrepareShutDump(i)
      PROVE  [Handover!Next]_(Handover!vars)
    <2>1. script = "prepare" /\ \E out : LeaveOut(out)
        BY <1>2 DEF PrepareDump, PrepareShutDump
    <2>2. began \subseteq {"prepare"}
        BY <2>1 DEF HandoverInv, IdsInv, Phases
    <2>3. UNCHANGED <<ovsdb, idsFile, xml, uncleared>> /\ SamePhase
        BY <1>2 DEF PrepareDump, PrepareShutDump, SamePhase
    <2> QED BY <2>1, <2>2, <2>3, LeaveOutStep
<1>3. ASSUME NEW p \in Ports, PrepareExtract(p) \/ PrepareShutExtract(p)
      PROVE  [Handover!Next]_(Handover!vars)
    <2>1. /\ script = "prepare" /\ SaveIds(p)
          /\ UNCHANGED <<ovsdb, xml, began, uncleared>>
        BY <1>3 DEF PrepareExtract, PrepareShutExtract
    <2>2. TypeOK /\ began \subseteq {"prepare"}
        BY <2>1 DEF HandoverInv, TypeInv, IdsInv, Phases
    <2>3. CASE p \in Plugged
        <3>1. ovsdb[p] = p
            BY <2>2, <2>3 DEF HandoverInv, IdsInv, OvsdbIntact
        <3>2. CASE idsFile' = [idsFile EXCEPT ![p] = ovsdb[p]] /\ missed' = missed \ {p}
            BY <2>1, <2>2, <2>3, <3>1, <3>2, CopyStep DEF Handover!Next
        <3>3. CASE idsFile' = [idsFile EXCEPT ![p] = NoId] /\ missed' = missed \cup {p}
            <4>1. /\ missed' \cap Plugged = (missed \cap Plugged) \cup {p}
                  /\ idsFile'[p] # p
                  /\ \A q \in Plugged : q # p => idsFile'[q] = idsFile[q]
                BY <2>2, <2>3, <3>3, IdAssumption, PluggedAssumption DEF TypeOK
            <4>2. Handover!CopiesFail({p})
                BY <2>1, <2>3, <3>1, <4>1, MissStep DEF SamePhase
            <4> QED BY <2>3, <4>2 DEF Handover!Next
        <3> QED BY <2>1, <3>2, <3>3 DEF SaveIds
    <2>4. CASE p \notin Plugged
        <3>1. {q \in Plugged : idsFile[q] = q}' = {q \in Plugged : idsFile[q] = q}
            BY <2>1, <2>2, <2>4, PluggedAssumption DEF SaveIds, TypeOK
        <3>2. (missed \cap Plugged)' = missed \cap Plugged
            BY <2>1, <2>4 DEF SaveIds
        <3> QED BY <2>1, <3>1, <3>2, SameMapping DEF Handover!vars, SamePhase
    <2> QED BY <2>3, <2>4
<1>4. CASE PrepareSetMetadata
    <2>1. \A p \in Plugged : xml'[Owner[p]].vif[p] = xml[Owner[p]].vif[p]
        BY <1>4, OwnerAssumption, PluggedAssumption
        DEF PrepareSetMetadata, Padded, HandoverInv, TypeInv, TypeOK
    <2> QED BY <1>4, <2>1, StutterStep DEF PrepareSetMetadata, SameFaults, SamePhase
<1> QED BY <1>1, <1>2, <1>3, <1>4 DEF PrepareStep

\* OVSDB changes for a port that was not plugged.
LEMMA UnpluggedStep ==
    ASSUME TypeOK, NEW p \in Ports \ Plugged,
           \A q \in Plugged : ovsdb'[q] = ovsdb[q],
           \A q \in Plugged : q \in uncleared' <=> q \in uncleared,
           UNCHANGED <<idsFile, xml, began, missed>>
    PROVE  UNCHANGED Handover!vars
<1>1. [q \in Plugged |-> Claims(q)]' = [q \in Plugged |-> Claims(q)]
    BY DEF Claims
<1>2. (uncleared \cap Plugged)' = uncleared \cap Plugged
    OBVIOUS
<1> QED BY <1>1, <1>2, SameMapping DEF Handover!vars, SamePhase

LEMMA HandoverUpdate ==
    ASSUME HandoverInv, HandoverInv', UpdateStep \/ StartUpdate
    PROVE  [Handover!Next]_(Handover!vars)
<1> USE DEF host, files, local, history, faults, At, TakeInstance, TakePort
<1>1. CASE StartUpdate
    BY <1>1, StutterStep, LeaveOutNone DEF StartUpdate, Start, SameFaults, SamePhase
<1>2. ASSUME NEW i \in Instances, UpdateDump(i) \/ UpdateShutDump(i)
      PROVE  [Handover!Next]_(Handover!vars)
    BY <1>2, StutterStep DEF UpdateDump, UpdateShutDump, SameFaults, SamePhase
<1>3. ASSUME NEW p \in Ports, UpdateConvert(p) \/ UpdateShutClear(p)
      PROVE  [Handover!Next]_(Handover!vars)
    <2>1. /\ script = "update" /\ ClearIds(p)
          /\ UNCHANGED <<idsFile, xml, began, missed>>
        BY <1>3 DEF UpdateConvert, UpdateShutClear
    <2>2. TypeOK
        BY DEF HandoverInv, TypeInv
    <2>3. CASE p \in Plugged
        <3>1. idsFile[p] = p \/ p \in missed
            BY <2>1, <2>3, CopyThere
        <3>2. CASE ovsdb' = [ovsdb EXCEPT ![p] = NoId] /\ uncleared' = uncleared \ {p}
            BY <2>1, <2>2, <2>3, <3>1, <3>2, ReleaseStep DEF Handover!Next
        <3>3. CASE ovsdb[p] # NoId /\ ovsdb' = ovsdb /\ uncleared' = uncleared \cup {p}
            <4>1. ovsdb[p] = p
                BY <3>3 DEF HandoverInv, IdsInv, OwnIds
            <4> QED BY <2>1, <2>3, <3>1, <3>3, <4>1, ReleaseFailsStep DEF Handover!Next
        <3> QED BY <2>1, <3>2, <3>3 DEF ClearIds
    <2>4. CASE p \notin Plugged
        <3>1. \A q \in Plugged : ovsdb'[q] = ovsdb[q] /\ (q \in uncleared' <=> q \in uncleared)
            BY <2>1, <2>2, <2>4, PluggedAssumption DEF ClearIds, TypeOK
        <3> QED BY <2>1, <2>2, <2>4, <3>1, UnpluggedStep
    <2> QED BY <2>3, <2>4
<1>4. CASE UpdateDefine
    BY <1>4, DefineStep DEF UpdateDefine
<1> QED BY <1>1, <1>2, <1>3, <1>4 DEF UpdateStep

LEMMA HandoverRollback ==
    ASSUME HandoverInv, HandoverInv', RollbackStep \/ StartRollback
    PROVE  [Handover!Next]_(Handover!vars)
<1> USE DEF host, files, local, history, faults, At, TakeInstance, TakePort
<1>1. CASE StartRollback
    <2>1. /\ UNCHANGED <<ovsdb, idsFile, xml, missed, uncleared>>
          /\ "rollback" \in began'
        BY <1>1, LeaveOutNone DEF StartRollback, Start
    <2>2. ("rollback" \in began)' = TRUE
        BY <2>1
    <2>3. Handover!Undo
        BY <2>1, <2>2, SameMapping DEF Handover!Undo, Handover!faults
    <2> QED BY <2>3 DEF Handover!Next
<1>2. ASSUME NEW i \in Instances, RollbackDump(i) \/ RollbackShutDump(i)
      PROVE  [Handover!Next]_(Handover!vars)
    BY <1>2, StutterStep DEF RollbackDump, RollbackShutDump, SameFaults, SamePhase
<1>3. ASSUME NEW p \in Ports, RollbackRestore(p) \/ RollbackShutRestore(p)
      PROVE  [Handover!Next]_(Handover!vars)
    <2>1. /\ script = "rollback" /\ RestoreIds(p)
          /\ UNCHANGED <<idsFile, xml, began, missed>>
        BY <1>3 DEF RollbackRestore, RollbackShutRestore
    <2>2. TypeOK /\ OwnIds /\ "rollback" \in began
        BY <2>1 DEF HandoverInv, TypeInv, IdsInv, ClearFirst
    <2>3. \/ ovsdb' = [ovsdb EXCEPT ![p] = NoId] /\ idsFile[p] = NoId
          \/ ovsdb' = [ovsdb EXCEPT ![p] = p] /\ idsFile[p] = p
          \/ ovsdb' = ovsdb
        BY <2>1, <2>2 DEF RestoreIds, OwnIds, TypeOK
    <2>4. CASE p \in Plugged /\ ovsdb'[p] = NoId
        <3>1. idsFile[p] = p \/ p \in missed
            BY <2>1, <2>4, CopyThere
        <3>2. ovsdb' = [ovsdb EXCEPT ![p] = NoId] /\ uncleared' = uncleared \ {p}
            BY <2>1, <2>2, <2>3, <2>4, IdAssumption, PluggedAssumption
            DEF RestoreIds, TypeOK
        <3> QED BY <2>1, <2>2, <2>4, <3>1, <3>2, ReleaseStep DEF Handover!Next
    <2>5. CASE p \in Plugged /\ ovsdb'[p] # NoId
        <3>1. uncleared' = uncleared
            BY <2>1, <2>5 DEF RestoreIds
        <3>2. CASE ovsdb' = [ovsdb EXCEPT ![p] = p] /\ idsFile[p] = p
            BY <2>1, <2>2, <2>5, <3>1, <3>2, ReclaimStep DEF Handover!Next
        <3>3. CASE ovsdb' = ovsdb
            BY <2>1, <3>1, <3>3, StutterStep DEF SameFaults, SamePhase
        <3>4. ~ (ovsdb' = [ovsdb EXCEPT ![p] = NoId])
            BY <2>2, <2>5, PluggedAssumption DEF TypeOK
        <3> QED BY <2>3, <3>2, <3>3, <3>4
    <2>6. CASE p \notin Plugged
        <3>1. \A q \in Plugged : ovsdb'[q] = ovsdb[q] /\ (q \in uncleared' <=> q \in uncleared)
            BY <2>1, <2>2, <2>3, <2>6, PluggedAssumption DEF RestoreIds, TypeOK
        <3> QED BY <2>1, <2>2, <2>6, <3>1, UnpluggedStep
    <2> QED BY <2>4, <2>5, <2>6
<1>4. CASE RollbackDefine
    BY <1>4, DefineStep DEF RollbackDefine
<1> QED BY <1>1, <1>2, <1>3, <1>4 DEF RollbackStep

LEMMA HandoverOther ==
    ASSUME HandoverInv, ListShutdown \/ Exit \/ HostStep \/ Crash
    PROVE  [Handover!Next]_(Handover!vars)
<1> USE DEF host, files, local, history, faults
<1>1. CASE ListShutdown
    <2>1. UNCHANGED <<ovsdb, idsFile, xml, uncleared>> /\ SamePhase
        BY <1>1 DEF ListShutdown, SamePhase
    <2>2. CASE script = "prepare"
        <3>1. began \subseteq {"prepare"}
            BY <2>2 DEF HandoverInv, IdsInv, Phases
        <3>2. \E out : LeaveOut(out)
            BY <1>1 DEF ListShutdown
        <3> QED BY <2>1, <3>1, <3>2, LeaveOutStep
    <2>3. CASE script # "prepare"
        <3>1. missed' = missed
            BY <1>1, <2>3, LeaveOutNone DEF ListShutdown
        <3> QED BY <2>1, <3>1, StutterStep DEF SameFaults
    <2> QED BY <2>2, <2>3
<1>2. CASE Exit
    BY <1>2, StutterStep DEF Exit, SameFaults, SamePhase
<1>3. ASSUME NEW i \in Instances, Suspend(i) \/ Resume(i)
      PROVE  [Handover!Next]_(Handover!vars)
    BY <1>3, StutterStep DEF Suspend, Resume, SameFaults, SamePhase
<1>4. ASSUME NEW i \in Instances, PowerOff(i) PROVE [Handover!Next]_(Handover!vars)
    <2>1. Taps' \subseteq Taps
        BY <1>4, IdAssumption, OwnerAssumption, PluggedAssumption
        DEF PowerOff, PlainXml, Taps, HandoverInv, TypeInv, TypeOK
    <2>2. Handover!Rewire(Taps')
        BY <1>4, <2>1, RewireStep DEF PowerOff
    <2> QED BY <2>1, <2>2 DEF Handover!Next, Taps
<1>5. CASE Crash
    <2>1. UNCHANGED <<xml, ovsdb, began, missed, uncleared>>
        BY <1>5 DEF Crash
    <2>2. CASE UNCHANGED idsFile
        BY <2>1, <2>2, StutterStep DEF SameFaults, SamePhase
    <2>3. ASSUME script = "prepare", NEW p \in ifaces, idsFile' = [idsFile EXCEPT ![p] = NoId]
          PROVE  [Handover!Next]_(Handover!vars)
        <3>1. TypeOK
            BY DEF HandoverInv, TypeInv
        <3>2. CASE p \in Plugged
            <4>1. ovsdb[p] = p
                BY <2>3, <3>2 DEF HandoverInv, IdsInv, Phases, OvsdbIntact
            <4> QED BY <2>1, <2>3, <3>1, <3>2, <4>1, SpoilStep DEF Handover!Next
        <3>3. CASE p \notin Plugged
            <4>1. {q \in Plugged : idsFile[q] = q}' = {q \in Plugged : idsFile[q] = q}
                BY <2>3, <3>1, <3>3, PluggedAssumption DEF TypeOK
            <4> QED BY <2>1, <4>1, SameMapping DEF Handover!vars, SamePhase
        <3> QED BY <3>2, <3>3
    <2> QED BY <1>5, <2>2, <2>3 DEF Crash
<1> QED BY <1>1, <1>2, <1>3, <1>4, <1>5 DEF HostStep

\* Under a disciplined operator every step of the scripts, of the guests, of a
\* failing command and of a kill is a step of PortHandover or changes nothing
\* that it shows.
THEOREM MigrationHandsOver == DisciplinedOperator => (Spec => ImplementsHandover)
<1> SUFFICES ASSUME DisciplinedOperator PROVE Spec => ImplementsHandover
    OBVIOUS
<1>1. Init => HandoverInv /\ Handover!Init
    BY TypeInit, IdsInit, XmlInit, ClearInit, HandoverInit DEF HandoverInv
<1>2. HandoverInv /\ [Next]_vars => HandoverInv'
    BY HandoverInvStep
<1>3. HandoverInv /\ HandoverInv' /\ [Next]_vars => [Handover!Next]_(Handover!vars)
    <2>1. UNCHANGED vars => UNCHANGED Handover!vars
        <3> SUFFICES ASSUME UNCHANGED vars PROVE UNCHANGED Handover!vars
            OBVIOUS
        <3> QED BY StutterStep DEF vars, SameFaults, SamePhase
    <2> QED BY <2>1, HandoverPrepare, HandoverUpdate, HandoverRollback, HandoverOther
            DEF Next, ScriptStep, Operator
<1> QED BY <1>1, <1>2, <1>3, PTL DEF Spec, ImplementsHandover, Handover!Spec
=============================================================================
