------------------------ MODULE MCInstanceMigration ------------------------
(* Two instances.  Four ports on a quiet host: one instance has both its ports
   plugged, the other has one that only libvirt knows (prepare-instances.sh:49-53).
   Three ports on a busy one. *)
EXTENDS InstanceMigration

CONSTANTS i1, i2, p1, p2, p3, p4

MCInstances == {i1, i2}
FourPorts == {p1, p2, p3, p4}
FourOwner == [p \in FourPorts |-> IF p \in {p1, p2} THEN i1 ELSE i2]
FourPlugged == {p1, p2, p3}
ThreePorts == {p1, p2, p3}
ThreeOwner == [p \in ThreePorts |-> IF p = p3 THEN i2 ELSE i1]
ThreePlugged == {p1, p3}

\* The procedure is followed, on a quiet host, but a script may be killed.
QuietHost == {"crash"}
\* The procedure is followed; guests do what they like meanwhile, and any
\* command of libvirt and Open vSwitch may fail.
BusyHost == {"crash", "race", "libvirtError", "ovsError"}
EarlySave == {"earlySave"}
RerunUpdate == {"rerunUpdate"}
============================================================================
