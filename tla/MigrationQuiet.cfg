SPECIFICATION Spec
CONSTANTS
    i1 = i1
    i2 = i2
    p1 = p1
    p2 = p2
    p3 = p3
    p4 = p4
    NoId = NoId
    Qbr = Qbr
    NoXml = NoXml
    Instances <- MCInstances
    Ports <- FourPorts
    Owner <- FourOwner
    Plugged <- FourPlugged
    Deviations <- QuietHost
INVARIANTS
    TypeOK
    UpdateConverts
    RollbackRestores
