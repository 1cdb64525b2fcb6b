SPECIFICATION Spec
CONSTANTS
    HostSeq <- MCHostSeq
    DhcpHost = "h2"
    Controller = "controller"
    NeutronEdits <- MCNeutronEdits
    VlanEdits <- MCVlanEdits
    ForceMetadata = "force_metadata"
    ProxyConfig = "proxy"
    MaxRuns = 2
\* The operator stops running the script.
CHECK_DEADLOCK FALSE
INVARIANTS
    ServiceRunsEdited
