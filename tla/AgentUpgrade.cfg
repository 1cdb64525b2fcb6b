SPECIFICATION Spec
CONSTANTS
    Hosts = {h1, h2}
    Lines = {"program", "command"}
    NoFile = NoFile
INVARIANTS
    TypeOK
    OriginalKept
    StoppedWhileReplaced
    UpgradedHostsRun
PROPERTIES
    PlaysEnd
