SPECIFICATION Spec
CONSTANTS
    Nodes <- MCNodes
    Parent <- MCParent
    Dummies = {"dummy"}
    Related = {"bdRef"}
    Resources <- MCResources
    Owner <- MCOwner
    Alone = {"tenant", "bd", "bdRef", "subnet", "fault"}
    Above <- MCAbove
    Roots = {"Tenant"}
    Faults = {"Fault"}
    Orders <- MCOrders
INVARIANTS
    TypeOK
    EachObjectOnce
    PrefixStored
    ApicHasTree
PROPERTIES
    RunsEnd
