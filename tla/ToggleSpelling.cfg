SPECIFICATION Spec
CONSTANTS
    Files = {"neutron.conf", "plugin.ini"}
    NeutronConf = "neutron.conf"
    Sections <- MCSections
    Keys <- MCKeys
    OptionOf <- MCOptionOf
    DictOrders <- MCDictOrders
    SiteValues = {"site"}
    Originals <- PlainFiles
    Dropped = {}
    NoSection = NoSection
    Absent = Absent
    Broken = Broken
    NoFile = NoFile
INVARIANTS
    UnifiedDriver
