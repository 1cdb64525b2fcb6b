SPECIFICATION ToolSpec
CONSTANTS
    Files = {"neutron.conf", "plugin.ini"}
    NeutronConf = "neutron.conf"
    Sections <- MCSections
    Keys <- MCKeys
    OptionOf <- MCOptionOf
    DictOrders <- MCDictOrders
    SiteValues = {"site", "True"}
    PhysSections = {"apic_switch:1"}
    Originals <- LegacyFiles
    Dropped <- MCDropped
    NoSection = NoSection
    Absent = Absent
    Broken = Broken
    NoFile = NoFile
INVARIANTS
    ToolTypeOK
    TogglesEverything
    OthersKept
    FilesOfOneKind
    GeneratedFromOriginals
