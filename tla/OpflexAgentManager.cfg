SPECIFICATION Spec
CONSTANTS
    Hosts = {"h1", "h2"}
    FilesOf <- MCFilesOf
    Domains = {"d1", "d2"}
    NoDomain = NoDomain
    Empty = Empty
    MaxEdits = 1
    Original <- MCOriginal
    MaxLate = 1
INVARIANTS
    TypeOK
    DomainsUpdated
    SettingsKept
    ParsedBeforeWrite
