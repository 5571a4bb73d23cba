SPECIFICATION Spec
CONSTANTS
    Callers = {c1, c2}
    Settings = {s1, s2}
    DefaultSetting = s1
    TableSettings = {s2}
    FileSettings = {s1}
    NoConfig = NoConfig
    Nobody = Nobody
    MaxProfiles = 2
    MaxEdits = 3
    MaxCrashes = 1
SYMMETRY Symmetry
CHECK_DEADLOCK FALSE
INVARIANTS
    MemoryMatchesDisk
    ActiveProfileIsMirrored
    LegacySettingsKept
PROPERTIES
    LegacyNeverOverrides
    EditIsExact
