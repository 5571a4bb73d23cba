SPECIFICATION Spec
CONSTANTS
    Callers = {c1}
    Settings = {s1, s2}
    DefaultSetting = s1
    TableSettings = {}
    FileSettings = {}
    NoConfig = NoConfig
    Nobody = Nobody
    MaxProfiles = 3
    MaxEdits = 2
    MaxCrashes = 0
CHECK_DEADLOCK FALSE
PROPERTIES
    CreateAddsProfile
