CONSTANTS
    Wlan = Wlan
    Shell = Shell
    LenKey = LenKey
    InfoKey = InfoKey
    Boot = Boot
    short = short
    long = long
    Values = {short, long}
    NULL = NULL
    Size <- MCSize
    HeadSize = 1
    SettingSize = 7
    VerNum = 0
    OldVerNum = 1
    MaxCalls = 3
    MaxErrors = 1
    MaxCuts = 1
SPECIFICATION Spec
CHECK_DEADLOCK FALSE
INVARIANT TypeOK SavedIsCache ConfigWhole
PROPERTY Durable Returns
