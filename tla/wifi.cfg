\* Forms, the station task, the event loop and the driver.
CONSTANTS
    home = home
    nossid = nossid
    pw1 = pw1
    pw2 = pw2
    blank = blank
    torn = torn
    dflt = dflt
    junk = junk
    Posts <- MCPosts
    LongVals = {}
    Default = dflt
    Blank = blank
    Torn = torn
    Junk = junk
    ClockMod = 20000
    StartTimes = {0}
    KeyDataMayFail = FALSE
    ESP_MAXIMUM_RETRY = 1
    MaxEvents = 2
    EmptySsid = nossid
SPECIFICATION FairSpec
INVARIANTS
    TypeOK
    UsesLastAccepted
    NeverStuck
    KeptForRestart
PROPERTIES
    ImplementsForms
    AcceptedIsTried
