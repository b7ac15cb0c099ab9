\* The form handlers by themselves, with a failing key_data.
CONSTANTS
    home = home
    office = office
    pw1 = pw1
    pw2 = pw2
    pw3 = pw3
    lic1 = lic1
    lic2 = lic2
    blank = blank
    torn = torn
    dflt = dflt
    junk = junk
    Posts <- MCPosts
    LongVals = {pw3}
    Default = dflt
    Blank = blank
    Torn = torn
    Junk = junk
    ClockMod = 20000
    StartTimes = {0, 12000}
    KeyDataMayFail = TRUE
SPECIFICATION FairFormSpec
INVARIANTS
    FormTypeOK
    ClockHonest
    
PROPERTIES
    FormReturns
    FormProgresses
