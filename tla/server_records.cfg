\* No erase of secondApp; names that mention another partition; an unbootable
\* firmware; clients that stall and break off.
CONSTANTS
    f1 = f1
    f2 = f2
    junk = junk
    Images = {f1, junk}
    Bootable = {f1}
    Blank = Blank
    NoPart = NoPart
    NumChunks = 2
    UploadTargets = {"app", "flashApp"}
    EraseTargets = {"app", "flashApp", "nvs"}
    NameMentions <- MCMentionsApp
    BodyLens = {0, 2, 3}
    MaxHandles = 1
    KeyDataMayFail = FALSE
SPECIFICATION FairSpec
INVARIANTS
    RecordsCoherent
    ErasedIsForgotten
PROPERTIES
    HandlerReturns
    HandlerProgresses
