\* The erase of secondApp.
CONSTANTS
    f1 = f1
    f2 = f2
    junk = junk
    Images = {f1}
    Bootable = {f1}
    Blank = Blank
    NoPart = NoPart
    NumChunks = 2
    UploadTargets = {"secondApp"}
    EraseTargets = {"secondApp"}
    NameMentions <- MCNoMentions
    BodyLens = {2}
    MaxHandles = 2
    KeyDataMayFail = FALSE
SPECIFICATION Spec
INVARIANTS
    ErasedIsForgotten
