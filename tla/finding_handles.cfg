\* Uploads that time out or are too large.
CONSTANTS
    f1 = f1
    f2 = f2
    junk = junk
    Images = {f1}
    Bootable = {f1}
    Blank = Blank
    NoPart = NoPart
    NumChunks = 2
    UploadTargets = {"app"}
    EraseTargets = {}
    NameMentions <- MCNoMentions
    BodyLens = {2, 3}
    MaxHandles = 2
    KeyDataMayFail = FALSE
SPECIFICATION Spec
INVARIANTS
    HandlesFreed
