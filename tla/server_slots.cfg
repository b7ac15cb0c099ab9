\* Reads and writes of key_data that fail; no erase of secondApp.
CONSTANTS
    f1 = f1
    f2 = f2
    junk = junk
    Images = {f1, junk}
    Bootable = {f1}
    Blank = Blank
    NoPart = NoPart
    NumChunks = 2
    UploadTargets = {"app", "secondApp"}
    EraseTargets = {"app"}
    NameMentions <- MCNoMentions
    BodyLens = {1, 2}
    MaxHandles = 1
    KeyDataMayFail = TRUE
SPECIFICATION Spec
PROPERTIES
    ImplementsSlots
