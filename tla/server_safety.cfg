\* Two partitions, one of them secondApp, with power losses anywhere; file names
\* that contain the name of secondApp.
CONSTANTS
    f1 = f1
    f2 = f2
    junk = junk
    Images = {f1, f2}
    Bootable = {f1, f2}
    Blank = Blank
    NoPart = NoPart
    NumChunks = 2
    UploadTargets = {"app", "secondApp"}
    EraseTargets = {"app", "secondApp"}
    NameMentions <- MCMentionsSecond
    BodyLens = {1, 2, 3}
    MaxHandles = 1
    KeyDataMayFail = FALSE
SYMMETRY MCSymmetry
SPECIFICATION Spec
INVARIANTS
    TypeOK
    NeverMisdescribes
    RepliesTrue
    UploadLandsWhereSelected
PROPERTIES
    InvalidatedFirst
