\* Both tasks at work.
CONSTANTS
    f1 = f1
    f2 = f2
    Images = {f1, f2}
    Bootable = {f1, f2}
    Blank = Blank
    NoPart = NoPart
    Garbage = Garbage
    NumChunks = 1
    UploadTargets = {"app"}
    EraseTargets = {"app"}
    NameMentions <- MCNoMentions
    BodyLens = {1}
    KeyDataMayFail = FALSE
    Datagrams <- MCDatagrams
    Segments <- MCSegments
    MboxSize = 1
    MaxHandles = 2
    AuthModes = {FALSE}
SPECIFICATION Spec
INVARIANTS
    TypeOK
    HandlesApart
    OthersNeverMisdescribed
PROPERTIES
    Md5CheckedBoots
