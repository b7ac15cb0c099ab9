\* An upload during a socket update.
CONSTANTS
    f1 = f1
    f2 = f2
    Images = {f1, f2}
    Bootable = {f1, f2}
    Blank = Blank
    NoPart = NoPart
    Garbage = Garbage
    NumChunks = 2
    UploadTargets = {"secondApp"}
    EraseTargets = {}
    NameMentions <- MCNoMentions
    BodyLens = {2}
    KeyDataMayFail = FALSE
    Datagrams <- MCDatagrams
    Segments <- MCSegments
    MboxSize = 1
    MaxHandles = 2
    AuthModes = {FALSE}
SPECIFICATION Spec
PROPERTIES
    Md5CheckedBoots
