\* Two invitations queued while a session runs; a peer that does not stay
\* silent; with and without auth.
CONSTANTS
    f1 = f1
    f2 = f2
    Images = {f1, f2}
    Bootable = {f1, f2}
    Blank = Blank
    NoPart = NoPart
    Garbage = Garbage
    NumChunks = 2
    Datagrams <- MCDatagrams
    Segments <- MCSegments
    MboxSize = 2
    MaxHandles = 2
    AuthModes = {TRUE, FALSE}
SPECIFICATION FairSpec
INVARIANTS
    TypeOK
    AuthNeverUpdates
PROPERTIES
    BootsOnlyAnnounced
    BackToListening
    SessionProgresses
