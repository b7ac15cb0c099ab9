\* One task that logs besides the two of the file, two hosts, a queue of two.
CONSTANTS
    hostA = hostA
    hostB = hostB
    b1 = b1
    b2 = b2
    b3 = b3
    Writers = {"main"}
    Hosts = {hostA, hostB}
    Socks = {1}
    Blocks = {b1, b2, b3}
    LOG_REDIRECTION_QUEUE_NUM = 2
    None = None
    Unknown = Unknown
SPECIFICATION FairSpec
INVARIANTS
    TypeOK
    NoNullDeref
    OwnedOnce
    OneStaleLine
PROPERTIES
    LoggersNeverBlock
    QueuedLeaves
    ImplementsLines
