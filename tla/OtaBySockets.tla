---------------------------- MODULE OtaBySockets ----------------------------
(* The socket OTA service of src/main/ota_by_sockets.c: one task that waits  *)
(* for invitations on a UDP socket and runs tcp_client_task() inline, which   *)
(* fetches the announced firmware from the sender over TCP.                  *)
EXTENDS OtaFlash, Sequences

CONSTANTS
    Datagrams,    \* what invitations say; see Parsed
    Segments,     \* what a recv() on the TCP socket may return
    Garbage,      \* an MD5 that is no firmware's
    MboxSize,     \* datagrams lwIP queues for the UDP socket
    MaxHandles,   \* update handles the heap has room for
    AuthModes     \* the auth arguments ota_init() is called with

ASSUME AuthAssumption == AuthModes \subseteq BOOLEAN
ASSUME BoundsAssumption == MboxSize \in Nat /\ MaxHandles \in Nat
ASSUME SegmentsAssumption == Segments \subseteq Seq(Images) \ {<<>>}
ASSUME DatagramsAssumption ==
    \A d \in Datagrams : "size" \in DOMAIN d => d["size"] \in Nat
ASSUME GarbageAssumption == Garbage \notin Seq(Images)

VARIABLES
    image, boot, handles,  \* flash and update handles, as in FirmwareServer
    g_auth,     \* whether senders are challenged
    upc,        \* where the task is; "dead" when no UDP socket could be made
    mbox,       \* datagrams received and not read
    otaState,   \* udp_server_ota_state
    announced,  \* udp_server_ota_info
    rcvd,       \* chunks received over TCP in this session and hashed
    peer,       \* the sender's end of the TCP connection
    held        \* this session's update handle is neither ended nor aborted

vars == <<image, boot, handles, g_auth, upc, mbox, otaState, announced, rcvd, peer, held>>
shared == <<image, boot, handles>>
system == <<shared, g_auth>>
session == <<rcvd, peer, held>>

-----------------------------------------------------------------------------
\* Definitions named Operator_Change are slips in the code that the properties
\* are tried against; the specification does not use them.

\* The partition tcp_client_task() writes.
update_partition_OfRunning == NextUpdatePartition("secondApp")
update_partition == NextUpdatePartition("flashApp")

\* udp_ota_data_handle(): sscanf() leaves the fields a datagram lacks as they
\* were.  An MD5 is represented by the chunks it is the MD5 of.
Fields == {"size", "md5"}
Parsed(d) == [k \in Fields |-> IF k \in DOMAIN d THEN d[k] ELSE announced[k]]

Init ==
    /\ image = [p \in AppParts |-> Whole(Blank)]
    /\ boot = NoPart /\ handles = 0
    /\ g_auth = FALSE /\ upc = "off" /\ mbox = <<>> /\ otaState = "OTA_IDLE"
    /\ announced = [size |-> 0, md5 |-> Garbage]
    /\ rcvd = <<>> /\ peer = "none" /\ held = FALSE

\* RAM is lost, flash is kept.
Reset ==
    /\ g_auth' = FALSE /\ upc' = "off" /\ mbox' = <<>> /\ otaState' = "OTA_IDLE"
    /\ announced' = [size |-> 0, md5 |-> Garbage]
    /\ rcvd' = <<>> /\ peer' = "none" /\ held' = FALSE
    /\ handles' = 0
    /\ UNCHANGED <<image, boot>>

PowerLoss == upc # "off" /\ Reset

\* udp_server_ota_info is not initialised.
ota_init ==
    /\ upc = "off" /\ upc' = "recv"
    /\ g_auth' \in AuthModes
    /\ \E n \in 0..NumChunks : announced' = [size |-> n, md5 |-> Garbage]
    /\ UNCHANGED <<shared, mbox, otaState, session>>

\* A datagram arrives; when mbox is full, lwIP drops it.
DatagramArrives(d) ==
    /\ upc \notin {"off", "dead"} /\ Len(mbox) < MboxSize
    /\ mbox' = Append(mbox, d)
    /\ UNCHANGED <<system, upc, otaState, announced, session>>

\* recvfrom() fails: the socket is closed and a new one made, or not.
SocketError ==
    /\ upc = "recv"
    /\ upc' \in {"recv", "dead"} /\ mbox' = <<>>
    /\ UNCHANGED <<system, otaState, announced, session>>

-----------------------------------------------------------------------------
\* recvfrom() returns the next datagram.
Recvfrom == upc = "recv" /\ mbox # <<>> /\ mbox' = Tail(mbox)

\* An invitation is answered with "OK", or with a challenge; an answer that
\* cannot be sent leaves the task in OTA_IDLE.
Invitation ==
    /\ Recvfrom /\ otaState = "OTA_IDLE"
    /\ announced' = Parsed(Head(mbox))
    /\ \/ UNCHANGED <<upc, otaState>>
       \/ g_auth /\ otaState' = "OTA_WAITAUTH" /\ UNCHANGED upc
       \/ ~g_auth /\ upc' = "begin" /\ UNCHANGED otaState
    /\ UNCHANGED <<system, session>>

IgnoredDatagram_Trusts ==
    /\ Recvfrom /\ otaState \in {"OTA_WAITAUTH", "OTA_RUNUPDATE"}
    /\ otaState' = "OTA_IDLE" /\ upc' = "begin"
    /\ UNCHANGED <<system, announced, session>>

\* In the other two states the datagram is not looked at.
IgnoredDatagram ==
    /\ Recvfrom /\ otaState \in {"OTA_WAITAUTH", "OTA_RUNUPDATE"}
    /\ otaState' = "OTA_IDLE"
    /\ UNCHANGED <<system, upc, announced, session>>

-----------------------------------------------------------------------------
\* tcp_client_task() returns.
Return ==
    /\ upc' = "recv" /\ otaState' = "OTA_RUNUPDATE"
    /\ rcvd' = <<>> /\ peer' = "none" /\ held' = FALSE
    /\ UNCHANGED <<mbox, announced>>

\* Without memory for a handle, or when the partition cannot be read.
OtaBeginFails ==
    /\ upc = "begin"
    /\ Return
    /\ UNCHANGED system

OtaBegin ==
    /\ upc = "begin" /\ handles < MaxHandles
    /\ handles' = handles + 1 /\ held' = TRUE
    /\ upc' = "connect"
    /\ UNCHANGED <<image, boot, g_auth, mbox, otaState, announced, rcvd, peer>>

ConnectFails_Retries ==
    /\ upc = "connect" /\ upc' = "begin"
    /\ held' = FALSE
    /\ UNCHANGED <<system, mbox, otaState, announced, rcvd, peer>>

\* socket() or connect() fails: no esp_ota_abort().
ConnectFails ==
    /\ upc = "connect"
    /\ Return
    /\ UNCHANGED system

Connect ==
    /\ upc = "connect"
    /\ upc' = "stream" /\ peer' = "open"
    /\ UNCHANGED <<system, mbox, otaState, announced, rcvd, held>>

Written(seg) ==
    [i \in 1..NumChunks |->
        IF i \in Len(rcvd) + 1 .. Len(rcvd \o seg)
        THEN (rcvd \o seg)[i]
        ELSE image[update_partition][i]]

\* A segment is written, hashed and acknowledged.  The loop ends when exactly
\* the announced size has been received, or the acknowledgement fails.
RecvSegment(seg) ==
    /\ upc = "stream" /\ peer = "open"
    /\ Len(rcvd \o seg) <= NumChunks
    /\ image' = [image EXCEPT ![update_partition] = Written(seg)]
    /\ rcvd' = rcvd \o seg
    /\ upc' \in IF Len(rcvd') = announced.size THEN {"end"} ELSE {"stream", "end"}
    /\ UNCHANGED <<boot, handles, g_auth, mbox, otaState, announced, peer, held>>

\* What a write of seg leaves that erased e of its chunks and wrote w of them.
Torn(seg, e, w) ==
    [i \in 1..NumChunks |->
        CASE i \in Len(rcvd) + 1 .. Len(rcvd) + w -> seg[i - Len(rcvd)]
          [] i \in Len(rcvd) + w + 1 .. Len(rcvd) + e -> Blank
          [] OTHER -> image[update_partition][i]]

\* esp_ota_write() fails: past the partition's end, before anything is changed,
\* or in the flash, anywhere in the erase or the write of the segment.
WriteFails(seg) ==
    /\ upc = "stream" /\ peer = "open"
    /\ \/ UNCHANGED image
       \/ /\ Len(rcvd \o seg) <= NumChunks
          /\ \E e \in 1..Len(seg) : \E w \in 0..e :
                image' = [image EXCEPT ![update_partition] = Torn(seg, e, w)]
    /\ handles' = handles - 1 /\ held' = FALSE
    /\ upc' = "end"
    /\ UNCHANGED <<boot, g_auth, mbox, otaState, announced, rcvd, peer>>

RecvFails ==
    /\ upc = "stream"
    /\ upc' = "end"
    /\ UNCHANGED <<system, mbox, otaState, announced, session>>

\* The sender ends its stream, and goes on accepting what is sent to it or not.
PeerCloses ==
    /\ upc = "stream"
    /\ \/ peer = "open" /\ peer' \in {"halfClosed", "closed"}
       \/ peer = "halfClosed" /\ peer' = "closed"
    /\ UNCHANGED <<system, upc, mbox, otaState, announced, rcvd, held>>

RecvZero_Unsent ==
    /\ upc = "stream" /\ peer \in {"halfClosed", "closed"}
    /\ IF Len(rcvd) = announced.size THEN upc' = "end" ELSE UNCHANGED upc
    /\ UNCHANGED <<system, mbox, otaState, announced, session>>

\* recv() returns 0, nothing is written or hashed, and "0" is sent: the total is
\* what it was.  Where that is not the announced size, only a send() that fails
\* ends the loop; a sender that accepts the "0" gets another one, for ever.
RecvZero ==
    /\ upc = "stream" /\ peer \in {"halfClosed", "closed"}
    /\ IF peer = "closed" \/ Len(rcvd) = announced.size
       THEN upc' = "end"
       ELSE UNCHANGED upc
    /\ UNCHANGED <<system, mbox, otaState, announced, session>>

\* esp_ota_end() of a handle already aborted finds none to free.
HandlesAfterEnd_Twice == handles - 1
HandlesAfterEnd == IF held THEN handles - 1 ELSE handles

\* The result of esp_ota_end() is only logged.
OtaEnd ==
    /\ upc = "end" /\ upc' = "check"
    /\ handles' = HandlesAfterEnd
    /\ held' = FALSE
    /\ UNCHANGED <<image, boot, g_auth, mbox, otaState, announced, rcvd, peer>>

Md5Ok_SizeOnly == Len(rcvd) = announced.size
Md5Ok == rcvd = announced.md5

\* The device restarts whether or not the boot partition could be set.
Md5Matches ==
    /\ upc = "check" /\ Md5Ok
    /\ \/ Verifies(image[update_partition]) /\ boot' = update_partition
       \/ UNCHANGED boot
    /\ upc' = "restart"
    /\ UNCHANGED <<image, handles, g_auth, mbox, otaState, announced, session>>

Md5Differs ==
    /\ upc = "check" /\ ~Md5Ok
    /\ Return
    /\ UNCHANGED system

Restart == upc = "restart" /\ Reset

-----------------------------------------------------------------------------
TaskStep ==
    \/ Invitation \/ IgnoredDatagram
    \/ OtaBeginFails \/ OtaBegin \/ ConnectFails \/ Connect
    \/ RecvZero \/ OtaEnd \/ Md5Matches \/ Md5Differs

PeerStep ==
    \/ \E seg \in Segments : RecvSegment(seg) \/ WriteFails(seg)
    \/ RecvFails
    \/ PeerCloses

OtaStep ==
    \/ \E d \in Datagrams : DatagramArrives(d)
    \/ SocketError
    \/ TaskStep
    \/ PeerStep

Next == PowerLoss \/ ota_init \/ OtaStep \/ Restart

Spec == Init /\ [][Next]_vars

\* The task runs; connect() and send() return.  Nothing is assumed of the peer.
FairSpec == Spec /\ WF_vars(TaskStep \/ Restart)

-----------------------------------------------------------------------------
\* The types of the variables, and when a session holds a handle.
TypeOK ==
    /\ image \in [AppParts -> PartImage] /\ boot \in AppParts \cup {NoPart}
    /\ handles \in 0..MaxHandles /\ g_auth \in BOOLEAN
    /\ upc \in {"off", "dead", "recv", "begin", "connect", "stream", "end", "check", "restart"}
    /\ mbox \in Seq(Datagrams) /\ Len(mbox) <= MboxSize
    /\ otaState \in {"OTA_IDLE", "OTA_WAITAUTH", "OTA_RUNUPDATE"}
    /\ announced.size \in Nat
    /\ Len(rcvd) <= NumChunks
    /\ peer \in {"none", "open", "halfClosed", "closed"}
    /\ held => handles > 0 /\ upc \in {"connect", "stream", "end"}

\* A firmware is selected to boot only if its chunks are those whose MD5 the
\* invitation announced, all of them received in this session: an interrupted,
\* overlong, rejected or mixed stream leaves the selection as it is.
BootsOnlyAnnounced ==
    [][(boot' # boot /\ boot' # NoPart) =>
        /\ boot' = "secondApp" /\ Verifies(image[boot'])
        /\ announced.md5 # Garbage
        /\ \A i \in 1..Len(announced.md5) : image[boot'][i] = announced.md5[i]]_vars

\* The task always gets back to reading invitations, unless it is dead or its
\* peer holds it in the stream for ever: by its silence, for recv() has no
\* time-out (line 293), or by closing one direction only and accepting the "0"
\* of each empty receive (line 319).  Nothing else holds it: no failure, no split
\* of the stream and no announced size, not even one that is never met.
BackToListening ==
    \/ []<>(upc \in {"recv", "off", "dead"})
    \/ <>[](upc = "stream" /\ peer \in {"open", "halfClosed"})

\* An upper bound on the changes a session still goes through until
\* tcp_client_task() returns: one for a chunk that is still to come, and one for
\* each direction that the peer closes.
SessionWork ==
    CASE upc = "begin" -> NumChunks + 7
      [] upc = "connect" -> NumChunks + 6
      [] upc = "stream" ->
             NumChunks - Len(rcvd) + [open |-> 5, halfClosed |-> 4, closed |-> 3][peer]
      [] upc = "end" -> 2
      [] upc = "check" -> 1
      [] OTHER -> 0

\* A session never goes back: what changes it brings its end nearer, whatever the
\* peer sends and whatever fails.  What does not change it are datagrams that
\* arrive meanwhile and an empty receive whose "0" is accepted, of which there
\* may be any number: see BackToListening.
SessionProgresses ==
    [][(upc \in {"begin", "connect", "stream", "end", "check"} /\ upc' # "off")
           => SessionWork' \in 0 .. SessionWork - 1]_<<system, upc, otaState, announced, session>>

\* With auth, the answer to the challenge is never looked at and no update ever
\* starts.
AuthNeverUpdates == g_auth => upc \in {"dead", "recv"} /\ handles = 0
=============================================================================
