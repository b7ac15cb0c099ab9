-------------------------- MODULE OtaBySocketsProofs --------------------------
(* Theorems about OtaBySockets, for any firmwares, invitations, streams, bounds *)
(* of the mailbox and of the heap, and any modes of authentication.           *)
EXTENDS OtaBySockets, SequenceTheorems, TLAPS

-----------------------------------------------------------------------------
(* Lemmas about the operators.                                                *)

\* The slot after that of the update server.
LEMMA SecondApp == update_partition = "secondApp"
  <1>1. \A q \in AppParts : Slot[q] = (Slot["flashApp"] + 1) % 3 <=> q = "secondApp"
    BY DEF AppParts, Slot
  <1>2. "secondApp" \in AppParts
    BY DEF AppParts
  <1>3. NextUpdatePartition("flashApp") = "secondApp"
    BY <1>1, <1>2 DEF NextUpdatePartition
  <1> QED
    BY <1>3 DEF update_partition

\* A stream that a segment is added to.
LEMMA Stream ==
    ASSUME NEW S, NEW r \in Seq(S), NEW seg \in Seq(S)
    PROVE  /\ r \o seg \in Seq(S) /\ Len(r \o seg) \in Nat /\ Len(r) \in Nat
           /\ Len(r) <= Len(r \o seg)
           /\ \A i \in 1..Len(r) : (r \o seg)[i] = r[i]
           /\ \A i \in 1..Len(r \o seg) : (r \o seg)[i] \in S
  <1>1. /\ r \o seg \in Seq(S) /\ Len(r \o seg) = Len(r) + Len(seg)
        /\ Len(r) \in Nat /\ Len(seg) \in Nat
        /\ \A i \in 1..Len(r) : (r \o seg)[i] = r[i]
    BY ConcatProperties, LenProperties
  <1>2. \A i \in 1..Len(r \o seg) : (r \o seg)[i] \in S
    BY <1>1, ElementOfSeq
  <1> QED
    BY <1>1, <1>2

\* sscanf() leaves a size that was there, or one that the datagram gives.
LEMMA ParsedSize ==
    ASSUME announced.size \in Nat, NEW d \in Datagrams
    PROVE  Parsed(d).size \in Nat
  BY DatagramsAssumption DEF Parsed, Fields

-----------------------------------------------------------------------------
(* The inductive invariant.                                                   *)

\* The handle is the session's own, at a time when it may have one; a stream has
\* a peer.
HandleInv ==
    /\ held => handles > 0 /\ upc \in {"connect", "stream", "end"}
    /\ upc \in {"connect", "stream"} => held
    /\ upc = "stream" => peer # "none"
    /\ upc = "off" => handles = 0 /\ ~g_auth
    /\ AuthNeverUpdates

\* What was received in this session is what the front of the partition holds.
StreamInv ==
    /\ rcvd \in Seq(Images) /\ Len(rcvd) <= NumChunks
    /\ upc \in {"off", "dead", "recv", "begin", "connect"} => rcvd = <<>>
    /\ \A i \in 1..Len(rcvd) : image["secondApp"][i] = rcvd[i]

IInv == TypeOK /\ HandleInv /\ StreamInv

LEMMA InitIInv == Init => IInv
  <1> SUFFICES ASSUME Init PROVE IInv
    OBVIOUS
  <1>1. image \in [AppParts -> PartImage]
    BY DEF Init, Whole, PartImage, Chunk
  <1>2. rcvd = <<>> /\ rcvd \in Seq(Images) /\ Len(rcvd) = 0
    BY DEF Init
  <1>3. TypeOK
    <2>1. mbox \in Seq(Datagrams) /\ Len(mbox) <= MboxSize
      BY BoundsAssumption DEF Init
    <2>2. announced.size \in Nat
      BY DEF Init
    <2>3. handles \in 0..MaxHandles /\ Len(rcvd) <= NumChunks
      BY <1>2, NumChunksAssumption, BoundsAssumption DEF Init
    <2> QED
      BY <1>1, <2>1, <2>2, <2>3 DEF Init, TypeOK
  <1>4. HandleInv
    BY DEF Init, HandleInv, AuthNeverUpdates
  <1>5. StreamInv
    BY <1>2, NumChunksAssumption DEF Init, StreamInv
  <1> QED
    BY <1>3, <1>4, <1>5 DEF IInv

\* A restart of the chip keeps the flash.
LEMMA ResetIInv == IInv /\ Reset => IInv'
  <1> SUFFICES ASSUME IInv, Reset PROVE IInv'
    OBVIOUS
  <1>1. rcvd' = <<>> /\ rcvd' \in Seq(Images) /\ Len(rcvd') = 0
    BY DEF Reset
  <1>2. TypeOK'
    <2>1. mbox' \in Seq(Datagrams) /\ Len(mbox') <= MboxSize
      BY BoundsAssumption DEF Reset
    <2>2. announced'.size \in Nat
      BY DEF Reset
    <2>3. handles' \in 0..MaxHandles /\ Len(rcvd') <= NumChunks
      BY <1>1, NumChunksAssumption, BoundsAssumption DEF Reset
    <2> QED
      BY <2>1, <2>2, <2>3 DEF Reset, IInv, TypeOK
  <1>3. HandleInv'
    BY DEF Reset, HandleInv, AuthNeverUpdates
  <1>4. StreamInv'
    BY <1>1, NumChunksAssumption DEF Reset, StreamInv
  <1> QED
    BY <1>2, <1>3, <1>4 DEF IInv

\* A step that writes no flash and receives nothing, or forgets the stream.
LEMMA KeepsStream ==
    ASSUME IInv, UNCHANGED image,
           \/ rcvd' = rcvd /\ (upc' = upc \/ upc' \in {"stream", "end", "check", "restart"})
           \/ rcvd' = rcvd /\ upc' \in {"dead", "recv", "begin", "connect"}
              /\ upc \in {"off", "dead", "recv", "begin", "connect"}
           \/ rcvd' = <<>>
    PROVE  StreamInv' /\ Len(rcvd') <= NumChunks
  <1>1. StreamInv /\ NumChunks \in Nat /\ Len(<<>>) = 0 /\ <<>> \in Seq(Images)
    BY NumChunksAssumption DEF IInv
  <1>2. CASE rcvd' = <<>>
    BY <1>1, <1>2 DEF StreamInv
  <1>3. CASE rcvd' = rcvd
    BY <1>1, <1>3 DEF StreamInv
  <1> QED
    BY <1>2, <1>3

\* The return of tcp_client_task(), with its handle freed, or never freed.
LEMMA ReturnIInv ==
    ASSUME IInv, Return, UNCHANGED <<image, boot, g_auth>>, ~g_auth,
           handles' = handles
    PROVE  IInv'
  <1>1. /\ upc' = "recv" /\ otaState' = "OTA_RUNUPDATE" /\ rcvd' = <<>>
        /\ peer' = "none" /\ held' = FALSE /\ UNCHANGED <<mbox, announced>>
    BY DEF Return
  <1>2. StreamInv' /\ Len(rcvd') <= NumChunks
    BY <1>1, KeepsStream
  <1>3. TypeOK'
    BY <1>1, <1>2 DEF IInv, TypeOK
  <1>4. HandleInv'
    BY <1>1 DEF IInv, HandleInv, AuthNeverUpdates
  <1> QED
    BY <1>2, <1>3, <1>4 DEF IInv

-----------------------------------------------------------------------------
\* The steps of the listening task, and the datagrams.
LEMMA ListenIInv ==
    ASSUME IInv, \/ ota_init \/ SocketError \/ Invitation \/ IgnoredDatagram
                 \/ \E d \in Datagrams : DatagramArrives(d)
    PROVE  IInv'
  <1>0. mbox \in Seq(Datagrams) /\ Len(mbox) <= MboxSize /\ announced.size \in Nat
    BY DEF IInv, TypeOK
  <1>1. CASE ota_init
    <2>1. upc = "off" /\ upc' = "recv" /\ g_auth' \in AuthModes
          /\ UNCHANGED <<image, boot, handles, mbox, otaState, rcvd, peer, held>>
      BY <1>1 DEF ota_init, shared, session
    <2>2. announced'.size \in Nat
      <3>1. PICK n \in 0..NumChunks : announced' = [size |-> n, md5 |-> Garbage]
        BY <1>1 DEF ota_init
      <3> QED
        BY <3>1, NumChunksAssumption
    <2>3. StreamInv' /\ Len(rcvd') <= NumChunks
      BY <2>1, KeepsStream
    <2>4. TypeOK' /\ HandleInv'
      BY <2>1, <2>2, <2>3, AuthAssumption DEF IInv, TypeOK, HandleInv, AuthNeverUpdates
    <2> QED
      BY <2>3, <2>4 DEF IInv
  <1>2. CASE SocketError
    <2>1. upc = "recv" /\ upc' \in {"recv", "dead"} /\ mbox' = <<>>
          /\ UNCHANGED <<image, boot, handles, g_auth, otaState, announced, rcvd, peer, held>>
      BY <1>2 DEF SocketError, system, shared, session
    <2>2. mbox' \in Seq(Datagrams) /\ Len(mbox') <= MboxSize
      BY <2>1, BoundsAssumption
    <2>3. StreamInv' /\ Len(rcvd') <= NumChunks
      BY <2>1, KeepsStream
    <2>4. TypeOK' /\ HandleInv'
      BY <2>1, <2>2, <2>3 DEF IInv, TypeOK, HandleInv, AuthNeverUpdates
    <2> QED
      BY <2>3, <2>4 DEF IInv
  <1>3. CASE \E d \in Datagrams : DatagramArrives(d)
    <2>1. PICK d \in Datagrams : DatagramArrives(d)
      BY <1>3
    <2>2. Len(mbox) < MboxSize /\ mbox' = Append(mbox, d)
          /\ UNCHANGED <<image, boot, handles, g_auth, upc, otaState, announced, rcvd, peer, held>>
      BY <2>1 DEF DatagramArrives, system, shared, session
    <2>3. mbox' \in Seq(Datagrams) /\ Len(mbox') = Len(mbox) + 1 /\ Len(mbox) \in Nat
      BY <1>0, <2>2, AppendProperties, LenProperties
    <2>4. Len(mbox') <= MboxSize
      BY <2>2, <2>3, BoundsAssumption
    <2>5. StreamInv' /\ Len(rcvd') <= NumChunks
      BY <2>2, KeepsStream
    <2>6. TypeOK' /\ HandleInv'
      BY <2>2, <2>3, <2>4, <2>5 DEF IInv, TypeOK, HandleInv, AuthNeverUpdates
    <2> QED
      BY <2>5, <2>6 DEF IInv
  \* recvfrom() takes one datagram out.
  <1>4. ASSUME Recvfrom
        PROVE  /\ upc = "recv" /\ mbox' \in Seq(Datagrams) /\ Len(mbox') <= MboxSize
               /\ Head(mbox) \in Datagrams
    <2>1. upc = "recv" /\ mbox # <<>> /\ mbox' = Tail(mbox)
      BY <1>4 DEF Recvfrom
    <2>2. /\ mbox' \in Seq(Datagrams) /\ Len(mbox') = Len(mbox) - 1 /\ Len(mbox) \in Nat
          /\ Head(mbox) \in Datagrams
      BY <1>0, <2>1, HeadTailProperties, LenProperties
    <2> QED
      BY <1>0, <2>1, <2>2, BoundsAssumption
  <1>5. CASE Invitation
    <2>1. /\ Recvfrom /\ announced' = Parsed(Head(mbox))
          /\ \/ UNCHANGED <<upc, otaState>>
             \/ g_auth /\ otaState' = "OTA_WAITAUTH" /\ UNCHANGED upc
             \/ ~g_auth /\ upc' = "begin" /\ UNCHANGED otaState
          /\ UNCHANGED <<image, boot, handles, g_auth, rcvd, peer, held>>
      BY <1>5 DEF Invitation, system, shared, session
    <2>2. /\ upc = "recv" /\ mbox' \in Seq(Datagrams) /\ Len(mbox') <= MboxSize
          /\ Head(mbox) \in Datagrams
      BY <1>4, <2>1
    <2>3. announced'.size \in Nat
      BY <1>0, <2>1, <2>2, ParsedSize
    <2>4. upc' = upc \/ (upc' = "begin" /\ ~g_auth)
      BY <2>1
    <2>5. StreamInv' /\ Len(rcvd') <= NumChunks
      BY <2>1, <2>2, <2>4, KeepsStream
    <2>6. TypeOK'
      BY <2>1, <2>2, <2>3, <2>5 DEF IInv, TypeOK
    <2>7. HandleInv'
      BY <2>1, <2>2, <2>4 DEF IInv, HandleInv, AuthNeverUpdates
    <2> QED
      BY <2>5, <2>6, <2>7 DEF IInv
  <1>6. CASE IgnoredDatagram
    <2>1. /\ Recvfrom /\ otaState' = "OTA_IDLE"
          /\ UNCHANGED <<image, boot, handles, g_auth, upc, announced, rcvd, peer, held>>
      BY <1>6 DEF IgnoredDatagram, system, shared, session
    <2>2. mbox' \in Seq(Datagrams) /\ Len(mbox') <= MboxSize
      BY <1>4, <2>1
    <2>3. StreamInv' /\ Len(rcvd') <= NumChunks
      BY <2>1, KeepsStream
    <2>4. TypeOK' /\ HandleInv'
      BY <2>1, <2>2, <2>3 DEF IInv, TypeOK, HandleInv, AuthNeverUpdates
    <2> QED
      BY <2>3, <2>4 DEF IInv
  <1> QED
    BY <1>1, <1>2, <1>3, <1>5, <1>6

\* The steps of a session up to the stream and after it.
LEMMA SessionIInv ==
    ASSUME IInv, \/ OtaBeginFails \/ OtaBegin \/ ConnectFails \/ Connect
                 \/ RecvZero \/ OtaEnd \/ Md5Matches \/ Md5Differs
    PROVE  IInv'
  <1>0. handles \in Nat /\ handles <= MaxHandles
    BY BoundsAssumption DEF IInv, TypeOK
  <1>1. CASE OtaBeginFails \/ ConnectFails \/ Md5Differs
    <2>1. Return /\ UNCHANGED <<image, boot, g_auth, handles>>
          /\ upc \in {"begin", "connect", "check"}
      BY <1>1 DEF OtaBeginFails, ConnectFails, Md5Differs, system, shared
    <2>2. ~g_auth
      BY <2>1 DEF IInv, HandleInv, AuthNeverUpdates
    <2> QED
      BY <2>1, <2>2, ReturnIInv
  <1>2. CASE OtaBegin
    <2>1. /\ upc = "begin" /\ upc' = "connect" /\ handles < MaxHandles
          /\ handles' = handles + 1 /\ held' = TRUE
          /\ UNCHANGED <<image, boot, g_auth, mbox, otaState, announced, rcvd, peer>>
      BY <1>2 DEF OtaBegin
    <2>2. handles' \in 0..MaxHandles /\ handles' > 0
      BY <1>0, <2>1, BoundsAssumption
    <2>3. StreamInv' /\ Len(rcvd') <= NumChunks
      BY <2>1, KeepsStream
    <2>4. TypeOK' /\ HandleInv'
      BY <2>1, <2>2, <2>3 DEF IInv, TypeOK, HandleInv, AuthNeverUpdates
    <2> QED
      BY <2>3, <2>4 DEF IInv
  <1>3. CASE Connect \/ RecvZero
    <2>1. /\ \/ upc = "connect" /\ upc' = "stream" /\ peer' = "open"
             \/ upc = "stream" /\ upc' \in {"stream", "end"} /\ peer' = peer
          /\ UNCHANGED <<image, boot, handles, g_auth, mbox, otaState, announced, rcvd, held>>
      BY <1>3 DEF Connect, RecvZero, system, shared, session
    <2>2. StreamInv' /\ Len(rcvd') <= NumChunks
      BY <2>1, KeepsStream
    <2>3. TypeOK' /\ HandleInv'
      BY <2>1, <2>2 DEF IInv, TypeOK, HandleInv, AuthNeverUpdates
    <2> QED
      BY <2>2, <2>3 DEF IInv
  <1>4. CASE OtaEnd
    <2>1. /\ upc = "end" /\ upc' = "check" /\ held' = FALSE
          /\ handles' = IF held THEN handles - 1 ELSE handles
          /\ UNCHANGED <<image, boot, g_auth, mbox, otaState, announced, rcvd, peer>>
      BY <1>4 DEF OtaEnd, HandlesAfterEnd
    <2>2. held => handles > 0
      BY DEF IInv, HandleInv
    <2>3. handles' \in 0..MaxHandles
      BY <1>0, <2>1, <2>2, BoundsAssumption
    <2>4. StreamInv' /\ Len(rcvd') <= NumChunks
      BY <2>1, KeepsStream
    <2>5. TypeOK' /\ HandleInv'
      BY <2>1, <2>3, <2>4 DEF IInv, TypeOK, HandleInv, AuthNeverUpdates
    <2> QED
      BY <2>4, <2>5 DEF IInv
  <1>5. CASE Md5Matches
    <2>1. /\ upc = "check" /\ upc' = "restart" /\ boot' \in {boot, update_partition}
          /\ UNCHANGED <<image, handles, g_auth, mbox, otaState, announced, rcvd, peer, held>>
      BY <1>5 DEF Md5Matches, session
    <2>2. boot' \in AppParts \cup {NoPart}
      BY <2>1, SecondApp DEF IInv, TypeOK, AppParts
    <2>3. StreamInv' /\ Len(rcvd') <= NumChunks
      BY <2>1, KeepsStream
    <2>4. TypeOK' /\ HandleInv'
      BY <2>1, <2>2, <2>3 DEF IInv, TypeOK, HandleInv, AuthNeverUpdates
    <2> QED
      BY <2>3, <2>4 DEF IInv
  <1> QED
    BY <1>1, <1>2, <1>3, <1>4, <1>5

\* A write that fails leaves an image, and of it what had been received before.
LEMMA TornImage ==
    ASSUME rcvd \in Seq(Images), Len(rcvd) \in Nat, Len(rcvd) <= NumChunks,
           image["secondApp"] \in PartImage,
           NEW seg \in Segments, NEW e \in 1..Len(seg), NEW w \in 0..e
    PROVE  /\ Torn(seg, e, w) \in PartImage
           /\ \A i \in 1..Len(rcvd) : Torn(seg, e, w)[i] = image["secondApp"][i]
  <1>1. seg \in Seq(Images) /\ Len(seg) \in Nat /\ NumChunks \in Nat
    BY SegmentsAssumption, LenProperties, NumChunksAssumption
  <1>2. ASSUME NEW i \in 1..NumChunks
        PROVE  /\ Torn(seg, e, w)[i] \in Chunk
               /\ i <= Len(rcvd) => Torn(seg, e, w)[i] = image["secondApp"][i]
    <2>1. Torn(seg, e, w)[i] =
              CASE i \in Len(rcvd) + 1 .. Len(rcvd) + w -> seg[i - Len(rcvd)]
                [] i \in Len(rcvd) + w + 1 .. Len(rcvd) + e -> Blank
                [] OTHER -> image["secondApp"][i]
      BY SecondApp DEF Torn
    <2>2. image["secondApp"][i] \in Chunk
      BY DEF PartImage
    <2>3. CASE i \in Len(rcvd) + 1 .. Len(rcvd) + w
      <3>1. i - Len(rcvd) \in 1..Len(seg)
        BY <1>1, <2>3
      <3>2. seg[i - Len(rcvd)] \in Images
        BY <1>1, <3>1, ElementOfSeq
      <3>3. Torn(seg, e, w)[i] = seg[i - Len(rcvd)]
        BY <1>1, <2>1, <2>3
      <3> QED
        BY <2>3, <3>2, <3>3 DEF Chunk
    <2>4. CASE i \in Len(rcvd) + w + 1 .. Len(rcvd) + e
      <3>1. Torn(seg, e, w)[i] = Blank
        BY <1>1, <2>1, <2>4
      <3> QED
        BY <2>4, <3>1 DEF Chunk
    <2>5. CASE /\ i \notin Len(rcvd) + 1 .. Len(rcvd) + w
               /\ i \notin Len(rcvd) + w + 1 .. Len(rcvd) + e
      BY <2>1, <2>2, <2>5
    <2> QED
      BY <2>3, <2>4, <2>5
  <1>3. Torn(seg, e, w) = [i \in 1..NumChunks |-> Torn(seg, e, w)[i]]
    BY DEF Torn
  <1>4. \A i \in 1..Len(rcvd) : i \in 1..NumChunks
    BY <1>1
  <1> QED
    BY <1>2, <1>3, <1>4 DEF PartImage

\* The steps of the peer.
LEMMA PeerIInv == ASSUME IInv, PeerStep PROVE IInv'
  <1>0. /\ rcvd \in Seq(Images) /\ Len(rcvd) \in Nat /\ Len(rcvd) <= NumChunks
        /\ NumChunks \in Nat /\ image \in [AppParts -> PartImage]
        /\ \A i \in 1..Len(rcvd) : image["secondApp"][i] = rcvd[i]
        /\ "secondApp" \in AppParts
    BY NumChunksAssumption, LenProperties DEF IInv, StreamInv, TypeOK, AppParts
  <1>1. CASE RecvFails \/ PeerCloses
    <2>1. /\ \/ upc = "stream" /\ upc' = "end" /\ peer' = peer
             \/ upc' = upc /\ peer' \in {"halfClosed", "closed"}
          /\ UNCHANGED <<image, boot, handles, g_auth, mbox, otaState, announced, rcvd, held>>
      BY <1>1 DEF RecvFails, PeerCloses, system, shared, session
    <2>2. StreamInv' /\ Len(rcvd') <= NumChunks
      BY <2>1, KeepsStream
    <2>3. TypeOK' /\ HandleInv'
      BY <2>1, <2>2 DEF IInv, TypeOK, HandleInv, AuthNeverUpdates
    <2> QED
      BY <2>2, <2>3 DEF IInv
  <1>2. ASSUME NEW seg \in Segments, RecvSegment(seg) PROVE IInv'
    <2>1. /\ upc = "stream" /\ Len(rcvd \o seg) <= NumChunks
          /\ image' = [image EXCEPT !["secondApp"] = Written(seg)]
          /\ rcvd' = rcvd \o seg /\ upc' \in {"stream", "end"}
          /\ UNCHANGED <<boot, handles, g_auth, mbox, otaState, announced, peer, held>>
      BY <1>2, SecondApp DEF RecvSegment
    <2>2. /\ rcvd' \in Seq(Images) /\ Len(rcvd') \in Nat /\ Len(rcvd) <= Len(rcvd')
          /\ \A i \in 1..Len(rcvd) : rcvd'[i] = rcvd[i]
          /\ \A i \in 1..Len(rcvd') : rcvd'[i] \in Images
      BY <1>0, <2>1, SegmentsAssumption, Stream
    <2>3. \A i \in 1..NumChunks :
              Written(seg)[i] = IF i \in Len(rcvd) + 1 .. Len(rcvd') THEN rcvd'[i]
                                ELSE image["secondApp"][i]
      BY <2>1, SecondApp DEF Written
    <2>4. Written(seg) \in PartImage
      <3>1. image["secondApp"] \in PartImage
        BY <1>0
      <3>2. \A i \in Len(rcvd) + 1 .. Len(rcvd') : rcvd'[i] \in Images
        BY <1>0, <2>2
      <3>3. \A i \in 1..NumChunks : Written(seg)[i] \in Chunk
        BY <2>3, <3>1, <3>2 DEF PartImage, Chunk
      <3>4. Written(seg) = [i \in 1..NumChunks |-> Written(seg)[i]]
        BY DEF Written
      <3> QED
        BY <3>3, <3>4 DEF PartImage
    <2>5. image' \in [AppParts -> PartImage] /\ image'["secondApp"] = Written(seg)
      BY <1>0, <2>1, <2>4
    <2>6. \A i \in 1..Len(rcvd') : image'["secondApp"][i] = rcvd'[i]
      <3> TAKE i \in 1..Len(rcvd')
      <3>1. i \in 1..NumChunks
        BY <1>0, <2>1, <2>2
      <3>2. CASE i \in Len(rcvd) + 1 .. Len(rcvd')
        BY <2>3, <2>5, <3>1, <3>2
      <3>3. CASE i \notin Len(rcvd) + 1 .. Len(rcvd')
        <4>1. i \in 1..Len(rcvd)
          BY <1>0, <2>2, <3>3
        <4> QED
          BY <1>0, <2>2, <2>3, <2>5, <3>1, <3>3, <4>1
      <3> QED
        BY <3>2, <3>3
    <2>7. StreamInv'
      BY <2>1, <2>2, <2>6 DEF StreamInv
    <2>8. TypeOK' /\ HandleInv'
      BY <2>1, <2>2, <2>5 DEF IInv, TypeOK, HandleInv, AuthNeverUpdates
    <2> QED
      BY <2>7, <2>8 DEF IInv
  <1>3. ASSUME NEW seg \in Segments, WriteFails(seg) PROVE IInv'
    <2>1. /\ upc = "stream" /\ upc' = "end" /\ handles' = handles - 1 /\ held' = FALSE
          /\ UNCHANGED <<boot, g_auth, mbox, otaState, announced, rcvd, peer>>
          /\ \/ UNCHANGED image
             \/ \E e \in 1..Len(seg) : \E w \in 0..e :
                    image' = [image EXCEPT !["secondApp"] = Torn(seg, e, w)]
      BY <1>3, SecondApp DEF WriteFails
    <2>2. held /\ handles > 0 /\ ~g_auth
      BY <2>1 DEF IInv, HandleInv, AuthNeverUpdates
    <2>3. handles' \in 0..MaxHandles
      <3>1. handles \in 0..MaxHandles
        BY DEF IInv, TypeOK
      <3> QED
        BY <2>1, <2>2, <3>1, BoundsAssumption
    <2>4. /\ image' \in [AppParts -> PartImage]
          /\ \A i \in 1..Len(rcvd) : image'["secondApp"][i] = rcvd[i]
      <3>1. CASE UNCHANGED image
        BY <1>0, <3>1
      <3>2. ASSUME NEW e \in 1..Len(seg), NEW w \in 0..e,
                   image' = [image EXCEPT !["secondApp"] = Torn(seg, e, w)]
            PROVE  /\ image' \in [AppParts -> PartImage]
                   /\ \A i \in 1..Len(rcvd) : image'["secondApp"][i] = rcvd[i]
        <4>1. /\ Torn(seg, e, w) \in PartImage
              /\ \A i \in 1..Len(rcvd) : Torn(seg, e, w)[i] = image["secondApp"][i]
          BY <1>0, TornImage
        <4>2. /\ image' \in [AppParts -> PartImage]
              /\ image'["secondApp"] = Torn(seg, e, w)
          BY <1>0, <3>2, <4>1
        <4> QED
          BY <1>0, <4>1, <4>2
      <3> QED
        BY <2>1, <3>1, <3>2
    <2>5. StreamInv'
      BY <1>0, <2>1, <2>4 DEF StreamInv
    <2>6. TypeOK' /\ HandleInv'
      BY <1>0, <2>1, <2>2, <2>3, <2>4 DEF IInv, TypeOK, HandleInv, AuthNeverUpdates
    <2> QED
      BY <2>5, <2>6 DEF IInv
  <1> QED
    BY <1>1, <1>2, <1>3 DEF PeerStep

LEMMA NextIInv == IInv /\ [Next]_vars => IInv'
  <1> SUFFICES ASSUME IInv, [Next]_vars PROVE IInv'
    OBVIOUS
  <1>1. CASE PowerLoss \/ Restart
    BY <1>1, ResetIInv DEF PowerLoss, Restart
  <1>2. CASE ota_init \/ SocketError \/ Invitation \/ IgnoredDatagram
             \/ \E d \in Datagrams : DatagramArrives(d)
    BY <1>2, ListenIInv
  <1>3. CASE OtaBeginFails \/ OtaBegin \/ ConnectFails \/ Connect
             \/ RecvZero \/ OtaEnd \/ Md5Matches \/ Md5Differs
    BY <1>3, SessionIInv
  <1>4. CASE PeerStep
    BY <1>4, PeerIInv
  <1>5. CASE UNCHANGED vars
    BY <1>5 DEF vars, IInv, TypeOK, HandleInv, StreamInv, AuthNeverUpdates
  <1> QED
    BY <1>1, <1>2, <1>3, <1>4, <1>5 DEF Next, OtaStep, TaskStep

LEMMA IInvAlways == Spec => []IInv
  BY InitIInv, NextIInv, PTL DEF Spec

\* The variables of the socket service keep their types; a session that fails
\* in the middle never frees a handle twice, and no number of them goes below
\* none or above what the heap has room for.
THEOREM SocketTypes == Spec => []TypeOK
  <1>1. IInv => TypeOK
    BY DEF IInv
  <1> QED
    BY <1>1, IInvAlways, PTL

\* With auth no update starts, whatever is sent and in whatever order.
THEOREM AuthStopsUpdates == Spec => []AuthNeverUpdates
  <1>1. IInv => AuthNeverUpdates
    BY DEF IInv, HandleInv
  <1> QED
    BY <1>1, IInvAlways, PTL

-----------------------------------------------------------------------------
\* The selection changes in one step only, and there the MD5 is that of the
\* stream, which is what the partition holds.
LEMMA NextBoots ==
    ASSUME IInv, Next, boot' # boot, boot' # NoPart
    PROVE  /\ boot' = "secondApp" /\ Verifies(image[boot'])
           /\ announced.md5 # Garbage
           /\ \A i \in 1..Len(announced.md5) : image[boot'][i] = announced.md5[i]
  <1>1. Md5Matches
    BY DEF Next, OtaStep, TaskStep, PeerStep, PowerLoss, Restart, Reset, ota_init, SocketError,
           Invitation, IgnoredDatagram, DatagramArrives, OtaBeginFails, OtaBegin, ConnectFails,
           Connect, RecvZero, OtaEnd, Md5Differs, RecvSegment, WriteFails, RecvFails,
           PeerCloses, Return, system, shared, session
  <1>2. boot' = "secondApp" /\ Verifies(image["secondApp"]) /\ rcvd = announced.md5
    BY <1>1, SecondApp DEF Md5Matches, Md5Ok
  <1>3. rcvd \in Seq(Images) /\ \A i \in 1..Len(rcvd) : image["secondApp"][i] = rcvd[i]
    BY DEF IInv, StreamInv
  <1> QED
    BY <1>2, <1>3, GarbageAssumption

\* Only a firmware announced, and received to its last chunk in this session, is
\* ever selected to boot.
THEOREM OnlyAnnouncedBoots == Spec => BootsOnlyAnnounced
  <1> DEFINE Selected == boot' # boot /\ boot' # NoPart
             Announced == /\ boot' = "secondApp" /\ Verifies(image[boot'])
                          /\ announced.md5 # Garbage
                          /\ \A i \in 1..Len(announced.md5) :
                                image[boot'][i] = announced.md5[i]
  <1>1. IInv /\ [Next]_vars => [Selected => Announced]_vars
    <2> SUFFICES ASSUME IInv, Next, Selected PROVE Announced
      BY DEF vars
    <2> QED
      BY NextBoots
  <1> QED
    BY <1>1, IInvAlways, PTL DEF Spec, BootsOnlyAnnounced

-----------------------------------------------------------------------------
(* How long a session takes.                                                  *)

InSession == {"begin", "connect", "stream", "end", "check"}

\* A segment that was received is one, however short.
LEMMA StreamGrows ==
    ASSUME NEW r \in Seq(Images), NEW seg \in Segments
    PROVE  Len(r \o seg) \in Nat /\ Len(r) \in Nat /\ Len(r) < Len(r \o seg)
  <1>1. seg \in Seq(Images) /\ seg # <<>>
    BY SegmentsAssumption
  <1>2. Len(seg) \in Nat /\ Len(seg) # 0
    BY <1>1, EmptySeq, LenProperties
  <1>3. Len(r \o seg) = Len(r) + Len(seg) /\ Len(r) \in Nat
    BY <1>1, ConcatProperties, LenProperties
  <1> QED
    BY <1>2, <1>3

PeerWork(p) == [open |-> 5, halfClosed |-> 4, closed |-> 3][p]

LEMMA PeerWorks == /\ PeerWork("open") = 5 /\ PeerWork("halfClosed") = 4
                   /\ PeerWork("closed") = 3
  BY DEF PeerWork

\* The work of a stream is more than that of what follows it.
LEMMA StreamWork ==
    ASSUME IInv, upc = "stream"
    PROVE  /\ Len(rcvd) \in Nat /\ Len(rcvd) <= NumChunks /\ NumChunks \in Nat
           /\ peer \in {"open", "halfClosed", "closed"}
           /\ SessionWork = NumChunks - Len(rcvd) + PeerWork(peer)
           /\ SessionWork \in Nat /\ SessionWork > 2
  <1>1. Len(rcvd) \in Nat /\ Len(rcvd) <= NumChunks /\ NumChunks \in Nat
    BY NumChunksAssumption, LenProperties DEF IInv, StreamInv
  <1>2. SessionWork = NumChunks - Len(rcvd) + PeerWork(peer)
    BY DEF SessionWork, PeerWork
  <1>3. peer \in {"open", "halfClosed", "closed"}
    BY DEF IInv, HandleInv, TypeOK
  <1> QED
    BY <1>1, <1>2, <1>3, PeerWorks

LEMMA NextWork ==
    ASSUME IInv, IInv', Next, upc \in InSession, upc' # "off",
           ~UNCHANGED <<system, upc, otaState, announced, session>>
    PROVE  SessionWork' \in 0 .. SessionWork - 1
  <1>0. NumChunks \in Nat /\ NumChunks > 0
    BY NumChunksAssumption
  <1>1. CASE OtaBeginFails \/ ConnectFails \/ Md5Differs
    <2>1. upc \in {"begin", "connect", "check"} /\ upc' = "recv"
      BY <1>1 DEF OtaBeginFails, ConnectFails, Md5Differs, Return
    <2>2. SessionWork' = 0 /\ SessionWork \in {NumChunks + 7, NumChunks + 6, 1}
      BY <2>1 DEF SessionWork
    <2> QED
      BY <1>0, <2>2
  <1>2. CASE OtaBegin
    <2>1. upc = "begin" /\ upc' = "connect"
      BY <1>2 DEF OtaBegin
    <2>2. SessionWork' = NumChunks + 6 /\ SessionWork = NumChunks + 7
      BY <2>1 DEF SessionWork
    <2> QED
      BY <1>0, <2>2
  <1>3. CASE Connect
    <2>1. upc = "connect" /\ upc' = "stream" /\ peer' = "open" /\ rcvd' = rcvd
      BY <1>3 DEF Connect
    <2>2. rcvd = <<>>
      BY <2>1 DEF IInv, StreamInv
    <2>3. SessionWork' = NumChunks - Len(rcvd) + 5 /\ SessionWork = NumChunks + 6
      BY <2>1, PeerWorks DEF SessionWork, PeerWork
    <2>4. Len(rcvd) = 0
      BY <2>2
    <2> QED
      BY <1>0, <2>3, <2>4
  <1>4. CASE RecvZero \/ RecvFails \/ \E seg \in Segments : WriteFails(seg)
    <2>1. upc = "stream" /\ upc' = "end"
      BY <1>4 DEF RecvZero, RecvFails, WriteFails, system, session
    <2>2. SessionWork' = 2
      BY <2>1 DEF SessionWork
    <2> QED
      BY <2>1, <2>2, StreamWork
  <1>5. CASE PeerCloses
    <2>1. /\ upc = "stream" /\ upc' = "stream" /\ rcvd' = rcvd
          /\ \/ peer = "open" /\ peer' \in {"halfClosed", "closed"}
             \/ peer = "halfClosed" /\ peer' = "closed"
      BY <1>5 DEF PeerCloses
    <2>2. SessionWork' = NumChunks - Len(rcvd) + PeerWork(peer')
      BY <2>1 DEF SessionWork, PeerWork
    <2>3. PeerWork(peer') \in 3..(PeerWork(peer) - 1)
      BY <2>1, PeerWorks
    <2> QED
      BY <2>1, <2>2, <2>3, StreamWork, PeerWorks
  <1>6. CASE \E seg \in Segments : RecvSegment(seg)
    <2>1. PICK seg \in Segments : RecvSegment(seg)
      BY <1>6
    <2>2. /\ upc = "stream" /\ upc' \in {"stream", "end"} /\ peer = "open" /\ peer' = peer
          /\ rcvd' = rcvd \o seg /\ Len(rcvd \o seg) <= NumChunks
      BY <2>1 DEF RecvSegment
    <2>3. Len(rcvd') \in Nat /\ Len(rcvd) < Len(rcvd') /\ Len(rcvd') <= NumChunks
      BY <2>2, StreamGrows DEF IInv, StreamInv
    <2>4. CASE upc' = "stream"
      <3>1. SessionWork' = NumChunks - Len(rcvd') + 5
        BY <2>2, <2>4, PeerWorks DEF SessionWork, PeerWork
      <3> QED
        BY <2>2, <2>3, <3>1, StreamWork, PeerWorks
    <2>5. CASE upc' = "end"
      <3>1. SessionWork' = 2
        BY <2>5 DEF SessionWork
      <3> QED
        BY <2>2, <3>1, StreamWork
    <2> QED
      BY <2>2, <2>4, <2>5
  <1>7. CASE OtaEnd \/ Md5Matches
    <2>1. \/ upc = "end" /\ upc' = "check"
          \/ upc = "check" /\ upc' = "restart"
      BY <1>7 DEF OtaEnd, Md5Matches
    <2> QED
      BY <2>1 DEF SessionWork
  <1>8. CASE PowerLoss \/ Restart \/ ota_init \/ SocketError \/ Invitation \/ IgnoredDatagram
             \/ \E d \in Datagrams : DatagramArrives(d)
    BY <1>8 DEF InSession, PowerLoss, Restart, Reset, ota_init, SocketError, Invitation,
                IgnoredDatagram, Recvfrom, DatagramArrives
  <1> QED
    BY <1>1, <1>2, <1>3, <1>4, <1>5, <1>6, <1>7, <1>8 DEF Next, OtaStep, TaskStep, PeerStep

\* Whatever changes a session brings its end nearer: no retry, no peer and no
\* datagram makes it do more than the stream it was promised.  That a session
\* ends is not said: its peer may keep it in the stream unchanged, with empty
\* receives whose "0" it accepts or with silence.
THEOREM SessionsProgress == Spec => SessionProgresses
  <1> DEFINE Under == upc \in {"begin", "connect", "stream", "end", "check"} /\ upc' # "off"
             Nearer == SessionWork' \in 0 .. SessionWork - 1
  <1>1. IInv /\ IInv' /\ [Next]_vars
            => [Under => Nearer]_<<system, upc, otaState, announced, session>>
    <2> SUFFICES ASSUME IInv, IInv', [Next]_vars, Under,
                        ~UNCHANGED <<system, upc, otaState, announced, session>>
                 PROVE  Nearer
      OBVIOUS
    <2>1. Next
      BY DEF vars, system, shared, session
    <2> QED
      BY <2>1, NextWork DEF InSession
  <1> QED
    BY <1>1, IInvAlways, PTL DEF Spec, SessionProgresses
=============================================================================
