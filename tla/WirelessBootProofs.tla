-------------------------- MODULE WirelessBootProofs --------------------------
(* Theorems about the device: both tasks, sharing flash, boot selection and    *)
(* heap, for any requests, streams and bounds.                                *)
EXTENDS WirelessBoot, SequenceTheorems, TLAPS

-----------------------------------------------------------------------------
(* Update handles.                                                            *)

\* The socket service runs only while the server does, and each task that works
\* on an update has a handle of its own.
HandleInv ==
    /\ handles \in Nat
    /\ running = "off" => pc = "off"
    /\ pc \in {"off", "start"} => upc = "off"
    /\ held => upc \in {"connect", "stream", "end"}
    /\ upc \in {"connect", "stream"} => held
    /\ held => handles >= 1
    /\ pc = "recv" => handles >= 1
    /\ HandlesApart

\* Both tasks are gone.
LEMMA ResetHandles ==
    ASSUME Server!RamLost, upc' = "off", held' = FALSE
    PROVE  HandleInv'
  BY DEF Server!RamLost, HandleInv, HandlesApart

\* The server's handler goes on, or returns, with a handle more, the same, or one
\* less than it had.
LEMMA ServerHandles ==
    ASSUME HandleInv, Server!HandlerStep \/ Server!Request, UNCHANGED socketVars
    PROVE  HandleInv'
  <1> USE HeapAssumption DEF HandleInv, HandlesApart
  <1>0. UNCHANGED <<upc, held>>
    BY DEF socketVars
  <1>1. ASSUME UNCHANGED <<handles, running>>, pc \notin {"off", "start"},
               pc' \notin {"off", "start", "recv"} \/ pc' = pc
        PROVE  HandleInv'
    BY <1>0, <1>1
  <1>2. CASE Server!Request
    BY <1>1, <1>2
    DEF Server!Request, Server!BadRequest, Server!Answer, Server!upload_post_handler,
        Server!run_post_handler, Server!erase_post_handler
  <1>3. CASE Server!KeyErase \/ Server!KeyWrite \/ Server!KeyDataFails \/ Server!OtaBeginFails
             \/ Server!RecvTimeout \/ Server!SetBoot \/ Server!EraseFails \/ Server!EraseDone
    BY <1>1, <1>3
    DEF Server!KeyErase, Server!KeyWrite, Server!KeyDataFails, Server!OtaBeginFails,
        Server!RecvTimeout, Server!SetBoot, Server!EraseFails, Server!EraseDone,
        Server!AfterSave, Server!Finish, Server!Receiving
  <1>4. CASE Server!RecvStall \/ Server!RecvChunk \/ Server!EraseChunk
    BY <1>1, <1>4 DEF Server!RecvStall, Server!RecvChunk, Server!EraseChunk, Server!Receiving
  <1>5. CASE Server!TooLarge \/ Server!OtaBegin
    <2>1. /\ pc = "begin" /\ pc' \in {"idle", "recv"} /\ handles' = handles + 1
          /\ running' = running
      BY <1>5 DEF Server!TooLarge, Server!OtaBegin, Server!Finish
    <2> QED
      BY <1>0, <2>1
  <1>6. CASE Server!RecvError \/ Server!OtaWriteFails \/ Server!OtaEnd
    <2>1. /\ pc = "recv" /\ pc' \in {"idle", "setBoot"} /\ handles' = handles - 1
          /\ running' = running
      BY <1>6 DEF Server!RecvError, Server!OtaWriteFails, Server!OtaEnd, Server!Receiving,
                  Server!Finish
    <2> QED
      BY <1>0, <2>1
  <1> QED
    BY <1>2, <1>3, <1>4, <1>5, <1>6 DEF Server!HandlerStep

LEMMA SocketHandles ==
    ASSUME HandleInv, Sockets!OtaStep, UNCHANGED serverVars
    PROVE  HandleInv'
  <1> USE HeapAssumption DEF HandleInv, HandlesApart
  <1>0. UNCHANGED <<pc, running>>
    BY DEF serverVars
  <1>1. ASSUME UNCHANGED <<handles, held>>, upc # "off",
               upc' = upc \/ (~held /\ upc' \notin {"connect", "stream"})
                 \/ (held /\ upc' \in {"connect", "stream", "end"})
        PROVE  HandleInv'
    BY <1>0, <1>1
  <1>2. CASE \/ \E d \in Datagrams : Sockets!DatagramArrives(d)
             \/ Sockets!SocketError \/ Sockets!Invitation \/ Sockets!IgnoredDatagram
    BY <1>1, <1>2
    DEF Sockets!DatagramArrives, Sockets!SocketError, Sockets!Invitation,
        Sockets!IgnoredDatagram, Sockets!Recvfrom, Sockets!system, Sockets!shared,
        Sockets!session
  <1>3. CASE Sockets!OtaBeginFails \/ Sockets!ConnectFails \/ Sockets!Md5Differs
    BY <1>0, <1>3
    DEF Sockets!OtaBeginFails, Sockets!ConnectFails, Sockets!Md5Differs, Sockets!Return,
        Sockets!system, Sockets!shared
  <1>4. CASE Sockets!OtaBegin
    BY <1>0, <1>4 DEF Sockets!OtaBegin
  <1>5. CASE Sockets!Connect \/ Sockets!RecvZero \/ Sockets!RecvFails \/ Sockets!PeerCloses
             \/ \E seg \in Segments : Sockets!RecvSegment(seg)
    BY <1>1, <1>5
    DEF Sockets!Connect, Sockets!RecvZero, Sockets!RecvFails, Sockets!PeerCloses,
        Sockets!RecvSegment, Sockets!system, Sockets!shared, Sockets!session
  <1>6. CASE \E seg \in Segments : Sockets!WriteFails(seg)
    BY <1>0, <1>6 DEF Sockets!WriteFails
  <1>7. CASE Sockets!OtaEnd
    BY <1>0, <1>7 DEF Sockets!OtaEnd, Sockets!HandlesAfterEnd
  <1>8. CASE Sockets!Md5Matches
    BY <1>1, <1>8 DEF Sockets!Md5Matches, Sockets!session
  <1> QED
    BY <1>2, <1>3, <1>4, <1>5, <1>6, <1>7, <1>8
    DEF Sockets!OtaStep, Sockets!TaskStep, Sockets!PeerStep

LEMMA NextHandles == HandleInv /\ [Next]_vars => HandleInv'
  <1> SUFFICES ASSUME HandleInv, [Next]_vars PROVE HandleInv'
    OBVIOUS
  <1>1. CASE PowerLoss \/ Restart
    BY <1>1, ResetHandles
    DEF PowerLoss, Restart, Server!PowerLoss, Server!restart_execute_handle, Server!Reset,
        Sockets!Reset, Sockets!Restart
  <1>2. CASE Bootloader
    <2>1. /\ running = "off" /\ UNCHANGED <<handles, upc, held>>
          /\ pc' = IF running' = "factory" THEN "start" ELSE "off"
      BY <1>2 DEF Bootloader, Server!Bootloader, socketVars
    <2> QED
      BY <2>1 DEF HandleInv, HandlesApart
  <1>3. CASE Server!start_ota_file_server /\ UNCHANGED socketVars
    <2>1. pc = "start" /\ UNCHANGED <<upc, held>>
      BY <1>3 DEF Server!start_ota_file_server, socketVars
    <2>2. upc = "off" /\ ~held
      BY <2>1 DEF HandleInv
    <2>3. CASE Server!RamLost
      BY <2>1, <2>2, <2>3 DEF Server!RamLost, HandleInv, HandlesApart
    <2>4. CASE pc' = "idle" /\ UNCHANGED <<handles, running>>
      BY <2>1, <2>2, <2>4 DEF HandleInv, HandlesApart
    <2> QED
      BY <1>3, <2>3, <2>4 DEF Server!start_ota_file_server
  <1>4. CASE pc \notin {"off", "start"} /\ Sockets!ota_init /\ UNCHANGED serverVars
    BY <1>4 DEF Sockets!ota_init, Sockets!shared, Sockets!session, serverVars, HandleInv,
                HandlesApart
  <1>5. CASE httpd_task
    BY <1>5, ServerHandles DEF httpd_task
  <1>6. CASE udp_server_task
    BY <1>6, SocketHandles DEF udp_server_task
  <1>7. CASE UNCHANGED vars
    BY <1>7 DEF vars, shared, serverVars, socketVars, HandleInv, HandlesApart
  <1> QED
    BY <1>1, <1>2, <1>3, <1>4, <1>5, <1>6, <1>7 DEF Next, app_main

\* Neither task ends or aborts the update handle of the other, however their
\* uploads, sessions and failures interleave.
THEOREM HandlesStayApart == Spec => []HandlesApart
  <1>1. Init => HandleInv
    BY DEF Init, Server!Init, Sockets!Init, HandleInv, HandlesApart
  <1>2. HandleInv => HandlesApart
    BY DEF HandleInv
  <1> QED
    BY <1>1, <1>2, NextHandles, PTL DEF Spec

-----------------------------------------------------------------------------
(* The records of app and flashApp.                                           *)

Others == {"app", "flashApp"}

\* Flash and RAM, and what a handler works on, as far as it concerns the two.
Types ==
    /\ image = [p \in AppParts |-> image[p]]
    /\ \A p \in Others : image[p] \in PartImage
    /\ sector \in [AppParts -> Server!Record] /\ info \in [AppParts -> Server!Record]
    /\ pc \in Server!Busy => req.part \in AppParts /\ req.fw \in Chunk /\ req.len \in Nat
    /\ pc = "recv" => got \in Nat /\ req.len <= NumChunks

\* What a handler has established at pc.  Of the image of secondApp nothing can
\* be known: the other task may write it at any time.
Knows ==
    /\ pc \in {"begin", "recv", "setBoot"} =>
            req.op = "upload" /\ ~Server!Valid(info[req.part]) /\ ~Server!Valid(sector[req.part])
    /\ pc = "recv" /\ req.part \in Others => \A i \in 1..got : image[req.part][i] = req.fw
    /\ pc = "setBoot" /\ req.part \in Others => image[req.part] = Whole(req.fw)
    /\ pc = "eraseImage" => req.op = "erase"
    /\ pc \in {"keyErase", "keyWrite"} =>
            req.op = "upload" \/ ~Server!Valid(info[req.part])

OthersInv == Types /\ OthersNeverMisdescribed /\ Knows

LEMMA OthersAreApps == Others \subseteq AppParts /\ AppParts = Others \cup {"secondApp"}
  BY DEF Others, AppParts

\* An image that verifies and starts with a chunk of f is the whole of f.
LEMMA VerifiedIsWhole ==
    ASSUME NEW f, NEW img, Server!Verifies(img), img[1] = f
    PROVE  img = Whole(f)
  <1>1. PICK g \in Bootable : img = Whole(g)
    BY DEF Server!Verifies, Server!Whole, Whole
  <1>2. img[1] = g
    BY <1>1, NumChunksAssumption DEF Whole
  <1> QED
    BY <1>1, <1>2

\* A firmware's remains stay its remains when a chunk is erased.
LEMMA ErasedRemains ==
    ASSUME NEW f, NEW img \in PartImage, NEW k
    PROVE  /\ [img EXCEPT ![k] = Blank] \in PartImage
           /\ RemainsOf(f, img) => RemainsOf(f, [img EXCEPT ![k] = Blank])
  BY DEF RemainsOf, PartImage, Chunk

\* The partition tcp_client_task() writes is none of the two.
LEMMA SocketsWriteSecondApp == Sockets!update_partition = "secondApp"
  <1>1. \A q \in AppParts : Sockets!Slot[q] = (Sockets!Slot["flashApp"] + 1) % 3
                                <=> q = "secondApp"
    BY DEF AppParts, Sockets!Slot
  <1>2. "secondApp" \in AppParts /\ Sockets!AppParts = AppParts
    BY DEF AppParts, Sockets!AppParts
  <1>3. Sockets!NextUpdatePartition("flashApp") = "secondApp"
    BY <1>1, <1>2 DEF Sockets!NextUpdatePartition
  <1> QED
    BY <1>3 DEF Sockets!update_partition

\* Steps that leave the records and the two images alone.
LEMMA OthersUntouched ==
    ASSUME Types, OthersNeverMisdescribed, UNCHANGED <<sector, info>>,
           \A p \in Others : image'[p] = image[p]
    PROVE  OthersNeverMisdescribed'
  BY DEF OthersNeverMisdescribed, Others

\* The other task at work.
LEMMA SocketsKeepOthers ==
    ASSUME OthersInv, Sockets!OtaStep, UNCHANGED serverVars
    PROVE  OthersInv'
  <1>1. \/ UNCHANGED image
        \/ \E img : image' = [image EXCEPT !["secondApp"] = img]
    <2>1. CASE \E seg \in Segments : Sockets!RecvSegment(seg)
      BY <2>1, SocketsWriteSecondApp DEF Sockets!RecvSegment
    <2>2. CASE \E seg \in Segments : Sockets!WriteFails(seg)
      BY <2>2, SocketsWriteSecondApp DEF Sockets!WriteFails
    <2>3. CASE \/ \E d \in Datagrams : Sockets!DatagramArrives(d)
               \/ Sockets!SocketError \/ Sockets!TaskStep \/ Sockets!RecvFails
               \/ Sockets!PeerCloses
      BY <2>3
      DEF Sockets!DatagramArrives, Sockets!SocketError, Sockets!TaskStep, Sockets!RecvFails,
          Sockets!PeerCloses, Sockets!Invitation, Sockets!IgnoredDatagram,
          Sockets!OtaBeginFails, Sockets!OtaBegin, Sockets!ConnectFails, Sockets!Connect,
          Sockets!RecvZero, Sockets!OtaEnd, Sockets!Md5Matches, Sockets!Md5Differs,
          Sockets!system, Sockets!shared
    <2> QED
      BY <2>1, <2>2, <2>3 DEF Sockets!OtaStep, Sockets!PeerStep
  <1>2. /\ image' = [p \in AppParts |-> image'[p]]
        /\ \A p \in Others : image'[p] = image[p]
    BY <1>1 DEF OthersInv, Types, Others, AppParts
  <1>3. UNCHANGED <<sector, info, pc, req, got>>
    BY DEF serverVars
  <1>4. Types' /\ Knows'
    BY <1>2, <1>3 DEF OthersInv, Types, Knows
  <1> QED
    BY <1>2, <1>3, <1>4, OthersUntouched DEF OthersInv

\* A handler that returns knows nothing any more.
LEMMA FinishOthers ==
    ASSUME Types, OthersNeverMisdescribed, NEW what, Server!Finish(what),
           UNCHANGED <<image, sector, info>>
    PROVE  OthersInv'
  BY OthersUntouched DEF Server!Finish, OthersInv, Types, Knows, Server!Busy

\* The requests: an upload invalidates its record in RAM first.
LEMMA RequestKeepsOthers ==
    ASSUME OthersInv, Server!Request
    PROVE  OthersInv'
  <1>0. Types /\ OthersNeverMisdescribed /\ Knows
    BY DEF OthersInv
  <1>1. CASE \/ Server!BadRequest
             \/ \E p \in UploadTargets \cap Server!AppParts : Server!run_post_handler(p)
             \/ \E p \in EraseTargets : Server!erase_post_handler(p) /\ pc' # "eraseImage"
    <2>1. UNCHANGED <<image, sector, info, pc>> /\ pc = "idle"
      BY <1>1 DEF Server!BadRequest, Server!run_post_handler, Server!erase_post_handler,
                  Server!Answer, Server!flash
    <2> QED
      BY <1>0, <2>1, OthersUntouched DEF OthersInv, Types, Knows, Server!Busy
  <1>2. ASSUME NEW asked \in UploadTargets, NEW mentioned \in NameMentions,
               NEW f \in Images, NEW n \in BodyLens,
               Server!upload_post_handler(asked, mentioned, f, n)
        PROVE  OthersInv'
    <2> DEFINE p == Server!server_get_partition_name({asked} \cup mentioned)
    <2>1. /\ p \in AppParts /\ info' = [info EXCEPT ![p] = Server!Invalidated(@)]
          /\ UNCHANGED <<image, sector>>
          /\ pc' = "keyErase" /\ req'.op = "upload" /\ req'.part = p
          /\ req'.fw = f /\ req'.len = n
      BY <1>2 DEF Server!upload_post_handler, Server!AppParts, AppParts
    <2>2. info' \in [AppParts -> Server!Record]
      BY <1>0, <2>1 DEF Types, Server!Record, Server!Invalidated
    <2>3. ~Server!Valid(info'[p])
      BY <1>0, <2>1 DEF Types, Server!Record, Server!Valid, Server!Invalidated
    <2>4. Types'
      BY <1>0, <2>1, <2>2, LengthsAssumption DEF Types, Chunk
    <2> QED
      BY <1>0, <2>1, <2>3, <2>4
      DEF OthersInv, OthersNeverMisdescribed, Knows, Types, Others, AppParts
  <1>3. ASSUME NEW p \in EraseTargets, Server!erase_post_handler(p), pc' = "eraseImage"
        PROVE  OthersInv'
    <2>1. /\ UNCHANGED <<image, sector, info>> /\ req'.op = "erase"
          /\ req'.part \in AppParts /\ req'.fw \in Chunk /\ req'.len \in Nat
      BY <1>3 DEF Server!erase_post_handler, Server!Answer, Server!flash, Server!AppParts,
                  AppParts, Chunk
    <2> QED
      BY <1>0, <1>3, <2>1, OthersUntouched DEF OthersInv, Types, Knows
  <1> QED
    BY <1>1, <1>2, <1>3 DEF Server!Request

\* The two steps of saving a record: what is not valid in RAM may go to any
\* sector, what is valid goes to its own.
LEMMA SaveKeepsOthers ==
    ASSUME OthersInv, Server!KeyErase \/ Server!KeyWrite
    PROVE  OthersInv'
  <1>0. Types /\ OthersNeverMisdescribed /\ Knows /\ Others \subseteq AppParts
    BY OthersAreApps DEF OthersInv
  <1>1. /\ pc \in Server!Busy /\ UNCHANGED <<image, info>> /\ req.part \in AppParts
        /\ Server!SavedSector(req) \in AppParts
    BY <1>0 DEF Server!KeyErase, Server!KeyWrite, Server!Busy, Types, Server!SavedSector, AppParts
  <1>2. CASE Server!KeyErase
    <2>1. /\ sector' = [sector EXCEPT ![Server!SavedSector(req)] = Server!NoRecord]
          /\ pc = "keyErase" /\ pc' = "keyWrite" /\ req' = req
      BY <1>2 DEF Server!KeyErase, Server!task
    <2>2. Server!NoRecord \in Server!Record /\ ~Server!Valid(Server!NoRecord)
      BY DEF Server!NoRecord, Server!Record, Server!Valid, Server!Chunk
    <2>3. Types'
      BY <1>0, <1>1, <2>1, <2>2 DEF Types, Server!Busy
    <2>4. OthersNeverMisdescribed'
      BY <1>0, <1>1, <2>1, <2>2 DEF Types, OthersNeverMisdescribed, Others
    <2>5. Knows'
      BY <1>0, <1>1, <2>1 DEF Knows
    <2> QED
      BY <2>3, <2>4, <2>5 DEF OthersInv
  <1>3. CASE Server!KeyWrite
    <2>1. /\ sector' = [sector EXCEPT ![Server!SavedSector(req)] = info[req.part]]
          /\ pc = "keyWrite" /\ Server!AfterSave
      BY <1>3 DEF Server!KeyWrite
    <2>2. /\ sector' \in [AppParts -> Server!Record]
          /\ \A p \in AppParts : sector'[p] = IF p = Server!SavedSector(req)
                                              THEN info[req.part] ELSE sector[p]
      BY <1>0, <1>1, <2>1 DEF Types
    <2>3. Server!Valid(info[req.part]) => Server!SavedSector(req) = req.part
      BY <1>0, <2>1 DEF Knows, Server!SavedSector
    <2>4. OthersNeverMisdescribed'
      BY <1>0, <1>1, <2>2, <2>3 DEF OthersNeverMisdescribed, Others
    <2>5. Types' /\ Knows'
      <3>1. CASE req.op = "upload" /\ ~Server!Valid(info[req.part])
        <4>1. Server!SavedSector(req) = req.part /\ pc' = "begin" /\ UNCHANGED req
          BY <2>1, <3>1 DEF Server!AfterSave, Server!SavedSector, Server!task
        <4> QED
          BY <1>0, <1>1, <2>2, <3>1, <4>1 DEF Types, Knows, Server!Busy
      <3>2. CASE ~(req.op = "upload" /\ ~Server!Valid(info[req.part]))
        BY <1>0, <1>1, <2>1, <2>2, <3>2
        DEF Server!AfterSave, Server!Finish, Types, Knows, Server!Busy
      <3> QED
        BY <3>1, <3>2
    <2> QED
      BY <2>4, <2>5 DEF OthersInv
  <1> QED
    BY <1>2, <1>3

\* A chunk is received, or fails to be written: the record is invalid.
LEMMA WriteKeepsOthers ==
    ASSUME OthersInv, Server!RecvChunk \/ Server!OtaWriteFails
    PROVE  OthersInv'
  <1>0. Types /\ OthersNeverMisdescribed /\ Knows /\ Others \subseteq AppParts
    BY OthersAreApps DEF OthersInv
  <1>1. /\ pc = "recv" /\ got < req.len /\ UNCHANGED <<sector, info>>
        /\ req.part \in AppParts /\ req.fw \in Chunk /\ req.len \in Nat
        /\ got \in Nat /\ req.len <= NumChunks
        /\ ~Server!Valid(info[req.part]) /\ ~Server!Valid(sector[req.part])
    BY <1>0 DEF Server!RecvChunk, Server!OtaWriteFails, Server!Receiving, Types, Knows,
                Server!Busy
  <1>2. got + 1 \in 1..NumChunks
    BY <1>1, NumChunksAssumption
  <1>3. CASE Server!RecvChunk
    <2>1. /\ image' = [image EXCEPT ![req.part][got + 1] = req.fw]
          /\ UNCHANGED <<pc, req>> /\ got' = got + 1
      BY <1>3 DEF Server!RecvChunk
    <2>2. /\ image' = [p \in AppParts |-> image'[p]]
          /\ \A p \in Others : p # req.part => image'[p] = image[p]
          /\ image'[req.part] = [image[req.part] EXCEPT ![got + 1] = req.fw]
      BY <1>0, <1>1, <2>1 DEF Types
    <2>3. ASSUME req.part \in Others
          PROVE  image'[req.part] \in PartImage
                 /\ \A i \in 1..got' : image'[req.part][i] = req.fw
      <3>1. image[req.part] \in PartImage
        BY <1>0, <2>3 DEF Types
      <3>2. image'[req.part] \in PartImage /\ image'[req.part][got + 1] = req.fw
        BY <1>1, <1>2, <2>2, <3>1 DEF PartImage
      <3>3. \A i \in 1..got : image'[req.part][i] = req.fw
        BY <1>0, <1>1, <2>2, <2>3, <3>1 DEF Knows, PartImage
      <3> QED
        BY <1>1, <2>1, <3>2, <3>3
    <2>4. Types'
      BY <1>0, <1>1, <2>1, <2>2, <2>3 DEF Types, Server!Busy
    <2>5. OthersNeverMisdescribed'
      BY <1>0, <1>1, <2>2 DEF OthersNeverMisdescribed, Others
    <2>6. Knows'
      <3>1. UNCHANGED <<pc, req, sector, info>>
        BY <1>1, <2>1
      <3> QED
        BY <1>0, <1>1, <2>3, <3>1 DEF Knows
    <2> QED
      BY <2>4, <2>5, <2>6 DEF OthersInv
  <1>4. CASE Server!OtaWriteFails
    <2>1. /\ \/ image' = [image EXCEPT ![req.part][got + 1] = Blank]
             \/ image' = image
          /\ Server!Finish("failed")
      BY <1>4 DEF Server!OtaWriteFails
    <2>2. /\ image' = [p \in AppParts |-> image'[p]]
          /\ \A p \in Others : p # req.part => image'[p] = image[p]
          /\ \A p \in Others : image'[p] \in PartImage
      <3>1. CASE image' = image
        BY <1>0, <3>1 DEF Types
      <3>2. CASE image' = [image EXCEPT ![req.part][got + 1] = Blank]
        <4>1. /\ image' = [p \in AppParts |-> image'[p]]
              /\ \A p \in Others : p # req.part => image'[p] = image[p]
              /\ image'[req.part] = [image[req.part] EXCEPT ![got + 1] = Blank]
          BY <1>0, <1>1, <3>2 DEF Types
        <4>2. ASSUME NEW p \in Others PROVE image'[p] \in PartImage
          <5>1. image[p] \in PartImage
            BY <1>0 DEF Types
          <5>2. [image[p] EXCEPT ![got + 1] = Blank] \in PartImage
            BY <5>1, ErasedRemains
          <5>3. \/ image'[p] = image[p]
                \/ image'[p] = [image[p] EXCEPT ![got + 1] = Blank]
            BY <4>1, <4>2
          <5> QED
            BY <5>1, <5>2, <5>3
        <4> QED
          BY <4>1, <4>2
      <3> QED
        BY <2>1, <3>1, <3>2
    <2>3. OthersNeverMisdescribed'
      BY <1>0, <1>1, <2>2 DEF OthersNeverMisdescribed, Others
    <2> QED
      BY <1>0, <1>1, <2>1, <2>2, <2>3 DEF OthersInv, Types, Knows, Server!Finish, Server!Busy
  <1> QED
    BY <1>3, <1>4

\* A chunk is erased, of a partition whose record may still be valid.
LEMMA EraseKeepsOthers ==
    ASSUME OthersInv, Server!EraseChunk
    PROVE  OthersInv'
  <1>0. Types /\ OthersNeverMisdescribed /\ Knows /\ Others \subseteq AppParts
    BY OthersAreApps DEF OthersInv
  <1>1. /\ pc = "eraseImage" /\ UNCHANGED <<sector, info, pc, req>>
        /\ image' = [image EXCEPT ![req.part][got + 1] = Blank]
        /\ req.part \in AppParts
    BY <1>0 DEF Server!EraseChunk, Types, Server!Busy
  <1>2. /\ image' = [p \in AppParts |-> image'[p]]
        /\ \A p \in Others : \/ image'[p] = image[p]
                             \/ image'[p] = [image[p] EXCEPT ![got + 1] = Blank]
    BY <1>0, <1>1 DEF Types
  <1>3. ASSUME NEW p \in Others
        PROVE  /\ image'[p] \in PartImage
               /\ \A f : RemainsOf(f, image[p]) => RemainsOf(f, image'[p])
    <2>1. image[p] \in PartImage
      BY <1>0 DEF Types
    <2>2. CASE image'[p] = image[p]
      BY <2>1, <2>2
    <2>3. CASE image'[p] = [image[p] EXCEPT ![got + 1] = Blank]
      BY <2>1, <2>3, ErasedRemains
    <2> QED
      BY <1>2, <2>2, <2>3
  <1>4. OthersNeverMisdescribed'
    BY <1>0, <1>1, <1>3 DEF OthersNeverMisdescribed, Others
  <1>5. Types' /\ Knows'
    BY <1>0, <1>1, <1>2, <1>3 DEF Types, Knows, Server!Busy
  <1> QED
    BY <1>4, <1>5 DEF OthersInv

\* The records change in RAM: valid once the image has been verified, invalid
\* once it has been erased.
LEMMA RecordKeepsOthers ==
    ASSUME OthersInv, Server!SetBoot \/ Server!EraseDone
    PROVE  OthersInv'
  <1>0. Types /\ OthersNeverMisdescribed /\ Knows /\ Others \subseteq AppParts
    BY OthersAreApps DEF OthersInv
  <1>1. /\ pc \in {"setBoot", "eraseImage"} /\ UNCHANGED <<image, sector>>
        /\ req.part \in AppParts /\ req.fw \in Chunk
    BY <1>0 DEF Server!SetBoot, Server!EraseDone, Server!flash, Types, Server!Busy
  <1>2. CASE Server!Finish("failed") /\ UNCHANGED info
    BY <1>0, <1>1, <1>2, FinishOthers
  <1>3. ASSUME NEW rec \in Server!Record, info' = [info EXCEPT ![req.part] = rec],
               pc' = "keyErase", UNCHANGED req,
               \/ ~Server!Valid(rec)
               \/ /\ req.op = "upload"
                  /\ req.part \in Others => RemainsOf(rec.fw, image[req.part])
        PROVE  OthersInv'
    <2>1. Types'
      BY <1>0, <1>1, <1>3 DEF Types, Server!Busy
    <2>2. OthersNeverMisdescribed'
      BY <1>0, <1>1, <1>3 DEF Types, OthersNeverMisdescribed, Others
    <2>3. Knows'
      BY <1>0, <1>1, <1>3 DEF Types, Knows
    <2> QED
      BY <2>1, <2>2, <2>3 DEF OthersInv
  <1>4. CASE Server!EraseDone
    <2>1. /\ info' = [info EXCEPT ![req.part] = Server!Invalidated(info[req.part])]
          /\ pc' = "keyErase" /\ UNCHANGED req
      BY <1>0, <1>1, <1>4 DEF Server!EraseDone, Server!task, Types
    <2>2. /\ Server!Invalidated(info[req.part]) \in Server!Record
          /\ ~Server!Valid(Server!Invalidated(info[req.part]))
      BY <1>0, <1>1 DEF Types, Server!Record, Server!Valid, Server!Invalidated
    <2> QED
      BY <1>3, <2>1, <2>2
  <1>5. CASE Server!SetBoot /\ ~(Server!Finish("failed") /\ UNCHANGED info)
    <2> DEFINE rec == [flag |-> "VALID", fw |-> req.fw]
    <2>1. /\ info' = [info EXCEPT ![req.part] = rec]
          /\ pc = "setBoot" /\ pc' = "keyErase" /\ UNCHANGED req
      BY <1>5 DEF Server!SetBoot, Server!task
    <2>2. rec \in Server!Record
      BY <1>1 DEF Server!Record, Server!Chunk, Chunk
    <2>3. req.op = "upload" /\ (req.part \in Others => RemainsOf(rec.fw, image[req.part]))
      BY <1>0, <2>1 DEF Knows, RemainsOf, Whole
    <2> QED
      BY <1>3, <2>1, <2>2, <2>3
  <1> QED
    BY <1>2, <1>4, <1>5

\* The server's handler at work, when its records can be saved.
LEMMA HandlerKeepsOthers ==
    ASSUME OthersInv, Server!HandlerStep, KeyDataMayFail = FALSE
    PROVE  OthersInv'
  <1>0. Types /\ OthersNeverMisdescribed /\ Knows
    BY DEF OthersInv
  <1>1. CASE \/ Server!OtaBeginFails \/ Server!TooLarge \/ Server!RecvTimeout
             \/ Server!RecvError \/ Server!EraseFails
    <2>1. /\ UNCHANGED <<image, sector, info>>
          /\ \E what \in {"failed", "timeout"} : Server!Finish(what)
      BY <1>1 DEF Server!OtaBeginFails, Server!TooLarge, Server!RecvTimeout,
                  Server!RecvError, Server!EraseFails, Server!flash
    <2> QED
      BY <1>0, <2>1, FinishOthers
  <1>2. CASE Server!OtaBegin \/ Server!RecvStall
    <2>1. /\ UNCHANGED <<image, sector, info, req>> /\ pc \in {"begin", "recv"} /\ pc' = "recv"
          /\ \/ got' = got /\ pc = "recv"
             \/ got' = 0 /\ req.len <= NumChunks
      BY <1>2 DEF Server!OtaBegin, Server!RecvStall, Server!Receiving, Server!flash
    <2> QED
      BY <1>0, <2>1, OthersUntouched DEF OthersInv, Types, Knows, Server!Busy
  <1>3. CASE Server!OtaEnd
    <2>1. UNCHANGED <<image, sector, info>>
      BY <1>3 DEF Server!OtaEnd, Server!flash
    <2>2. CASE Server!Finish("failed")
      BY <1>0, <2>1, <2>2, FinishOthers
    <2>3. CASE ~Server!Finish("failed")
      <3>1. /\ pc = "recv" /\ got > 0 /\ Server!Verifies(image[req.part])
            /\ pc' = "setBoot" /\ UNCHANGED <<req, got>>
        BY <1>3, <2>3 DEF Server!OtaEnd, Server!task
      <3>2. ASSUME req.part \in Others PROVE image[req.part] = Whole(req.fw)
        <4>1. 1 \in 1..got
          BY <1>0, <3>1 DEF Types
        <4> QED
          BY <1>0, <3>1, <3>2, <4>1, VerifiedIsWhole DEF Knows
      <3> QED
        BY <1>0, <2>1, <3>1, <3>2, OthersUntouched DEF OthersInv, Types, Knows, Server!Busy
    <2> QED
      BY <2>2, <2>3
  <1>4. CASE Server!KeyDataFails
    BY <1>4 DEF Server!KeyDataFails
  <1> QED
    BY <1>1, <1>2, <1>3, <1>4, SaveKeepsOthers, WriteKeepsOthers, EraseKeepsOthers,
       RecordKeepsOthers
    DEF Server!HandlerStep

LEMMA NextKeepsOthers ==
    ASSUME OthersInv, [Next]_vars, KeyDataMayFail = FALSE
    PROVE  OthersInv'
  <1>0. Types /\ OthersNeverMisdescribed /\ Knows
    BY DEF OthersInv
  <1>1. ASSUME Server!RamLost, UNCHANGED <<image, sector>> PROVE OthersInv'
    <2>1. /\ info' \in [AppParts -> Server!Record] /\ pc' = "off"
          /\ \A p \in AppParts : ~Server!Valid(info'[p])
      BY <1>1 DEF Server!RamLost, Server!NoRecord, Server!Record, Server!Valid, Server!Chunk,
                  Server!AppParts, AppParts
    <2> QED
      BY <1>0, <1>1, <2>1, OthersAreApps
      DEF OthersInv, Types, OthersNeverMisdescribed, Knows, Others, Server!Busy
  <1>2. CASE PowerLoss \/ Restart
    <2>1. Server!RamLost /\ UNCHANGED <<image, sector>>
      BY <1>2 DEF PowerLoss, Restart, Server!PowerLoss, Server!restart_execute_handle,
                  Server!Reset, Server!flash
    <2> QED
      BY <1>1, <2>1
  <1>3. CASE Bootloader
    <2>1. UNCHANGED <<image, sector, info>> /\ pc' \in {"start", "off"}
      BY <1>3 DEF Bootloader, Server!Bootloader
    <2> QED
      BY <1>0, <2>1, OthersUntouched DEF OthersInv, Types, Knows, Server!Busy
  <1>4. CASE Server!start_ota_file_server
    <2>1. UNCHANGED <<image, sector>>
      BY <1>4 DEF Server!start_ota_file_server
    <2>2. CASE Server!RamLost
      BY <1>1, <2>1, <2>2
    <2>3. CASE ~Server!RamLost
      <3>1. pc' = "idle" /\ info' = Server!ReadRecords({})
        BY <1>4, <2>3 DEF Server!start_ota_file_server
      <3>2. info' = sector
        BY <1>0, <3>1 DEF Server!ReadRecords, Types, Server!AppParts, AppParts
      <3> QED
        BY <1>0, <2>1, <3>1, <3>2
        DEF OthersInv, Types, OthersNeverMisdescribed, Knows, Server!Busy
    <2> QED
      BY <2>2, <2>3
  <1>5. CASE pc \notin {"off", "start"} /\ Sockets!ota_init /\ UNCHANGED serverVars
    <2>1. UNCHANGED <<image, sector, info, pc, req, got>>
      BY <1>5 DEF Sockets!ota_init, Sockets!shared, serverVars
    <2> QED
      BY <1>0, <2>1, OthersUntouched DEF OthersInv, Types, Knows
  <1>6. CASE httpd_task
    BY <1>6, RequestKeepsOthers, HandlerKeepsOthers DEF httpd_task
  <1>7. CASE udp_server_task
    BY <1>7, SocketsKeepOthers DEF udp_server_task
  <1>8. CASE UNCHANGED vars
    <2>1. UNCHANGED <<image, sector, info, pc, req, got>>
      BY <1>8 DEF vars, shared, serverVars
    <2> QED
      BY <1>0, <2>1, OthersUntouched DEF OthersInv, Types, Knows
  <1> QED
    BY <1>2, <1>3, <1>4, <1>5, <1>6, <1>7, <1>8 DEF Next, app_main

\* With key_data writable, the records of app and flashApp never name anything but
\* what the partitions hold, although another task writes firmwares, frees handles
\* and restarts the chip in the middle of the handlers that keep them.
THEOREM SocketsKeepRecords ==
    ASSUME KeyDataMayFail = FALSE
    PROVE  Spec => []OthersNeverMisdescribed
  <1>1. Init => OthersInv
    <2>1. Server!NoRecord \in Server!Record /\ ~Server!Valid(Server!NoRecord)
      BY DEF Server!NoRecord, Server!Record, Server!Valid, Server!Chunk
    <2>2. Server!Whole(Blank) \in PartImage
      BY DEF Server!Whole, PartImage, Chunk
    <2>3. ASSUME Init
          PROVE  /\ image = [p \in AppParts |-> Server!Whole(Blank)]
                 /\ sector = [p \in AppParts |-> Server!NoRecord]
                 /\ info = [p \in AppParts |-> Server!NoRecord] /\ pc = "off"
      BY <2>3 DEF Init, Server!Init, Server!AppParts, AppParts
    <2> QED
      BY <2>1, <2>2, <2>3, OthersAreApps
      DEF OthersInv, Types, OthersNeverMisdescribed, Knows, Others, Server!Busy
  <1>2. OthersInv /\ [Next]_vars => OthersInv'
    BY NextKeepsOthers
  <1>3. OthersInv => OthersNeverMisdescribed
    BY DEF OthersInv
  <1> QED
    BY <1>1, <1>2, <1>3, PTL DEF Spec

-----------------------------------------------------------------------------
(* The types of the server's part, which every step of it keeps.              *)

\* Partition names are the same to both modules.
LEMMA ServerParts ==
    /\ UploadTargets \subseteq Server!PartNames /\ EraseTargets \subseteq Server!PartNames
    /\ NameMentions \subseteq SUBSET Server!PartNames
    /\ NoPart \notin Server!AppParts
  BY RequestsAssumption, NoPartAssumption DEF Server!PartNames, Server!AppParts, AppParts

LEMMA FirstInMember ==
    ASSUME NEW S \in SUBSET Server!PartNames, S # {}
    PROVE  Server!FirstIn(S) \in S
  <1>1. \E p \in S : \A q \in S : Server!SearchOrder[p] <= Server!SearchOrder[q]
    <2>1. CASE "app" \in S
      BY <2>1 DEF Server!PartNames, Server!AppParts, Server!SearchOrder
    <2>2. CASE "app" \notin S /\ "secondApp" \in S
      BY <2>2 DEF Server!PartNames, Server!AppParts, Server!SearchOrder
    <2>3. CASE "app" \notin S /\ "secondApp" \notin S /\ "flashApp" \in S
      BY <2>3 DEF Server!PartNames, Server!AppParts, Server!SearchOrder
    <2>4. CASE S = {"nvs"}
      BY <2>4 DEF Server!SearchOrder
    <2> QED
      BY <2>1, <2>2, <2>3, <2>4 DEF Server!PartNames, Server!AppParts
  <1> QED
    BY <1>1 DEF Server!FirstIn

\* start_ota_file_server() selects an application partition, or none.
LEMMA NextRunPartition ==
    ASSUME NEW rec
    PROVE  Server!next_run_partition(rec) \in Server!AppParts \cup {NoPart}
  <1> DEFINE valid == {p \in Server!AppParts : Server!Valid(rec[p])}
  <1>1. CASE valid = {}
    BY <1>1 DEF Server!next_run_partition
  <1>2. CASE valid # {}
    <2>1. Server!FirstIn(valid) \in valid
      BY <1>2, FirstInMember DEF Server!PartNames
    <2> QED
      BY <1>2, <2>1 DEF Server!next_run_partition
  <1> QED
    BY <1>1, <1>2

\* The boot loader starts factory or a candidate.
LEMMA BootedFromRange ==
    ASSUME NEW img, NEW b \in Server!AppParts \cup {NoPart}
    PROVE  Server!BootedFrom(img, b) \in {"factory"} \cup Server!AppParts
  <1> DEFINE C == Server!Candidates(img, b)
  <1>1. CASE C = {}
    BY <1>1 DEF Server!BootedFrom
  <1>2. CASE C # {}
    <2>1. C \subseteq Server!AppParts
      BY <1>2 DEF Server!Candidates
    <2>2. \E p \in C : \A q \in C : Server!Slot[q] <= Server!Slot[p]
      <3>1. CASE "secondApp" \in C
        BY <2>1, <3>1 DEF Server!AppParts, Server!Slot
      <3>2. CASE "secondApp" \notin C /\ "flashApp" \in C
        BY <2>1, <3>2 DEF Server!AppParts, Server!Slot
      <3>3. CASE C = {"app"}
        BY <3>3 DEF Server!Slot
      <3> QED
        BY <1>2, <2>1, <3>1, <3>2, <3>3 DEF Server!AppParts
    <2>3. Server!BootedFrom(img, b) =
              CHOOSE p \in C : \A q \in C : Server!Slot[q] <= Server!Slot[p]
      BY <1>2, <2>1 DEF Server!BootedFrom, Server!Candidates
    <2> QED
      BY <2>1, <2>2, <2>3
  <1> QED
    BY <1>1, <1>2

\* What a handler leaves behind when it returns.
LEMMA FinishTypes ==
    ASSUME Server!TypeOK, pc \in Server!Busy,
           NEW what \in {"uploaded", "failed", "timeout", "erased"}, Server!Finish(what)
    PROVE  /\ pc' = "idle" /\ req' = Server!NoReq
           /\ got' = 0 /\ stalls' = 0 /\ reply' \in Server!Replies
  BY
  DEF Server!TypeOK, Server!Finish, Server!Requests, Server!Replies, Server!Reply,
      Server!PartNames

LEMMA NoReqType ==
    /\ Server!NoReq \in Server!Requests /\ Server!NoReply \in Server!Replies
    /\ Server!NoRecord \in Server!Record
  BY
  DEF Server!NoReq, Server!Requests, Server!NoReply, Server!Replies, Server!Reply,
      Server!NoRecord, Server!Record, Server!Chunk

\* The initial states are typed.
LEMMA ServerInitTypes == Server!Init => Server!TypeOK
  <1>1. Server!Whole(Blank) \in Server!PartImage
    BY DEF Server!Whole, Server!PartImage, Server!Chunk
  <1> QED
    BY <1>1, NoReqType, HeapAssumption, NumChunksAssumption
    DEF Server!Init, Server!TypeOK, Server!Busy, Server!NoReq

\* A reset leaves RAM empty.
LEMMA ServerResetTypes ==
    ASSUME Server!TypeOK, Server!Reset
    PROVE  Server!TypeOK'
  BY NoReqType, HeapAssumption
  DEF Server!TypeOK, Server!Reset, Server!RamLost, Server!flash, Server!Busy, Server!NoReq

\* What the server starts with: the boot selection and the records it could read.
LEMMA ServerStarts ==
    ASSUME Server!TypeOK, Server!start_ota_file_server
    PROVE  /\ pc = "start" /\ UNCHANGED <<image, sector>>
           /\ boot' \in Server!AppParts \cup {NoPart}
           /\ \/ /\ pc' = "idle" /\ UNCHANGED <<handles, running, Server!task, reply>>
                 /\ info' \in [Server!AppParts -> Server!Record]
              \/ Server!RamLost
  <1>1. PICK lost \in IF KeyDataMayFail THEN SUBSET Server!AppParts ELSE {{}} :
          /\ \/ boot' = Server!next_run_partition(Server!ReadRecords(lost))
             \/ UNCHANGED boot
          /\ \/ /\ info' = Server!ReadRecords(lost)
                /\ pc' = "idle"
                /\ UNCHANGED <<handles, running, Server!task, reply>>
             \/ Server!RamLost
    BY DEF Server!start_ota_file_server
  <1>2. Server!ReadRecords(lost) \in [Server!AppParts -> Server!Record]
    BY NoReqType DEF Server!ReadRecords, Server!TypeOK
  <1>3. boot' \in Server!AppParts \cup {NoPart}
    BY <1>1, NextRunPartition DEF Server!TypeOK
  <1> QED
    BY <1>1, <1>2, <1>3 DEF Server!start_ota_file_server

\* Every step keeps the types.
LEMMA ServerNextTypes ==
    ASSUME Server!TypeOK, [Server!Next]_(Server!vars)
    PROVE  Server!TypeOK'
  <1> USE DEF Server!TypeOK, Server!flash, Server!task
  <1>1. CASE Server!PowerLoss \/ Server!restart_execute_handle
    BY <1>1, ServerResetTypes DEF Server!PowerLoss, Server!restart_execute_handle
  <1>2. ASSUME NEW pin \in BOOLEAN, Server!Bootloader(pin) PROVE Server!TypeOK'
    <2>1. boot' \in Server!AppParts \cup {NoPart}
      BY <1>2 DEF Server!Bootloader
    <2>2. Server!BootedFrom(image, boot') \in {"factory"} \cup Server!AppParts
      BY <2>1, BootedFromRange
    <2> QED
      BY <1>2, <2>1, <2>2 DEF Server!Bootloader, Server!Busy, Server!AppParts
  <1>3. CASE Server!start_ota_file_server
    <2>1. CASE Server!RamLost
      BY <1>3, <2>1, ServerStarts, NoReqType, HeapAssumption
      DEF Server!RamLost, Server!Busy, Server!NoReq
    <2>2. CASE ~Server!RamLost
      BY <1>3, <2>2, ServerStarts DEF Server!Busy
    <2> QED
      BY <2>1, <2>2
  <1>4. CASE Server!BadRequest
    BY <1>4
    DEF Server!BadRequest, Server!Answer, Server!Reply, Server!Replies, Server!Chunk,
        Server!Busy
  <1>5. ASSUME NEW asked \in UploadTargets, NEW mentioned \in NameMentions,
               NEW f \in Images, NEW n \in BodyLens,
               Server!upload_post_handler(asked, mentioned, f, n)
        PROVE  Server!TypeOK'
    <2>1. req' \in Server!Requests
      BY <1>5, ServerParts, LengthsAssumption
      DEF Server!upload_post_handler, Server!Requests, Server!Chunk
    <2>2. info' \in [Server!AppParts -> Server!Record]
      BY <1>5 DEF Server!upload_post_handler, Server!Record, Server!Invalidated
    <2> QED
      BY <1>5, <2>1, <2>2, NoReqType, ServerParts
      DEF Server!upload_post_handler, Server!Busy
  <1>6. ASSUME NEW p \in UploadTargets \cap Server!AppParts, Server!run_post_handler(p)
        PROVE  Server!TypeOK'
    BY <1>6
    DEF Server!run_post_handler, Server!Answer, Server!Reply, Server!Replies,
        Server!PartNames, Server!Chunk, Server!Record, Server!Busy
  <1>7. ASSUME NEW p \in EraseTargets, Server!erase_post_handler(p) PROVE Server!TypeOK'
    <2>1. CASE reply' # Server!NoReply
      <3>1. \E what \in {"erased", "failed"} : Server!Answer(what, p, Blank) /\ UNCHANGED boot
        BY <1>7, <2>1 DEF Server!erase_post_handler
      <3>2. p \in Server!PartNames
        BY ServerParts
      <3> QED
        BY <1>7, <3>1, <3>2
        DEF Server!erase_post_handler, Server!Answer, Server!Reply, Server!Replies,
            Server!Chunk, Server!Busy
    <2>2. CASE reply' = Server!NoReply
      <3>1. CASE pc' = "eraseImage"
        BY <1>7, <2>2, <3>1, NoReqType, ServerParts, NumChunksAssumption
        DEF Server!erase_post_handler, Server!Answer, Server!Reply, Server!NoReply,
            Server!Requests, Server!PartNames, Server!Chunk, Server!Busy, Server!NoReq
      <3>2. CASE pc' # "eraseImage"
        BY <1>7, <2>2, <3>2
        DEF Server!erase_post_handler, Server!Answer, Server!Reply, Server!NoReply
      <3> QED
        BY <3>1, <3>2
    <2> QED
      BY <2>1, <2>2
  <1>8. CASE Server!KeyErase \/ Server!KeyWrite \/ Server!KeyDataFails
    <2>1. sector' \in [Server!AppParts -> Server!Record]
      BY <1>8, NoReqType
      DEF Server!KeyErase, Server!KeyWrite, Server!KeyDataFails, Server!SavedSector,
          Server!Busy, Server!AppParts
    <2>2. CASE Server!KeyErase
      BY <2>1, <2>2 DEF Server!KeyErase, Server!Busy
    <2>3. CASE Server!KeyWrite \/ Server!KeyDataFails
      <3>1. /\ pc \in Server!Busy /\ Server!AfterSave
            /\ UNCHANGED <<image, boot, info, handles, running>>
        BY <2>3 DEF Server!KeyWrite, Server!KeyDataFails, Server!Busy
      <3>2. CASE req.op = "upload" /\ ~Server!Valid(info[req.part])
        BY <2>1, <3>1, <3>2 DEF Server!AfterSave, Server!Busy
      <3>3. CASE ~(req.op = "upload" /\ ~Server!Valid(info[req.part]))
        <4>1. \E what \in {"uploaded", "erased"} : Server!Finish(what)
          BY <3>1, <3>3 DEF Server!AfterSave
        <4> QED
          BY <2>1, <3>1, <4>1, FinishTypes, NoReqType DEF Server!Busy, Server!NoReq
      <3> QED
        BY <3>2, <3>3
    <2> QED
      BY <1>8, <2>2, <2>3
  <1>9. CASE Server!OtaBeginFails \/ Server!RecvTimeout \/ Server!EraseFails
    <2>1. pc \in Server!Busy /\ \E what \in {"failed", "timeout"} : Server!Finish(what)
      BY <1>9
      DEF Server!OtaBeginFails, Server!RecvTimeout, Server!EraseFails, Server!Receiving,
          Server!Busy
    <2> QED
      BY <1>9, <2>1, FinishTypes, NoReqType
      DEF Server!OtaBeginFails, Server!RecvTimeout, Server!EraseFails, Server!Busy,
          Server!NoReq
  <1>10. CASE Server!TooLarge
    BY <1>10, FinishTypes, NoReqType, HeapAssumption
    DEF Server!TooLarge, Server!Busy, Server!NoReq
  <1>11. CASE Server!OtaBegin
    BY <1>11, HeapAssumption DEF Server!OtaBegin, Server!Busy, Server!Requests
  <1>12. CASE Server!RecvStall
    BY <1>12 DEF Server!RecvStall, Server!Receiving, Server!Busy
  <1>13. CASE Server!RecvError
    BY <1>13, FinishTypes, NoReqType, HeapAssumption
    DEF Server!RecvError, Server!Receiving, Server!Busy, Server!NoReq
  <1>14. CASE Server!RecvChunk
    <2>1. image' \in [Server!AppParts -> Server!PartImage]
      BY <1>14
      DEF Server!RecvChunk, Server!Receiving, Server!PartImage, Server!Requests, Server!Busy
    <2> QED
      BY <1>14, <2>1, NumChunksAssumption
      DEF Server!RecvChunk, Server!Receiving, Server!Busy, Server!Requests
  <1>15. CASE Server!OtaWriteFails
    <2>1. image' \in [Server!AppParts -> Server!PartImage]
      <3>1. CASE UNCHANGED image
        BY <3>1
      <3>2. CASE image' = [image EXCEPT ![req.part][got + 1] = Blank]
        BY <3>2 DEF Server!PartImage, Server!Chunk
      <3> QED
        BY <1>15, <3>1, <3>2 DEF Server!OtaWriteFails
    <2> QED
      BY <1>15, <2>1, FinishTypes, NoReqType, HeapAssumption
      DEF Server!OtaWriteFails, Server!Receiving, Server!Busy, Server!NoReq
  <1>16. CASE Server!OtaEnd
    BY <1>16, FinishTypes, NoReqType, HeapAssumption
    DEF Server!OtaEnd, Server!Busy, Server!NoReq
  <1>17. CASE Server!SetBoot
    BY <1>17, FinishTypes, NoReqType
    DEF Server!SetBoot, Server!Busy, Server!NoReq, Server!Record, Server!Requests
  <1>18. CASE Server!EraseChunk
    <2>1. image' \in [Server!AppParts -> Server!PartImage]
      BY <1>18 DEF Server!EraseChunk, Server!PartImage, Server!Chunk
    <2> QED
      BY <1>18, <2>1, NumChunksAssumption DEF Server!EraseChunk, Server!Busy
  <1>19. CASE Server!EraseDone
    BY <1>19 DEF Server!EraseDone, Server!Record, Server!Invalidated, Server!Busy
  <1>20. CASE UNCHANGED Server!vars
    BY <1>20 DEF Server!vars
  <1> QED
    BY <1>1, <1>2, <1>3, <1>4, <1>5, <1>6, <1>7, <1>8, <1>9, <1>10, <1>11, <1>12,
       <1>13, <1>14, <1>15, <1>16, <1>17, <1>18, <1>19, <1>20
    DEF Server!Next, Server!Request, Server!HandlerStep

-----------------------------------------------------------------------------
(* The types of the socket service.                                           *)

SocketsInv == Sockets!TypeOK /\ rcvd \in Seq(Images)

\* What was received in this session is what the front of the partition holds.
StreamInv ==
    /\ upc \in {"off", "dead", "recv", "begin", "connect"} => rcvd = <<>>
    /\ \A i \in 1..Len(rcvd) : image["secondApp"][i] = rcvd[i]

\* A segment is appended to the stream, and written behind what is there.
LEMMA SegmentWritten ==
    ASSUME SocketsInv, NEW seg \in Segments, Sockets!RecvSegment(seg)
    PROVE  /\ image' \in [Sockets!AppParts -> Sockets!PartImage]
           /\ rcvd' \in Seq(Images) /\ Len(rcvd') <= NumChunks
           /\ StreamInv => \A i \in 1..Len(rcvd') : image'["secondApp"][i] = rcvd'[i]
  <1>1. /\ Len(rcvd \o seg) <= NumChunks /\ rcvd' = rcvd \o seg
        /\ image' = [image EXCEPT !["secondApp"] = Sockets!Written(seg)]
    BY SocketsWriteSecondApp DEF Sockets!RecvSegment
  <1>2. /\ rcvd \in Seq(Images) /\ seg \in Seq(Images) /\ NumChunks \in Nat
        /\ image \in [Sockets!AppParts -> Sockets!PartImage]
        /\ "secondApp" \in Sockets!AppParts
    BY StreamsAssumption, NumChunksAssumption
    DEF SocketsInv, Sockets!TypeOK, Sockets!AppParts
  <1>3. /\ rcvd' \in Seq(Images) /\ Len(rcvd') = Len(rcvd) + Len(seg)
        /\ Len(rcvd) \in Nat /\ Len(seg) \in Nat
        /\ \A i \in 1..Len(rcvd) : rcvd'[i] = rcvd[i]
    BY <1>1, <1>2, ConcatProperties, LenProperties
  <1>4. \A i \in 1..Len(rcvd') : rcvd'[i] \in Images
    BY <1>3, ElementOfSeq
  <1>5. \A i \in 1..NumChunks :
            Sockets!Written(seg)[i] = IF i \in Len(rcvd) + 1 .. Len(rcvd') THEN rcvd'[i]
                                      ELSE image["secondApp"][i]
    BY <1>1, SocketsWriteSecondApp DEF Sockets!Written
  <1>6. Sockets!Written(seg) \in Sockets!PartImage
    <2>1. image["secondApp"] \in Sockets!PartImage
      BY <1>2
    <2>2. \A i \in Len(rcvd) + 1 .. Len(rcvd') : rcvd'[i] \in Images
      BY <1>3, <1>4
    <2>3. \A i \in 1..NumChunks : Sockets!Written(seg)[i] \in Sockets!Chunk
      BY <1>5, <2>1, <2>2 DEF Sockets!PartImage, Sockets!Chunk
    <2>4. Sockets!Written(seg) = [i \in 1..NumChunks |-> Sockets!Written(seg)[i]]
      BY DEF Sockets!Written
    <2> QED
      BY <2>3, <2>4 DEF Sockets!PartImage
  <1>7. /\ image' \in [Sockets!AppParts -> Sockets!PartImage]
        /\ image'["secondApp"] = Sockets!Written(seg)
    BY <1>1, <1>2, <1>6
  <1>8. ASSUME StreamInv, NEW i \in 1..Len(rcvd') PROVE image'["secondApp"][i] = rcvd'[i]
    <2>1. i \in 1..NumChunks
      BY <1>1, <1>2, <1>3
    <2>2. CASE i \in Len(rcvd) + 1 .. Len(rcvd')
      BY <1>5, <1>7, <2>1, <2>2
    <2>3. CASE i \notin Len(rcvd) + 1 .. Len(rcvd')
      <3>1. i \in 1..Len(rcvd)
        BY <1>3, <2>3
      <3> QED
        BY <1>3, <1>5, <1>7, <1>8, <2>1, <2>3, <3>1 DEF StreamInv
    <2> QED
      BY <2>2, <2>3
  <1> QED
    BY <1>1, <1>3, <1>7, <1>8

\* What a write that fails leaves is an image, the same up to the segment.
LEMMA TornImage ==
    ASSUME SocketsInv, NEW seg \in Segments, NEW e \in 1..Len(seg), NEW w \in 0..e
    PROVE  /\ Sockets!Torn(seg, e, w) \in Sockets!PartImage
           /\ \A i \in 1..Len(rcvd) : Sockets!Torn(seg, e, w)[i] = image["secondApp"][i]
  <1>1. /\ seg \in Seq(Images) /\ Len(seg) \in Nat /\ NumChunks \in Nat
        /\ Len(rcvd) \in Nat /\ Len(rcvd) <= NumChunks
        /\ image["secondApp"] \in Sockets!PartImage
    BY StreamsAssumption, NumChunksAssumption, LenProperties
    DEF SocketsInv, Sockets!TypeOK, Sockets!AppParts
  <1>2. ASSUME NEW i \in 1..NumChunks
        PROVE  /\ Sockets!Torn(seg, e, w)[i] \in Sockets!Chunk
               /\ i <= Len(rcvd) => Sockets!Torn(seg, e, w)[i] = image["secondApp"][i]
    <2>1. Sockets!Torn(seg, e, w)[i] =
              CASE i \in Len(rcvd) + 1 .. Len(rcvd) + w -> seg[i - Len(rcvd)]
                [] i \in Len(rcvd) + w + 1 .. Len(rcvd) + e -> Blank
                [] OTHER -> image["secondApp"][i]
      BY SocketsWriteSecondApp DEF Sockets!Torn
    <2>2. image["secondApp"][i] \in Sockets!Chunk
      BY <1>1 DEF Sockets!PartImage
    <2>3. CASE i \in Len(rcvd) + 1 .. Len(rcvd) + w
      <3>1. i - Len(rcvd) \in 1..Len(seg)
        BY <1>1, <2>3
      <3>2. seg[i - Len(rcvd)] \in Images
        BY <1>1, <3>1, ElementOfSeq
      <3>3. Sockets!Torn(seg, e, w)[i] = seg[i - Len(rcvd)]
        BY <1>1, <2>1, <2>3
      <3> QED
        BY <1>1, <2>3, <3>2, <3>3 DEF Sockets!Chunk
    <2>4. CASE i \in Len(rcvd) + w + 1 .. Len(rcvd) + e
      <3>1. Sockets!Torn(seg, e, w)[i] = Blank
        BY <1>1, <2>1, <2>4
      <3> QED
        BY <1>1, <2>4, <3>1 DEF Sockets!Chunk
    <2>5. CASE /\ i \notin Len(rcvd) + 1 .. Len(rcvd) + w
               /\ i \notin Len(rcvd) + w + 1 .. Len(rcvd) + e
      BY <2>1, <2>2, <2>5
    <2> QED
      BY <2>3, <2>4, <2>5
  <1>3. Sockets!Torn(seg, e, w) = [i \in 1..NumChunks |-> Sockets!Torn(seg, e, w)[i]]
    BY DEF Sockets!Torn
  <1>4. \A i \in 1..Len(rcvd) : i \in 1..NumChunks
    BY <1>1
  <1> QED
    BY <1>2, <1>3, <1>4 DEF Sockets!PartImage

\* A write that fails leaves what was received before it.
LEMMA WriteFailed ==
    ASSUME SocketsInv, NEW seg \in Segments, Sockets!WriteFails(seg)
    PROVE  /\ image' \in [Sockets!AppParts -> Sockets!PartImage]
           /\ StreamInv => \A i \in 1..Len(rcvd) : image'["secondApp"][i] = rcvd[i]
  <1>1. /\ \/ UNCHANGED image
           \/ \E e \in 1..Len(seg) : \E w \in 0..e :
                  image' = [image EXCEPT !["secondApp"] = Sockets!Torn(seg, e, w)]
    BY SocketsWriteSecondApp DEF Sockets!WriteFails
  <1>2. /\ Len(rcvd) \in Nat /\ Len(rcvd) <= NumChunks /\ NumChunks \in Nat
        /\ image \in [Sockets!AppParts -> Sockets!PartImage]
        /\ "secondApp" \in Sockets!AppParts
    BY NumChunksAssumption, LenProperties DEF SocketsInv, Sockets!TypeOK, Sockets!AppParts
  <1>3. CASE UNCHANGED image
    BY <1>2, <1>3 DEF StreamInv
  <1>4. ASSUME NEW e \in 1..Len(seg), NEW w \in 0..e,
               image' = [image EXCEPT !["secondApp"] = Sockets!Torn(seg, e, w)]
        PROVE  /\ image' \in [Sockets!AppParts -> Sockets!PartImage]
               /\ StreamInv => \A i \in 1..Len(rcvd) : image'["secondApp"][i] = rcvd[i]
    <2>1. /\ Sockets!Torn(seg, e, w) \in Sockets!PartImage
          /\ \A i \in 1..Len(rcvd) : Sockets!Torn(seg, e, w)[i] = image["secondApp"][i]
      BY TornImage
    <2>2. /\ image' \in [Sockets!AppParts -> Sockets!PartImage]
          /\ image'["secondApp"] = Sockets!Torn(seg, e, w)
      BY <1>2, <1>4, <2>1
    <2> QED
      BY <2>1, <2>2 DEF StreamInv
  <1> QED
    BY <1>1, <1>3, <1>4

\* The steps of the service that write no flash.
LEMMA SocketsUnwritten ==
    ASSUME SocketsInv, HandleInv, HandleInv',
           \/ Sockets!ota_init \/ Sockets!SocketError \/ Sockets!TaskStep
           \/ Sockets!RecvFails \/ Sockets!PeerCloses
           \/ \E d \in Datagrams : Sockets!DatagramArrives(d)
    PROVE  SocketsInv' /\ (StreamInv => StreamInv') /\ UNCHANGED image
  <1>0. /\ rcvd \in Seq(Images) /\ Len(rcvd) \in Nat /\ Len(rcvd) <= NumChunks
        /\ mbox \in Seq(Datagrams) /\ Len(mbox) \in Nat /\ Len(mbox) <= MboxSize
        /\ handles \in Nat /\ handles <= MaxHandles /\ NumChunks \in Nat /\ MaxHandles \in Nat
        /\ MboxSize \in Nat
    BY NumChunksAssumption, HeapAssumption, InvitationsAssumption, LenProperties
    DEF SocketsInv, Sockets!TypeOK
  <1>1. Sockets!TypeOK /\ (held' => handles' > 0 /\ upc' \in {"connect", "stream", "end"})
    BY DEF SocketsInv, HandleInv
  <1>2. <<>> \in Seq(Images) /\ Len(<<>>) = 0 /\ <<>> \in Seq(Datagrams)
    OBVIOUS
  <1>3. CASE Sockets!ota_init
    <2>1. /\ upc = "off" /\ upc' = "recv" /\ g_auth' \in AuthModes
          /\ UNCHANGED <<image, boot, handles, mbox, otaState, rcvd, peer, held>>
      BY <1>3 DEF Sockets!ota_init, Sockets!shared, Sockets!session
    <2>2. announced'.size \in Nat
      <3>1. PICK n \in 0..NumChunks : announced' = [size |-> n, md5 |-> Garbage]
        BY <1>3 DEF Sockets!ota_init
      <3> QED
        BY <1>0, <3>1
    <2> QED
      BY <1>0, <1>1, <2>1, <2>2, InvitationsAssumption
      DEF SocketsInv, Sockets!TypeOK, StreamInv
  <1>4. CASE Sockets!SocketError
    <2>1. /\ upc = "recv" /\ upc' \in {"recv", "dead"} /\ mbox' = <<>>
          /\ UNCHANGED <<image, boot, handles, g_auth, otaState, announced, rcvd, peer, held>>
      BY <1>4 DEF Sockets!SocketError, Sockets!system, Sockets!shared, Sockets!session
    <2> QED
      BY <1>0, <1>1, <1>2, <2>1 DEF SocketsInv, Sockets!TypeOK, StreamInv
  <1>5. ASSUME NEW d \in Datagrams, Sockets!DatagramArrives(d)
        PROVE  SocketsInv' /\ (StreamInv => StreamInv') /\ UNCHANGED image
    <2>1. /\ Len(mbox) < MboxSize /\ mbox' = Append(mbox, d)
          /\ UNCHANGED <<image, boot, handles, g_auth, upc, otaState, announced, rcvd, peer, held>>
      BY <1>5 DEF Sockets!DatagramArrives, Sockets!system, Sockets!shared, Sockets!session
    <2>2. mbox' \in Seq(Datagrams) /\ Len(mbox') <= MboxSize
      BY <1>0, <1>5, <2>1, AppendProperties
    <2> QED
      BY <1>0, <1>1, <2>1, <2>2 DEF SocketsInv, Sockets!TypeOK, StreamInv
  <1>6. CASE Sockets!Invitation \/ Sockets!IgnoredDatagram
    <2>1. /\ upc = "recv" /\ mbox # <<>> /\ mbox' = Tail(mbox)
          /\ upc' \in {upc, "begin"}
          /\ otaState' \in {otaState, "OTA_IDLE", "OTA_WAITAUTH"}
          /\ announced' \in {announced, Sockets!Parsed(Head(mbox))}
          /\ UNCHANGED <<image, boot, handles, g_auth, rcvd, peer, held>>
      BY <1>6
      DEF Sockets!Invitation, Sockets!IgnoredDatagram, Sockets!Recvfrom, Sockets!system,
          Sockets!shared, Sockets!session
    <2>2. mbox' \in Seq(Datagrams) /\ Len(mbox') <= MboxSize /\ Head(mbox) \in Datagrams
      BY <1>0, <2>1, HeadTailProperties
    <2>3. announced'.size \in Nat
      BY <1>1, <2>1, <2>2, InvitationsAssumption
      DEF Sockets!TypeOK, Sockets!Parsed, Sockets!Fields
    <2> QED
      BY <1>0, <1>1, <2>1, <2>2, <2>3 DEF SocketsInv, Sockets!TypeOK, StreamInv
  <1>7. CASE Sockets!OtaBeginFails \/ Sockets!ConnectFails \/ Sockets!Md5Differs
    <2>1. /\ upc' = "recv" /\ otaState' = "OTA_RUNUPDATE" /\ rcvd' = <<>> /\ peer' = "none"
          /\ UNCHANGED <<image, boot, handles, g_auth, mbox, announced>>
      BY <1>7
      DEF Sockets!OtaBeginFails, Sockets!ConnectFails, Sockets!Md5Differs, Sockets!Return,
          Sockets!system, Sockets!shared
    <2> QED
      BY <1>0, <1>1, <1>2, <2>1 DEF SocketsInv, Sockets!TypeOK, StreamInv
  <1>8. CASE \/ Sockets!OtaBegin \/ Sockets!Connect \/ Sockets!RecvZero \/ Sockets!RecvFails
             \/ Sockets!PeerCloses \/ Sockets!OtaEnd \/ Sockets!Md5Matches
    <2>1. /\ UNCHANGED <<image, g_auth, mbox, otaState, announced, rcvd>>
          /\ boot' \in {boot, "secondApp"} /\ peer' \in {peer, "open", "halfClosed", "closed"}
          /\ \/ upc = "begin" /\ upc' = "connect"
             \/ upc' \in {"stream", "end", "check", "restart"}
      BY <1>8, SocketsWriteSecondApp
      DEF Sockets!OtaBegin, Sockets!Connect, Sockets!RecvZero, Sockets!RecvFails,
          Sockets!PeerCloses, Sockets!OtaEnd, Sockets!Md5Matches, Sockets!system,
          Sockets!shared, Sockets!session
    <2>2. handles' \in 0..MaxHandles
      <3>1. \/ handles' = handles
            \/ handles' = handles + 1 /\ handles < MaxHandles
            \/ handles' = handles - 1 /\ held
        BY <1>8
        DEF Sockets!OtaBegin, Sockets!Connect, Sockets!RecvZero, Sockets!RecvFails,
            Sockets!PeerCloses, Sockets!OtaEnd, Sockets!HandlesAfterEnd, Sockets!Md5Matches,
            Sockets!system, Sockets!shared
      <3>2. held => handles >= 1
        BY DEF HandleInv
      <3> QED
        BY <1>0, <3>1, <3>2
    <2>3. boot' \in Sockets!AppParts \cup {NoPart}
      BY <1>1, <2>1 DEF Sockets!TypeOK, Sockets!AppParts
    <2> QED
      BY <1>0, <1>1, <2>1, <2>2, <2>3 DEF SocketsInv, Sockets!TypeOK, StreamInv
  <1> QED
    BY <1>3, <1>4, <1>5, <1>6, <1>7, <1>8 DEF Sockets!TaskStep

\* A session's stream arrives, or the flash refuses it.
LEMMA SocketsWritten ==
    ASSUME SocketsInv, HandleInv, HandleInv', NEW seg \in Segments,
           Sockets!RecvSegment(seg) \/ Sockets!WriteFails(seg)
    PROVE  SocketsInv' /\ (StreamInv => StreamInv')
  <1>1. Sockets!TypeOK /\ (held' => handles' > 0 /\ upc' \in {"connect", "stream", "end"})
    BY DEF SocketsInv, HandleInv
  <1>2. CASE Sockets!RecvSegment(seg)
    <2>1. /\ upc' \in {"stream", "end"}
          /\ UNCHANGED <<boot, handles, g_auth, mbox, otaState, announced, peer>>
      BY <1>2 DEF Sockets!RecvSegment
    <2> QED
      BY <1>1, <1>2, <2>1, SegmentWritten DEF SocketsInv, Sockets!TypeOK, StreamInv
  <1>3. CASE Sockets!WriteFails(seg)
    <2>1. /\ upc = "stream" /\ upc' = "end" /\ handles' = handles - 1
          /\ UNCHANGED <<boot, g_auth, mbox, otaState, announced, rcvd, peer>>
      BY <1>3 DEF Sockets!WriteFails
    <2>2. handles' \in 0..MaxHandles
      BY <1>1, <2>1, HeapAssumption DEF HandleInv, Sockets!TypeOK
    <2> QED
      BY <1>1, <1>3, <2>1, <2>2, WriteFailed DEF SocketsInv, Sockets!TypeOK, StreamInv
  <1> QED
    BY <1>2, <1>3

\* A reset of the service.
LEMMA SocketsReset ==
    ASSUME SocketsInv, Sockets!Reset
    PROVE  SocketsInv' /\ StreamInv' /\ UNCHANGED image
  <1>1. /\ rcvd' = <<>> /\ rcvd' \in Seq(Images) /\ Len(rcvd') = 0
        /\ mbox' \in Seq(Datagrams) /\ Len(mbox') = 0 /\ announced'.size \in Nat
    BY DEF Sockets!Reset
  <1>2. /\ handles' \in 0..MaxHandles /\ Len(rcvd') <= NumChunks /\ Len(mbox') <= MboxSize
    BY <1>1, NumChunksAssumption, HeapAssumption, InvitationsAssumption DEF Sockets!Reset
  <1>3. SocketsInv'
    BY <1>1, <1>2 DEF Sockets!Reset, SocketsInv, Sockets!TypeOK
  <1> QED
    BY <1>1, <1>3 DEF Sockets!Reset, StreamInv

\* The server at work leaves the state of the service alone.
LEMMA SocketsUnchanged ==
    ASSUME SocketsInv, HandleInv', Server!TypeOK', UNCHANGED socketVars
    PROVE  SocketsInv'
  BY
  DEF SocketsInv, Sockets!TypeOK, HandleInv, socketVars, Server!TypeOK, Server!AppParts,
      Sockets!AppParts, Server!PartImage, Sockets!PartImage, Server!Chunk, Sockets!Chunk

\* And the other way round: an upload keeps the handle it has.
LEMMA ServerUnchanged ==
    ASSUME Server!TypeOK, HandleInv', SocketsInv', UNCHANGED serverVars
    PROVE  Server!TypeOK'
  BY
  DEF SocketsInv, Sockets!TypeOK, HandleInv, serverVars, Server!TypeOK, Server!Busy,
      Server!AppParts, Sockets!AppParts, Server!PartImage, Sockets!PartImage, Server!Chunk,
      Sockets!Chunk

\* The types of both, with the handles that each part counts on.
DeviceInv == Server!TypeOK /\ SocketsInv /\ HandleInv

LEMMA DeviceTyped == DeviceInv => TypeOK
  BY DEF DeviceInv, SocketsInv, TypeOK, HandleInv, Server!TypeOK

LEMMA InitDevice == Init => DeviceInv
  <1> SUFFICES ASSUME Init PROVE DeviceInv
    OBVIOUS
  <1>1. Server!TypeOK
    BY ServerInitTypes DEF Init
  <1>2. HandleInv
    BY DEF Init, Server!Init, Sockets!Init, HandleInv, HandlesApart
  <1>3. /\ rcvd = <<>> /\ rcvd \in Seq(Images) /\ Len(rcvd) = 0
        /\ mbox \in Seq(Datagrams) /\ Len(mbox) = 0 /\ announced.size \in Nat
    BY DEF Init, Sockets!Init
  <1>4. Sockets!Whole(Blank) \in Sockets!PartImage
    BY DEF Sockets!Whole, Sockets!PartImage, Sockets!Chunk
  <1>5. /\ handles \in 0..MaxHandles /\ Len(rcvd) <= NumChunks /\ Len(mbox) <= MboxSize
        /\ image \in [Sockets!AppParts -> Sockets!PartImage]
    BY <1>3, <1>4, NumChunksAssumption, HeapAssumption, InvitationsAssumption
    DEF Init, Sockets!Init
  <1>6. SocketsInv
    BY <1>3, <1>5 DEF Init, Sockets!Init, SocketsInv, Sockets!TypeOK
  <1> QED
    BY <1>1, <1>2, <1>6 DEF DeviceInv

LEMMA NextDevice == DeviceInv /\ [Next]_vars => DeviceInv'
  <1> SUFFICES ASSUME DeviceInv, [Next]_vars PROVE DeviceInv'
    OBVIOUS
  <1>0. Server!TypeOK /\ SocketsInv /\ HandleInv /\ HandleInv'
    BY NextHandles DEF DeviceInv
  <1>1. CASE PowerLoss \/ Restart
    <2>1. Server!Reset /\ Sockets!Reset
      BY <1>1
      DEF PowerLoss, Restart, Server!PowerLoss, Server!restart_execute_handle,
          Sockets!Restart
    <2> QED
      BY <1>0, <2>1, ServerResetTypes, SocketsReset DEF DeviceInv
  <1>2. CASE Bootloader \/ httpd_task \/ (Server!start_ota_file_server /\ UNCHANGED socketVars)
    <2>1. Server!Next /\ UNCHANGED socketVars
      BY <1>2 DEF Bootloader, httpd_task, Server!Next
    <2>2. Server!TypeOK'
      BY <1>0, <2>1, ServerNextTypes
    <2> QED
      BY <1>0, <2>1, <2>2, SocketsUnchanged DEF DeviceInv
  <1>3. CASE \/ udp_server_task
             \/ pc \notin {"off", "start"} /\ Sockets!ota_init /\ UNCHANGED serverVars
    <2>1. UNCHANGED serverVars
      BY <1>3 DEF udp_server_task
    <2>2. SocketsInv'
      BY <1>0, <1>3, SocketsUnwritten, SocketsWritten
      DEF udp_server_task, Sockets!OtaStep, Sockets!PeerStep
    <2> QED
      BY <1>0, <2>1, <2>2, ServerUnchanged DEF DeviceInv
  <1>4. CASE UNCHANGED vars
    <2>1. UNCHANGED socketVars /\ Server!TypeOK'
      BY <1>0, <1>4 DEF vars, shared, serverVars, socketVars, Server!TypeOK
    <2> QED
      BY <1>0, <2>1, SocketsUnchanged DEF DeviceInv
  <1> QED
    BY <1>1, <1>2, <1>3, <1>4 DEF Next, app_main

LEMMA DeviceInvAlways == Spec => []DeviceInv
  BY InitDevice, NextDevice, PTL DEF Spec

\* The variables of both parts keep their types, and neither part brings those of
\* the other out of step with where it is: an upload or a session that goes on
\* always finds the handle it began with, and the heap's bound is kept.
THEOREM DeviceTypes == Spec => []TypeOK
  BY DeviceInvAlways, DeviceTyped, PTL

-----------------------------------------------------------------------------
(* What the MD5 is worth.                                                     *)

\* The server is asked for other partitions than secondApp only.
ServerApart ==
    /\ "secondApp" \notin UploadTargets \cup EraseTargets
    /\ \A mentioned \in NameMentions : "secondApp" \notin mentioned

\* No handler works on secondApp, so the stream stays what the partition holds.
ApartInv ==
    /\ DeviceInv /\ StreamInv
    /\ pc \in Server!Busy => req.part # "secondApp"

\* The request a handler starts with, or goes on with.
LEMMA RequestsApart ==
    ASSUME ServerApart, ApartInv, Server!Next
    PROVE  pc' \in Server!Busy => req'.part # "secondApp"
  <1>1. ASSUME NEW asked \in UploadTargets, NEW mentioned \in NameMentions,
               NEW f \in Images, NEW n \in BodyLens,
               Server!upload_post_handler(asked, mentioned, f, n)
        PROVE  req'.part # "secondApp"
    <2>1. {asked} \cup mentioned \in SUBSET Server!PartNames /\ {asked} \cup mentioned # {}
      BY <1>1, ServerParts
    <2>2. Server!server_get_partition_name({asked} \cup mentioned) \in {asked} \cup mentioned
      BY <2>1, FirstInMember DEF Server!server_get_partition_name
    <2>3. req'.part = Server!server_get_partition_name({asked} \cup mentioned)
      BY <1>1 DEF Server!upload_post_handler
    <2> QED
      BY <1>1, <2>2, <2>3 DEF ServerApart
  <1>2. ASSUME NEW p \in EraseTargets, Server!erase_post_handler(p), pc' # "idle"
        PROVE  req'.part # "secondApp"
    <2>1. req'.part = p
      BY <1>2 DEF Server!erase_post_handler, Server!Answer
    <2> QED
      BY <1>2, <2>1 DEF ServerApart
  <1>3. CASE \/ Server!BadRequest
             \/ \E p \in UploadTargets \cap Server!AppParts : Server!run_post_handler(p)
    BY <1>3 DEF Server!BadRequest, Server!run_post_handler, Server!Answer, Server!Busy
  <1>4. CASE Server!HandlerStep
    <2>1. pc \in Server!Busy /\ (UNCHANGED req \/ pc' = "idle")
      BY <1>4
      DEF Server!HandlerStep, Server!KeyErase, Server!KeyWrite, Server!KeyDataFails,
          Server!AfterSave, Server!OtaBeginFails, Server!TooLarge, Server!OtaBegin,
          Server!RecvStall, Server!RecvTimeout, Server!RecvError, Server!RecvChunk,
          Server!OtaWriteFails, Server!OtaEnd, Server!SetBoot, Server!EraseChunk,
          Server!EraseFails, Server!EraseDone, Server!Receiving, Server!Finish, Server!task,
          Server!Busy
    <2> QED
      BY <2>1 DEF ApartInv, Server!Busy
  <1>5. CASE \/ Server!PowerLoss \/ Server!restart_execute_handle
             \/ Server!start_ota_file_server
             \/ \E pin \in BOOLEAN : Server!Bootloader(pin)
    BY <1>5
    DEF Server!PowerLoss, Server!restart_execute_handle, Server!start_ota_file_server,
        Server!Bootloader, Server!Reset, Server!RamLost, Server!Busy
  <1> QED
    BY <1>1, <1>2, <1>3, <1>4, <1>5 DEF Server!Next, Server!Request, Server!Busy

\* No step of the server writes secondApp.
LEMMA SecondAppKept ==
    ASSUME ApartInv, Server!Next
    PROVE  image'["secondApp"] = image["secondApp"]
  <1>1. CASE Server!RecvChunk \/ Server!OtaWriteFails \/ Server!EraseChunk
    <2>1. pc \in Server!Busy /\ req.part # "secondApp"
      BY <1>1
      DEF ApartInv, Server!RecvChunk, Server!OtaWriteFails, Server!EraseChunk,
          Server!Receiving, Server!Busy
    <2>2. \E c : image' \in {image, [image EXCEPT ![req.part][got + 1] = c]}
      BY <1>1 DEF Server!RecvChunk, Server!OtaWriteFails, Server!EraseChunk
    <2>3. image \in [Server!AppParts -> Server!PartImage] /\ "secondApp" \in Server!AppParts
      BY DEF ApartInv, DeviceInv, Server!TypeOK, Server!AppParts
    <2> QED
      BY <2>1, <2>2, <2>3
  <1>2. CASE ~(Server!RecvChunk \/ Server!OtaWriteFails \/ Server!EraseChunk)
    <2>1. UNCHANGED image
      BY <1>2
      DEF Server!Next, Server!Request, Server!HandlerStep, Server!KeyErase, Server!KeyWrite,
          Server!KeyDataFails, Server!OtaBeginFails, Server!TooLarge, Server!OtaBegin,
          Server!RecvStall, Server!RecvTimeout, Server!RecvError, Server!OtaEnd,
          Server!SetBoot, Server!EraseFails, Server!EraseDone, Server!flash,
          Server!PowerLoss, Server!restart_execute_handle, Server!Reset,
          Server!start_ota_file_server, Server!Bootloader, Server!BadRequest, Server!Answer,
          Server!upload_post_handler, Server!run_post_handler, Server!erase_post_handler
    <2> QED
      BY <2>1
  <1> QED
    BY <1>1, <1>2

LEMMA NextApart ==
    ASSUME ServerApart, ApartInv, [Next]_vars
    PROVE  ApartInv'
  <1>0. DeviceInv /\ DeviceInv' /\ StreamInv /\ SocketsInv /\ HandleInv /\ HandleInv'
    BY NextDevice DEF ApartInv, DeviceInv
  <1>1. CASE PowerLoss \/ Restart
    <2>1. Sockets!Reset /\ pc' = "off"
      BY <1>1
      DEF PowerLoss, Restart, Server!PowerLoss, Server!restart_execute_handle,
          Sockets!Restart, Server!Reset, Server!RamLost
    <2> QED
      BY <1>0, <2>1, SocketsReset DEF ApartInv, Server!Busy
  <1>2. CASE Bootloader \/ httpd_task \/ (Server!start_ota_file_server /\ UNCHANGED socketVars)
    <2>1. Server!Next /\ UNCHANGED <<rcvd, upc>>
      BY <1>2 DEF Bootloader, httpd_task, Server!Next, socketVars
    <2> QED
      BY <1>0, <2>1, RequestsApart, SecondAppKept DEF ApartInv, StreamInv
  <1>3. CASE \/ udp_server_task
             \/ pc \notin {"off", "start"} /\ Sockets!ota_init /\ UNCHANGED serverVars
    <2>1. UNCHANGED <<pc, req>>
      BY <1>3 DEF udp_server_task, serverVars
    <2>2. StreamInv'
      BY <1>0, <1>3, SocketsUnwritten, SocketsWritten
      DEF udp_server_task, Sockets!OtaStep, Sockets!PeerStep
    <2> QED
      BY <1>0, <2>1, <2>2 DEF ApartInv
  <1>4. CASE UNCHANGED vars
    BY <1>0, <1>4 DEF vars, shared, serverVars, socketVars, ApartInv, StreamInv
  <1> QED
    BY <1>1, <1>2, <1>3, <1>4 DEF Next, app_main

\* A selection in which the service tells that the MD5 matched.
LEMMA CheckedSelection ==
    ASSUME ApartInv, Next, upc = "check", upc' = "restart", boot' # boot
    PROVE  /\ announced.md5 # Garbage
           /\ \A i \in 1..Len(announced.md5) : image[boot'][i] = announced.md5[i]
  <1>1. Sockets!Md5Matches
    BY
    DEF Next, PowerLoss, Restart, Bootloader, app_main, httpd_task, udp_server_task,
        socketVars, Sockets!Reset, Sockets!Restart, Sockets!ota_init, Sockets!OtaStep,
        Sockets!TaskStep, Sockets!PeerStep, Sockets!DatagramArrives, Sockets!SocketError,
        Sockets!Invitation, Sockets!IgnoredDatagram, Sockets!Recvfrom,
        Sockets!OtaBeginFails, Sockets!OtaBegin, Sockets!ConnectFails, Sockets!Connect,
        Sockets!RecvZero, Sockets!OtaEnd, Sockets!Md5Differs, Sockets!RecvSegment,
        Sockets!WriteFails, Sockets!RecvFails, Sockets!PeerCloses, Sockets!Return
  <1>2. boot' = "secondApp" /\ rcvd = announced.md5
    BY <1>1, SocketsWriteSecondApp DEF Sockets!Md5Matches, Sockets!Md5Ok
  <1>3. rcvd \in Seq(Images) /\ StreamInv
    BY DEF ApartInv, DeviceInv, SocketsInv
  <1> QED
    BY <1>2, <1>3, StreamsAssumption DEF StreamInv

\* When clients do not have the server write secondApp, the firmware that the
\* service selects to boot is the one whose MD5 was announced: no other step of
\* the server, failed session or restart comes between the stream and the check.
\* (When they do, finding_md5_race shows that it need not be.)
THEOREM Md5CheckedWhenApart ==
    ASSUME ServerApart
    PROVE  Spec => Md5CheckedBoots
  <1> DEFINE Selected == upc = "check" /\ upc' = "restart" /\ boot' # boot
             Checked == /\ announced.md5 # Garbage
                        /\ \A i \in 1..Len(announced.md5) : image[boot'][i] = announced.md5[i]
  <1>1. Init => ApartInv
    <2>1. ASSUME Init PROVE StreamInv /\ pc = "off"
      <3>1. rcvd = <<>> /\ Len(rcvd) = 0 /\ pc = "off"
        BY <2>1 DEF Init, Server!Init, Sockets!Init
      <3> QED
        BY <3>1 DEF StreamInv
    <2> QED
      BY <2>1, InitDevice DEF ApartInv, Server!Busy
  <1>2. ApartInv /\ [Next]_vars => ApartInv'
    BY NextApart
  <1>3. ApartInv /\ [Next]_vars => [Selected => Checked]_vars
    <2> SUFFICES ASSUME ApartInv, Next, Selected PROVE Checked
      BY DEF vars
    <2> QED
      BY CheckedSelection
  <1> QED
    BY <1>1, <1>2, <1>3, PTL DEF Spec, Md5CheckedBoots
=============================================================================
