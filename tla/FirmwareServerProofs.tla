------------------------ MODULE FirmwareServerProofs ------------------------
(* Theorems about FirmwareServer, for any number of chunks and any set of    *)
(* firmwares.                                                                *)
EXTENDS FirmwareServer, TLAPS

-----------------------------------------------------------------------------
\* FirstIn() chooses a member of any non-empty set of partition names, and none of
\* them is tested before it.
LEMMA FirstInMember ==
    ASSUME NEW S \in SUBSET PartNames, S # {}
    PROVE  FirstIn(S) \in S /\ \A q \in S : SearchOrder[FirstIn(S)] <= SearchOrder[q]
<1>1. \E p \in S : \A q \in S : SearchOrder[p] <= SearchOrder[q]
  <2>1. CASE "app" \in S
    BY <2>1 DEF PartNames, AppParts, SearchOrder
  <2>2. CASE "app" \notin S /\ "secondApp" \in S
    BY <2>2 DEF PartNames, AppParts, SearchOrder
  <2>3. CASE "app" \notin S /\ "secondApp" \notin S /\ "flashApp" \in S
    BY <2>3 DEF PartNames, AppParts, SearchOrder
  <2>4. CASE S = {"nvs"}
    BY <2>4 DEF SearchOrder
  <2> QED
    BY <2>1, <2>2, <2>3, <2>4 DEF PartNames, AppParts
<1> QED
  BY <1>1 DEF FirstIn

\* start_ota_file_server() selects a partition whose record is valid, or none.
LEMMA NextRunPartition ==
    ASSUME NEW rec
    PROVE  \/ next_run_partition(rec) = NoPart
           \/ /\ next_run_partition(rec) \in AppParts
              /\ Valid(rec[next_run_partition(rec)])
<1> DEFINE valid == {p \in AppParts : Valid(rec[p])}
<1>1. CASE valid = {}
  BY <1>1 DEF next_run_partition
<1>2. CASE valid # {}
  <2>1. FirstIn(valid) \in valid
    BY <1>2, FirstInMember DEF PartNames
  <2> QED
    BY <1>2, <2>1 DEF next_run_partition
<1> QED
  BY <1>1, <1>2

\* The boot loader starts factory or a candidate, and the selected partition
\* itself when its image verifies.
LEMMA BootedFromRange ==
    ASSUME NEW img, NEW b \in AppParts \cup {NoPart}
    PROVE  /\ BootedFrom(img, b) \in {"factory"} \cup Candidates(img, b)
           /\ b \in Candidates(img, b) => BootedFrom(img, b) = b
<1> DEFINE C == Candidates(img, b)
<1>1. CASE C = {}
  BY <1>1 DEF BootedFrom
<1>2. CASE C # {}
  <2>1. C \subseteq AppParts /\ b # NoPart
    BY <1>2 DEF Candidates
  <2>2. \E p \in C : \A q \in C : Slot[q] <= Slot[p]
    <3>1. CASE "secondApp" \in C
      BY <2>1, <3>1 DEF AppParts, Slot
    <3>2. CASE "secondApp" \notin C /\ "flashApp" \in C
      BY <2>1, <3>2 DEF AppParts, Slot
    <3>3. CASE C = {"app"}
      BY <3>3 DEF Slot
    <3> QED
      BY <1>2, <2>1, <3>1, <3>2, <3>3 DEF AppParts
  <2>3. BootedFrom(img, b) = CHOOSE p \in C : \A q \in C : Slot[q] <= Slot[p]
    BY <1>2, <2>1 DEF BootedFrom, Candidates
  <2>4. /\ BootedFrom(img, b) \in C
        /\ \A q \in C : Slot[q] <= Slot[BootedFrom(img, b)]
    BY <2>2, <2>3
  <2>5. ASSUME b \in C PROVE BootedFrom(img, b) = b
    <3>1. BootedFrom(img, b) \in AppParts /\ b \in AppParts
      BY <2>1, <2>4, <2>5
    <3>2. Slot[BootedFrom(img, b)] <= Slot[b]
      BY <2>1, <2>4 DEF Candidates
    <3>3. Slot[b] <= Slot[BootedFrom(img, b)]
      BY <2>4, <2>5
    <3> QED
      BY <3>1, <3>2, <3>3 DEF AppParts, Slot
  <2> QED
    BY <2>4, <2>5
<1> QED
  BY <1>1, <1>2

-----------------------------------------------------------------------------
\* What a handler leaves behind when it returns.
LEMMA FinishTypes ==
    ASSUME TypeOK, pc \in Busy,
           NEW what \in {"uploaded", "failed", "timeout", "erased"}, Finish(what)
    PROVE  /\ pc' = "idle" /\ req' = NoReq
           /\ got' = 0 /\ stalls' = 0 /\ reply' \in Replies
BY DEF TypeOK, Finish, Requests, Replies, Reply, PartNames

LEMMA NoReqType == NoReq \in Requests /\ NoReply \in Replies /\ NoRecord \in Record
BY DEF NoReq, Requests, NoReply, Replies, Reply, NoRecord, Record, Chunk

\* The initial states are typed.
LEMMA InitTypes == Init => TypeOK
<1>1. Whole(Blank) \in PartImage
  BY DEF Whole, PartImage, Chunk
<1> QED
  BY <1>1, NoReqType, MaxHandlesAssumption, NumChunksAssumption
  DEF Init, TypeOK, Busy, NoReq

\* A reset leaves RAM empty.
LEMMA ResetTypes ==
    ASSUME TypeOK, Reset
    PROVE  TypeOK'
BY NoReqType, MaxHandlesAssumption DEF TypeOK, Reset, RamLost, flash, Busy, NoReq

\* What the server starts with: the boot selection and the saved records, those
\* that could not be read being lost.
LEMMA ServerStarts ==
    ASSUME TypeOK, start_ota_file_server
    PROVE  /\ pc = "start" /\ UNCHANGED <<image, sector>>
           /\ boot' \in AppParts \cup {NoPart}
           /\ \/ /\ pc' = "idle" /\ UNCHANGED <<handles, running, task, reply>>
                 /\ info' \in [AppParts -> Record]
                 /\ \A p \in AppParts : info'[p] \in {sector[p], NoRecord}
                 /\ ~KeyDataMayFail => info' = sector
              \/ RamLost
<1>1. PICK lost \in IF KeyDataMayFail THEN SUBSET AppParts ELSE {{}} :
        /\ \/ boot' = next_run_partition(ReadRecords(lost))
           \/ UNCHANGED boot
        /\ \/ /\ info' = ReadRecords(lost)
              /\ pc' = "idle"
              /\ UNCHANGED <<handles, running, task, reply>>
           \/ RamLost
  BY DEF start_ota_file_server
<1>2. /\ ReadRecords(lost) \in [AppParts -> Record]
      /\ \A p \in AppParts : ReadRecords(lost)[p] \in {sector[p], NoRecord}
  BY NoReqType DEF ReadRecords, TypeOK
<1>3. ~KeyDataMayFail => ReadRecords(lost) = sector
  BY <1>1 DEF ReadRecords, TypeOK
<1>4. boot' \in AppParts \cup {NoPart}
  BY <1>1, NextRunPartition DEF TypeOK
<1> QED
  BY <1>1, <1>2, <1>3, <1>4 DEF start_ota_file_server

\* Every step keeps the types.
LEMMA NextTypes ==
    ASSUME TypeOK, [Next]_vars
    PROVE  TypeOK'
<1> USE DEF TypeOK, flash, task
<1>1. CASE PowerLoss \/ restart_execute_handle
  BY <1>1, ResetTypes DEF PowerLoss, restart_execute_handle
<1>2. ASSUME NEW pin \in BOOLEAN, Bootloader(pin) PROVE TypeOK'
  <2>1. boot' \in AppParts \cup {NoPart}
    BY <1>2 DEF Bootloader
  <2>2. BootedFrom(image, boot') \in {"factory"} \cup AppParts
    BY <2>1, BootedFromRange DEF Candidates
  <2> QED
    BY <1>2, <2>1, <2>2 DEF Bootloader, Busy, AppParts
<1>3. CASE start_ota_file_server
  <2>1. CASE RamLost
    BY <1>3, <2>1, ServerStarts, NoReqType, MaxHandlesAssumption DEF RamLost, Busy, NoReq
  <2>2. CASE ~RamLost
    BY <1>3, <2>2, ServerStarts DEF Busy
  <2> QED
    BY <2>1, <2>2
<1>4. CASE BadRequest
  BY <1>4 DEF BadRequest, Answer, Reply, Replies, Chunk, Busy
<1>5. ASSUME NEW asked \in UploadTargets, NEW mentioned \in NameMentions,
             NEW f \in Images, NEW n \in BodyLens,
             upload_post_handler(asked, mentioned, f, n)
      PROVE  TypeOK'
  <2>1. req' \in Requests
    BY <1>5, TargetsAssumption, BodyLensAssumption
    DEF upload_post_handler, Requests, Chunk
  <2>2. info' \in [AppParts -> Record]
    BY <1>5 DEF upload_post_handler, Record, Invalidated
  <2> QED
    BY <1>5, <2>1, <2>2, NoReqType, NoPartAssumption DEF upload_post_handler, Busy
<1>6. ASSUME NEW p \in UploadTargets \cap AppParts, run_post_handler(p) PROVE TypeOK'
  BY <1>6 DEF run_post_handler, Answer, Reply, Replies, PartNames, Chunk, Record, Busy
<1>7. ASSUME NEW p \in EraseTargets, erase_post_handler(p) PROVE TypeOK'
  <2>1. CASE reply' # NoReply
    <3>1. \E what \in {"erased", "failed"} : Answer(what, p, Blank) /\ UNCHANGED boot
      BY <1>7, <2>1 DEF erase_post_handler
    <3>2. p \in PartNames
      BY TargetsAssumption
    <3> QED
      BY <1>7, <3>1, <3>2 DEF erase_post_handler, Answer, Reply, Replies, Chunk, Busy
  <2>2. CASE reply' = NoReply
    <3>1. CASE pc' = "eraseImage"
      BY <1>7, <2>2, <3>1, NoReqType, NoPartAssumption, NumChunksAssumption
      DEF erase_post_handler, Answer, Reply, NoReply, Requests, PartNames, Chunk, Busy, NoReq
    <3>2. CASE pc' # "eraseImage"
      BY <1>7, <2>2, <3>2 DEF erase_post_handler, Answer, Reply, NoReply
    <3> QED
      BY <3>1, <3>2
  <2> QED
    BY <2>1, <2>2
<1>8. CASE KeyErase \/ KeyWrite \/ KeyDataFails
  <2>1. sector' \in [AppParts -> Record]
    BY <1>8, NoReqType DEF KeyErase, KeyWrite, KeyDataFails, SavedSector, Busy, AppParts
  <2>2. CASE KeyErase
    BY <2>1, <2>2 DEF KeyErase, Busy
  <2>3. CASE KeyWrite \/ KeyDataFails
    <3>1. pc \in Busy /\ AfterSave /\ UNCHANGED <<image, boot, info, handles, running>>
      BY <2>3 DEF KeyWrite, KeyDataFails, Busy
    <3>2. CASE req.op = "upload" /\ ~Valid(info[req.part])
      BY <2>1, <3>1, <3>2 DEF AfterSave, Busy
    <3>3. CASE ~(req.op = "upload" /\ ~Valid(info[req.part]))
      <4>1. \E what \in {"uploaded", "erased"} : Finish(what)
        BY <3>1, <3>3 DEF AfterSave
      <4> QED
        BY <2>1, <3>1, <4>1, FinishTypes, NoReqType DEF Busy, NoReq
    <3> QED
      BY <3>2, <3>3
  <2> QED
    BY <1>8, <2>2, <2>3
<1>9. CASE OtaBeginFails \/ RecvTimeout \/ EraseFails
  <2>1. pc \in Busy /\ \E what \in {"failed", "timeout"} : Finish(what)
    BY <1>9 DEF OtaBeginFails, RecvTimeout, EraseFails, Receiving, Busy
  <2> QED
    BY <1>9, <2>1, FinishTypes, NoReqType
    DEF OtaBeginFails, RecvTimeout, EraseFails, Busy, NoReq
<1>10. CASE TooLarge
  BY <1>10, FinishTypes, NoReqType, MaxHandlesAssumption DEF TooLarge, Busy, NoReq
<1>11. CASE OtaBegin
  BY <1>11, MaxHandlesAssumption DEF OtaBegin, Busy, Requests
<1>12. CASE RecvStall
  BY <1>12 DEF RecvStall, Receiving, Busy
<1>13. CASE RecvError
  BY <1>13, FinishTypes, NoReqType, MaxHandlesAssumption
  DEF RecvError, Receiving, Busy, NoReq
<1>14. CASE RecvChunk
  <2>1. image' \in [AppParts -> PartImage]
    BY <1>14 DEF RecvChunk, Receiving, PartImage, Requests, Busy
  <2> QED
    BY <1>14, <2>1, NumChunksAssumption DEF RecvChunk, Receiving, Busy, Requests
<1>15. CASE OtaWriteFails
  <2>1. image' \in [AppParts -> PartImage]
    <3>1. CASE UNCHANGED image
      BY <3>1
    <3>2. CASE image' = [image EXCEPT ![req.part][got + 1] = Blank]
      BY <3>2 DEF PartImage, Chunk
    <3> QED
      BY <1>15, <3>1, <3>2 DEF OtaWriteFails
  <2> QED
    BY <1>15, <2>1, FinishTypes, NoReqType, MaxHandlesAssumption
    DEF OtaWriteFails, Receiving, Busy, NoReq
<1>16. CASE OtaEnd
  BY <1>16, FinishTypes, NoReqType, MaxHandlesAssumption DEF OtaEnd, Busy, NoReq
<1>17. CASE SetBoot
  BY <1>17, FinishTypes, NoReqType DEF SetBoot, Busy, NoReq, Record, Requests
<1>18. CASE EraseChunk
  <2>1. image' \in [AppParts -> PartImage]
    BY <1>18 DEF EraseChunk, PartImage, Chunk
  <2> QED
    BY <1>18, <2>1, NumChunksAssumption DEF EraseChunk, Busy
<1>19. CASE EraseDone
  BY <1>19 DEF EraseDone, Record, Invalidated, Busy
<1>20. CASE UNCHANGED vars
  BY <1>20 DEF vars
<1> QED
  BY <1>1, <1>2, <1>3, <1>4, <1>5, <1>6, <1>7, <1>8, <1>9, <1>10, <1>11, <1>12,
     <1>13, <1>14, <1>15, <1>16, <1>17, <1>18, <1>19, <1>20
  DEF Next, Request, HandlerStep

\* The variables keep their types, and pc, running and the request agree.
THEOREM TypeCorrect == Spec => []TypeOK
<1>1. Init => TypeOK
  BY InitTypes
<1>2. TypeOK /\ [Next]_vars => TypeOK'
  BY NextTypes
<1> QED
  BY <1>1, <1>2, PTL DEF Spec

-----------------------------------------------------------------------------
(* NeverMisdescribes is not inductive: that an upload's chunks cannot make a *)
(* record wrong is due to the records having been invalidated before, and    *)
(* that the record saved at the end is right is due to the chunks received.  *)

\* Valid records describe their partitions, in flash and in RAM.
RecordsDescribe ==
    \A p \in AppParts :
        /\ Valid(sector[p]) => RemainsOf(sector[p].fw, image[p])
        /\ Valid(info[p]) => RemainsOf(info[p].fw, image[p])

\* What a handler has established when it is at pc.
HandlerKnows ==
    /\ pc \in {"begin", "recv", "setBoot"} =>
            req.op = "upload" /\ ~Valid(info[req.part]) /\ ~Valid(sector[req.part])
    /\ pc = "recv" => \A i \in 1..got : image[req.part][i] = req.fw
    /\ pc = "setBoot" => image[req.part] = Whole(req.fw)
    /\ pc = "eraseImage" => req.op = "erase"
    /\ pc \in {"keyErase", "keyWrite"} =>
            req.op = "upload" \/ ~Valid(info[req.part])

IInv == TypeOK /\ RecordsDescribe /\ HandlerKnows

\* A firmware's remains stay its remains when a chunk is erased.
LEMMA EraseKeepsRemains ==
    ASSUME NEW f, NEW img \in PartImage, RemainsOf(f, img), NEW k
    PROVE  RemainsOf(f, [img EXCEPT ![k] = Blank])
BY DEF RemainsOf, PartImage

\* A complete firmware is its own remains.
LEMMA WholeRemains == ASSUME NEW f PROVE RemainsOf(f, Whole(f))
BY DEF RemainsOf, Whole

\* An image that verifies and starts with a chunk of f is the whole of f.
LEMMA VerifiesWhole ==
    ASSUME NEW f, NEW img, Verifies(img), img[1] = f
    PROVE  img = Whole(f)
<1>1. PICK g \in Bootable : img = Whole(g)
  BY DEF Verifies
<1>2. img[1] = g
  BY <1>1, NumChunksAssumption DEF Whole
<1> QED
  BY <1>1, <1>2

\* A handler that returns knows nothing any more.
LEMMA FinishKnows ==
    ASSUME NEW what, Finish(what)
    PROVE  HandlerKnows'
BY DEF Finish, HandlerKnows

LEMMA InitIInv == Init => IInv
BY InitTypes DEF Init, IInv, RecordsDescribe, HandlerKnows, Valid, NoRecord

\* Steps that touch neither a record nor an image keep the records right.
LEMMA UntouchedDescribe ==
    ASSUME RecordsDescribe, UNCHANGED <<image, sector, info>>
    PROVE  RecordsDescribe'
BY DEF RecordsDescribe

\* Every step keeps the inductive invariant when key_data can be written.
LEMMA NextIInv ==
    ASSUME IInv, [Next]_vars, KeyDataMayFail = FALSE
    PROVE  IInv'
<1>1. TypeOK'
  BY NextTypes DEF IInv
<1>2. TypeOK /\ RecordsDescribe /\ HandlerKnows
  BY DEF IInv
<1>3. pc \in Busy => req.part \in AppParts
  BY <1>2 DEF TypeOK, Requests
<1> SUFFICES RecordsDescribe' /\ HandlerKnows'
  BY <1>1 DEF IInv
<1>4. CASE PowerLoss \/ restart_execute_handle
  BY <1>2, <1>4
  DEF PowerLoss, restart_execute_handle, Reset, RamLost, flash, RecordsDescribe,
      HandlerKnows, Valid, NoRecord
<1>5. CASE \E pin \in BOOLEAN : Bootloader(pin)
  <2>1. UNCHANGED <<image, sector, info>> /\ pc' \in {"start", "off"}
    BY <1>5 DEF Bootloader
  <2> QED
    BY <1>2, <2>1, UntouchedDescribe DEF HandlerKnows
<1>6. CASE start_ota_file_server
  <2>1. CASE RamLost
    BY <1>2, <1>6, <2>1, ServerStarts
    DEF RamLost, RecordsDescribe, HandlerKnows, Valid, NoRecord
  <2>2. CASE ~RamLost
    BY <1>2, <1>6, <2>2, ServerStarts DEF RecordsDescribe, HandlerKnows
  <2> QED
    BY <2>1, <2>2
<1>7. CASE BadRequest
  BY <1>2, <1>7, UntouchedDescribe DEF BadRequest, Answer, HandlerKnows
<1>8. ASSUME NEW asked \in UploadTargets, NEW mentioned \in NameMentions,
             NEW f \in Images, NEW n \in BodyLens,
             upload_post_handler(asked, mentioned, f, n)
      PROVE  RecordsDescribe' /\ HandlerKnows'
  <2> DEFINE p == server_get_partition_name({asked} \cup mentioned)
  <2>1. /\ p \in AppParts /\ info' = [info EXCEPT ![p] = Invalidated(@)]
        /\ UNCHANGED <<image, sector>>
        /\ pc' = "keyErase" /\ req'.op = "upload" /\ req'.part = p
    BY <1>8 DEF upload_post_handler
  <2>2. ~Valid(info'[p])
    BY <1>2, <2>1 DEF TypeOK, Record, Valid, Invalidated
  <2> QED
    BY <1>2, <2>1, <2>2 DEF TypeOK, RecordsDescribe, HandlerKnows
<1>9. CASE \E p \in UploadTargets \cap AppParts : run_post_handler(p)
  <2>1. UNCHANGED <<image, sector, info, pc>> /\ pc = "idle"
    BY <1>9 DEF run_post_handler, Answer
  <2> QED
    BY <1>2, <2>1, UntouchedDescribe DEF HandlerKnows
<1>10. CASE \E p \in EraseTargets : erase_post_handler(p)
  <2>1. /\ UNCHANGED <<image, sector, info>>
        /\ pc' = "idle" \/ (pc' = "eraseImage" /\ req'.op = "erase")
    BY <1>10 DEF erase_post_handler, Answer, flash
  <2> QED
    BY <1>2, <2>1, UntouchedDescribe DEF HandlerKnows
<1>11. CASE KeyErase
  <2>1. RecordsDescribe'
    BY <1>2, <1>11 DEF KeyErase, TypeOK, RecordsDescribe, Valid, NoRecord
  <2>2. HandlerKnows'
    BY <1>2, <1>11 DEF KeyErase, HandlerKnows, task
  <2> QED
    BY <2>1, <2>2
<1>12. CASE KeyWrite
  <2>1. /\ pc = "keyWrite" /\ UNCHANGED <<image, info>> /\ AfterSave
        /\ sector' = [sector EXCEPT ![SavedSector(req)] = info[req.part]]
    BY <1>12 DEF KeyWrite
  <2>2. SavedSector(req) \in AppParts
    BY <1>3, <2>1 DEF SavedSector, AppParts, Busy
  <2>3. \A p \in AppParts :
           sector'[p] = IF p = SavedSector(req) THEN info[req.part] ELSE sector[p]
    BY <1>2, <2>1 DEF TypeOK
  <2>4. Valid(info[req.part]) => SavedSector(req) = req.part
    BY <1>2, <2>1 DEF HandlerKnows, SavedSector
  <2>5. RecordsDescribe'
    BY <1>2, <2>1, <2>2, <2>3, <2>4 DEF RecordsDescribe
  <2>6. HandlerKnows'
    <3>1. CASE req.op = "upload" /\ ~Valid(info[req.part])
      <4>1. SavedSector(req) = req.part /\ pc' = "begin" /\ UNCHANGED req
        BY <2>1, <3>1 DEF AfterSave, SavedSector, task
      <4> QED
        BY <2>1, <2>2, <2>3, <3>1, <4>1 DEF HandlerKnows
    <3>2. CASE ~(req.op = "upload" /\ ~Valid(info[req.part]))
      BY <2>1, <3>2, FinishKnows DEF AfterSave
    <3> QED
      BY <3>1, <3>2
  <2> QED
    BY <2>5, <2>6
<1>13. CASE KeyDataFails
  BY <1>13 DEF KeyDataFails
<1>14. CASE OtaBeginFails \/ TooLarge \/ RecvTimeout \/ RecvError \/ EraseFails
  <2>1. UNCHANGED <<image, sector, info>> /\ \E what \in {"failed", "timeout"} : Finish(what)
    BY <1>14 DEF OtaBeginFails, TooLarge, RecvTimeout, RecvError, EraseFails, flash
  <2> QED
    BY <1>2, <2>1, UntouchedDescribe, FinishKnows
<1>15. CASE OtaBegin
  BY <1>2, <1>15, UntouchedDescribe DEF OtaBegin, HandlerKnows, flash
<1>16. CASE RecvStall
  BY <1>2, <1>16, UntouchedDescribe DEF RecvStall, Receiving, HandlerKnows, flash
<1>17. CASE RecvChunk
  <2>1. /\ pc = "recv" /\ UNCHANGED <<sector, info, pc, req>> /\ got' = got + 1
        /\ image' = [image EXCEPT ![req.part][got + 1] = req.fw]
    BY <1>17 DEF RecvChunk, Receiving
  <2>2. req.part \in AppParts /\ ~Valid(info[req.part]) /\ ~Valid(sector[req.part])
    BY <1>2, <1>3, <2>1 DEF HandlerKnows, Busy
  <2>3. RecordsDescribe'
    BY <1>2, <2>1, <2>2 DEF RecordsDescribe, TypeOK
  <2>4. got + 1 \in 1..NumChunks
    BY <1>2, <1>17, NumChunksAssumption DEF TypeOK, RecvChunk, Receiving, Requests
  <2>5. \A i \in 1..got' : image'[req.part][i] = req.fw
    <3>1. image'[req.part] = [image[req.part] EXCEPT ![got + 1] = req.fw]
      BY <1>2, <2>1, <2>2 DEF TypeOK
    <3>2. image[req.part] \in PartImage /\ got \in Nat
      BY <1>2, <2>2 DEF TypeOK
    <3>3. image'[req.part][got + 1] = req.fw
      BY <2>4, <3>1, <3>2 DEF PartImage
    <3>4. \A i \in 1..got : image'[req.part][i] = req.fw
      BY <1>2, <2>1, <3>1, <3>2 DEF HandlerKnows, PartImage
    <3> QED
      BY <2>1, <3>2, <3>3, <3>4
  <2> QED
    BY <1>2, <2>1, <2>3, <2>5 DEF HandlerKnows
<1>18. CASE OtaWriteFails
  <2>1. /\ pc = "recv" /\ UNCHANGED <<sector, info>> /\ Finish("failed")
        /\ \/ image' = [image EXCEPT ![req.part][got + 1] = Blank]
           \/ UNCHANGED image
    BY <1>18 DEF OtaWriteFails, Receiving
  <2>2. req.part \in AppParts /\ ~Valid(info[req.part]) /\ ~Valid(sector[req.part])
    BY <1>2, <1>3, <2>1 DEF HandlerKnows, Busy
  <2>3. RecordsDescribe'
    BY <1>2, <2>1, <2>2 DEF RecordsDescribe, TypeOK
  <2> QED
    BY <2>1, <2>3, FinishKnows
<1>19. CASE OtaEnd
  <2>1. UNCHANGED <<image, sector, info>>
    BY <1>19 DEF OtaEnd, flash
  <2>2. CASE pc' = "setBoot"
    <3>1. /\ pc = "recv" /\ got > 0 /\ Verifies(image[req.part])
          /\ UNCHANGED req
      BY <1>19, <2>2 DEF OtaEnd, Finish, task
    <3>2. 1 \in 1..got /\ image[req.part] \in PartImage
      BY <1>2, <1>3, <3>1 DEF TypeOK, Busy
    <3>3. image[req.part] = Whole(req.fw)
      BY <1>2, <3>1, <3>2, VerifiesWhole DEF HandlerKnows
    <3>4. HandlerKnows'
      BY <1>2, <2>1, <2>2, <3>1, <3>3 DEF HandlerKnows
    <3> QED
      BY <1>2, <2>1, <3>4, UntouchedDescribe
  <2>3. CASE pc' # "setBoot"
    <3>1. Finish("failed")
      BY <1>19, <2>3 DEF OtaEnd
    <3> QED
      BY <1>2, <2>1, <3>1, UntouchedDescribe, FinishKnows
  <2> QED
    BY <2>2, <2>3
<1>20. CASE SetBoot
  <2>1. /\ pc = "setBoot" /\ UNCHANGED <<image, sector>>
        /\ req.part \in AppParts /\ req.op = "upload"
        /\ image[req.part] = Whole(req.fw)
    BY <1>2, <1>3, <1>20 DEF SetBoot, HandlerKnows, Busy
  <2>2. CASE Finish("failed") /\ UNCHANGED info
    BY <1>2, <2>1, <2>2, UntouchedDescribe, FinishKnows
  <2>3. CASE /\ info' = [info EXCEPT ![req.part] = [flag |-> "VALID", fw |-> req.fw]]
             /\ pc' = "keyErase" /\ UNCHANGED req
    <3>1. RecordsDescribe'
      BY <1>2, <2>1, <2>3, WholeRemains DEF RecordsDescribe, TypeOK
    <3>2. HandlerKnows'
      BY <2>1, <2>3 DEF HandlerKnows
    <3> QED
      BY <3>1, <3>2
  <2> QED
    BY <1>20, <2>2, <2>3 DEF SetBoot, task
<1>21. CASE EraseChunk
  <2>1. /\ pc = "eraseImage" /\ UNCHANGED <<sector, info, pc, req>>
        /\ image' = [image EXCEPT ![req.part][got + 1] = Blank]
    BY <1>21 DEF EraseChunk
  <2>2. \A p \in AppParts :
           \/ image'[p] = image[p]
           \/ image'[p] = [image[p] EXCEPT ![got + 1] = Blank]
    BY <1>2, <2>1 DEF TypeOK
  <2>3. RecordsDescribe'
    BY <1>2, <2>1, <2>2, EraseKeepsRemains DEF RecordsDescribe, TypeOK
  <2> QED
    BY <1>2, <2>1, <2>3 DEF HandlerKnows
<1>22. CASE EraseDone
  <2>1. /\ pc = "eraseImage" /\ pc' = "keyErase" /\ UNCHANGED <<image, sector, req>>
        /\ info' = [info EXCEPT ![req.part] = Invalidated(@)]
        /\ req.part \in AppParts
    BY <1>3, <1>22 DEF EraseDone, flash, task, Busy
  <2>2. ~Valid(info'[req.part])
    BY <1>2, <2>1 DEF TypeOK, Record, Valid, Invalidated
  <2> QED
    BY <1>2, <2>1, <2>2 DEF TypeOK, RecordsDescribe, HandlerKnows
<1>23. CASE UNCHANGED vars
  BY <1>2, <1>23, UntouchedDescribe DEF vars, HandlerKnows
<1> QED
  BY <1>4, <1>5, <1>6, <1>7, <1>8, <1>9, <1>10, <1>11, <1>12, <1>13, <1>14, <1>15,
     <1>16, <1>17, <1>18, <1>19, <1>20, <1>21, <1>22, <1>23
  DEF Next, Request, HandlerStep

\* What NeverMisdescribes says follows from the records being right.
LEMMA IInvImplies == IInv => NeverMisdescribes
BY DEF IInv, RecordsDescribe, NeverMisdescribes, http_resp_dir_html

\* No record, saved or shown, ever names a firmware for a partition that holds
\* anything else, whatever is requested and wherever the power fails, as long
\* as key_data itself can be written.
THEOREM RecordsNeverMisdescribe ==
    ASSUME KeyDataMayFail = FALSE
    PROVE  Spec => []NeverMisdescribes
<1>1. Init => IInv
  BY InitIInv
<1>2. IInv /\ [Next]_vars => IInv'
  BY NextIInv
<1>3. IInv => NeverMisdescribes
  BY IInvImplies
<1> QED
  BY <1>1, <1>2, <1>3, PTL DEF Spec

\* An upload overwrites a chunk only when both records of the partition have
\* been invalidated.
THEOREM UploadsInvalidateFirst ==
    ASSUME KeyDataMayFail = FALSE
    PROVE  Spec => InvalidatedFirst
<1> DEFINE Step == \A p \in AppParts :
                     (image'[p] # image[p] /\ req.op = "upload")
                         => ~Valid(sector[p]) /\ ~Valid(info[p])
<1>1. Init => IInv
  BY InitIInv
<1>2. IInv /\ [Next]_vars => IInv'
  BY NextIInv
<1>3. ASSUME IInv, [Next]_vars PROVE Step
  <2>1. CASE RecvChunk \/ OtaWriteFails
    <3>1. /\ req.part \in AppParts /\ image \in [AppParts -> PartImage]
          /\ ~Valid(info[req.part]) /\ ~Valid(sector[req.part])
      BY <1>3, <2>1
      DEF IInv, HandlerKnows, TypeOK, Requests, Busy, RecvChunk, OtaWriteFails, Receiving
    <3>2. \A p \in AppParts : p # req.part => image'[p] = image[p]
      BY <2>1, <3>1 DEF RecvChunk, OtaWriteFails
    <3> QED
      BY <3>1, <3>2
  <2>2. CASE EraseChunk
    BY <1>3, <2>2 DEF EraseChunk, IInv, HandlerKnows
  <2>3. CASE ~(RecvChunk \/ OtaWriteFails \/ EraseChunk)
    <3>1. UNCHANGED image
      BY <1>3, <2>3
      DEF Next, Request, HandlerStep, vars, flash, PowerLoss, restart_execute_handle, Reset,
          RamLost, Bootloader, start_ota_file_server, BadRequest, Answer, upload_post_handler,
          run_post_handler, erase_post_handler, KeyErase, KeyWrite, KeyDataFails,
          OtaBeginFails, TooLarge, OtaBegin, RecvStall, RecvTimeout, RecvError, OtaEnd,
          SetBoot, EraseFails, EraseDone
    <3> QED
      BY <3>1
  <2> QED
    BY <2>1, <2>2, <2>3
<1>4. IInv /\ [Next]_vars => [Step]_vars
  BY <1>3
<1> QED
  BY <1>1, <1>2, <1>4, PTL DEF Spec, InvalidatedFirst

-----------------------------------------------------------------------------
(* RepliesTrue speaks of what a handler did several steps before it replied. *)

\* Partition p is complete, verifies and is the one selected.
Selected(p, f) ==
    /\ p \in AppParts
    /\ boot = p /\ image[p] = Whole(f) /\ Verifies(image[p])

ReplyInv ==
    /\ pc # "idle" => reply.what = "none"
    /\ (pc \in {"keyErase", "keyWrite"} /\ req.op = "upload" /\ Valid(info[req.part])) =>
            info[req.part] = [flag |-> "VALID", fw |-> req.fw] /\ Selected(req.part, req.fw)
    /\ (pc = "idle" /\ reply.what = "uploaded") =>
            /\ Selected(reply.part, reply.fw)
            /\ sector[reply.part] = [flag |-> "VALID", fw |-> reply.fw]
    /\ (pc = "idle" /\ reply.what = "running") =>
            reply.part \in AppParts /\ boot = reply.part /\ Verifies(image[reply.part])

\* A handler that gives up claims nothing.
LEMMA FinishReply ==
    ASSUME NEW what \in {"failed", "timeout", "erased"}, Finish(what)
    PROVE  ReplyInv'
BY DEF Finish, ReplyInv, Reply

\* Steps of a handler at work reply nothing.
LEMMA WorkingReply ==
    ASSUME ReplyInv, pc # "idle", UNCHANGED reply, pc' \notin {"idle", "keyErase", "keyWrite"}
    PROVE  ReplyInv'
BY DEF ReplyInv

LEMMA NextReplyInv ==
    ASSUME IInv, ReplyInv, [Next]_vars, KeyDataMayFail = FALSE
    PROVE  ReplyInv'
<1>1. TypeOK /\ HandlerKnows
  BY DEF IInv
<1>2. pc \in Busy => req.part \in AppParts
  BY <1>1 DEF TypeOK, Requests
<1>3. CASE PowerLoss \/ restart_execute_handle
  BY <1>3
  DEF PowerLoss, restart_execute_handle, Reset, RamLost, ReplyInv, NoReply, Reply
<1>4. CASE \E pin \in BOOLEAN : Bootloader(pin)
  BY <1>1, <1>4 DEF Bootloader, TypeOK, ReplyInv, AppParts, Busy
<1>5. CASE start_ota_file_server
  BY <1>1, <1>5, ServerStarts DEF RamLost, ReplyInv, NoReply, Reply
<1>6. CASE BadRequest
  BY <1>6 DEF BadRequest, Answer, Reply, ReplyInv
<1>7. ASSUME NEW asked \in UploadTargets, NEW mentioned \in NameMentions,
             NEW f \in Images, NEW n \in BodyLens,
             upload_post_handler(asked, mentioned, f, n)
      PROVE  ReplyInv'
  <2> DEFINE p == server_get_partition_name({asked} \cup mentioned)
  <2>1. /\ p \in AppParts /\ info' = [info EXCEPT ![p] = Invalidated(@)]
        /\ pc' = "keyErase" /\ req'.part = p /\ reply' = NoReply
    BY <1>7 DEF upload_post_handler
  <2>2. ~Valid(info'[p])
    BY <1>1, <2>1 DEF TypeOK, Record, Valid, Invalidated
  <2> QED
    BY <2>1, <2>2 DEF ReplyInv, NoReply, Reply
<1>8. ASSUME NEW p \in UploadTargets \cap AppParts, run_post_handler(p) PROVE ReplyInv'
  BY <1>8 DEF run_post_handler, Answer, Reply, ReplyInv
<1>9. ASSUME NEW p \in EraseTargets, erase_post_handler(p) PROVE ReplyInv'
  <2>1. CASE reply' = NoReply /\ pc' = "eraseImage"
    BY <2>1 DEF ReplyInv, NoReply, Reply
  <2>2. CASE /\ reply'.what \in {"erased", "failed"}
             /\ pc' = "idle"
    BY <2>2 DEF ReplyInv
  <2> QED
    BY <1>9, <2>1, <2>2 DEF erase_post_handler, Answer, Reply
<1>10. CASE KeyErase
  BY <1>10 DEF KeyErase, ReplyInv, Selected, task
<1>11. CASE KeyWrite
  <2>1. CASE pc' = "begin"
    BY <1>11, <2>1, WorkingReply DEF KeyWrite, AfterSave, Finish
  <2>2. CASE req.op # "upload"
    BY <1>11, <2>2, FinishReply DEF KeyWrite, AfterSave
  <2>3. CASE req.op = "upload" /\ Valid(info[req.part])
    <3>1. Finish("uploaded") /\ pc = "keyWrite" /\ UNCHANGED <<image, boot>>
      BY <1>11, <2>3 DEF KeyWrite, AfterSave
    <3>2. /\ reply' = Reply("uploaded", req.part, req.fw) /\ pc' = "idle"
          /\ req.part \in AppParts
      BY <1>2, <3>1 DEF Finish, Busy
    <3>3. Selected(req.part, req.fw) /\ info[req.part] = [flag |-> "VALID", fw |-> req.fw]
      BY <2>3, <3>1 DEF ReplyInv
    <3>4. sector'[req.part] = info[req.part]
      BY <1>1, <1>11, <2>3, <3>2 DEF KeyWrite, SavedSector, TypeOK
    <3> QED
      BY <3>1, <3>2, <3>3, <3>4 DEF ReplyInv, Selected, Reply
  <2> QED
    BY <1>11, <2>1, <2>2, <2>3 DEF KeyWrite, AfterSave
<1>12. CASE KeyDataFails
  BY <1>12 DEF KeyDataFails
<1>13. CASE \/ OtaBeginFails \/ TooLarge \/ RecvTimeout \/ RecvError \/ OtaWriteFails
            \/ EraseFails
  <2>1. \E what \in {"failed", "timeout"} : Finish(what)
    BY <1>13 DEF OtaBeginFails, TooLarge, RecvTimeout, RecvError, OtaWriteFails, EraseFails
  <2> QED
    BY <2>1, FinishReply
<1>14. CASE OtaBegin \/ RecvStall \/ RecvChunk \/ EraseChunk
  BY <1>14, WorkingReply DEF OtaBegin, RecvStall, RecvChunk, EraseChunk, Receiving
<1>15. CASE OtaEnd
  BY <1>15, WorkingReply, FinishReply DEF OtaEnd
<1>16. CASE SetBoot
  <2>1. CASE Finish("failed")
    BY <2>1, FinishReply
  <2>2. CASE ~Finish("failed")
    <3>1. /\ pc = "setBoot" /\ Verifies(image[req.part]) /\ boot' = req.part
          /\ info' = [info EXCEPT ![req.part] = [flag |-> "VALID", fw |-> req.fw]]
          /\ pc' = "keyErase" /\ UNCHANGED <<req, reply, image>>
      BY <1>16, <2>2 DEF SetBoot, task
    <3>2. req.part \in AppParts /\ image[req.part] = Whole(req.fw)
      BY <1>1, <1>2, <3>1 DEF HandlerKnows, Busy
    <3> QED
      BY <1>1, <3>1, <3>2 DEF ReplyInv, Selected, TypeOK
  <2> QED
    BY <2>1, <2>2
<1>17. CASE EraseDone
  <2>1. /\ pc = "eraseImage" /\ pc' = "keyErase" /\ UNCHANGED <<req, reply>>
        /\ req.op = "erase"
    BY <1>1, <1>17 DEF EraseDone, HandlerKnows, task
  <2> QED
    BY <2>1 DEF ReplyInv
<1>18. CASE UNCHANGED vars
  BY <1>18 DEF vars, ReplyInv, Selected
<1> QED
  BY <1>3, <1>4, <1>5, <1>6, <1>7, <1>8, <1>9, <1>10, <1>11, <1>12, <1>13, <1>14,
     <1>15, <1>16, <1>17, <1>18
  DEF Next, Request, HandlerStep

\* A selected partition that verifies is the one the boot loader starts.
LEMMA ReplyInvImplies == TypeOK /\ ReplyInv => RepliesTrue
<1> SUFFICES ASSUME TypeOK, ReplyInv, pc = "idle"
             PROVE  /\ reply.what = "uploaded" =>
                          /\ image[reply.part] = Whole(reply.fw)
                          /\ sector[reply.part] = [flag |-> "VALID", fw |-> reply.fw]
                          /\ BootedFrom(image, boot) = reply.part
                    /\ reply.what = "running" => BootedFrom(image, boot) = reply.part
  BY DEF RepliesTrue
<1>1. ASSUME reply.what \in {"uploaded", "running"}
      PROVE  BootedFrom(image, boot) = reply.part
  <2>1. boot = reply.part /\ boot \in AppParts /\ Verifies(image[boot])
    BY <1>1 DEF ReplyInv, Selected
  <2>2. boot \in Candidates(image, boot)
    BY <2>1, NoPartAssumption DEF Candidates, AppParts, Slot
  <2> QED
    BY <2>1, <2>2, BootedFromRange
<1> QED
  BY <1>1 DEF ReplyInv, Selected

\* A reply that says a firmware was uploaded, or selected to run, is true, and
\* stays true until the next request.
THEOREM ServerRepliesTrue ==
    ASSUME KeyDataMayFail = FALSE
    PROVE  Spec => []RepliesTrue
<1>1. Init => IInv /\ ReplyInv
  BY InitIInv DEF Init, ReplyInv, NoReply, Reply
<1>2. IInv /\ ReplyInv /\ [Next]_vars => IInv' /\ ReplyInv'
  BY NextIInv, NextReplyInv
<1>3. IInv /\ ReplyInv => RepliesTrue
  BY ReplyInvImplies DEF IInv
<1> QED
  BY <1>1, <1>2, <1>3, PTL DEF Spec

-----------------------------------------------------------------------------
(* A handler's way to its return.                                            *)

\* After two silent waits httpd_req_recv() has nothing more to wait for.
LEMMA StallLimit ==
    /\ MaxStalls = 2
    /\ \A n \in Nat : n <= 2 => (n * RecvWait > HTTPD_REC_DATA_TIMEOUT <=> n = 2)
BY DEF MaxStalls, RecvWait, HTTPD_REC_DATA_TIMEOUT

\* What the measure rests on besides the types.
ProgressInv ==
    /\ TypeOK
    /\ stalls <= MaxStalls
    /\ pc = "eraseImage" => req.op = "erase"

LEMMA NextProgressInv ==
    ASSUME ProgressInv, [Next]_vars
    PROVE  ProgressInv'
<1>1. TypeOK /\ TypeOK' /\ stalls \in Nat /\ stalls <= 2
  BY NextTypes, StallLimit DEF ProgressInv, TypeOK
<1>2. MaxStalls' = 2
  BY StallLimit DEF MaxStalls, RecvWait, HTTPD_REC_DATA_TIMEOUT
<1>3. stalls' <= 2
  <2>1. CASE RecvStall
    BY <1>1, <2>1, StallLimit DEF RecvStall, Expired
  <2>2. CASE ~RecvStall
    <3>1. stalls' \in {0, stalls}
      BY <2>2
      DEF Next, PowerLoss, restart_execute_handle, Reset, RamLost, Bootloader,
          start_ota_file_server, Request, BadRequest, Answer, upload_post_handler,
          run_post_handler, erase_post_handler, HandlerStep, KeyErase, KeyWrite,
          KeyDataFails, AfterSave, OtaBeginFails, TooLarge, OtaBegin, RecvTimeout,
          RecvError, RecvChunk, OtaWriteFails, OtaEnd, SetBoot, EraseChunk, EraseFails,
          EraseDone, Finish, task, vars
    <3> QED
      BY <1>1, <3>1
  <2> QED
    BY <2>1, <2>2
<1>4. pc' = "eraseImage" => req'.op = "erase"
  BY DEF ProgressInv, Next, PowerLoss, restart_execute_handle, Reset, RamLost, Bootloader,
         start_ota_file_server, Request, BadRequest, Answer, upload_post_handler,
         run_post_handler, erase_post_handler, HandlerStep, KeyErase, KeyWrite,
         KeyDataFails, AfterSave, OtaBeginFails, TooLarge, OtaBegin, RecvStall, RecvTimeout,
         RecvError, RecvChunk, OtaWriteFails, OtaEnd, SetBoot, EraseChunk, EraseFails,
         EraseDone, Receiving, Finish, task, vars
<1> QED
  BY <1>1, <1>2, <1>3, <1>4 DEF ProgressInv

\* The measure is a number, and at least 1 while the handler works.
LEMMA WorkLeft ==
    ProgressInv =>
        /\ Work \in Nat /\ WorkAfterSave \in Nat /\ WorkToBegin \in Nat
        /\ pc \in Busy => Work > 0
        /\ pc \notin Busy => Work = 0
<1> SUFFICES ASSUME ProgressInv
             PROVE  /\ Work \in Nat /\ WorkAfterSave \in Nat /\ WorkToBegin \in Nat
                    /\ pc \in Busy => Work > 0
                    /\ pc \notin Busy => Work = 0
  OBVIOUS
<1>1. /\ req.len \in Nat /\ got \in Nat /\ NumChunks \in Nat /\ stalls \in Nat /\ stalls <= 2
      /\ pc = "recv" => got <= req.len
      /\ pc = "eraseImage" => got <= NumChunks
  BY StallLimit, NumChunksAssumption DEF ProgressInv, TypeOK, Requests
<1>2. WorkToBegin = 3 * req.len + 7 /\ WorkToReceive(req.len - got) = 3 * (req.len - got) + 6
  BY <1>1, StallLimit DEF WorkToBegin, WorkToReceive
<1>3. WorkAfterSave \in Nat
  BY <1>1, <1>2 DEF WorkAfterSave
<1> QED
  BY <1>1, <1>2, <1>3 DEF Work, Busy

\* What is left after a save, unless the handler returns.
LEMMA SaveProgresses ==
    ASSUME ProgressInv, ProgressInv', AfterSave, UNCHANGED info
    PROVE  Work' = WorkAfterSave
<1>1. CASE req.op = "upload" /\ ~Valid(info[req.part])
  BY <1>1 DEF AfterSave, task, Work, WorkAfterSave, WorkToBegin, WorkToReceive, MaxStalls,
              RecvWait, HTTPD_REC_DATA_TIMEOUT
<1>2. CASE ~(req.op = "upload" /\ ~Valid(info[req.part]))
  BY <1>2 DEF AfterSave, Finish, Work, WorkAfterSave
<1> QED
  BY <1>1, <1>2

LEMMA HandlerStepProgresses ==
    ASSUME ProgressInv, ProgressInv', HandlerStep
    PROVE  Work' < Work
<1>0. /\ Work \in Nat /\ WorkAfterSave \in Nat /\ WorkToBegin \in Nat
      /\ pc \in Busy => Work > 0
      /\ pc' \notin Busy => Work' = 0
  <2>1. pc' \notin Busy => Work' = 0
    BY DEF Work, Busy
  <2> QED
    BY <2>1, WorkLeft
<1>1. /\ req.len \in Nat /\ got \in Nat /\ NumChunks \in Nat /\ stalls \in Nat /\ stalls <= 2
      /\ pc = "recv" => got <= req.len
      /\ pc \in Busy => req.part \in AppParts
      /\ info \in [AppParts -> Record]
      /\ pc = "eraseImage" => got <= NumChunks /\ req.op = "erase"
  BY StallLimit, NumChunksAssumption DEF ProgressInv, TypeOK, Requests
<1>2. ASSUME pc \in Busy, NEW what, Finish(what) PROVE Work' < Work
  BY <1>0, <1>2 DEF Finish, Busy
<1>3. CASE KeyErase
  <2>1. pc = "keyErase" /\ pc' = "keyWrite" /\ UNCHANGED <<info, req>>
    BY <1>3 DEF KeyErase, task
  <2>2. WorkAfterSave' = WorkAfterSave
    BY <2>1 DEF WorkAfterSave, WorkToBegin, WorkToReceive, MaxStalls, RecvWait,
                HTTPD_REC_DATA_TIMEOUT
  <2>3. Work = WorkAfterSave + 2 /\ Work' = WorkAfterSave' + 1
    BY <2>1 DEF Work
  <2> QED
    BY <1>0, <2>2, <2>3
<1>4. CASE KeyWrite \/ KeyDataFails
  <2>1. AfterSave /\ UNCHANGED info /\ pc \in {"keyErase", "keyWrite"}
    BY <1>4 DEF KeyWrite, KeyDataFails
  <2>2. Work' = WorkAfterSave
    BY <2>1, SaveProgresses
  <2>3. Work \in {WorkAfterSave + 1, WorkAfterSave + 2}
    BY <2>1 DEF Work
  <2> QED
    BY <1>0, <2>2, <2>3
<1>5. CASE OtaBeginFails \/ TooLarge \/ RecvTimeout \/ RecvError \/ OtaWriteFails \/ EraseFails
  <2>1. pc \in Busy /\ \E what \in {"failed", "timeout"} : Finish(what)
    BY <1>5 DEF OtaBeginFails, TooLarge, RecvTimeout, RecvError, OtaWriteFails, EraseFails,
                Receiving, Busy
  <2> QED
    BY <1>2, <2>1
\* Within the stream, and on the way into it and out of it.
<1>6. \A n \in Nat : WorkToReceive(n) = 3 * n + 6
  BY StallLimit DEF WorkToReceive
<1>7. \A n \in Nat : WorkToReceive(n)' = 3 * n + 6
  BY StallLimit DEF WorkToReceive, MaxStalls, RecvWait, HTTPD_REC_DATA_TIMEOUT
<1>8. CASE OtaBegin
  <2>1. pc = "begin" /\ pc' = "recv" /\ got' = 0 /\ stalls' = 0 /\ UNCHANGED req
    BY <1>8 DEF OtaBegin
  <2>2. Work = 3 * req.len + 7
    BY <1>1, <1>6, <2>1 DEF Work, WorkToBegin
  <2>3. Work' = 3 * req.len + 6
    BY <1>1, <1>7, <2>1 DEF Work, WorkToReceive
  <2> QED
    BY <1>1, <2>2, <2>3
<1>9. CASE RecvStall \/ RecvChunk
  <2>1. /\ pc = "recv" /\ got < req.len /\ stalls < 2 /\ UNCHANGED <<pc, req>>
        /\ \/ got' = got /\ stalls' = stalls + 1
           \/ got' = got + 1 /\ stalls' = 0
    BY <1>1, <1>9, StallLimit DEF RecvStall, RecvChunk, Receiving, Expired
  <2>2. Work = 3 * (req.len - got) + 6 - stalls
    BY <1>1, <1>6, <2>1 DEF Work
  <2>3. Work' = 3 * (req.len - got') + 6 - stalls'
    BY <1>1, <1>7, <2>1 DEF Work, WorkToReceive
  <2> QED
    BY <1>1, <2>1, <2>2, <2>3
<1>10. CASE OtaEnd /\ pc' = "setBoot"
  <2>1. pc = "recv" /\ pc' = "setBoot" /\ got = req.len
    BY <1>10 DEF OtaEnd
  <2>2. Work = 3 * (req.len - got) + 6 - stalls /\ Work' = 3
    BY <1>1, <1>6, <2>1 DEF Work
  <2> QED
    BY <1>1, <2>1, <2>2
<1>11. CASE OtaEnd /\ pc' # "setBoot"
  <2>1. pc \in Busy /\ Finish("failed")
    BY <1>11 DEF OtaEnd, Busy
  <2> QED
    BY <1>2, <2>1
\* The last save of the record.
<1>12. CASE (SetBoot /\ pc' = "keyErase") \/ EraseDone
  <2>1. /\ pc \in {"setBoot", "eraseImage"} /\ pc' = "keyErase" /\ UNCHANGED req
        /\ req.op = "erase" \/ Valid(info'[req.part])
        /\ pc = "eraseImage" => got <= NumChunks
    <3>1. CASE SetBoot /\ pc' = "keyErase"
      <4>1. info' = [info EXCEPT ![req.part] = [flag |-> "VALID", fw |-> req.fw]]
            /\ pc = "setBoot" /\ UNCHANGED req
        BY <3>1 DEF SetBoot, Finish, task
      <4> QED
        BY <1>1, <3>1, <4>1 DEF Valid, Busy
    <3>2. CASE EraseDone
      BY <1>1, <3>2 DEF EraseDone, task
    <3> QED
      BY <1>12, <3>1, <3>2
  <2>2. WorkAfterSave' = 0
    BY <2>1 DEF WorkAfterSave
  <2>3. Work' = 2
    BY <2>1, <2>2 DEF Work
  <2>4. Work >= 3
    BY <1>1, <2>1 DEF Work
  <2> QED
    BY <1>0, <2>3, <2>4
<1>13. CASE SetBoot /\ pc' # "keyErase"
  <2>1. pc \in Busy /\ Finish("failed")
    BY <1>13 DEF SetBoot, Busy
  <2> QED
    BY <1>2, <2>1
<1>14. CASE EraseChunk
  <2>1. pc = "eraseImage" /\ pc' = "eraseImage" /\ got < NumChunks /\ got' = got + 1
    BY <1>14 DEF EraseChunk
  <2>2. Work = NumChunks - got + 3 /\ Work' = NumChunks - got' + 3
    BY <2>1 DEF Work
  <2> QED
    BY <1>1, <2>1, <2>2
<1> QED
  BY <1>3, <1>4, <1>5, <1>8, <1>9, <1>10, <1>11, <1>12, <1>13, <1>14 DEF HandlerStep

\* Every step of a handler brings it closer to its return, for bodies of any
\* length and clients that stall, break off or never send anything.
THEOREM HandlersProgress == Spec => HandlerProgresses
<1>1. Init => ProgressInv
  <2>1. Init => stalls = 0 /\ pc = "off"
    BY DEF Init
  <2> QED
    BY <2>1, InitTypes, StallLimit DEF ProgressInv
<1>2. ProgressInv /\ [Next]_vars => ProgressInv'
  BY NextProgressInv
<1>3. ProgressInv => Work \in Nat
  BY WorkLeft
<1>4. ProgressInv' => (Work \in Nat)'
  BY <1>3, PTL
<1>5. ProgressInv /\ ProgressInv' /\ [Next]_vars
        => [(pc \in Busy /\ running' = running) => Work' \in 0 .. Work - 1]_vars
  <2> SUFFICES ASSUME ProgressInv, ProgressInv', Next, pc \in Busy, running' = running
               PROVE  Work' \in 0 .. Work - 1
    OBVIOUS
  <2>1. HandlerStep
    <3>1. running = "factory" /\ pc \notin {"idle", "off", "start"}
      BY DEF ProgressInv, TypeOK, Busy
    <3> QED
      BY <3>1 DEF Next, PowerLoss, restart_execute_handle, Reset, RamLost, Bootloader,
                  start_ota_file_server, Request, BadRequest, upload_post_handler,
                  run_post_handler, erase_post_handler
  <2>2. Work' < Work /\ Work \in Nat /\ Work' \in Nat
    BY <1>4, <2>1, HandlerStepProgresses, WorkLeft
  <2> QED
    BY <2>2
<1> QED
  BY <1>1, <1>2, <1>5, PTL DEF Spec, HandlerProgresses

-----------------------------------------------------------------------------
(* Where an upload goes.                                                      *)

\* No file name contains the name of a partition that is tested before the one it
\* is uploaded to.
NamesRankLater ==
    \A asked \in UploadTargets, mentioned \in NameMentions :
        \A q \in mentioned : SearchOrder[asked] <= SearchOrder[q]

\* Then the name found in the path is that of the selected partition.
LEMMA FoundIsAsked ==
    ASSUME NamesRankLater, NEW asked \in UploadTargets, NEW mentioned \in NameMentions
    PROVE  server_get_partition_name({asked} \cup mentioned) = asked
<1> DEFINE S == {asked} \cup mentioned
<1>1. S \in SUBSET PartNames /\ S # {}
  BY TargetsAssumption
<1>2. server_get_partition_name(S) = FirstIn(S)
  BY <1>1 DEF server_get_partition_name
<1>3. FirstIn(S) \in S /\ SearchOrder[FirstIn(S)] <= SearchOrder[asked]
  BY <1>1, FirstInMember
<1>4. SearchOrder[asked] <= SearchOrder[FirstIn(S)]
  <2>1. CASE FirstIn(S) = asked
    BY <1>1, <2>1 DEF PartNames, AppParts, SearchOrder
  <2>2. CASE FirstIn(S) # asked
    BY <1>3, <2>2 DEF NamesRankLater
  <2> QED
    BY <2>1, <2>2
<1>5. FirstIn(S) = asked
  BY <1>1, <1>3, <1>4 DEF PartNames, AppParts, SearchOrder
<1> QED
  BY <1>2, <1>5

\* An upload goes to the partition selected, unless the file's name names a
\* partition that is tested earlier.  (finding_name shows one that does.)
THEOREM UploadsLandWhereSelected ==
    ASSUME NamesRankLater
    PROVE  Spec => []UploadLandsWhereSelected
<1>1. Init => UploadLandsWhereSelected
  BY DEF Init, UploadLandsWhereSelected, NoReq
<1>2. UploadLandsWhereSelected /\ [Next]_vars => UploadLandsWhereSelected'
  <2> SUFFICES ASSUME UploadLandsWhereSelected, [Next]_vars
               PROVE  UploadLandsWhereSelected'
    OBVIOUS
  <2>1. ASSUME NEW asked \in UploadTargets, NEW mentioned \in NameMentions,
               NEW f \in Images, NEW n \in BodyLens,
               upload_post_handler(asked, mentioned, f, n)
        PROVE  UploadLandsWhereSelected'
    BY <2>1, FoundIsAsked DEF upload_post_handler, UploadLandsWhereSelected
  <2>2. CASE \E p \in EraseTargets : erase_post_handler(p)
    BY <2>2 DEF erase_post_handler, Answer, task, UploadLandsWhereSelected
  <2>3. CASE ~Request \/ BadRequest \/ \E p \in UploadTargets \cap AppParts : run_post_handler(p)
    <3>1. UNCHANGED req \/ req' = NoReq
      BY <2>3
      DEF Next, PowerLoss, restart_execute_handle, Reset, RamLost, Bootloader,
          start_ota_file_server, Request, BadRequest, Answer, run_post_handler, HandlerStep,
          KeyErase, KeyWrite, KeyDataFails, AfterSave, OtaBeginFails, TooLarge, OtaBegin,
          RecvStall, RecvTimeout, RecvError, RecvChunk, OtaWriteFails, OtaEnd, SetBoot,
          EraseChunk, EraseFails, EraseDone, Finish, task, vars
    <3> QED
      BY <3>1 DEF UploadLandsWhereSelected, NoReq
  <2> QED
    BY <2>1, <2>2, <2>3 DEF Request
<1> QED
  BY <1>1, <1>2, PTL DEF Spec
=============================================================================
