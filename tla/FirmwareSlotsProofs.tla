------------------------- MODULE FirmwareSlotsProofs -------------------------
(* FirmwareServer implements FirmwareSlots, whether or not key_data can be   *)
(* read and written, as long as secondApp is not erased.                     *)
EXTENDS FirmwareServerProofs

\* What a handler works on, and what it knows of its request's firmware: all of
\* it is in the partition before the record calls it valid, and while chunks are
\* written the saved record lists none, if it could be saved.
JobKnown ==
    /\ pc \in Busy =>
        \/ req.op = "upload" /\ req.fw \in Images
        \/ req.op = "erase" /\ req.fw = Blank /\ req.part # "secondApp"
    /\ pc \in {"begin", "recv", "setBoot"} =>
        req.op = "upload" /\ (KeyDataMayFail \/ ~Valid(sector[req.part]))
    /\ pc = "eraseImage" => req.op = "erase"
    /\ pc = "recv" => \A i \in 1..got : image[req.part][i] = req.fw
    /\ (pc = "setBoot" \/ (pc \in {"keyErase", "keyWrite"} /\ Valid(info[req.part]))) =>
        /\ req.op = "upload" /\ req.fw \in Bootable
        /\ image[req.part] = Whole(req.fw)
    /\ (pc \in {"keyErase", "keyWrite"} /\ Valid(info[req.part])) =>
        info[req.part].fw = req.fw
    /\ pc = "keyWrite" => ~Valid(sector[req.part])

SlotInv == TypeOK /\ JobKnown

LEMMA InitSlotInv == Init => SlotInv
BY InitTypes DEF Init, SlotInv, JobKnown, Busy

\* A handler that has returned is bound by nothing.
LEMMA FinishJob ==
    ASSUME NEW what, Finish(what)
    PROVE  JobKnown'
BY DEF Finish, JobKnown, Busy

\* Where the handlers save, when secondApp is not erased.
LEMMA SavedWhereRead ==
    ASSUME SlotInv, pc \in {"keyErase", "keyWrite"}
    PROVE  SavedSector(req) = req.part /\ req.part \in AppParts
BY DEF SlotInv, JobKnown, TypeOK, Requests, SavedSector, Busy

LEMMA NextSlotInv ==
    ASSUME SlotInv, [Next]_vars, "secondApp" \notin EraseTargets
    PROVE  SlotInv'
<1>1. TypeOK'
  BY NextTypes DEF SlotInv
<1>2. TypeOK /\ JobKnown
  BY DEF SlotInv
<1>3. pc \in Busy => req.part \in AppParts
  BY <1>2 DEF TypeOK, Requests
<1> SUFFICES JobKnown'
  BY <1>1 DEF SlotInv
<1>4. CASE PowerLoss \/ restart_execute_handle
  BY <1>2, <1>4
  DEF PowerLoss, restart_execute_handle, Reset, RamLost, JobKnown, Busy
<1>5. CASE \E pin \in BOOLEAN : Bootloader(pin)
  BY <1>2, <1>5 DEF Bootloader, JobKnown, Busy
<1>6. CASE start_ota_file_server
  <2>1. CASE RamLost
    BY <1>2, <1>6, <2>1, ServerStarts
    DEF RamLost, JobKnown, Busy
  <2>2. CASE ~RamLost
    BY <1>2, <1>6, <2>2, ServerStarts DEF JobKnown, Busy
  <2> QED
    BY <2>1, <2>2
<1>7. CASE BadRequest \/ \E p \in UploadTargets \cap AppParts : run_post_handler(p)
  <2>1. UNCHANGED <<sector, info, pc>> /\ pc = "idle"
    BY <1>7 DEF BadRequest, run_post_handler, Answer
  <2> QED
    BY <1>2, <2>1 DEF JobKnown, Busy
<1>8. ASSUME NEW asked \in UploadTargets, NEW mentioned \in NameMentions,
             NEW f \in Images, NEW n \in BodyLens,
             upload_post_handler(asked, mentioned, f, n)
      PROVE  JobKnown'
  <2> DEFINE p == server_get_partition_name({asked} \cup mentioned)
  <2>1. /\ p \in AppParts /\ info' = [info EXCEPT ![p] = Invalidated(@)]
        /\ UNCHANGED sector
        /\ pc' = "keyErase" /\ req'.op = "upload" /\ req'.part = p /\ req'.fw = f
    BY <1>8 DEF upload_post_handler
  <2>2. ~Valid(info'[p])
    BY <1>2, <2>1 DEF TypeOK, Record, Valid, Invalidated
  <2> QED
    BY <1>2, <2>1, <2>2 DEF TypeOK, JobKnown, Busy
<1>9. ASSUME NEW p \in EraseTargets, erase_post_handler(p)
      PROVE  JobKnown'
  <2>1. UNCHANGED <<sector, info>>
    BY <1>9 DEF erase_post_handler, Answer, flash
  <2>2. \/ pc' = "idle"
        \/ pc' = "eraseImage" /\ req'.op = "erase" /\ req'.fw = Blank /\ req'.part = p
    BY <1>9 DEF erase_post_handler, Answer
  <2> QED
    BY <1>2, <2>1, <2>2 DEF JobKnown, Busy
<1>10. CASE KeyErase
  <2>1. /\ sector' = [sector EXCEPT ![req.part] = NoRecord] /\ pc' = "keyWrite"
        /\ pc = "keyErase" /\ UNCHANGED <<image, info, req>> /\ req.part \in AppParts
    BY <1>10, SavedWhereRead DEF KeyErase, task
  <2> QED
    BY <1>2, <2>1 DEF TypeOK, JobKnown, Valid, NoRecord, Busy
<1>11. CASE KeyWrite \/ KeyDataFails
  <2>1. /\ pc \in {"keyErase", "keyWrite"} /\ AfterSave /\ UNCHANGED <<image, info>>
        /\ \/ sector' = [sector EXCEPT ![req.part] = info[req.part]]
           \/ UNCHANGED sector /\ KeyDataMayFail
    BY <1>11, SavedWhereRead DEF KeyWrite, KeyDataFails, flash
  <2>2. CASE req.op = "upload" /\ ~Valid(info[req.part])
    <3>1. pc' = "begin" /\ UNCHANGED req
      BY <2>1, <2>2 DEF AfterSave, task
    <3>2. KeyDataMayFail \/ ~Valid(sector'[req.part])
      BY <1>2, <1>3, <2>1, <2>2 DEF TypeOK, Busy
    <3> QED
      BY <1>2, <2>1, <2>2, <3>1, <3>2 DEF JobKnown, Busy
  <2>3. CASE ~(req.op = "upload" /\ ~Valid(info[req.part]))
    BY <2>1, <2>3, FinishJob DEF AfterSave
  <2> QED
    BY <2>2, <2>3
<1>12. CASE \/ OtaBeginFails \/ TooLarge \/ RecvTimeout \/ RecvError \/ OtaWriteFails
            \/ EraseFails
  <2>1. UNCHANGED <<sector, info>> /\ \E what \in {"failed", "timeout"} : Finish(what)
    BY <1>12
    DEF OtaBeginFails, TooLarge, RecvTimeout, RecvError, OtaWriteFails, EraseFails, flash
  <2> QED
    BY <2>1, FinishJob
<1>13. CASE OtaBegin \/ RecvStall
  BY <1>2, <1>13
  DEF OtaBegin, RecvStall, Receiving, JobKnown, flash, Busy
<1>14. CASE RecvChunk
  <2>1. /\ pc = "recv" /\ UNCHANGED <<sector, info, pc, req>> /\ got' = got + 1
        /\ image' = [image EXCEPT ![req.part][got + 1] = req.fw]
        /\ req.part \in AppParts /\ got \in Nat /\ got + 1 \in 1..NumChunks
    BY <1>2, <1>3, <1>14, NumChunksAssumption DEF RecvChunk, Receiving, TypeOK, Requests, Busy
  <2>2. image'[req.part] = [image[req.part] EXCEPT ![got + 1] = req.fw]
    BY <1>2, <2>1 DEF TypeOK
  <2>3. image[req.part] \in PartImage
    BY <1>2, <2>1 DEF TypeOK
  <2>4. image'[req.part][got + 1] = req.fw
    BY <2>1, <2>2, <2>3 DEF PartImage
  <2>5. \A i \in 1..got : image'[req.part][i] = req.fw
    BY <1>2, <2>1, <2>2, <2>3 DEF JobKnown, PartImage
  <2>6. \A i \in 1..got' : image'[req.part][i] = req.fw
    BY <2>1, <2>4, <2>5
  <2> QED
    BY <1>2, <2>1, <2>6 DEF JobKnown, Busy
<1>15. CASE OtaEnd
  <2>1. CASE Finish("failed")
    BY <2>1, FinishJob
  <2>2. CASE ~Finish("failed")
    <3>1. /\ pc = "recv" /\ pc' = "setBoot" /\ UNCHANGED <<image, sector, info, req>>
          /\ got > 0 /\ Verifies(image[req.part])
      BY <1>15, <2>2 DEF OtaEnd, task, flash
    <3>2. PICK g \in Bootable : image[req.part] = Whole(g)
      BY <3>1 DEF Verifies
    <3>3. image[req.part][1] = g
      BY <3>2, NumChunksAssumption DEF Whole
    <3>4. image[req.part][1] = req.fw
      BY <1>2, <3>1 DEF JobKnown, TypeOK
    <3> QED
      BY <1>2, <3>1, <3>2, <3>3, <3>4 DEF JobKnown, Busy
  <2> QED
    BY <2>1, <2>2
<1>16. CASE SetBoot
  <2>1. CASE Finish("failed")
    BY <2>1, FinishJob
  <2>2. CASE ~Finish("failed")
    <3>1. /\ pc = "setBoot" /\ pc' = "keyErase" /\ UNCHANGED <<image, req, sector>>
          /\ info' = [info EXCEPT ![req.part] = [flag |-> "VALID", fw |-> req.fw]]
      BY <1>16, <2>2 DEF SetBoot, task
    <3>2. /\ req.part \in AppParts /\ req.fw \in Bootable /\ req.op = "upload"
          /\ image[req.part] = Whole(req.fw) /\ req.fw \in Images
      BY <1>2, <1>3, <3>1, ImagesAssumption DEF JobKnown, Busy
    <3>3. info'[req.part].fw = req.fw
      BY <1>2, <3>1, <3>2 DEF TypeOK
    <3> QED
      BY <1>2, <3>1, <3>2, <3>3 DEF JobKnown, Busy
  <2> QED
    BY <2>1, <2>2
<1>17. CASE EraseChunk
  BY <1>2, <1>17 DEF EraseChunk, JobKnown, Busy
<1>18. CASE EraseDone
  <2>1. /\ pc = "eraseImage" /\ pc' = "keyErase" /\ UNCHANGED <<sector, req>>
        /\ info' = [info EXCEPT ![req.part] = Invalidated(@)] /\ req.part \in AppParts
    BY <1>3, <1>18 DEF EraseDone, flash, task, Busy
  <2>2. ~Valid(info'[req.part])
    BY <1>2, <2>1 DEF TypeOK, Record, Valid, Invalidated
  <2> QED
    BY <1>2, <2>1, <2>2 DEF TypeOK, JobKnown, Busy
<1>19. CASE UNCHANGED vars
  BY <1>2, <1>19 DEF vars, JobKnown
<1> QED
  BY <1>4, <1>5, <1>6, <1>7, <1>8, <1>9, <1>10, <1>11, <1>12, <1>13, <1>14, <1>15,
     <1>16, <1>17, <1>18, <1>19
  DEF Next, Request, HandlerStep

-----------------------------------------------------------------------------
\* How steps show in the slots.

\* Steps that leave contents and saved records alone leave the slots alone.
LEMMA SlotsUntouched ==
    /\ UNCHANGED image => HeldByAll' = HeldByAll
    /\ UNCHANGED sector => ListedForAll' = ListedForAll
BY DEF HeldByAll, HeldBy, ListedForAll, ListedFor

\* Requests being served are jobs of FirmwareSlots.
LEMMA JobIsJob ==
    ASSUME SlotInv, pc \in Busy
    PROVE  /\ JobOf(req) # Slots!NoJob
           /\ JobOf(req).op = req.op /\ JobOf(req).part = req.part
           /\ JobOf(req).fw = req.fw /\ req.part \in AppParts
BY DEF SlotInv, TypeOK, JobKnown, JobOf, Slots!NoJob, Requests

\* A handler that returns leaves no job.
LEMMA NoReqNoJob == JobOf(NoReq) = Slots!NoJob
BY DEF JobOf, NoReq, Slots!NoJob

LEMMA FinishNoJob ==
    ASSUME NEW what, Finish(what)
    PROVE  JobOf(req)' = Slots!NoJob
BY NoReqNoJob DEF Finish, JobOf, NoReq, Slots!NoJob

\* A step of a handler that goes on or returns, and writes chunks of the
\* partition of its request: none of another firmware than the request's, and
\* none while its saved record lists one, if records can be saved.
LEMMA WriteRefines ==
    ASSUME SlotInv, pc \in Busy, NEW CONSTANT pt, pt = req.part,
           UNCHANGED req \/ JobOf(req)' = Slots!NoJob,
           UNCHANGED sector,
           \A q \in AppParts : q # pt => image'[q] = image[q],
           HeldBy(pt)' \in {Blank, req.fw},
           req.op = "erase" \/ ~Valid(sector[pt]) \/ KeyDataMayFail
    PROVE  Slots!Next
<1>1. JobOf(req)' \in {JobOf(req), Slots!NoJob}
  BY DEF JobOf
<1>2. /\ pt \in AppParts /\ JobOf(req) # Slots!NoJob
      /\ JobOf(req).op = req.op /\ JobOf(req).part = pt /\ JobOf(req).fw = req.fw
  BY JobIsJob
<1>3. HeldByAll' = [HeldByAll EXCEPT ![pt] = HeldBy(pt)']
  BY <1>2 DEF HeldByAll, HeldBy
<1>4. ~Valid(sector[pt]) => ListedForAll[pt] = Blank
  BY <1>2 DEF ListedForAll, ListedFor
<1>5. Slots!Write
  BY <1>1, <1>2, <1>3, <1>4, SlotsUntouched DEF Slots!Write, Slots!Working
<1> QED
  BY <1>5 DEF Slots!Next

\* A step of a handler that goes on or returns, and saves the record of its
\* request's partition: one that lists none, or the request's firmware, which
\* the partition then holds.
LEMMA SaveRefines ==
    ASSUME SlotInv, pc \in Busy, NEW CONSTANT pt, pt = req.part,
           UNCHANGED req \/ JobOf(req)' = Slots!NoJob,
           UNCHANGED image, NEW CONSTANT rec, sector' = [sector EXCEPT ![pt] = rec],
           Valid(rec) => /\ req.op = "upload" /\ req.fw \in Bootable /\ rec.fw = req.fw
                         /\ image[pt] = Whole(req.fw) /\ ~Valid(sector[pt])
    PROVE  Slots!Next
<1>1. JobOf(req)' \in {JobOf(req), Slots!NoJob}
  BY DEF JobOf
<1>2. /\ pt \in AppParts /\ JobOf(req) # Slots!NoJob
      /\ JobOf(req).op = req.op /\ JobOf(req).part = pt /\ JobOf(req).fw = req.fw
  BY JobIsJob
<1>3. sector \in [AppParts -> Record]
  BY DEF SlotInv, TypeOK
<1>4. /\ sector'[pt] = rec
      /\ \A q \in AppParts : q # pt => sector'[q] = sector[q]
  BY <1>2, <1>3
<1>5. ListedForAll' = [ListedForAll EXCEPT ![pt] = IF Valid(rec) THEN rec.fw ELSE Blank]
  <2>1. ListedFor(pt)' = IF Valid(rec) THEN rec.fw ELSE Blank
    BY <1>4 DEF ListedFor, Valid
  <2>2. ASSUME NEW q \in AppParts, q # pt PROVE ListedFor(q)' = ListedFor(q)
    BY <1>4, <2>2 DEF ListedFor, Valid
  <2>3. ListedForAll' = [q \in AppParts |-> ListedFor(q)']
    BY DEF ListedForAll
  <2> QED
    BY <1>2, <2>1, <2>2, <2>3 DEF ListedForAll
<1>6. CASE ~Valid(rec)
  <2>1. Slots!Unlist
    BY <1>1, <1>2, <1>5, <1>6, SlotsUntouched DEF Slots!Unlist, Slots!Working
  <2> QED
    BY <2>1 DEF Slots!Next
<1>7. CASE Valid(rec)
  <2>1. ListedForAll[pt] = Blank
    BY <1>2, <1>7 DEF ListedForAll, ListedFor
  <2>2. image[pt][1] = req.fw
    BY <1>7, NumChunksAssumption DEF Whole
  <2>3. HeldByAll[pt] = req.fw
    BY <1>2, <1>7, <2>2 DEF HeldByAll, HeldBy
  <2>4. Slots!List
    BY <1>1, <1>2, <1>5, <1>7, <2>1, <2>3, SlotsUntouched DEF Slots!List, Slots!Working
  <2> QED
    BY <2>4 DEF Slots!Next
<1> QED
  BY <1>6, <1>7

\* Outside the handlers nothing happens to the slots.
LEMMA OthersRefine ==
    ASSUME UNCHANGED <<image, sector>>, UNCHANGED req \/ req' = NoReq
    PROVE  Slots!Next \/ UNCHANGED <<HeldByAll, ListedForAll, JobOf(req)>>
<1>1. UNCHANGED <<HeldByAll, ListedForAll>>
  BY SlotsUntouched
<1>2. JobOf(req)' = JobOf(req) \/ JobOf(req)' = Slots!NoJob
  BY NoReqNoJob DEF JobOf
<1> QED
  BY <1>1, <1>2 DEF Slots!Next, Slots!Drop

\* Every step of the server is a step of FirmwareSlots, or leaves it as it is.
LEMMA StepRefines ==
    ASSUME SlotInv, [Next]_vars, "secondApp" \notin EraseTargets
    PROVE  Slots!Next \/ UNCHANGED <<HeldByAll, ListedForAll, JobOf(req)>>
<1>1. TypeOK /\ JobKnown
  BY DEF SlotInv
<1>2. CASE PowerLoss \/ restart_execute_handle
  BY <1>2, OthersRefine DEF PowerLoss, restart_execute_handle, Reset, RamLost, flash
<1>3. CASE \E pin \in BOOLEAN : Bootloader(pin)
  BY <1>3, OthersRefine DEF Bootloader, task
<1>4. CASE start_ota_file_server
  BY <1>1, <1>4, ServerStarts, OthersRefine DEF RamLost, task
<1>5. CASE BadRequest \/ \E p \in UploadTargets \cap AppParts : run_post_handler(p)
  BY <1>5, OthersRefine DEF BadRequest, run_post_handler, Answer, task
<1>6. ASSUME NEW asked \in UploadTargets, NEW mentioned \in NameMentions,
             NEW f \in Images, NEW n \in BodyLens,
             upload_post_handler(asked, mentioned, f, n)
      PROVE  Slots!Next
  <2> DEFINE j == [op |-> "upload", part |-> req'.part, fw |-> f]
  <2>1. /\ pc = "idle" /\ UNCHANGED <<image, sector>> /\ req'.part \in AppParts
        /\ req'.op = "upload" /\ req'.fw = f
    BY <1>6 DEF upload_post_handler
  <2>2. req = NoReq
    BY <1>1, <2>1 DEF TypeOK, Busy
  <2>3. j \in Slots!Jobs
    BY <2>1 DEF Slots!Jobs
  <2>4. JobOf(req) = Slots!NoJob /\ JobOf(req)' = j
    BY <2>1, <2>2, NoReqNoJob DEF JobOf
  <2>5. Slots!Accept(j)
    BY <2>1, <2>4, SlotsUntouched DEF Slots!Accept
  <2> QED
    BY <2>3, <2>5 DEF Slots!Next
<1>7. ASSUME NEW p \in EraseTargets, erase_post_handler(p)
      PROVE  Slots!Next \/ UNCHANGED <<HeldByAll, ListedForAll, JobOf(req)>>
  <2>1. pc = "idle" /\ UNCHANGED <<image, sector>>
    BY <1>7 DEF erase_post_handler, Answer, flash
  <2>2. CASE UNCHANGED req
    BY <2>1, <2>2, OthersRefine
  <2>3. CASE ~UNCHANGED req
    <3> DEFINE j == [op |-> "erase", part |-> p, fw |-> Blank]
    <3>1. p \in AppParts /\ req'.op = "erase" /\ req'.part = p /\ req'.fw = Blank
      BY <1>7, <2>3 DEF erase_post_handler, Answer, task
    <3>2. req = NoReq
      BY <1>1, <2>1 DEF TypeOK, Busy
    <3>3. j \in Slots!Jobs
      BY <3>1 DEF Slots!Jobs
    <3>4. JobOf(req) = Slots!NoJob /\ JobOf(req)' = j
      BY <3>1, <3>2, NoReqNoJob DEF JobOf
    <3>5. Slots!Accept(j)
      BY <2>1, <3>4, SlotsUntouched DEF Slots!Accept
    <3> QED
      BY <3>3, <3>5 DEF Slots!Next
  <2> QED
    BY <2>2, <2>3
<1>8. CASE KeyErase
  <2>0. PICK pt : pt = req.part
    OBVIOUS
  <2>1. /\ sector' = [sector EXCEPT ![pt] = NoRecord] /\ pc \in Busy
        /\ UNCHANGED <<image, req>> /\ pt = req.part
    BY <1>8, <2>0, SavedWhereRead DEF KeyErase, task, Busy
  <2>2. ~Valid(NoRecord)
    BY DEF Valid, NoRecord
  <2> QED
    BY <2>1, <2>2, SaveRefines
<1>9. CASE KeyWrite
  <2>0. PICK pt, rec : pt = req.part /\ rec = info[pt]
    OBVIOUS
  <2>1. /\ sector' = [sector EXCEPT ![pt] = rec]
        /\ pc = "keyWrite" /\ UNCHANGED image /\ pt = req.part
    BY <1>9, <2>0, SavedWhereRead DEF KeyWrite
  <2>2. UNCHANGED req \/ JobOf(req)' = Slots!NoJob
    BY <1>9, FinishNoJob DEF KeyWrite, AfterSave, task
  <2>3. Valid(rec) => /\ req.op = "upload" /\ req.fw \in Bootable /\ rec.fw = req.fw
                      /\ image[pt] = Whole(req.fw) /\ ~Valid(sector[pt])
    BY <1>1, <2>0, <2>1 DEF JobKnown
  <2>4. pc \in Busy
    BY <2>1 DEF Busy
  <2> QED
    BY <2>1, <2>2, <2>3, <2>4, SaveRefines
<1>10. CASE \/ KeyDataFails \/ OtaBeginFails \/ TooLarge \/ OtaBegin \/ RecvStall \/ RecvTimeout
            \/ RecvError \/ OtaEnd \/ SetBoot \/ EraseFails \/ EraseDone
  <2>1. UNCHANGED <<image, sector>>
    BY <1>10
    DEF KeyDataFails, OtaBeginFails, TooLarge, OtaBegin, RecvStall, RecvTimeout, RecvError,
        OtaEnd, SetBoot, EraseFails, EraseDone, flash
  <2>2. UNCHANGED req \/ req' = NoReq
    BY <1>10
    DEF KeyDataFails, OtaBeginFails, TooLarge, OtaBegin, RecvStall, RecvTimeout, RecvError,
        OtaEnd, SetBoot, EraseFails, EraseDone, AfterSave, Finish, task
  <2> QED
    BY <2>1, <2>2, OthersRefine
<1>11. CASE RecvChunk
  <2>0. PICK pt : pt = req.part
    OBVIOUS
  <2>1. /\ pc = "recv" /\ UNCHANGED <<sector, req>> /\ pt \in AppParts /\ pt = req.part
        /\ image' = [image EXCEPT ![pt][got + 1] = req.fw]
        /\ got + 1 \in 1..NumChunks
        /\ KeyDataMayFail \/ ~Valid(sector[pt])
    BY <1>1, <1>11, <2>0, NumChunksAssumption
    DEF RecvChunk, Receiving, TypeOK, Requests, JobKnown, Busy
  <2>2. \A q \in AppParts : q # pt => image'[q] = image[q]
    BY <1>1, <2>1 DEF TypeOK
  <2>3. image'[pt][got + 1] = req.fw
    BY <1>1, <2>1 DEF TypeOK, PartImage
  <2>4. image'[pt] = Whole(image'[pt][1]) => image'[pt][1] = req.fw
    BY <2>1, <2>3 DEF Whole
  <2>5. HeldBy(pt)' \in {Blank, req.fw}
    BY <2>4 DEF HeldBy
  <2>6. pc \in Busy
    BY <2>1 DEF Busy
  <2> QED
    BY <2>1, <2>2, <2>5, <2>6, WriteRefines
<1>12. CASE OtaWriteFails \/ EraseChunk
  <2>1. UNCHANGED req \/ JobOf(req)' = Slots!NoJob
    BY <1>12, FinishNoJob DEF OtaWriteFails, EraseChunk
  <2>2. CASE UNCHANGED image
    <3>1. UNCHANGED <<image, sector>> /\ (UNCHANGED req \/ req' = NoReq)
      BY <1>12, <2>2 DEF OtaWriteFails, EraseChunk, Finish
    <3> QED
      BY <3>1, OthersRefine
  <2>3. CASE ~UNCHANGED image
    <3>0. PICK pt : pt = req.part
      OBVIOUS
    <3>1. /\ pc \in {"recv", "eraseImage"} /\ UNCHANGED sector
          /\ pt \in AppParts /\ pt = req.part
          /\ got + 1 \in 1..NumChunks
          /\ image' = [image EXCEPT ![pt][got + 1] = Blank]
      BY <1>1, <1>12, <2>3, <3>0, NumChunksAssumption
      DEF OtaWriteFails, EraseChunk, Receiving, TypeOK, Requests, Busy
    <3>2. \A q \in AppParts : q # pt => image'[q] = image[q]
      BY <1>1, <3>1 DEF TypeOK
    <3>3. image'[pt][got + 1] = Blank
      BY <1>1, <3>1 DEF TypeOK, PartImage
    <3>4. image'[pt] = Whole(image'[pt][1]) => image'[pt][1] = Blank
      BY <3>1, <3>3 DEF Whole
    <3>5. HeldBy(pt)' = Blank
      BY <3>4 DEF HeldBy
    <3>6. req.op = "erase" \/ ~Valid(sector[pt]) \/ KeyDataMayFail
      BY <1>1, <3>1 DEF JobKnown
    <3>7. pc \in Busy
      BY <3>1 DEF Busy
    <3> QED
      BY <2>1, <3>1, <3>2, <3>5, <3>6, <3>7, WriteRefines
  <2> QED
    BY <2>2, <2>3
<1>13. CASE UNCHANGED vars
  BY <1>13, OthersRefine DEF vars
<1> QED
  BY <1>2, <1>3, <1>4, <1>5, <1>6, <1>7, <1>8, <1>9, <1>10, <1>11, <1>12, <1>13
  DEF Next, Request, HandlerStep

\* For any number of chunks and firmwares, with power losses anywhere, and
\* whether or not key_data may fail: a saved record comes to list a firmware only
\* when the partition holds all of it, and the contents of a listed partition are
\* overwritten only by an erase, or where a record could not be saved.  (Not when
\* secondApp is erased, whose record is saved to another's sector.)
THEOREM ServerImplementsSlots ==
    ASSUME "secondApp" \notin EraseTargets
    PROVE  Spec => ImplementsSlots
<1>1. Init => SlotInv
  BY InitSlotInv
<1>2. SlotInv /\ [Next]_vars => SlotInv'
  BY NextSlotInv
<1>3. Init => Slots!Init
  <2> SUFFICES ASSUME Init PROVE Slots!Init
    OBVIOUS
  <2>1. \A p \in AppParts : HeldBy(p) = Blank /\ ListedFor(p) = Blank
    BY NumChunksAssumption DEF Init, HeldBy, ListedFor, Whole, Valid, NoRecord
  <2> QED
    BY <2>1, NoReqNoJob
    DEF Init, Slots!Init, Slots!NoneOf, HeldByAll, ListedForAll
<1>4. SlotInv /\ [Next]_vars => [Slots!Next]_<<HeldByAll, ListedForAll, JobOf(req)>>
  BY StepRefines
<1> QED
  BY <1>1, <1>2, <1>3, <1>4, PTL DEF Spec, ImplementsSlots, Slots!Spec
=============================================================================
