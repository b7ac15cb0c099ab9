------------------------ MODULE FirmwareRecordsProofs ------------------------
(* Two theorems about FirmwareServer that hold unless secondApp is erased: the *)
(* records the server works with are the saved ones, and an erased firmware    *)
(* is gone from them.                                                         *)
EXTENDS FirmwareServerProofs

-----------------------------------------------------------------------------
\* While a record is being saved the two copies of the others agree; at any other
\* time all do.  (A request for an erase is never one for secondApp, whose record
\* would be saved in the sector of flashApp.)
CoherentInv ==
    /\ pc \in {"idle", "begin", "recv", "setBoot", "eraseImage"} => info = sector
    /\ pc \in {"keyErase", "keyWrite"} =>
            \A p \in AppParts : p # req.part => info[p] = sector[p]
    /\ req.op = "erase" => req.part # "secondApp"
    /\ ErasedIsForgotten

\* Between requests only the replies of an erase claim something.
LEMMA FinishCoherent ==
    ASSUME NEW what \in {"uploaded", "failed", "timeout"}, Finish(what), info' = sector'
    PROVE  CoherentInv'
  BY DEF Finish, Reply, CoherentInv, ErasedIsForgotten, NoReq

LEMMA AnswerCoherent ==
    ASSUME CoherentInv, pc = "idle", NEW what, NEW p, NEW f, Answer(what, p, f),
           what = "erased" /\ p \in AppParts => ~Valid(sector[p])
    PROVE  CoherentInv'
  BY DEF Answer, Reply, task, CoherentInv, ErasedIsForgotten

\* A handler at work that leaves the records alone.
LEMMA WorkingCoherent ==
    ASSUME CoherentInv, UNCHANGED <<sector, info, req>>,
           pc \in {"begin", "recv", "setBoot", "eraseImage"},
           pc' \in {"begin", "recv", "setBoot", "eraseImage"}
    PROVE  CoherentInv'
  BY DEF CoherentInv, ErasedIsForgotten

LEMMA NextCoherent ==
    ASSUME IInv, ReplyInv, CoherentInv, [Next]_vars,
           KeyDataMayFail = FALSE, "secondApp" \notin EraseTargets
    PROVE  CoherentInv'
  <1>1. TypeOK /\ HandlerKnows
    BY DEF IInv
  <1>2. pc \in Busy => req.part \in AppParts
    BY <1>1 DEF TypeOK, Requests
  <1>3. CASE PowerLoss \/ restart_execute_handle
    BY <1>3 DEF PowerLoss, restart_execute_handle, Reset, RamLost, NoReq, NoReply, Reply,
                CoherentInv, ErasedIsForgotten
  <1>4. CASE \E pin \in BOOLEAN : Bootloader(pin)
    <2>1. pc' \in {"start", "off"} /\ req' = req
      BY <1>4 DEF Bootloader, task
    <2> QED
      BY <2>1 DEF CoherentInv, ErasedIsForgotten
  <1>5. CASE start_ota_file_server
    <2>1. pc = "start" /\ UNCHANGED sector
      BY <1>5 DEF start_ota_file_server
    <2>2. CASE RamLost
      BY <2>2 DEF RamLost, NoReq, CoherentInv, ErasedIsForgotten
    <2>3. CASE info' = ReadRecords({}) /\ pc' = "idle" /\ UNCHANGED <<task, reply>>
      <3>1. info' = sector
        BY <1>1, <2>3 DEF ReadRecords, TypeOK
      <3>2. reply.what = "none"
        BY <2>1 DEF ReplyInv
      <3>3. req = NoReq
        BY <1>1, <2>1 DEF TypeOK, Busy
      <3> QED
        BY <2>1, <2>3, <3>1, <3>2, <3>3 DEF task, CoherentInv, ErasedIsForgotten, NoReq
    <2> QED
      BY <1>5, <2>2, <2>3 DEF start_ota_file_server
  <1>6. CASE BadRequest
    BY <1>6, AnswerCoherent DEF BadRequest
  <1>7. ASSUME NEW asked \in UploadTargets, NEW mentioned \in NameMentions,
               NEW f \in Images, NEW n \in BodyLens,
               upload_post_handler(asked, mentioned, f, n)
        PROVE  CoherentInv'
    <2> DEFINE q == server_get_partition_name({asked} \cup mentioned)
    <2>1. /\ pc = "idle" /\ q \in AppParts /\ pc' = "keyErase"
          /\ info' = [info EXCEPT ![q] = Invalidated(info[q])] /\ sector' = sector
          /\ req' = [op |-> "upload", part |-> q, asked |-> asked, fw |-> f, len |-> n]
      BY <1>7 DEF upload_post_handler
    <2> HIDE DEF q
    <2>2. req'.op = "upload" /\ req'.part = q
      BY <2>1
    <2>3. \A p \in AppParts : p # q => info'[p] = sector'[p]
      BY <1>1, <2>1 DEF TypeOK, CoherentInv
    <2> QED
      BY <2>1, <2>2, <2>3 DEF CoherentInv, ErasedIsForgotten
  <1>8. ASSUME NEW p \in AppParts, run_post_handler(p) PROVE CoherentInv'
    BY <1>8, AnswerCoherent DEF run_post_handler
  <1>9. ASSUME NEW p \in EraseTargets, erase_post_handler(p) PROVE CoherentInv'
    <2>1. pc = "idle" /\ info = sector
      BY <1>9 DEF erase_post_handler, CoherentInv
    <2>2. CASE /\ req' = [op |-> "erase", part |-> p, asked |-> p, fw |-> Blank, len |-> 0]
               /\ pc' = "eraseImage" /\ UNCHANGED <<flash, info>>
      <3>1. req'.part # "secondApp"
        BY <2>2
      <3> QED
        BY <2>1, <2>2, <3>1 DEF flash, CoherentInv, ErasedIsForgotten
    <2>3. CASE p \in AppParts /\ ~Valid(info[p]) /\ Answer("erased", p, Blank)
      BY <2>1, <2>3, AnswerCoherent
    <2>4. CASE p = "nvs" /\ \E what \in {"erased", "failed"} : Answer(what, p, Blank)
      <3>1. p \notin AppParts
        BY <2>4 DEF AppParts
      <3> QED
        BY <2>1, <2>4, <3>1, AnswerCoherent
    <2> QED
      BY <1>9, <2>2, <2>3, <2>4 DEF erase_post_handler
  <1>10. CASE KeyErase
    <2>1. /\ pc = "keyErase" /\ pc' = "keyWrite"
          /\ sector' = [sector EXCEPT ![req.part] = NoRecord] /\ UNCHANGED <<info, req>>
      <3>1. pc = "keyErase" /\ pc' = "keyWrite" /\ UNCHANGED <<info, req>>
            /\ sector' = [sector EXCEPT ![SavedSector(req)] = NoRecord]
        BY <1>10 DEF KeyErase, task
      <3>2. SavedSector(req) = req.part
        BY DEF SavedSector, CoherentInv
      <3> QED
        BY <3>1, <3>2
    <2>2. \A p \in AppParts : p # req.part => info'[p] = sector'[p]
      BY <1>1, <2>1 DEF TypeOK, CoherentInv
    <2> QED
      BY <2>1, <2>2 DEF CoherentInv, ErasedIsForgotten
  <1>11. CASE KeyWrite
    <2>1. /\ pc = "keyWrite" /\ AfterSave /\ UNCHANGED info
          /\ sector' = [sector EXCEPT ![req.part] = info[req.part]]
      <3>1. pc = "keyWrite" /\ AfterSave /\ UNCHANGED info
            /\ sector' = [sector EXCEPT ![SavedSector(req)] = info[req.part]]
        BY <1>11 DEF KeyWrite
      <3>2. SavedSector(req) = req.part
        BY DEF SavedSector, CoherentInv
      <3> QED
        BY <3>1, <3>2
    <2>2. info' = sector'
      <3>1. /\ sector' \in [AppParts -> Record] /\ info' \in [AppParts -> Record]
            /\ \A p \in AppParts : sector'[p] = info'[p]
        BY <1>1, <1>2, <2>1 DEF TypeOK, CoherentInv, Busy
      <3> QED
        BY <3>1
    <2>3. CASE req.op = "upload" /\ ~Valid(info[req.part])
      BY <2>1, <2>2, <2>3 DEF AfterSave, task, CoherentInv, ErasedIsForgotten
    <2>4. CASE req.op = "upload" /\ Valid(info[req.part])
      BY <2>1, <2>2, <2>4, FinishCoherent DEF AfterSave
    <2>5. CASE req.op # "upload"
      <3>1. Finish("erased") /\ ~Valid(info[req.part])
        BY <1>1, <2>1, <2>5 DEF AfterSave, HandlerKnows
      <3>2. pc' = "idle" /\ reply'.part = req.part /\ req'.op = "none"
        BY <3>1 DEF Finish, Reply, NoReq
      <3>3. ~Valid(sector'[req.part])
        BY <2>1, <2>2, <3>1
      <3> QED
        BY <2>2, <3>2, <3>3 DEF CoherentInv, ErasedIsForgotten
    <2> QED
      BY <2>3, <2>4, <2>5
  <1>12. CASE KeyDataFails
    BY <1>12 DEF KeyDataFails
  <1>13. CASE OtaBeginFails \/ TooLarge \/ RecvTimeout \/ RecvError \/ OtaWriteFails \/ EraseFails
    BY <1>13, FinishCoherent
    DEF OtaBeginFails, TooLarge, RecvTimeout, RecvError, OtaWriteFails, EraseFails, Receiving,
        flash, CoherentInv
  <1>14. CASE OtaBegin \/ RecvStall \/ RecvChunk \/ EraseChunk
    BY <1>14, WorkingCoherent
    DEF OtaBegin, RecvStall, RecvChunk, EraseChunk, Receiving, flash
  <1>15. CASE OtaEnd
    <2>1. pc = "recv" /\ UNCHANGED <<sector, info>>
          /\ (Finish("failed") \/ (pc' = "setBoot" /\ UNCHANGED req))
      BY <1>15 DEF OtaEnd, flash, task
    <2>2. info' = sector'
      BY <2>1 DEF CoherentInv
    <2> QED
      BY <2>1, <2>2, FinishCoherent, WorkingCoherent
  <1>16. CASE SetBoot
    <2>1. pc = "setBoot" /\ UNCHANGED sector
      BY <1>16 DEF SetBoot
    <2>2. CASE /\ info' = [info EXCEPT ![req.part] = [flag |-> "VALID", fw |-> req.fw]]
               /\ pc' = "keyErase" /\ UNCHANGED req
      <3>1. \A p \in AppParts : p # req.part => info'[p] = sector'[p]
        BY <1>1, <2>1, <2>2 DEF TypeOK, CoherentInv
      <3> QED
        BY <2>2, <3>1 DEF CoherentInv, ErasedIsForgotten
    <2>3. CASE Finish("failed") /\ UNCHANGED info
      <3>1. info' = sector'
        BY <2>1, <2>3 DEF CoherentInv
      <3> QED
        BY <2>3, <3>1, FinishCoherent
    <2> QED
      BY <1>16, <2>2, <2>3 DEF SetBoot, task
  <1>17. CASE EraseDone
    <2>1. /\ pc = "eraseImage" /\ pc' = "keyErase" /\ UNCHANGED <<sector, req>>
          /\ info' = [info EXCEPT ![req.part] = Invalidated(info[req.part])]
      BY <1>17 DEF EraseDone, flash, task
    <2>2. \A p \in AppParts : p # req.part => info'[p] = sector'[p]
      BY <1>1, <2>1 DEF TypeOK, CoherentInv
    <2> QED
      BY <2>1, <2>2 DEF CoherentInv, ErasedIsForgotten
  <1>18. CASE UNCHANGED vars
    BY <1>18 DEF vars, CoherentInv, ErasedIsForgotten
  <1> QED
    BY <1>3, <1>4, <1>5, <1>6, <1>7, <1>8, <1>9, <1>10, <1>11, <1>12, <1>13, <1>14, <1>15,
       <1>16, <1>17, <1>18
    DEF Next, Request, HandlerStep

LEMMA CoherentAlways ==
    ASSUME KeyDataMayFail = FALSE, "secondApp" \notin EraseTargets
    PROVE  Spec => []CoherentInv
  <1>1. Init => IInv /\ ReplyInv /\ CoherentInv
    BY InitIInv DEF Init, ReplyInv, CoherentInv, ErasedIsForgotten, NoReply, Reply, NoReq
  <1>2. IInv /\ ReplyInv /\ CoherentInv /\ [Next]_vars => IInv' /\ ReplyInv' /\ CoherentInv'
    BY NextIInv, NextReplyInv, NextCoherent
  <1> QED
    BY <1>1, <1>2, PTL DEF Spec

\* With key_data writable, and secondApp never erased, the records in RAM are the
\* saved ones whenever the server waits for a request, however the last one ended
\* and wherever the power failed before.
THEOREM RecordsAreCoherent ==
    ASSUME KeyDataMayFail = FALSE, "secondApp" \notin EraseTargets
    PROVE  Spec => []RecordsCoherent
  <1>1. CoherentInv => RecordsCoherent
    BY DEF CoherentInv, RecordsCoherent
  <1> QED
    BY <1>1, CoherentAlways, PTL

\* And a partition reported as erased has no valid record left for a restart.
THEOREM ErasedForGood ==
    ASSUME KeyDataMayFail = FALSE, "secondApp" \notin EraseTargets
    PROVE  Spec => []ErasedIsForgotten
  <1>1. CoherentInv => ErasedIsForgotten
    BY DEF CoherentInv
  <1> QED
    BY <1>1, CoherentAlways, PTL
=============================================================================
