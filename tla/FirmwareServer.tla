--------------------------- MODULE FirmwareServer ---------------------------
(* The HTTP firmware server of src/main/file_server.c with the record sectors *)
(* of src/main/key_data.c, across power losses and restarts.                 *)
(*                                                                           *)
(* One httpd task serves one request at a time; pc says where its handler    *)
(* is.  Every flash operation is a step of its own, so that a power loss can *)
(* fall between any two of them.  A partition's record is kept twice: in its *)
(* sector of key_data (sector) and in the static firmware_info_t of          *)
(* file_server.c (info).                                                     *)
EXTENDS OtaFlash

CONSTANTS
    UploadTargets,   \* partitions clients select for an upload
    EraseTargets,    \* partitions clients erase
    NameMentions,    \* sets of partition names that uploaded file names contain
    BodyLens,        \* Content-Length of uploads, in chunks
    MaxHandles,      \* update handles the heap has room for
    KeyDataMayFail   \* whether reads and writes of key_data may fail

PartNames == AppParts \cup {"nvs"}

ASSUME TargetsAssumption ==
    /\ UploadTargets \subseteq PartNames /\ EraseTargets \subseteq PartNames
    /\ NameMentions \subseteq SUBSET PartNames
ASSUME BodyLensAssumption == BodyLens \subseteq Nat
ASSUME MaxHandlesAssumption == MaxHandles \in Nat
ASSUME KeyDataMayFailAssumption == KeyDataMayFail \in BOOLEAN

VARIABLES
    image,    \* flash: contents of the application partitions
    boot,     \* flash: otadata
    sector,   \* flash: the firmware_info_t sectors of key_data
    info,     \* RAM: app_info, second_app_info, flash_app_info
    handles,  \* RAM: update handles begun and neither ended nor aborted
    running,  \* "off", "factory" (WirelessBoot), or the started partition
    pc,       \* where the httpd task is
    req,      \* the request its handler works on
    got,      \* chunks of it received, or chunks erased
    stalls,   \* consecutive receive timeouts
    reply     \* the last HTTP reply

vars == <<image, boot, sector, info, handles, running, pc, req, got, stalls, reply>>
flash == <<image, boot, sector>>
task == <<req, got, stalls>>

-----------------------------------------------------------------------------
\* Definitions named Operator_Change are slips in the code that the properties
\* are tried against; the specification does not use them.

\* firmware_info_t: the flag and the firmware the record names.  "NONE" is any
\* flag that is neither FIRMWARE_VALID nor FIRMWARE_INVALID: 0xFFFFFFFF in an
\* erased sector, 0 in a zeroed static.
Record == [flag : {"VALID", "INVALID", "NONE"}, fw : Chunk]
NoRecord == [flag |-> "NONE", fw |-> Blank]
Valid(rec) == rec.flag = "VALID"
Invalidated_Skipped(rec) == rec
Invalidated(rec) == [rec EXCEPT !.flag = "INVALID"]

Requests == [op : {"none", "upload", "erase"}, part : AppParts \cup {NoPart},
             asked : PartNames \cup {NoPart}, fw : Chunk, len : Nat]
NoReq == [op |-> "none", part |-> NoPart, asked |-> NoPart, fw |-> Blank, len |-> 0]

Replies == [what : {"none", "badRequest", "uploaded", "failed", "timeout",
                    "running", "noFirmware", "erased"},
            part : PartNames \cup {NoPart}, fw : Chunk]
Reply(what, p, f) == [what |-> what, part |-> p, fw |-> f]
NoReply == Reply("none", NoPart, Blank)

\* The order of the strstr() tests of server_get_partition_name(), and of the
\* tests of start_ota_file_server().
SearchOrder == [app |-> 1, secondApp |-> 2, flashApp |-> 3, nvs |-> 4]
FirstIn(S) == CHOOSE p \in S : \A q \in S : SearchOrder[p] <= SearchOrder[q]

server_get_partition_name_LastMatch(mentioned) ==
    IF mentioned = {} THEN "err"
    ELSE CHOOSE p \in mentioned : \A q \in mentioned : SearchOrder[p] >= SearchOrder[q]

server_get_partition_name(mentioned) ==
    IF mentioned = {} THEN "err" ELSE FirstIn(mentioned)

\* The records as key_get_*_info() read them; lost ones stay zero.
ReadRecords(lost) == [p \in AppParts |-> IF p \in lost THEN NoRecord ELSE sector[p]]

next_run_partition(rec) ==
    LET valid == {p \in AppParts : Valid(rec[p])}
    IN  IF valid = {} THEN NoPart ELSE FirstIn(valid)

\* The rows of the page the server lists its firmwares on.
http_resp_dir_html == {<<p, info[p].fw>> : p \in {q \in AppParts : Valid(info[q])}}

\* Waits of httpd_req_recv (recv_wait_timeout of HTTPD_DEFAULT_CONFIG), in ms.
RecvWait == 5000
HTTPD_REC_DATA_TIMEOUT == 9000
Expired == stalls * RecvWait > HTTPD_REC_DATA_TIMEOUT

SavedSector_Swapped(r) == IF r.part = "app" THEN "secondApp" ELSE "app"

\* The sector a handler saves its record to: the erase of secondApp calls
\* key_set_flash_app_info().
SavedSector(r) ==
    IF r.op = "erase" /\ r.part = "secondApp" THEN "flashApp" ELSE r.part

-----------------------------------------------------------------------------
Init ==
    /\ image = [p \in AppParts |-> Whole(Blank)]
    /\ boot = NoPart
    /\ sector = [p \in AppParts |-> NoRecord]
    /\ info = [p \in AppParts |-> NoRecord]
    /\ handles = 0
    /\ running = "off"
    /\ pc = "off"
    /\ req = NoReq /\ got = 0 /\ stalls = 0
    /\ reply = NoReply

\* The chip restarts: RAM is lost.
RamLost ==
    /\ running' = "off" /\ pc' = "off"
    /\ info' = [p \in AppParts |-> NoRecord]
    /\ handles' = 0
    /\ req' = NoReq /\ got' = 0 /\ stalls' = 0
    /\ reply' = NoReply

Reset == RamLost /\ UNCHANGED flash

PowerLoss == running # "off" /\ Reset

restart_execute_handle == pc = "idle" /\ Reset

\* The factory reset pin erases otadata, so that factory is started.
Bootloader(pin) ==
    /\ running = "off"
    /\ boot' = IF pin THEN NoPart ELSE boot
    /\ running' = BootedFrom(image, boot')
    /\ pc' = IF running' = "factory" THEN "start" ELSE "off"
    /\ UNCHANGED <<image, sector, info, handles, task, reply>>

\* The first partition with a valid record becomes the next to boot, if its
\* image verifies.  When the server data cannot be allocated or httpd_start()
\* fails, the ESP_ERROR_CHECK of app_main() restarts the chip.
start_ota_file_server ==
    /\ pc = "start"
    /\ \E lost \in IF KeyDataMayFail THEN SUBSET AppParts ELSE {{}} :
        LET rec == ReadRecords(lost)
            next == next_run_partition(rec)
        IN  /\ \/ next # NoPart /\ Verifies(image[next]) /\ boot' = next
               \/ UNCHANGED boot
            /\ \/ /\ info' = rec
                  /\ pc' = "idle"
                  /\ UNCHANGED <<handles, running, task, reply>>
               \/ RamLost
    /\ UNCHANGED <<image, sector>>

-----------------------------------------------------------------------------
\* The handler of request req returns with a reply.
Finish(what) ==
    /\ pc' = "idle"
    /\ reply' = Reply(what, req.part, req.fw)
    /\ req' = NoReq /\ got' = 0 /\ stalls' = 0

\* A request answered at once.
Answer(what, p, f) ==
    /\ reply' = Reply(what, p, f)
    /\ UNCHANGED <<image, sector, info, handles, running, pc, task>>

\* Path too long, path that ends in '/', no usable partition name in it.
BadRequest == pc = "idle" /\ Answer("badRequest", NoPart, Blank) /\ UNCHANGED boot

\* upload_post_handler() up to the first key_set_*_info(): the path names the
\* selected partition and the file, and the first name found in it wins.
upload_post_handler(asked, mentioned, f, n) ==
    LET p == server_get_partition_name({asked} \cup mentioned)
    IN  /\ pc = "idle"
        /\ p \in AppParts
        /\ req' = [op |-> "upload", part |-> p, asked |-> asked, fw |-> f, len |-> n]
        /\ info' = [info EXCEPT ![p] = Invalidated(@)]
        /\ pc' = "keyErase"
        /\ reply' = NoReply
        /\ UNCHANGED <<image, boot, sector, handles, running, got, stalls>>

\* key_data_flash_write(): erase the sector, then program it.  key_set_*_info()
\* logs an error and returns as if nothing had happened.
AfterSave ==
    IF req.op = "upload" /\ ~Valid(info[req.part])
    THEN pc' = "begin" /\ UNCHANGED <<task, reply>>
    ELSE Finish(IF req.op = "upload" THEN "uploaded" ELSE "erased")

KeyErase ==
    /\ pc = "keyErase"
    /\ sector' = [sector EXCEPT ![SavedSector(req)] = NoRecord]
    /\ pc' = "keyWrite"
    /\ UNCHANGED <<image, boot, info, handles, running, task, reply>>

KeyWrite ==
    /\ pc = "keyWrite"
    /\ sector' = [sector EXCEPT ![SavedSector(req)] = info[req.part]]
    /\ AfterSave
    /\ UNCHANGED <<image, boot, info, handles, running>>

KeyDataFails ==
    /\ KeyDataMayFail
    /\ pc \in {"keyErase", "keyWrite"}
    /\ AfterSave
    /\ UNCHANGED <<flash, info, handles, running>>

-----------------------------------------------------------------------------
\* esp_ota_begin() with OTA_WITH_SEQUENTIAL_WRITES erases nothing yet.  It may
\* fail at any time, and must when the heap has no room for a handle.
OtaBeginFails ==
    /\ pc = "begin"
    /\ Finish("failed")
    /\ UNCHANGED <<flash, info, handles, running>>

\* The check of the length comes after esp_ota_begin(), and returns.
TooLarge ==
    /\ pc = "begin"
    /\ handles < MaxHandles
    /\ handles' = handles + 1
    /\ req.len > NumChunks
    /\ Finish("failed")
    /\ UNCHANGED <<flash, info, running>>

OtaBegin_AnyLength ==
    /\ pc = "begin"
    /\ handles < MaxHandles
    /\ handles' = handles + 1
    /\ got' = 0 /\ stalls' = 0
    /\ pc' = "recv"
    /\ UNCHANGED <<flash, info, running, req, reply>>

OtaBegin ==
    /\ pc = "begin"
    /\ handles < MaxHandles
    /\ handles' = handles + 1
    /\ req.len <= NumChunks
    /\ got' = 0 /\ stalls' = 0
    /\ pc' = "recv"
    /\ UNCHANGED <<flash, info, running, req, reply>>

Receiving == pc = "recv" /\ got < req.len

RecvStall ==
    /\ Receiving /\ ~Expired
    /\ stalls' = stalls + 1
    /\ UNCHANGED <<flash, info, handles, running, pc, req, got, reply>>

RecvTimeout_Retries ==
    /\ Receiving /\ Expired
    /\ stalls' = 0
    /\ UNCHANGED <<flash, info, handles, running, pc, req, got, reply>>

\* 408, without esp_ota_abort().
RecvTimeout ==
    /\ Receiving /\ Expired
    /\ Finish("timeout")
    /\ UNCHANGED <<flash, info, handles, running>>

RecvError ==
    /\ Receiving /\ ~Expired
    /\ handles' = handles - 1
    /\ Finish("failed")
    /\ UNCHANGED <<flash, info, running>>

RecvChunk ==
    /\ Receiving /\ ~Expired
    /\ image' = [image EXCEPT ![req.part][got + 1] = req.fw]
    /\ got' = got + 1 /\ stalls' = 0
    /\ UNCHANGED <<boot, sector, info, handles, running, pc, req, reply>>

\* esp_ota_write() erases before it writes, and may fail before or after.
OtaWriteFails ==
    /\ Receiving /\ ~Expired
    /\ \/ image' = [image EXCEPT ![req.part][got + 1] = Blank]
       \/ UNCHANGED image
    /\ handles' = handles - 1
    /\ Finish("failed")
    /\ UNCHANGED <<boot, sector, info, running>>

\* esp_ota_end() frees the handle, whatever it returns.
OtaEnd ==
    /\ pc = "recv" /\ got = req.len
    /\ handles' = handles - 1
    /\ \/ /\ got > 0 /\ Verifies(image[req.part])
          /\ pc' = "setBoot"
          /\ UNCHANGED <<task, reply>>
       \/ Finish("failed")
    /\ UNCHANGED <<flash, info, running>>

SetBoot ==
    /\ pc = "setBoot"
    /\ \/ /\ Verifies(image[req.part])
          /\ boot' = req.part
          /\ info' = [info EXCEPT ![req.part] = [flag |-> "VALID", fw |-> req.fw]]
          /\ pc' = "keyErase"
          /\ UNCHANGED <<task, reply>>
       \/ Finish("failed") /\ UNCHANGED <<boot, info>>
    /\ UNCHANGED <<image, sector, handles, running>>

-----------------------------------------------------------------------------
run_post_handler(p) ==
    /\ pc = "idle"
    /\ \/ /\ ~Valid(info[p])
          /\ Answer("noFirmware", p, Blank) /\ UNCHANGED boot
       \/ /\ Valid(info[p]) /\ Verifies(image[p])
          /\ boot' = p
          /\ Answer("running", p, info[p].fw)
       \/ /\ Valid(info[p])
          /\ Answer("failed", p, Blank) /\ UNCHANGED boot

\* A partition without a valid record is left alone, and reported as erased.
erase_post_handler(p) ==
    /\ pc = "idle"
    /\ \/ /\ p \in AppParts /\ Valid(info[p])
          /\ req' = [op |-> "erase", part |-> p, asked |-> p, fw |-> Blank, len |-> 0]
          /\ pc' = "eraseImage" /\ got' = 0
          /\ reply' = NoReply
          /\ UNCHANGED <<flash, info, handles, running, stalls>>
       \/ /\ p \in AppParts /\ ~Valid(info[p])
          /\ Answer("erased", p, Blank) /\ UNCHANGED boot
       \/ /\ p = "nvs"
          /\ \E what \in {"erased", "failed"} : Answer(what, p, Blank)
          /\ UNCHANGED boot

\* esp_partition_erase_range(), chunk by chunk.
EraseChunk ==
    /\ pc = "eraseImage" /\ got < NumChunks
    /\ image' = [image EXCEPT ![req.part][got + 1] = Blank]
    /\ got' = got + 1
    /\ UNCHANGED <<boot, sector, info, handles, running, pc, req, stalls, reply>>

EraseFails ==
    /\ pc = "eraseImage" /\ got < NumChunks
    /\ Finish("failed")
    /\ UNCHANGED <<flash, info, handles, running>>

EraseDone ==
    /\ pc = "eraseImage" /\ got = NumChunks
    /\ info' = [info EXCEPT ![req.part] = Invalidated(@)]
    /\ pc' = "keyErase"
    /\ UNCHANGED <<flash, handles, running, task, reply>>

-----------------------------------------------------------------------------
\* The steps of a handler that has taken a request.
HandlerStep ==
    \/ KeyErase \/ KeyWrite \/ KeyDataFails
    \/ OtaBeginFails \/ TooLarge \/ OtaBegin
    \/ RecvStall \/ RecvTimeout \/ RecvError \/ RecvChunk \/ OtaWriteFails
    \/ OtaEnd \/ SetBoot
    \/ EraseChunk \/ EraseFails \/ EraseDone

\* The requests of clients.
Request ==
    \/ BadRequest
    \/ \E asked \in UploadTargets, mentioned \in NameMentions, f \in Images, n \in BodyLens :
            upload_post_handler(asked, mentioned, f, n)
    \/ \E p \in UploadTargets \cap AppParts : run_post_handler(p)
    \/ \E p \in EraseTargets : erase_post_handler(p)

Next ==
    \/ PowerLoss
    \/ restart_execute_handle
    \/ \E pin \in BOOLEAN : Bootloader(pin)
    \/ start_ota_file_server
    \/ Request
    \/ HandlerStep

Spec == Init /\ [][Next]_vars

\* The httpd task is scheduled, flash operations return and httpd_req_recv()
\* returns within recv_wait_timeout.  Clients send nothing they do not want to.
FairSpec == Spec /\ WF_vars(HandlerStep)

-----------------------------------------------------------------------------
Busy == {"keyErase", "keyWrite", "begin", "recv", "setBoot", "eraseImage"}

\* The types of the variables, and how pc, running and req go together.
TypeOK ==
    /\ image \in [AppParts -> PartImage]
    /\ boot \in AppParts \cup {NoPart}
    /\ sector \in [AppParts -> Record] /\ info \in [AppParts -> Record]
    /\ handles \in 0..MaxHandles
    /\ running \in {"off", "factory"} \cup AppParts
    /\ pc \in {"off", "start", "idle"} \cup Busy
    /\ req \in Requests /\ got \in Nat /\ stalls \in Nat
    /\ reply \in Replies
    /\ running = "factory" <=> pc # "off"
    /\ IF pc \in Busy THEN req.part # NoPart /\ req.op # "none" ELSE req = NoReq
    /\ pc = "recv" => got <= req.len /\ req.len <= NumChunks /\ handles > 0
    /\ pc = "eraseImage" => got <= NumChunks

\* Whatever a valid record says is in its partition, in flash or on the page
\* the server shows, the partition holds nothing else: never a mixture of two
\* firmwares, never another firmware than the one named.  It holds between any
\* two flash operations, so it survives a power loss anywhere.
NeverMisdescribes ==
    /\ \A p \in AppParts : Valid(sector[p]) => RemainsOf(sector[p].fw, image[p])
    /\ \A row \in http_resp_dir_html : RemainsOf(row[2], image[row[1]])

\* "File uploaded successfully" is sent only when the partition holds the whole
\* body, its saved record says so and the next restart starts it; "Setting up
\* the ... partition runs successfully" only when the next restart starts it.
RepliesTrue ==
    pc = "idle" =>
        /\ reply.what = "uploaded" =>
            /\ image[reply.part] = Whole(reply.fw)
            /\ sector[reply.part] = [flag |-> "VALID", fw |-> reply.fw]
            /\ BootedFrom(image, boot) = reply.part
        /\ reply.what = "running" => BootedFrom(image, boot) = reply.part

\* Between two requests, the records the server works with are the saved ones:
\* a restart shows the same page.
RecordsCoherent == pc = "idle" => info = sector

\* No chunk of a partition is overwritten by an upload while one of the
\* partition's two records still calls its old contents valid.
InvalidatedFirst ==
    [][\A p \in AppParts :
        (image'[p] # image[p] /\ req.op = "upload") => ~Valid(sector[p]) /\ ~Valid(info[p])]_vars

\* "The ... partition has been erased" is not followed, after a restart, by a
\* page that lists the partition's firmware.
ErasedIsForgotten ==
    (pc = "idle" /\ reply.what = "erased" /\ reply.part \in AppParts) =>
        ~Valid(sector[reply.part])

\* Every handler returns: a slow or silent client does not keep the only httpd
\* task, and with it every other client, waiting.
HandlerReturns == pc \in Busy ~> pc \notin Busy

\* The steps of flash and waits for the client that are at most left before the
\* handler returns: MaxStalls + 1 per chunk that the client still owes, and two
\* for each save of the record.
MaxStalls == HTTPD_REC_DATA_TIMEOUT \div RecvWait + 1
WorkToReceive(n) == (MaxStalls + 1) * n + MaxStalls + 4
WorkToBegin == WorkToReceive(req.len) + 1
WorkAfterSave ==
    IF req.op = "upload" /\ ~Valid(info[req.part]) THEN WorkToBegin ELSE 0

Work ==
    CASE pc = "keyErase"   -> WorkAfterSave + 2
      [] pc = "keyWrite"   -> WorkAfterSave + 1
      [] pc = "begin"      -> WorkToBegin
      [] pc = "recv"       -> WorkToReceive(req.len - got) - stalls
      [] pc = "setBoot"    -> 3
      [] pc = "eraseImage" -> NumChunks - got + 3
      [] OTHER             -> 0

\* No step of a handler leaves it as far from its return as it was: however the
\* client times what it sends, and whichever step fails, a handler takes no more
\* steps than its work when it started.  (HandlerReturns adds that it takes them.)
HandlerProgresses ==
    [][(pc \in Busy /\ running' = running) => Work' \in 0 .. Work - 1]_vars

\* What a partition holds, if it is one firmware from the first to the last
\* chunk, and what its saved record lists, whatever the partition holds.
HeldBy(p) == IF image[p] = Whole(image[p][1]) THEN image[p][1] ELSE Blank
ListedFor(p) == IF Valid(sector[p]) THEN sector[p].fw ELSE Blank

HeldByAll == [p \in AppParts |-> HeldBy(p)]
ListedForAll == [p \in AppParts |-> ListedFor(p)]

JobOf(r) ==
    IF r.op = "none"
    THEN [op |-> "none", part |-> Blank, fw |-> Blank]
    ELSE [op |-> r.op, part |-> r.part, fw |-> r.fw]

Slots == INSTANCE FirmwareSlots WITH
    Parts <- AppParts, Empty <- Blank, SavesMayFail <- KeyDataMayFail,
    held <- HeldByAll, listed <- ListedForAll, job <- JobOf(req)

\* The server implements FirmwareSlots: its records, which it saves and reads
\* back, and its partitions, which it writes chunk by chunk, go together in
\* every order of steps, failures and power losses as FirmwareSlots says.
ImplementsSlots == Slots!Spec

-----------------------------------------------------------------------------
\* What the page and the comments say, and the code does not always do.

\* "Select upload partition": an upload goes to the partition selected.  It does
\* unless the file's name contains a name that is searched for before that.
UploadLandsWhereSelected == req.op = "upload" => req.part = req.asked

\* "update handle : set by esp_ota_begin(), must be freed via esp_ota_end()"
HandlesFreed == pc = "idle" => handles = 0
=============================================================================
