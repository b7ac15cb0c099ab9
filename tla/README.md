# WirelessBoot, specified

TLA+ modules, TLC configurations and TLAPS proofs for the ESP32-S3 firmware in
`src/`: a factory application that receives other applications over WiFi, by
HTTP or by a socket protocol, writes them to flash partitions and selects the
one the boot loader starts.

## 1. The system

| Part | Source | State | Operations |
| --- | --- | --- | --- |
| Firmware server | `main/file_server.c` | three static `firmware_info_t`, one request at a time in the httpd task | start; `GET` page and JSON; `POST` upload, run, erase, restart, wifi_conf, chid_id |
| Record store | `main/key_data.c`, `.h` | one 4 KiB sector per record in the `key_data` partition | read; erase and program a sector |
| Socket OTA service | `main/ota_by_sockets.c` | `g_auth`, state and announced parameters of `udp_server_task`, a TCP session | invitation, challenge, fetch over TCP, MD5, select and restart |
| Startup | `main/main.c` | none | start the parts in order |
| Flash and boot loader | `partitions.csv`, `sdkconfig`, ESP-IDF | `app` (ota_0), `flashApp` (ota_1), `secondApp` (ota_2), `factory`, `otadata` | `esp_ota_*`, fallback, factory reset pin |
| WiFi | `main/wifi_ap_sta.c` | configuration queue of one, copy of the configuration, retry counter, event bits | start with the saved configuration or the default; station task; event handler |
| Log redirection | `main/esp_user_log_redirection.c` | queue of lines, queue of one with socket and host | start; hook in every task; send task; receive task |
| mDNS | `main/user_mdns.c` | none | advertise |
| Boot hook, web pages, build | the rest | none | |
| Old WiFi server | `main/wifi_conf_server.c` | | not built (`main/CMakeLists.txt`) |

### How the parts interact

`app_main()` initialises WiFi, starts the firmware server, the socket service,
mDNS and the log redirection, and then only logs. From there on the httpd task
and the `udp_server` task run concurrently; both write application partitions
through `esp_ota_*`, both set the boot partition, both take update handles from
the heap, and either may restart the chip. There is no lock between them. The
firmware server keeps what it knows of each partition in a record, once in RAM
and once in `key_data`; the socket service knows nothing of the records. The
server hands WiFi configurations to the station task through a queue of one.
The station task waits on that queue, the event handler runs in the
event loop's task, and both call the WiFi driver. Every task logs, and so goes
through the log hook, which puts a line of heap into a queue that the send task
empties; the receive task tells it to whom.

### What is hard about it

* Power may fail between any two flash operations, and a restart may be
  requested at any time. Image, record in flash, record in RAM and boot
  selection change one after the other.
* Steps fail one at a time: a sector that cannot be written is only logged,
  handlers return early and leave things as they are.
* The single httpd task serves slow, silent and failing clients.
* The two writers of `secondApp` do not know of each other.
* The UDP service keeps state between datagrams that may be lost, repeated or
  queued; its TCP stream is split arbitrarily, has no time-out, and may be
  closed in one direction only.
* A form is saved, queued, set and tried by four tasks, each of which may be
  overtaken, and one of whose calls restarts the chip when it fails.
* The log hook is in place before its queues are; the tasks that drain the queue
  log through it themselves; queue and heap fill up, and a line there is no
  memory for is not noticed.
* Results are dropped: of `esp_wifi_connect()`, of saves, of `vasprintf()`.

### What makes each part correct

* Firmware server: a record never names anything but what its partition holds;
  an upload invalidates before it overwrites; the replies are true; records in
  RAM and flash agree; every handler returns; update handles are freed.
* Record store: a record that cannot be read back as valid promises nothing.
* Socket service: only the announced firmware is ever selected; it gets back to
  its socket unless its peer holds it in the stream.
* Device: neither part makes what the other believes wrong.
* Forms: what is saved is what this client posted, whatever the buffer held
  before, as long as the body is complete; the 32 bit clock times out exactly the
  silent clients.
* WiFi: the configuration accepted last is the one used, is tried, and is the one
  a restart will use; the station stops only when its retries are spent or the
  driver refuses to connect.
* Log redirection: as long as there is memory every line has one owner and none
  is freed twice; logging blocks nobody; a new host gets the lines but for the one
  under way.

`PROJECT.json` lists the hazards line by line, with the properties that cover
them, or why none does.

## 2. Modules

| Module | What it is |
| --- | --- |
| `OtaFlash` | partitions as arrays of chunks, image verification, next update partition, boot fallback |
| `FirmwareServer` | firmware server and record store, across power losses and restarts |
| `FirmwareSlots` | abstract: what the server promises of its partitions |
| `FirmwareServerProofs`, `FirmwareRecordsProofs` | theorems about `FirmwareServer` |
| `FirmwareSlotsProofs` | theorem: `FirmwareServer` implements `FirmwareSlots` |
| `OtaBySockets`, `OtaBySocketsProofs` | socket service, theorems about it |
| `WirelessBoot`, `WirelessBootProofs` | both services on one flash and one heap, started by `app_main()`; theorems about the heap and the records |
| `HttpForms`, `HttpFormsProofs` | wifi_conf and chid_id forms, with their receive loop, clock and sectors; theorems |
| `WifiSta`, `WifiStaProofs` | the station: `HttpForms` with the station task, event handler and driver; it implements `HttpForms` |
| `LogRedirection`, `LogRedirectionProofs` | hook, queues and the two tasks; theorems, among them that it implements `LogLines` |
| `LogLines` | abstract: what becomes of a line that is logged |
| `MCFirmwareServer`, `MCOtaBySockets`, `MCWirelessBoot`, `MCHttpForms`, `MCWifiSta`, `MCLogRedirection` | instances for TLC |

Operators named `X_Change` next to `X` are slips the code could have had; no
specification uses them. Each property has been seen to fail when one of them
takes the place of `X` (`mutants` in `PROJECT.json`).

### OtaFlash

A firmware is a value; a partition is `NumChunks` chunks, each a piece of a
firmware or blank. So the model tells complete, partial, mixed and erased
partitions apart and nothing else. `Verifies` stands for `esp_image_verify`,
which ESP-IDF calls in `esp_ota_end()` and in `esp_ota_set_boot_partition()`:
only a complete image of a bootable firmware passes. `BootedFrom` is the boot
loader's choice: the selected slot, then the slots below, then `factory`.

### FirmwareServer

`pc` is where the httpd task is in a handler, `req` what it works on, `got` how
far it got. The actions follow `upload_post_handler()`:

    upload_post_handler   502..547  path, name, record invalid in RAM
    KeyErase, KeyWrite    key_data_flash_write(); KeyDataFails: logged only
    OtaBegin, OtaBeginFails, TooLarge          562..581
    RecvChunk, RecvStall, RecvTimeout, RecvError, OtaWriteFails   593..637
    OtaEnd                639..652
    SetBoot               654..687  and record valid in RAM
    KeyErase, KeyWrite    696..707  and the reply

`erase_post_handler()` erases chunk by chunk (`EraseChunk`), invalidates
(`EraseDone`) and saves through the same two steps; `SavedSector` says which
sector, and has the code's `secondApp` case. `run_post_handler()` and requests
refused at once are single steps: they do at most one flash operation.
`Bootloader` starts what is selected, or `factory`, which goes on with
`start_ota_file_server()`: read the records (a failed read
leaves one empty), select the first valid one that verifies, start to serve; when it fails, `ESP_ERROR_CHECK` in `app_main()`
restarts the chip. `PowerLoss` is possible whenever the chip runs.

Time enters only by the receive time-out: `stalls` counts receives that ran
into their 5 s time-out in a row, and two of them exceed the 9 s limit. The
limit is tested at the head of the loop, before each receive, as in the code.

`esp_ota_begin()` may fail at any time, and does when no handle is left.

The name of an uploaded file matters only by the partition names it contains,
`mentioned`: `server_get_partition_name()` tests the whole path.

### FirmwareSlots

The abstract specification has what a partition holds (`held`), what its saved
record lists (`listed`), and the request being served. `held` is one firmware or
nothing: a mixture, a part or an erased partition is nothing (`HeldBy`). `listed`
is read off the record alone, whatever the partition holds (`ListedFor`). The two
change in separate steps. `List` is possible only when the partition holds the
firmware that comes to be listed, and `Write` on a listed partition only for an
erase or when saves may fail: a record that lists what is no longer there is a
state of the abstract specification, and how it may come about is what it says.

### OtaBySockets

`upc` is where the task is, first in `udp_server_task()`, then in
`tcp_client_task()`, which is called and returns: the "OTA" states of the code
are kept as they are, with `OTA_RUNUPDATE` entered after the update. `g_auth` is
the argument of `ota_init()`. Datagrams are records whose missing fields
`sscanf()` leaves as they were (`Parsed`). The stream arrives in any segments;
an MD5 is represented by the chunks it is the MD5 of. A write that fails leaves
any part of its segment erased and any part of that written (`Torn`).

A sender closes its own direction (`halfClosed`) or both (`closed`). Then `recv()`
returns 0 over and over. Each time nothing is written, "0" is sent and the total
stays what it was (`RecvZero`): the loop goes on until a `send()` fails or, where
the total is the announced size already, ends. A half closed sender that accepts
every "0" keeps it going for ever.

### WirelessBoot

Instances of the two with `image`, `boot` and `handles` shared. A restart of
either resets both.

### HttpForms

`fpc` is where the httpd task is in `wifi_conf_execute_handle()` or
`chip_id_execute_handle()`, which differ in the sector and in the queue:

    execute_handle        entry: the buffer on the stack is not initialised
    FormPart, FormStall, FormTimeout, FormRecvError     the receive loops
    FormRejected, FormAccepted    cJSON_Parse() and the tests of the members
    FormKeyErase, FormKeyWrite, FormKeyDataFails        key_set_*()
    QueueConf             xQueueOverwrite() of wifi_user_wifi_conf_queue

A body has two halves. That is enough to tell a whole body, its first part, its
end at the start of the buffer (each part is received at `buf`), and the end of
one body after the start of another. A body may be posted as a whole, as its
first half only, or empty. `buf` keeps what the last form left there,
or holds `Junk`. `Parses` is `cJSON_Parse()` on a whole object, `Fits` the tests
of the lengths. It reads on where a truncated body stops, for the buffer has no
end of string there, and an empty body skips the loop and is parsed from whatever
is there, as in the code. `clock` has the two readings of the loop, which wrap at
`ClockMod`, and the time really gone by, which `ClockHonest` compares.

The station's share of these variables is in the module too: `wifi_init_sta`
reads the WiFi sector at start, whose flag is its first byte, so that a record
half written by a power loss (`Torn`) counts as valid; without a valid one it
saves and uses the default. `asked` is a history variable: the configuration the
station was last told to use.

### WifiSta

`sta` is where `wifi_sta_connect_handle()` is: waiting on the queue, in
`wifi_sta_conf_update()` (`SetConfig`), in the `esp_wifi_connect()` after it
(`ConnectAfterSet`). `SetConfig` restarts the chip while a connection is being
made: `esp_wifi_set_config()` then fails and the call is in `ESP_ERROR_CHECK`.
`event_handler` takes the events in the order in which they were posted.
`driver` is external: what the code's calls do to it, and `DriverConnects`,
`DriverGotIp`, `DriverDisconnects`. `esp_wifi_connect()` connects, or is refused:
always for an ssid of no characters, which the form accepts, and at any time for
want of memory. The code drops its result, and no event follows; `refused` keeps it
for the properties. `MaxEvents` bounds the event queue: the
driver posts nothing while it is full.

### LogRedirection

`init` counts the steps of `esp_log_redirection_init()`: configuration, hook,
queues, tasks; writers log from the hook on. `hook[t]` is where task `t` is in
`esp_log_redirection_vprintf()`; the hook allocates (`HookFormat`), frees empty
lines (`HookEmpty`), writes to the UART or not (`HookLevel`) and queues or frees
(`HookEnqueue`). Without memory the result of `vasprintf()`, -1, is taken for a
size, and the pointer it did not set is read, which may restart the chip, and
queued or freed (`HookNoMemory`). That pointer is `Unknown`: the block of an
earlier line, or no block. From then on the heap may do anything, a block may be
given out twice, and the model does not follow which: the pointers the tasks and the
queue hold become `Unknown` too (`Forgotten`), and stay where they are. It follows
where the tasks are and how many lines are in the queue. `noMemory` says so until
the restart.
`send` and `rec` are the two tasks with their local variables. What they
log themselves goes through the hook: they go on when it has returned (`Idle`).
The receive task's socket is closed and opened again while `udp_info` still has
its number; `sendto()` then fails. `leaked` and `late` are history variables.

## 3. Runs

| Run | Bounds | Shows |
| --- | --- | --- |
| `server_safety` | app and secondApp, two bootable firmwares of 2 chunks, bodies of 1 to 3 chunks, one handle, names that mention secondApp | `TypeOK`, `NeverMisdescribes`, `RepliesTrue`, `InvalidatedFirst`, `UploadLandsWhereSelected` |
| `server_records` | app and flashApp, a bootable and an unbootable firmware, bodies of 0, 2, 3 chunks, names that mention app | `RecordsCoherent`, `ErasedIsForgotten`, `HandlerReturns`, `HandlerProgresses` |
| `server_slots` | app and secondApp, a bootable and an unbootable firmware, bodies of 1 and 2 chunks, failing reads and writes of records | `ImplementsSlots` |
| `sockets` | 2 queued datagrams of 4 kinds, 3 segments, 2 handles, with and without auth | `BootsOnlyAnnounced`, `AuthNeverUpdates`, `BackToListening`, `SessionProgresses`, `TypeOK` |
| `device_safety` | app served, secondApp by the sockets, firmwares of 1 chunk | `OthersNeverMisdescribed`, `HandlesApart`, `Md5CheckedBoots`, `TypeOK` |
| `forms` | 3 WiFi forms, one too long, and a license, each posted to either URI, complete, truncated or empty; a clock of 20 s, started before and near its wrap; failing key_data | `ClockHonest`, `SavedAsPosted`, `FormReturns`, `FormProgresses`, `FormTypeOK` |
| `wifi` | 2 configurations, one without ssid, and the default, 1 retry, 2 queued events | `UsesLastAccepted`, `NeverStuck`, `KeptForRestart`, `ImplementsForms`, `AcceptedIsTried`, `TypeOK` |
| `logs` | 1 task besides the two of the file, 2 hosts, 3 blocks of heap, a queue of 2 | `OwnedOnce`, `NoNullDeref`, `OneStaleLine`, `LoggersNeverBlock`, `QueuedLeaves`, `ImplementsLines`, `TypeOK` |

Why the bounds are enough: with two chunks a partition can be blank, partial,
mixed and complete; a body may be shorter than, as long as and longer than the
partition; two firmwares make mixtures; two partitions show a confusion of
records. With one handle the leak of the first failed upload makes the next
`esp_ota_begin()` fail. A queue of two invitations is enough for one to arrive
while the session of the other runs and one to be swallowed after it. In
`device_safety` single chunks suffice: its subject is who writes where, mixtures
are the subject of the other runs. `server_safety` uses the
symmetry of its two firmwares. The other runs tell firmwares apart, or check
liveness, and use none. No configuration switches deadlock checking off.

In `forms` every body may come in one part or two; a clock of 20 s shows one
wrap in the middle of a form, and more than one between two parts cannot happen,
because the loop ends after 15 s without data at the latest. One retry in `wifi` makes both branches of
`event_handler()` and both sides of its bound happen; the theorems below hold
for any number. Two events let the loss of a connection wait behind another one.
Three blocks and a queue of two let both the queue and the heap be full, each
without the other: the lines in the hands of the three tasks use up the heap.
`Unknown` stands for every address at once, so that none has to be chosen.

`server_records` and `server_slots` leave out the erase of secondApp: what they
show is false with it, which is `finding_erase_record`. In the same way
`UploadLandsWhereSelected` and `Md5CheckedBoots` are checked where they hold, and
found violated where they do not: `server_safety` has file names that contain
"secondApp", which the code looks for after "app"; in `device_safety` clients
upload to app only.

Four runs find the disagreements between code and texts that `PROJECT.json`
lists under `findings`:

* `finding_name`: an upload for secondApp of a file whose name contains "app"
  goes to app.
* `finding_erase_record`: the erase of secondApp saves to flashApp's sector.
* `finding_handles`: two early returns keep the update handle.
* `finding_md5_race`: an upload during a socket update of the same partition.

Some behaviour is in the models and contradicts no text, so that no run is about
it; the hazards in `PROJECT.json` name it:

* A socket update leaves the record of secondApp as it was.
* A stream with the wrong MD5 stays in the partition, and is what the next
  restart starts when secondApp was selected before.
* A form whose body is empty is parsed from what the stack holds, a truncated one
  together with what an earlier form left after it, and one in two parts is
  refused.
* A sender that closes its own direction of a socket session early, and goes on
  accepting, keeps the OTA task for ever; so does one that falls silent.
* A connection that the driver refuses is not asked for again.
* After a save that failed, a record may list what its partition no longer holds.
* A WiFi record half written counts as valid at start; one that cannot be read
  may be replaced by the default.
* The send task frees no line: with a host listening the heap runs out. The hook
  then queues or frees whatever its pointer happens to be.

### Progress without fairness

`HandlerProgresses`, `SessionProgresses` and `FormProgresses` are action
properties: each gives what an upload or erase (`Work`), a socket session
(`SessionWork`) or a form (`FormWork`) has left to do, a number, and says that
every step until the return makes it smaller. That is the part of liveness that
is about the code and not about scheduling: no client, failure or order of the
two makes a handler wait, retry or receive more than the number says. A chunk
still to come counts, with the waits that may precede it: three for an
upload, since two silent receives in a row end it; in `FormWork` milliseconds of
silence. A session counts chunks and the directions its sender closes; it has no
number for silence and for empty receives, because there is none: `recv()` waits
for ever, and `RecvZero` may leave everything as it was. `SessionProgresses` is
about what changes the session, and `BackToListening` says when these two hold it
up for good. Steps of other tasks, a datagram or a line of log, change none of the
three. What fairness adds is `HandlerReturns`, `BackToListening` and
`FormReturns`.

### Fairness

`FairSpec` of the server is weakly fair to the handler's steps: the task is
scheduled, flash operations return, `httpd_req_recv()` returns within its
time-out. It assumes nothing about clients: a silent one produces `RecvStall`s.
`FairSpec` of the socket service is weakly fair to the task alone: `connect()`
and `send()` return. Nothing is assumed of the peer. `BackToListening` therefore is
a disjunction: the task is at its UDP socket again and again, or it ends in the
stream for good with a peer that is open, and silent, or half closed.

`FairFormSpec` is weakly fair to the httpd task's steps in a form, as
`FairSpec` of the server is. `FairSpec` of `WifiSta` is weakly fair to
the station task alone, which has a higher priority than httpd and blocks only
on its queue: `AcceptedIsTried` needs nothing of the event loop, the driver or
the access point. `FairSpec` of `LogRedirection` is weakly fair to each call of
the hook, which no call in it can block, and to the send task; both tasks
have the same priority, and FreeRTOS shares the time between them. Nothing is
assumed of the receive task, of hosts or of who logs.

## 4. Proofs

For every number of chunks, tasks, retries, blocks and events, and every set of
firmwares, names, lengths, forms, datagrams and segments:

| Module | Theorem | States |
| --- | --- | --- |
| `FirmwareServerProofs` | `TypeCorrect` | `Spec => []TypeOK` |
| | `RecordsNeverMisdescribe` | `Spec => []NeverMisdescribes` |
| | `UploadsInvalidateFirst` | `Spec => InvalidatedFirst` |
| | `ServerRepliesTrue` | `Spec => []RepliesTrue` |
| | `HandlersProgress` | `Spec => HandlerProgresses` |
| | `UploadsLandWhereSelected` | `Spec => []UploadLandsWhereSelected` |
| `FirmwareRecordsProofs` | `RecordsAreCoherent` | `Spec => []RecordsCoherent` |
| | `ErasedForGood` | `Spec => []ErasedIsForgotten` |
| `FirmwareSlotsProofs` | `ServerImplementsSlots` | `Spec => ImplementsSlots` |
| `OtaBySocketsProofs` | `SocketTypes` | `Spec => []TypeOK` |
| | `AuthStopsUpdates` | `Spec => []AuthNeverUpdates` |
| | `OnlyAnnouncedBoots` | `Spec => BootsOnlyAnnounced` |
| | `SessionsProgress` | `Spec => SessionProgresses` |
| `WirelessBootProofs` | `HandlesStayApart` | `Spec => []HandlesApart` |
| | `SocketsKeepRecords` | `Spec => []OthersNeverMisdescribed` |
| | `DeviceTypes` | `Spec => []TypeOK` |
| | `Md5CheckedWhenApart` | `Spec => Md5CheckedBoots` |
| `HttpFormsProofs` | `FormTypes` | `FormSpec => []FormTypeOK` |
| | `FormsSavedAsPosted` | `FormSpec => []SavedAsPosted` |
| | `ClockIsHonest` | `FormSpec => []ClockHonest` |
| | `FormsProgress` | `FormSpec => FormProgresses` |
| `WifiStaProofs` | `StationImplementsForms` | `Spec => ImplementsForms` |
| | `RestartUsesSame` | `Spec => []KeptForRestart` |
| | `StationTypes` | `Spec => []TypeOK` |
| | `LastAcceptedUsed` | `Spec => []UsesLastAccepted` |
| | `StationNeverStuck` | `Spec => []NeverStuck` |
| `LogRedirectionProofs` | `TypeCorrect` | `Spec => []TypeOK` |
| | `HookHasConfig` | `Spec => []NoNullDeref` |
| | `StaleAtMostOnce` | `Spec => []OneStaleLine` |
| | `LinesOwnedOnce` | `Spec => []OwnedOnce` |
| | `LogImplementsLines` | `Spec => ImplementsLines` |

### Firmware server

`RecordsNeverMisdescribe`, `UploadsInvalidateFirst` and `ServerRepliesTrue`
assume `KeyDataMayFail = FALSE`: when a record cannot be saved, the old one may
stay valid in flash while the partition is overwritten, and the statements are
false. `ServerImplementsSlots` needs no such assumption: `FirmwareSlots` lets a
listed partition be overwritten when saves may fail, and only then. It assumes
instead that secondApp is not among `EraseTargets`, because the erase of secondApp
saves to flashApp's sector and so changes a record that is not its request's.

`NeverMisdescribes` is not inductive. That receiving a chunk cannot make a
record wrong follows from both records being invalid by then, and that the
record saved at the end is right follows from the chunks received so far all
being the request's and from the verification: `Verifies` of an image that
starts with a chunk of `f` means the whole of `f` (`VerifiesWhole`). So the
invariant is `IInv == TypeOK /\ RecordsDescribe /\ HandlerKnows`, where
`RecordsDescribe` speaks of both records and `HandlerKnows` says what holds at
each `pc`. `RepliesTrue` speaks of the past of a reply; `ReplyInv` carries what
the handler knows from `SetBoot` to the reply and on to the next request.

The refinement rests on `SlotInv == TypeOK /\ JobKnown`. `JobKnown` says that all
of the request's firmware is in the partition from `SetBoot` on, so that the save
after it is a `List` step; and that the saved record lists nothing while chunks
are written, unless saves may fail, so that these are `Write` steps. A chunk can
complete an image only of the request's own firmware, and one that is blanked
completes none: what a partition holds after a write is therefore the request's
firmware or nothing (`WriteRefines`). `SaveRefines` does the same for the record;
`SavedWhereRead` says that handlers save to the sector of the partition they work
on.

`RecordsAreCoherent` and `ErasedForGood` need both assumptions. `CoherentInv`
says that the two copies of every record agree but for that of the request while
it is being saved, and that an erase at work is never one of secondApp.

`HandlersProgress` needs no assumption about key_data. `ProgressInv` adds to the
types that the stalls counted never pass the two that the time-out allows
(`StallLimit`): that is why `RecvStall` cannot go on, and why a chunk may set
the count back, having paid for it. An upload whose record was valid saves it
twice, before `OtaBegin` and after `SetBoot`; `WorkAfterSave` tells the two apart
by the record in RAM.

`UploadsLandWhereSelected` assumes `NamesRankLater`: no file name contains the
name of a partition that `server_get_partition_name()` tests before the selected
one. The path always contains the selected one, so the search finds it
(`FoundIsAsked`). Every name is fine for an upload to app, none that contains
"app" for one to secondApp.

### Socket service

`BootsOnlyAnnounced` speaks of the flash, while the code takes the MD5 over what
it received. `IInv == TypeOK /\ HandleInv /\ StreamInv` joins the two: the front
of the partition holds the chunks received in this session (`StreamInv`), and a
session has a handle of its own and none under auth (`HandleInv`). It is an
invariant of the service alone: in `WirelessBoot` the server may write the same
partition, which is `finding_md5_race`. `SessionsProgress` follows from `IInv`
and from `SegmentsAssumption`: a segment that `recv()` returns is not empty,
nothing received being `RecvZero`, which ends the loop or changes nothing.

### Device

`HandlesApart` is carried by `HandleInv` of `WirelessBootProofs`: the service
runs only while the server does, and holds a handle only in a session.
`ServerHandles` and `SocketHandles` show that each task takes and gives back one
handle at a time, its own.

`SocketsKeepRecords` assumes `KeyDataMayFail = FALSE`. Its invariant, `OthersInv`,
is the server's with one thing taken away: a handler at work on secondApp knows
nothing of its image, because the other task may have written it since. That is
still enough: such a handler's save touches a record of the two only when it
saves an invalid record to the sector of flashApp. Erasing secondApp is
therefore allowed here. The theorems about the two services alone cannot be
cited for their instances, so the steps are proved again in this form.

`DeviceTypes` is carried by `DeviceInv`, the types of both parts and `HandleInv`.
Each part's `TypeOK` speaks of the heap the other one also changes: that a
session that goes on still has its handle, and an upload its own, is not a
matter of types but of `HandleInv`, and the two are shown together. A task's
step leaves the other's variables alone (`ServerUnchanged`, `SocketsUnchanged`)
but for a restart, which resets both.

`Md5CheckedWhenApart` assumes `ServerApart`: clients neither upload to secondApp
nor erase it, and no file name contains its name. Then no handler works on
secondApp (`RequestsApart`), so that what the stream has put there stays
(`SecondAppKept`, `StreamInv`), whatever else the server does in the meantime,
restarts included. It is the negation of this hypothesis that `finding_md5_race`
uses.

### Forms and station

`FormInv` adds to the types that the clock's difference is the time gone by
(`ClockInv`), and that the buffer has at its start the body's own first half or,
once a body was received in two parts, its end, which cannot parse (`BufInv`):
that is why what is saved starts as posted, and why a complete body is never mixed
with what was there before. `ClockIsHonest` assumes only that the clock wraps later than after the two
time-outs together (`ClockAssumption`). `KeptInv` follows the record through the
erase and the programming of its sector, where it differs from what the station
was told. `FormsProgress` rests on `ClockInv`: a wait adds 5 s to the silence and is
possible only below 9 s, and so at most twice before the next part.

`StationImplementsForms` is shown step by step: each step of the station, the
event loop and the driver is a step of `HttpForms` or leaves its variables alone.
So the invariants of the forms hold in `WifiSta` without another proof.
`LastInv` says where the configuration accepted last is: in the queue, with the
station task, or in the driver. `IdleInv` strengthens `NeverStuck`: while the
station stands still with events waiting, none refused and none about to be asked
for, the last of them is one that makes `event_handler()` act.

### Log redirection

`TypeInv` adds to the types which tasks run by when, and what `rec` has in hand.
It holds with and without memory, as do `StaleAtMostOnce` and `HookHasConfig`.
`LateInv` explains `OneStaleLine`: once a line went to the former host, the round
under way has the new one. `OwnedOnce` is inductive together with `TypeInv`; its
parts `HeldApart` and `QueuedApart` are kept by lemmas about taking, giving away
and queueing a line.

`LogImplementsLines` maps a line to its owner (`OwnerOf`) and the queue to itself.
With `OwnedOnce` before and after a step the five owners exclude each other
(`OwnerIsPlace`), and each step of hook and send task moves one line (`OneMoves`)
or none (`NobodyMoves`); those of the receive task move none, since what it logs
begins in the hook. In `LogLines` a line that was sent is "leaked" until a
restart, which is what the code does with it. When `vasprintf()` fails, the step is
`RunsShort`, for which every block must belong to somebody (`used` is all of
them); after it `LogLines` promises nothing until the restart. `NoneAssumption` and `WritersAssumption` say that the value
for "nothing" and the names of the two tasks are used for nothing else.

### Model-checked only

Liveness (`HandlerReturns`, `BackToListening`, `FormReturns`, `AcceptedIsTried`,
`LoggersNeverBlock`, `QueuedLeaves`) is out of the prover's reach, as is
everything that needs ENABLED or an induction over data. Every other property of
the passing runs is a theorem, under the hypotheses named above.

## 5. Not modelled

* mDNS (`user_mdns.c`), boot hook, web pages: no state of their own. The
  old WiFi configuration server is not built.
* The event handler of the access point: it only logs.
* Text, level and UART output of a log line. `esp_log_redirection_deinit()` is
  in no header and never called. That another task may be given the number of the
  closed socket, so that a line is sent through a socket of that task, is left out,
  and so is the second use of its arguments when the UART gets the line too.
* What a damaged heap does to anything but the log redirection.
* That the upload's receive clock wraps; its expression is the forms' one.
* The members of a form beyond "a first and a last half", the heap of JSON
  objects (a configuration that is too long is not freed, line 226): a form
  may be rejected at any time, as without memory.
* The JSON the server sends.
* Bytes: paths, file names, dates and sizes in a record; a record is the name of
  a firmware and a flag.
* A sector of `key_data` half written by a power loss is "neither valid nor
  invalid", as if erased: the flag is the last word of the record and is
  programmed last.
* `spiffs`, `coredump` and the contents of `nvs`.
* Applications other than the factory one: when one runs, nothing happens until
  the next restart.

## 6. Plan

Everything that keeps state and is built is modelled. What would add to it:

1. `HandlerProgresses` and `SessionProgresses` for the composition, where each
   task's steps come between the other's, and a bound on the attempts of the
   station between two configurations.
2. `WirelessBoot` with firmwares of two chunks.
3. A model of the sockets of the chip, shared by the OTA task, httpd and log
   redirection, for what happens when numbers are used again.
