------------------------------ MODULE HttpForms ------------------------------
(* The form handlers of src/main/file_server.c, wifi_conf_execute_handle()   *)
(* and chip_id_execute_handle(), on the single httpd task: a form is received *)
(* into a buffer on the stack, parsed, saved to its sector of key_data and,   *)
(* when it is a WiFi configuration, put into the queue of the station task.   *)
(*                                                                           *)
(* A body has two halves with one value each: ssid and password, or the       *)
(* first and the last values of a license.  The buffer has room for both.     *)
EXTENDS Naturals

CONSTANTS
    Posts,       \* what clients post, [to, body, len]: to which of the two
                 \* URIs, and how many halves of a body [kind, first, last]
    LongVals,    \* values of 32 (ssid), 64 (password) or more characters
    Default,     \* <<"myssid", "mypassword">>
    Blank,       \* an erased sector
    Torn,        \* what a save leaves when power fails in it
    Junk,        \* anything on the stack that is no half of a form
    ClockMod,    \* the millisecond clock wraps here (2^32 in the code)
    StartTimes,  \* clock readings at which requests come in
    KeyDataMayFail

ASSUME PostsAssumption ==
    \A p \in Posts : /\ p.to \in {"wifi", "license"} /\ p.len \in 0..2
                    /\ p.body.kind \in {"wifi", "license"}

VARIABLES
    wifi,     \* sector of wifi_user_conf_t
    license,  \* sector of the license
    fpc,      \* where the httpd task is
    form,     \* the form being handled
    buf,      \* char buf[SCRATCH_BUFSIZE], on the stack
    clock,    \* readings of the receive loop, and the time really gone by
    queue,    \* wifi_user_wifi_conf_queue
    asked     \* history: the configuration last handed to the station

formVars == <<wifi, license, fpc, form, buf, clock, queue, asked>>

-----------------------------------------------------------------------------
Kinds == {"wifi", "license"}
Bodies == {p.body : p \in Posts}
Value(b) == <<b.first, b.last>>
Halves == {b.first : b \in Bodies} \cup {b.last : b \in Bodies}
Sectors == (Halves \X Halves) \cup {Default, Blank, Torn}
ASSUME BlankAssumption == Blank \notin Halves \X Halves

HalfOf(b, i) == [half |-> i, kind |-> b.kind, val |-> IF i = 1 THEN b.first ELSE b.last]

Values(k) == {Value(b) : b \in {c \in Bodies : c.kind = k}}
NoForm == [to |-> "none", body |-> Junk, len |-> 0, got |-> 0, val |-> Junk]
NoTime == [start |-> 0, now |-> 0, silent |-> 0]

HTTPD_REC_DATA_TIMEOUT == 9000
RecvWait == 5000
SilentMax == 15000  \* clock.silent counts no further
ASSUME ClockAssumption ==
    /\ ClockMod \in Nat /\ ClockMod > HTTPD_REC_DATA_TIMEOUT + RecvWait
    /\ StartTimes \subseteq 0..(ClockMod - 1)
Wrapped(t) == IF t >= ClockMod THEN t - ClockMod ELSE t

\* Slips the properties are tried against are named Operator_Change.
Expired_NoWrap == clock.now > Wrapped(clock.start + HTTPD_REC_DATA_TIMEOUT)

\* The difference of two uint32_t, which wraps as the clock does.
Expired ==
    LET gone == IF clock.now >= clock.start
                THEN clock.now - clock.start
                ELSE clock.now + ClockMod - clock.start
    IN  gone > HTTPD_REC_DATA_TIMEOUT

\* cJSON_Parse(buf) finds an object with both members only if the buffer holds
\* a first half followed by a last half of the same kind, whoever sent them.
Parses(k) ==
    /\ buf[1] # Junk /\ buf[2] # Junk
    /\ buf[1].half = 1 /\ buf[2].half = 2
    /\ buf[1].kind = k /\ buf[2].kind = k
Parsed == <<buf[1].val, buf[2].val>>

Fits(k) == k = "wifi" => buf[1].val \notin LongVals /\ buf[2].val \notin LongVals

-----------------------------------------------------------------------------
\* Before app_main() has got to the file server.
FormInit ==
    /\ wifi = [valid |-> FALSE, conf |-> Blank] /\ license = Blank
    /\ fpc = "boot" /\ form = NoForm /\ clock = NoTime
    /\ buf = [i \in 1..2 |-> Junk]
    /\ queue = <<>> /\ asked = Blank

\* The chip restarts.
FormsLost ==
    /\ fpc' = "boot" /\ form' = NoForm /\ clock' = NoTime
    /\ buf' = [i \in 1..2 |-> Junk]
    /\ queue' = <<>> /\ asked' = Blank

Returned ==
    /\ fpc' = "idle" /\ form' = NoForm /\ clock' = NoTime

\* POST /wifi_conf/* or /chid_id/*.  The buffer is not initialised: it holds
\* what the last form left there, or what other calls have put there since.
execute_handle(p) ==
    /\ fpc = "idle" /\ fpc' = "recv"
    /\ form' = [to |-> p.to, body |-> p.body, len |-> p.len, got |-> 0, val |-> Junk]
    /\ \E t \in StartTimes : clock' = [start |-> t, now |-> t, silent |-> 0]
    /\ buf' \in {buf, [i \in 1..2 |-> Junk]}
    /\ UNCHANGED <<wifi, license, queue, asked>>

Receiving == fpc = "recv" /\ form.got < form.len

Waited ==
    [clock EXCEPT !.now = Wrapped(@ + RecvWait),
                  !.silent = IF @ < SilentMax THEN @ + RecvWait ELSE @]
FormStall_Restarts ==
    /\ Receiving /\ ~Expired
    /\ clock' = [Waited EXCEPT !.start = Waited.now]
    /\ UNCHANGED <<wifi, license, fpc, form, buf, queue, asked>>

\* httpd_req_recv() returns after RecvWait without data.
FormStall ==
    /\ Receiving /\ ~Expired
    /\ clock' = Waited
    /\ UNCHANGED <<wifi, license, fpc, form, buf, queue, asked>>

\* 408 or, after a receive error, 500.
FormTimeout ==
    /\ Receiving /\ Expired
    /\ Returned
    /\ UNCHANGED <<wifi, license, buf, queue, asked>>

FormRecvError ==
    /\ Receiving /\ ~Expired
    /\ Returned
    /\ UNCHANGED <<wifi, license, buf, queue, asked>>

FormPart_TooMuch(k) ==
    /\ Receiving /\ ~Expired
    /\ buf' = [i \in 1..2 |-> IF i <= k THEN HalfOf(form.body, i) ELSE buf[i]]
    /\ form' = [form EXCEPT !.got = @ + k]
    /\ clock' = [clock EXCEPT !.start = clock.now, !.silent = 0]
    /\ UNCHANGED <<wifi, license, fpc, queue, asked>>

\* At most what is missing is received, every part at the start of the buffer.
FormPart(k) ==
    /\ Receiving /\ ~Expired
    /\ k <= form.len - form.got
    /\ buf' = [i \in 1..2 |-> IF i <= k THEN HalfOf(form.body, form.got + i) ELSE buf[i]]
    /\ form' = [form EXCEPT !.got = @ + k]
    /\ clock' = [clock EXCEPT !.start = clock.now, !.silent = 0]
    /\ UNCHANGED <<wifi, license, fpc, queue, asked>>

Received == fpc = "recv" /\ form.got = form.len

\* No JSON, a missing member, a value too long, or no memory to parse it.
FormRejected ==
    /\ Received
    /\ Returned
    /\ UNCHANGED <<wifi, license, buf, queue, asked>>

FormAccepted_Unreceived ==
    /\ fpc = "recv" /\ Parses(form.to) /\ Fits(form.to)
    /\ form' = [form EXCEPT !.val = Parsed]
    /\ fpc' = "keyErase"
    /\ UNCHANGED <<wifi, license, buf, clock, queue, asked>>

FormAccepted ==
    /\ Received /\ Parses(form.to) /\ Fits(form.to)
    /\ form' = [form EXCEPT !.val = Parsed]
    /\ fpc' = "keyErase"
    /\ UNCHANGED <<wifi, license, buf, clock, queue, asked>>

-----------------------------------------------------------------------------
\* key_set_wifi_user_conf() or key_set_heltec_license(): the sector is erased
\* and programmed; a failure is only logged.
Stored_Swapped(v) ==
    IF form.to = "license"
    THEN wifi' = [valid |-> v # Blank, conf |-> v] /\ UNCHANGED license
    ELSE license' = v /\ UNCHANGED wifi

Stored(v) ==
    IF form.to = "wifi"
    THEN wifi' = [valid |-> v # Blank, conf |-> v] /\ UNCHANGED license
    ELSE license' = v /\ UNCHANGED wifi

AfterSave ==
    /\ IF form.to = "wifi"
       THEN fpc' = "queue" /\ UNCHANGED <<form, clock>>
       ELSE Returned
    /\ UNCHANGED <<buf, queue, asked>>

FormKeyErase ==
    /\ fpc = "keyErase" /\ fpc' = "keyWrite"
    /\ Stored(Blank)
    /\ UNCHANGED <<form, buf, clock, queue, asked>>

FormKeyWrite ==
    /\ fpc = "keyWrite"
    /\ Stored(form.val)
    /\ AfterSave

FormKeyDataFails ==
    /\ KeyDataMayFail
    /\ fpc \in {"keyErase", "keyWrite"}
    /\ AfterSave
    /\ UNCHANGED <<wifi, license>>

\* A full queue keeps what it has: the slip of using xQueueSend().
Queued_Send(v) == IF queue = <<>> THEN <<v>> ELSE queue

\* xQueueOverwrite() of the queue of one.
Queued(v) == <<v>>

QueueConf ==
    /\ fpc = "queue"
    /\ queue' = Queued(form.val) /\ asked' = form.val
    /\ Returned
    /\ UNCHANGED <<wifi, license, buf>>

-----------------------------------------------------------------------------
\* Any other reason to restart, esp_restart() included, looks like a power loss.
\* One in the middle of programming leaves a record half written; the flag of a
\* WiFi record comes first and is in place.
FormsPowerLoss ==
    /\ FormsLost
    /\ \/ UNCHANGED <<wifi, license>>
       \/ fpc = "keyWrite" /\ Stored(Torn)
       \/ /\ fpc = "boot" /\ (KeyDataMayFail \/ ~wifi.valid)
          /\ wifi' = [valid |-> FALSE, conf |-> Blank] /\ UNCHANGED license

\* What key_get_wifi_user_conf() leaves in flash_wifi_conf, which is not
\* initialised, when the read fails: anything.
ReadConf ==
    {wifi} \cup IF KeyDataMayFail THEN [valid : BOOLEAN, conf : {Torn}] ELSE {}

\* A record that is not valid is replaced by the default, which is saved, the
\* flag as it was read, unless the save fails.
wifi_init_sta ==
    /\ fpc = "boot" /\ fpc' = "off"
    /\ \E read \in ReadConf :
        IF read.valid
        THEN asked' = read.conf /\ UNCHANGED wifi
        ELSE /\ asked' = Default
             /\ \/ wifi' = [valid |-> FALSE, conf |-> Default]
                \/ KeyDataMayFail /\ wifi' \in {wifi, [valid |-> FALSE, conf |-> Blank]}
    /\ UNCHANGED <<license, form, buf, clock, queue>>

\* app_main() starts the file server next.
start_ota_file_server ==
    /\ fpc = "off" /\ fpc' = "idle"
    /\ UNCHANGED <<wifi, license, form, buf, clock, queue, asked>>

FormRequest == \E p \in Posts : execute_handle(p)

FormStep ==
    \/ FormStall \/ FormTimeout \/ FormRecvError \/ FormRejected \/ FormAccepted
    \/ \E k \in 1..2 : FormPart(k)
    \/ FormKeyErase \/ FormKeyWrite \/ FormKeyDataFails
    \/ QueueConf

\* The station task, when WifiSta is not there to play its part.
StationReceives ==
    /\ queue # <<>> /\ queue' = <<>>
    /\ UNCHANGED <<wifi, license, fpc, form, buf, clock, asked>>

FormNext ==
    \/ FormsPowerLoss \/ wifi_init_sta \/ start_ota_file_server
    \/ FormRequest \/ FormStep \/ StationReceives

FormSpec == FormInit /\ [][FormNext]_formVars

\* The httpd task is scheduled, httpd_req_recv() returns after RecvWait at the
\* latest, flash operations return.  Nothing is assumed of clients.
FairFormSpec == FormSpec /\ WF_formVars(FormStep)
-----------------------------------------------------------------------------
(* Properties. *)
FormTypeOK ==
    /\ wifi \in [valid : BOOLEAN, conf : Sectors] /\ license \in Sectors
    /\ fpc \in {"boot", "off", "idle", "recv", "keyErase", "keyWrite", "queue"}
    /\ form \in [to : Kinds, body : Bodies, len : 0..2, got : 0..2,
                 val : Sectors \cup {Junk}] \cup {NoForm}
    /\ fpc \in {"boot", "off", "idle"} <=> form = NoForm
    /\ buf \in [1..2 -> [half : 1..2, kind : Kinds, val : Halves] \cup {Junk}]
    /\ clock.start \in 0..(ClockMod - 1) /\ clock.now \in 0..(ClockMod - 1)
    /\ queue \in {<<>>} \cup {<<c>> : c \in Sectors}
    /\ asked \in Sectors

\* The wrapping 32 bit clock times out exactly the clients that have been
\* silent for longer than HTTPD_REC_DATA_TIMEOUT (file_server.c:111 and :188).
ClockHonest == fpc = "recv" => (Expired <=> clock.silent > HTTPD_REC_DATA_TIMEOUT)

\* A complete form is saved, and handed on, as its client posted it, and a
\* truncated one at least with its own start: what is saved never starts as an
\* earlier form did, though all bodies share a buffer on the stack that nobody
\* clears and each part is received at its start.  The end of a truncated body
\* may be an earlier form's, and an empty body an earlier form altogether: the
\* buffer has no end of string where the body ends (lines 139 and 212).
SavedAsPosted ==
    fpc \in {"keyErase", "keyWrite", "queue"} /\ form.len > 0
        => /\ form.body.kind = form.to /\ form.val[1] = form.body.first
           /\ form.len = 2 => form.val = Value(form.body)

\* What is left of a form: for each half still to come the longest silence there
\* may be before it, in milliseconds, and the steps that save it.
FormWork ==
    CASE fpc = "recv" ->
             (form.len - form.got) * SilentMax + (SilentMax - clock.silent) + 4
      [] fpc = "keyErase" -> 3
      [] fpc = "keyWrite" -> 2
      [] fpc = "queue" -> 1
      [] OTHER -> 0

\* A form never goes back: every wait, part and failure brings its end nearer, so
\* a slow client holds the only httpd task no longer than that.
FormProgresses ==
    [][(fpc \in {"recv", "keyErase", "keyWrite", "queue"} /\ fpc' # "boot")
           => FormWork' \in 0 .. FormWork - 1]_<<fpc, form, clock>>

\* A form is answered, whatever its client does: one that falls silent is
\* timed out, so it cannot keep the only httpd task for ever.
FormReturns == fpc = "recv" ~> fpc \in {"idle", "boot"}
=============================================================================
