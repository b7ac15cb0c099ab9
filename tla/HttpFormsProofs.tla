--------------------------- MODULE HttpFormsProofs ---------------------------
(* Theorems about HttpForms, for any forms and clients, any width of the clock *)
(* and any reading of it, with key_data failing or not.                       *)
EXTENDS HttpForms, TLAPS

-----------------------------------------------------------------------------
(* The inductive invariant.                                                   *)
FormRecs == [to : Kinds, body : Bodies, len : 0..2, got : 0..2,
             val : Sectors \cup {Junk}]
HalfRecs == [half : 1..2, kind : Kinds, val : Halves]

\* The time gone by since the last part, as the clock shows it, is the real one.
Gone == IF clock.now >= clock.start
        THEN clock.now - clock.start
        ELSE clock.now + ClockMod - clock.start
ClockInv ==
    /\ clock \in [start : 0..(ClockMod - 1), now : 0..(ClockMod - 1), silent : {0, 5000, 10000}]
    /\ fpc = "recv" => Gone = clock.silent

\* A form that has come in in one part is in the buffer as a whole, or as far as it
\* was sent; one that came in two has its end at the start of the buffer.
BufInv ==
    fpc = "recv" /\ form.len > 0 /\ form.got = form.len
        => \/ form.len = 2 /\ buf[1] = HalfOf(form.body, 2)
           \/ /\ buf[1] = HalfOf(form.body, 1)
              /\ form.len = 2 => buf[2] = HalfOf(form.body, 2)

\* A value is saved once it was parsed.
ValInv ==
    fpc \in {"keyErase", "keyWrite", "queue"} => form.val \in Halves \X Halves

FormInv == FormTypeOK /\ ClockInv /\ BufInv /\ ValInv /\ SavedAsPosted

-----------------------------------------------------------------------------
(* Lemmas about the operators.                                                *)

\* The halves of a body, and what a buffer holding a form says.
LEMMA HalfOfType ==
    ASSUME NEW b \in Bodies, NEW i \in 1..2
    PROVE  HalfOf(b, i) \in HalfRecs
  <1>1. PICK p \in Posts : b = p.body
    BY DEF Bodies
  <1>2. b.kind \in Kinds
    BY <1>1, PostsAssumption DEF Kinds
  <1>3. b.first \in Halves /\ b.last \in Halves
    BY DEF Halves
  <1> QED
    BY <1>2, <1>3 DEF HalfOf, HalfRecs

LEMMA SectorsAre ==
    /\ Default \in Sectors /\ Blank \in Sectors /\ Torn \in Sectors
    /\ Halves \X Halves \subseteq Sectors
  BY DEF Sectors

LEMMA ParsedType ==
    ASSUME FormTypeOK, NEW k, Parses(k)
    PROVE  Parsed \in Halves \X Halves
  <1>1. buf[1] \in HalfRecs /\ buf[2] \in HalfRecs
    BY DEF FormTypeOK, Parses, HalfRecs
  <1>2. buf[1].val \in Halves /\ buf[2].val \in Halves
    BY <1>1 DEF HalfRecs
  <1> QED
    BY <1>2 DEF Parsed

\* Two fields of a reading replaced.
LEMMA ReplacedReadings ==
    ASSUME NEW S, NEW T, NEW c \in [start : S, now : S, silent : T], NEW a \in S, NEW b \in T
    PROVE  LET d == [c EXCEPT !.now = a, !.silent = b]
           IN  d \in [start : S, now : S, silent : T]
               /\ d.start = c.start /\ d.now = a /\ d.silent = b
  OBVIOUS

\* The clock after a wait for data.
LEMMA WaitedClock ==
    ASSUME FormInv, fpc = "recv", ~Expired
    PROVE  /\ Waited \in [start : 0..(ClockMod - 1), now : 0..(ClockMod - 1),
                          silent : {0, 5000, 10000}]
           /\ (IF Waited.now >= Waited.start THEN Waited.now - Waited.start
               ELSE Waited.now + ClockMod - Waited.start) = Waited.silent
           /\ Waited.silent = clock.silent + 5000 /\ clock.silent \in {0, 5000}
  <1>1. /\ clock.start \in 0..(ClockMod - 1) /\ clock.now \in 0..(ClockMod - 1)
        /\ clock.silent \in {0, 5000, 10000} /\ Gone = clock.silent
        /\ clock = [start |-> clock.start, now |-> clock.now, silent |-> clock.silent]
    BY DEF FormInv, ClockInv
  <1>2. Gone <= 9000
    BY <1>1, ClockAssumption DEF Expired, Gone, HTTPD_REC_DATA_TIMEOUT
  <1>3. clock.silent \in {0, 5000}
    BY <1>1, <1>2
  <1>4. /\ Wrapped(clock.now + 5000) \in 0..(ClockMod - 1)
        /\ Wrapped(clock.now + 5000) = clock.now + 5000
              \/ Wrapped(clock.now + 5000) = clock.now + 5000 - ClockMod
    BY <1>1, ClockAssumption DEF Wrapped, RecvWait, HTTPD_REC_DATA_TIMEOUT
  <1>5. /\ Wrapped(clock.now + 5000) = clock.now + 5000 => clock.now + 5000 < ClockMod
        /\ ClockMod > 14000 /\ ClockMod \in Nat
    BY <1>1, <1>4, ClockAssumption DEF RecvWait, HTTPD_REC_DATA_TIMEOUT
  <1>6. /\ Waited \in [start : 0..(ClockMod - 1), now : 0..(ClockMod - 1),
                       silent : {0, 5000, 10000}]
        /\ Waited.start = clock.start /\ Waited.now = Wrapped(clock.now + 5000)
        /\ Waited.silent = clock.silent + 5000
    <2>1. clock.silent < 15000 /\ clock.silent + 5000 \in {0, 5000, 10000}
      BY <1>3
    <2> DEFINE a == Wrapped(clock.now + RecvWait)
               b == IF clock.silent < SilentMax THEN clock.silent + RecvWait ELSE clock.silent
    <2>2. Waited = [clock EXCEPT !.now = a, !.silent = b]
      BY DEF Waited
    <2>3. a = Wrapped(clock.now + 5000) /\ b = clock.silent + 5000
      BY <2>1 DEF RecvWait, SilentMax
    <2>4. clock \in [start : 0..(ClockMod - 1), now : 0..(ClockMod - 1),
                    silent : {0, 5000, 10000}]
      BY DEF FormInv, ClockInv
    <2>5. a \in 0..(ClockMod - 1) /\ b \in {0, 5000, 10000}
      BY <1>4, <2>1, <2>3
    <2> HIDE DEF a, b
    <2> DEFINE S == 0..(ClockMod - 1)
               T == {0, 5000, 10000}
               d == [clock EXCEPT !.now = a, !.silent = b]
    <2>6. clock \in [start : S, now : S, silent : T] /\ a \in S /\ b \in T
      BY <2>4, <2>5
    <2>7. /\ d \in [start : S, now : S, silent : T]
          /\ d.start = clock.start /\ d.now = a /\ d.silent = b
      <3> HIDE DEF S, T
      <3> QED
        BY <2>6, ReplacedReadings
    <2> QED
      BY <2>2, <2>3, <2>7
  <1> DEFINE w == Wrapped(clock.now + 5000)
  <1>7. (IF w >= clock.start THEN w - clock.start ELSE w + ClockMod - clock.start)
            = clock.silent + 5000
    <2>1. /\ w = clock.now + 5000 \/ w = clock.now + 5000 - ClockMod
          /\ w = clock.now + 5000 => clock.now + 5000 < ClockMod
          /\ w \in 0..(ClockMod - 1)
      BY <1>4, <1>5
    <2> HIDE DEF w
    <2>2. (IF clock.now >= clock.start THEN clock.now - clock.start
           ELSE clock.now + ClockMod - clock.start) = clock.silent
      BY <1>1 DEF Gone
    <2>3. /\ clock.start \in Nat /\ clock.now \in Nat /\ clock.start < ClockMod
          /\ clock.now < ClockMod /\ w \in Nat /\ w < ClockMod
          /\ ClockMod \in Nat /\ ClockMod > 14000
      BY <1>1, <1>5, <2>1
    <2>4. CASE clock.silent = 0
      BY <2>1, <2>2, <2>3, <2>4
    <2>5. CASE clock.silent = 5000
      BY <2>1, <2>2, <2>3, <2>5
    <2> QED
      BY <1>3, <2>4, <2>5
  <1> QED
    BY <1>3, <1>6, <1>7

-----------------------------------------------------------------------------
\* No form is being handled.
LEMMA NotReceiving ==
    ASSUME fpc' \in {"boot", "off", "idle"}, form' = NoForm, clock' = NoTime,
           buf' \in [1..2 -> HalfRecs \cup {Junk}],
           wifi' \in [valid : BOOLEAN, conf : Sectors], license' \in Sectors,
           queue' \in {<<>>} \cup {<<c>> : c \in Sectors}, asked' \in Sectors
    PROVE  FormInv'
  <1>1. 0 \in 0..(ClockMod - 1)
    BY ClockAssumption DEF RecvWait, HTTPD_REC_DATA_TIMEOUT
  <1>2. FormTypeOK'
    BY <1>1 DEF FormTypeOK, NoTime, HalfRecs
  <1>3. ClockInv' /\ BufInv' /\ ValInv' /\ SavedAsPosted'
    BY <1>1 DEF ClockInv, BufInv, ValInv, SavedAsPosted, NoTime
  <1> QED
    BY <1>2, <1>3 DEF FormInv

LEMMA InitForms == FormInit => FormInv
  <1> SUFFICES ASSUME FormInit PROVE FormInv
    OBVIOUS
  <1>1. 0 \in 0..(ClockMod - 1)
    BY ClockAssumption DEF RecvWait, HTTPD_REC_DATA_TIMEOUT
  <1>2. FormTypeOK
    BY <1>1, SectorsAre DEF FormInit, FormTypeOK, NoTime
  <1>3. ClockInv /\ BufInv /\ ValInv /\ SavedAsPosted
    BY <1>1 DEF FormInit, ClockInv, BufInv, ValInv, SavedAsPosted, NoTime
  <1> QED
    BY <1>2, <1>3 DEF FormInv

\* What Stored() leaves in the two sectors.
LEMMA StoredType ==
    ASSUME FormTypeOK, NEW v \in Sectors, Stored(v)
    PROVE  wifi' \in [valid : BOOLEAN, conf : Sectors] /\ license' \in Sectors
  <1>1. CASE form.to = "wifi"
    <2>1. wifi' = [valid |-> (v # Blank), conf |-> v] /\ license' = license
      BY <1>1 DEF Stored
    <2>2. (v # Blank) \in BOOLEAN
      OBVIOUS
    <2>3. wifi' \in [valid : BOOLEAN, conf : Sectors]
      BY <2>1, <2>2, Zenon
    <2> QED
      BY <2>1, <2>3 DEF FormTypeOK
  <1>2. CASE form.to # "wifi"
    BY <1>2 DEF Stored, FormTypeOK
  <1> QED
    BY <1>1, <1>2

\* Restarts, and the steps of the start.
LEMMA StartForms ==
    ASSUME FormInv, FormsPowerLoss \/ wifi_init_sta \/ start_ota_file_server
                    \/ (FormsLost /\ UNCHANGED <<wifi, license>>)
    PROVE  FormInv'
  <1>0. /\ wifi \in [valid : BOOLEAN, conf : Sectors] /\ license \in Sectors
        /\ buf \in [1..2 -> HalfRecs \cup {Junk}]
        /\ queue \in {<<>>} \cup {<<c>> : c \in Sectors} /\ asked \in Sectors
    BY DEF FormInv, FormTypeOK, HalfRecs
  <1>1. ASSUME FormsLost
        PROVE  /\ fpc' = "boot" /\ form' = NoForm /\ clock' = NoTime
               /\ buf' \in [1..2 -> HalfRecs \cup {Junk}]
               /\ queue' \in {<<>>} \cup {<<c>> : c \in Sectors} /\ asked' \in Sectors
    BY <1>1, SectorsAre DEF FormsLost
  <1>2. CASE FormsPowerLoss
    <2>1. wifi' \in [valid : BOOLEAN, conf : Sectors] /\ license' \in Sectors
      <3>1. CASE UNCHANGED <<wifi, license>>
        BY <1>0, <3>1
      <3>2. CASE Stored(Torn)
        BY <3>2, StoredType, SectorsAre DEF FormInv
      <3>3. CASE wifi' = [valid |-> FALSE, conf |-> Blank] /\ UNCHANGED license
        BY <1>0, <3>3, SectorsAre
      <3> QED
        BY <1>2, <3>1, <3>2, <3>3 DEF FormsPowerLoss
    <2>2. FormsLost
      BY <1>2 DEF FormsPowerLoss
    <2> QED
      BY <1>1, <2>1, <2>2, NotReceiving
  <1>3. CASE FormsLost /\ UNCHANGED <<wifi, license>>
    BY <1>0, <1>1, <1>3, NotReceiving
  <1>4. ASSUME fpc \in {"boot", "off", "idle"} PROVE form = NoForm
    BY <1>4 DEF FormInv, FormTypeOK
  <1>5. CASE wifi_init_sta
    <2>1. /\ fpc = "boot" /\ fpc' = "off"
          /\ UNCHANGED <<license, form, buf, clock, queue>>
      BY <1>5 DEF wifi_init_sta
    <2>2. PICK read \in ReadConf :
              IF read.valid
              THEN asked' = read.conf /\ UNCHANGED wifi
              ELSE /\ asked' = Default
                   /\ \/ wifi' = [valid |-> FALSE, conf |-> Default]
                      \/ KeyDataMayFail /\ wifi' \in {wifi, [valid |-> FALSE, conf |-> Blank]}
      BY <1>5 DEF wifi_init_sta
    <2>3. read \in [valid : BOOLEAN, conf : Sectors]
      BY <1>0, SectorsAre DEF ReadConf
    <2>4. wifi' \in [valid : BOOLEAN, conf : Sectors] /\ asked' \in Sectors
      <3>1. CASE read.valid
        BY <1>0, <2>2, <2>3, <3>1
      <3>2. CASE ~read.valid
        <4>1. /\ [valid |-> FALSE, conf |-> Default] \in [valid : BOOLEAN, conf : Sectors]
              /\ [valid |-> FALSE, conf |-> Blank] \in [valid : BOOLEAN, conf : Sectors]
          BY SectorsAre
        <4>2. /\ asked' = Default
              /\ wifi' \in {wifi, [valid |-> FALSE, conf |-> Default],
                           [valid |-> FALSE, conf |-> Blank]}
          BY <2>2, <3>2
        <4> QED
          BY <1>0, <4>1, <4>2, SectorsAre
      <3> QED
        BY <3>1, <3>2
    <2>5. form = NoForm
      BY <1>4, <2>1
    <2>6. FormTypeOK'
      BY <1>0, <2>1, <2>4, <2>5 DEF FormInv, FormTypeOK
    <2>7. ClockInv' /\ BufInv' /\ ValInv' /\ SavedAsPosted'
      BY <2>1 DEF FormInv, ClockInv, BufInv, ValInv, SavedAsPosted
    <2> QED
      BY <2>6, <2>7 DEF FormInv
  <1>6. CASE start_ota_file_server
    BY <1>4, <1>6 DEF start_ota_file_server, FormInv, FormTypeOK, ClockInv, BufInv, ValInv,
                     SavedAsPosted
  <1> QED
    BY <1>2, <1>3, <1>5, <1>6

\* A request begins.
LEMMA RequestForms ==
    ASSUME FormInv, NEW p \in Posts, execute_handle(p)
    PROVE  FormInv'
  <1>1. /\ fpc' = "recv"
        /\ form' = [to |-> p.to, body |-> p.body, len |-> p.len, got |-> 0, val |-> Junk]
        /\ buf' \in {buf, [i \in 1..2 |-> Junk]}
        /\ UNCHANGED <<wifi, license, queue, asked>>
    BY DEF execute_handle
  <1>2. form' \in FormRecs /\ form' # NoForm /\ form'.got = 0
    <2>1. p.to \in Kinds /\ p.len \in 0..2 /\ p.body \in Bodies /\ p.to # "none"
      BY PostsAssumption DEF Kinds, Bodies
    <2>2. form'.to = p.to /\ NoForm.to = "none" /\ form'.got = 0
      BY <1>1 DEF NoForm
    <2>3. form' \in FormRecs
      BY <1>1, <2>1 DEF FormRecs
    <2> QED
      BY <2>1, <2>2, <2>3
  <1>3. PICK t \in StartTimes : clock' = [start |-> t, now |-> t, silent |-> 0]
    BY DEF execute_handle
  <1>4. /\ clock' \in [start : 0..(ClockMod - 1), now : 0..(ClockMod - 1),
                       silent : {0, 5000, 10000}]
        /\ clock'.start = t /\ clock'.now = t /\ clock'.silent = 0
    <2>1. t \in 0..(ClockMod - 1)
      BY ClockAssumption
    <2> QED
      BY <1>3, <2>1
  <1>5. t >= t /\ t - t = 0
    BY ClockAssumption
  <1>6. FormTypeOK'
    BY <1>1, <1>2, <1>4 DEF FormInv, FormTypeOK, FormRecs
  <1>7. ClockInv'
    BY <1>4, <1>5 DEF ClockInv, Gone
  <1>8. BufInv' /\ ValInv' /\ SavedAsPosted'
    BY <1>1, <1>2 DEF BufInv, ValInv, SavedAsPosted
  <1> QED
    BY <1>6, <1>7, <1>8 DEF FormInv

\* A part comes in.
LEMMA PartForms ==
    ASSUME FormInv, NEW k \in 1..2, FormPart(k)
    PROVE  FormInv'
  <1>1. /\ fpc = "recv" /\ form.got < form.len /\ k <= form.len - form.got
        /\ buf' = [i \in 1..2 |-> IF i <= k THEN HalfOf(form.body, form.got + i) ELSE buf[i]]
        /\ form' = [form EXCEPT !.got = form.got + k]
        /\ clock' = [clock EXCEPT !.start = clock.now, !.silent = 0]
        /\ UNCHANGED <<wifi, license, fpc, queue, asked>>
    BY DEF FormPart, Receiving
  <1>2. form \in FormRecs
    BY <1>1 DEF FormInv, FormTypeOK, FormRecs
  <1>3. /\ form.len \in {1, 2} /\ form.got \in {0, 1} /\ form.got + k \in 1..form.len
        /\ form.body \in Bodies
    <2>1. form.len \in 0..2 /\ form.got \in 0..2 /\ form.body \in Bodies
      BY <1>2 DEF FormRecs
    <2> QED
      BY <1>1, <2>1
  <1>4. /\ form' \in FormRecs /\ form'.got = form.got + k /\ form'.len = form.len
        /\ form'.body = form.body /\ form'.to = form.to
    <2>1. form.got + k \in 0..2
      BY <1>3
    <2>2. form' \in FormRecs
      BY <1>1, <1>2, <2>1 DEF FormRecs
    <2>3. /\ form'.got = form.got + k /\ form'.len = form.len
          /\ form'.body = form.body /\ form'.to = form.to
      BY <1>1, <1>2 DEF FormRecs
    <2> QED
      BY <1>3, <2>2, <2>3
  <1>5. form' # NoForm
    <2>1. form'.got # 0 /\ NoForm.got = 0
      BY <1>3, <1>4 DEF NoForm
    <2> QED
      BY <2>1
  <1>6. buf' \in [1..2 -> HalfRecs \cup {Junk}]
    <2>1. ASSUME NEW i \in 1..2, i <= k PROVE HalfOf(form.body, form.got + i) \in HalfRecs
      <3>1. form.got + i \in 1..2
        BY <1>3, <2>1
      <3> QED
        BY <1>3, <3>1, HalfOfType
    <2>2. buf \in [1..2 -> HalfRecs \cup {Junk}]
      BY DEF FormInv, FormTypeOK, HalfRecs
    <2> QED
      BY <1>1, <2>1, <2>2
  <1>7. /\ clock' \in [start : 0..(ClockMod - 1), now : 0..(ClockMod - 1),
                       silent : {0, 5000, 10000}]
        /\ clock'.start = clock.now /\ clock'.now = clock.now /\ clock'.silent = 0
        /\ clock.now \in 0..(ClockMod - 1)
    <2> DEFINE S == 0..(ClockMod - 1)
               T == {0, 5000, 10000}
    <2>1. clock \in [start : S, now : S, silent : T] /\ 0 \in T
      BY DEF FormInv, ClockInv
    <2> HIDE DEF S, T
    <2>2. clock.now \in S
      BY <2>1
    <2>3. /\ clock' \in [start : S, now : S, silent : T]
          /\ clock'.start = clock.now /\ clock'.now = clock.now /\ clock'.silent = 0
      BY <1>1, <2>1, <2>2
    <2> QED
      BY <2>2, <2>3 DEF S, T
  <1>8. clock.now >= clock.now /\ clock.now - clock.now = 0
    BY <1>7
  <1>9. FormTypeOK'
    BY <1>1, <1>4, <1>5, <1>6, <1>7 DEF FormInv, FormTypeOK, FormRecs, HalfRecs
  <1>10. ClockInv'
    BY <1>7, <1>8 DEF ClockInv, Gone
  <1>11. BufInv'
    <2>1. CASE form.got = 0 /\ k = 1
      <3>1. buf'[1] = HalfOf(form.body, 1)
        BY <1>1, <2>1
      <3> QED
        BY <1>3, <1>4, <2>1, <3>1 DEF BufInv
    <2>2. CASE form.got = 0 /\ k = 2
      <3>1. buf'[1] = HalfOf(form.body, 1) /\ buf'[2] = HalfOf(form.body, 2)
        BY <1>1, <2>2
      <3> QED
        BY <1>3, <1>4, <3>1 DEF BufInv
    <2>3. CASE form.got = 1 /\ k = 1
      <3>1. buf'[1] = HalfOf(form.body, 2)
        BY <1>1, <2>3
      <3> QED
        BY <1>3, <1>4, <2>3, <3>1 DEF BufInv
    <2> QED
      BY <1>3, <2>1, <2>2, <2>3
  <1>12. ValInv' /\ SavedAsPosted'
    BY <1>1 DEF ValInv, SavedAsPosted
  <1> QED
    BY <1>9, <1>10, <1>11, <1>12 DEF FormInv

\* A form is parsed.  Of what the buffer can hold only a whole form of the right
\* kind parses.
LEMMA AcceptedForms ==
    ASSUME FormInv, FormAccepted
    PROVE  FormInv'
  <1>1. /\ fpc = "recv" /\ form.got = form.len /\ Parses(form.to) /\ fpc' = "keyErase"
        /\ form' = [form EXCEPT !.val = Parsed]
        /\ UNCHANGED <<wifi, license, buf, clock, queue, asked>>
    BY DEF FormAccepted, Received
  <1>2. form \in FormRecs
    BY <1>1 DEF FormInv, FormTypeOK, FormRecs
  <1>3. Parsed \in Halves \X Halves /\ Parsed \in Sectors
    BY <1>1, ParsedType, SectorsAre DEF FormInv
  <1>4. /\ form' \in FormRecs /\ form'.val = Parsed /\ form'.len = form.len
        /\ form'.body = form.body /\ form'.to = form.to
    <2>1. form' \in FormRecs
      BY <1>1, <1>2, <1>3 DEF FormRecs
    <2>2. /\ form'.val = Parsed /\ form'.len = form.len
          /\ form'.body = form.body /\ form'.to = form.to
      BY <1>1, <1>2 DEF FormRecs
    <2> QED
      BY <2>1, <2>2
  <1>5. form' # NoForm
    <2>1. form'.to # "none"
      BY <1>4 DEF FormRecs, Kinds
    <2> QED
      BY <2>1 DEF NoForm
  <1>6. FormTypeOK'
    BY <1>1, <1>4, <1>5 DEF FormInv, FormTypeOK, FormRecs
  <1>7. ClockInv' /\ BufInv' /\ ValInv'
    BY <1>1, <1>3, <1>4 DEF FormInv, ClockInv, BufInv, ValInv
  <1>8. SavedAsPosted'
    <2> SUFFICES ASSUME form.len > 0
                 PROVE  /\ form.body.kind = form.to /\ Parsed[1] = form.body.first
                        /\ form.len = 2 => Parsed = Value(form.body)
      BY <1>4 DEF SavedAsPosted
    <2>1. form.len \in {1, 2} /\ form.got = form.len
      BY <1>1, <1>2 DEF FormRecs
    <2>2. buf[1] # HalfOf(form.body, 2)
      BY <1>1 DEF Parses, HalfOf
    <2>3. /\ buf[1] = HalfOf(form.body, 1)
          /\ form.len = 2 => buf[2] = HalfOf(form.body, 2)
      BY <1>1, <2>1, <2>2 DEF FormInv, BufInv
    <2>4. /\ buf[1].val = form.body.first /\ buf[1].kind = form.body.kind
          /\ form.len = 2 => buf[2].val = form.body.last
      BY <2>3 DEF HalfOf
    <2> QED
      BY <1>1, <2>4 DEF Parses, Parsed, Value
  <1> QED
    BY <1>6, <1>7, <1>8 DEF FormInv

LEMMA StepForms == ASSUME FormInv, FormStep PROVE FormInv'
  <1>0. /\ wifi \in [valid : BOOLEAN, conf : Sectors] /\ license \in Sectors
        /\ buf \in [1..2 -> HalfRecs \cup {Junk}]
        /\ queue \in {<<>>} \cup {<<c>> : c \in Sectors} /\ asked \in Sectors
    BY DEF FormInv, FormTypeOK, HalfRecs
  <1>1. CASE FormStall
    <2>1. /\ fpc = "recv" /\ ~Expired /\ clock' = Waited
          /\ UNCHANGED <<wifi, license, fpc, form, buf, queue, asked>>
      BY <1>1 DEF FormStall, Receiving
    <2>2. ClockInv'
      BY <2>1, WaitedClock DEF ClockInv, Gone
    <2>3. clock'.start \in 0..(ClockMod - 1) /\ clock'.now \in 0..(ClockMod - 1)
      BY <2>2 DEF ClockInv
    <2>4. FormTypeOK'
      BY <2>1, <2>3 DEF FormInv, FormTypeOK
    <2>5. BufInv' /\ ValInv' /\ SavedAsPosted'
      BY <2>1 DEF FormInv, BufInv, ValInv, SavedAsPosted
    <2> QED
      BY <2>2, <2>4, <2>5 DEF FormInv
  <1>2. CASE FormTimeout \/ FormRecvError \/ FormRejected
    BY <1>0, <1>2, NotReceiving DEF FormTimeout, FormRecvError, FormRejected, Returned
  <1>3. CASE FormAccepted
    BY <1>3, AcceptedForms
  <1>4. CASE \E k \in 1..2 : FormPart(k)
    BY <1>4, PartForms
  \* The end of a save.
  <1>5. ASSUME AfterSave, fpc \in {"keyErase", "keyWrite"},
               wifi' \in [valid : BOOLEAN, conf : Sectors], license' \in Sectors
        PROVE  FormInv'
    <2>1. CASE form.to = "wifi"
      <3>1. fpc' = "queue" /\ UNCHANGED <<form, clock, buf, queue, asked>>
        BY <1>5, <2>1 DEF AfterSave
      <3>2. FormTypeOK'
        BY <1>5, <3>1 DEF FormInv, FormTypeOK
      <3>3. ClockInv' /\ BufInv' /\ ValInv' /\ SavedAsPosted'
        BY <1>5, <3>1 DEF FormInv, ClockInv, BufInv, ValInv, SavedAsPosted
      <3> QED
        BY <3>2, <3>3 DEF FormInv
    <2>2. CASE form.to # "wifi"
      <3>1. Returned /\ UNCHANGED <<buf, queue, asked>>
        BY <1>5, <2>2 DEF AfterSave
      <3> QED
        BY <1>0, <1>5, <3>1, NotReceiving DEF Returned
    <2> QED
      BY <2>1, <2>2
  <1>6. CASE FormKeyErase
    <2>1. /\ fpc = "keyErase" /\ fpc' = "keyWrite" /\ Stored(Blank)
          /\ UNCHANGED <<form, buf, clock, queue, asked>>
      BY <1>6 DEF FormKeyErase
    <2>2. wifi' \in [valid : BOOLEAN, conf : Sectors] /\ license' \in Sectors
      BY <2>1, StoredType, SectorsAre DEF FormInv
    <2>3. FormTypeOK'
      BY <2>1, <2>2 DEF FormInv, FormTypeOK
    <2>4. ClockInv' /\ BufInv' /\ ValInv' /\ SavedAsPosted'
      BY <2>1 DEF FormInv, ClockInv, BufInv, ValInv, SavedAsPosted
    <2> QED
      BY <2>3, <2>4 DEF FormInv
  <1>7. CASE FormKeyWrite
    <2>1. fpc = "keyWrite" /\ Stored(form.val) /\ AfterSave
      BY <1>7 DEF FormKeyWrite
    <2>2. form.val \in Sectors
      BY <2>1, SectorsAre DEF FormInv, ValInv
    <2>3. wifi' \in [valid : BOOLEAN, conf : Sectors] /\ license' \in Sectors
      BY <2>1, <2>2, StoredType DEF FormInv
    <2> QED
      BY <1>5, <2>1, <2>3
  <1>8. CASE FormKeyDataFails
    BY <1>0, <1>5, <1>8 DEF FormKeyDataFails
  <1>9. CASE QueueConf
    <2>1. /\ fpc = "queue" /\ queue' = <<form.val>> /\ asked' = form.val /\ Returned
          /\ UNCHANGED <<wifi, license, buf>>
      BY <1>9 DEF QueueConf, Queued
    <2>2. form.val \in Sectors
      BY <2>1, SectorsAre DEF FormInv, ValInv
    <2> QED
      BY <1>0, <2>1, <2>2, NotReceiving DEF Returned
  <1> QED
    BY <1>1, <1>2, <1>3, <1>4, <1>6, <1>7, <1>8, <1>9 DEF FormStep

LEMMA NextForms == FormInv /\ [FormNext]_formVars => FormInv'
  <1> SUFFICES ASSUME FormInv, [FormNext]_formVars PROVE FormInv'
    OBVIOUS
  <1>1. CASE FormsPowerLoss \/ wifi_init_sta \/ start_ota_file_server
    BY <1>1, StartForms
  <1>2. CASE FormRequest
    BY <1>2, RequestForms DEF FormRequest
  <1>3. CASE FormStep
    BY <1>3, StepForms
  <1>4. CASE StationReceives \/ UNCHANGED formVars
    <2>1. /\ UNCHANGED <<wifi, license, fpc, form, buf, clock, asked>>
          /\ queue' \in {queue, <<>>}
      BY <1>4 DEF StationReceives, formVars
    <2>2. FormTypeOK'
      BY <2>1 DEF FormInv, FormTypeOK
    <2>3. ClockInv' /\ BufInv' /\ ValInv' /\ SavedAsPosted'
      BY <2>1 DEF FormInv, ClockInv, Gone, BufInv, ValInv, SavedAsPosted
    <2> QED
      BY <2>2, <2>3 DEF FormInv
  <1> QED
    BY <1>1, <1>2, <1>3, <1>4 DEF FormNext

LEMMA FormsAlways == FormSpec => []FormInv
  BY InitForms, NextForms, PTL DEF FormSpec

\* The variables of the form handlers keep their types: no more of a form is
\* received than it has, and the queue of one never holds two configurations.
THEOREM FormTypes == FormSpec => []FormTypeOK
  <1>1. FormInv => FormTypeOK
    BY DEF FormInv
  <1> QED
    BY <1>1, FormsAlways, PTL

\* A complete form is saved as its client posted it, and a truncated one with the
\* start its client posted, whatever the buffer on the stack held and in however
\* many parts the form came.
THEOREM FormsSavedAsPosted == FormSpec => []SavedAsPosted
  <1>1. FormInv => SavedAsPosted
    BY DEF FormInv
  <1> QED
    BY <1>1, FormsAlways, PTL

\* The receive loop measures the real silence, wherever the clock stands and
\* wraps: the 2^32 of the code is one of its widths.
THEOREM ClockIsHonest == FormSpec => []ClockHonest
  <1>1. FormInv => ClockHonest
    BY DEF FormInv, ClockInv, ClockHonest, Expired, Gone
  <1> QED
    BY <1>1, FormsAlways, PTL

-----------------------------------------------------------------------------
(* What a restart will find, while key_data can be written.                   *)

\* Until a WiFi form is being saved the record is what the station was told; when
\* it is saved it is what the station will be told.
NotSaving ==
    \/ fpc \in {"off", "idle", "recv"}
    \/ fpc \in {"keyErase", "keyWrite"} /\ form.to # "wifi"
KeptInv ==
    ~KeyDataMayFail =>
        /\ NotSaving => wifi.conf = asked /\ (wifi.valid \/ asked = Default)
        /\ fpc = "queue" => wifi.conf = form.val /\ wifi.valid

LEMMA InitKept == FormInit => KeptInv
  BY DEF FormInit, KeptInv, NotSaving

LEMMA NextKept == FormInv /\ KeptInv /\ [FormNext]_formVars => KeptInv'
  <1> SUFFICES ASSUME FormInv, KeptInv, [FormNext]_formVars, ~KeyDataMayFail
               PROVE  KeptInv'
    BY DEF KeptInv, NotSaving
  <1>1. CASE FormsPowerLoss
    BY <1>1 DEF FormsPowerLoss, FormsLost, KeptInv, NotSaving
  <1>2. CASE wifi_init_sta
    <2>1. fpc' = "off"
      BY <1>2 DEF wifi_init_sta
    <2>2. \/ wifi.valid /\ asked' = wifi.conf /\ UNCHANGED wifi
          \/ asked' = Default /\ wifi' = [valid |-> FALSE, conf |-> Default]
      BY <1>2 DEF wifi_init_sta, ReadConf
    <2>3. wifi'.conf = asked' /\ (wifi'.valid \/ asked' = Default)
      BY <2>2
    <2> QED
      BY <2>1, <2>3 DEF KeptInv, NotSaving
  \* A step that leaves the record and the station's configuration alone.
  <1>3. ASSUME UNCHANGED <<wifi, asked>>, fpc' # "queue",
               \/ fpc' \notin {"off", "idle", "recv", "keyErase", "keyWrite"}
               \/ fpc' \in {"keyErase", "keyWrite"} /\ form'.to = "wifi"
               \/ fpc \in {"off", "idle", "recv"}
               \/ fpc \in {"keyErase", "keyWrite"} /\ form.to # "wifi"
        PROVE  KeptInv'
    BY <1>3 DEF KeptInv, NotSaving
  <1>4. CASE start_ota_file_server \/ FormRequest \/ StationReceives
    <2>1. /\ UNCHANGED <<wifi, asked>>
          /\ \/ fpc = "off" /\ fpc' = "idle"
             \/ fpc = "idle" /\ fpc' = "recv"
             \/ UNCHANGED <<fpc, form>>
      BY <1>4 DEF start_ota_file_server, FormRequest, execute_handle, StationReceives
    <2> QED
      BY <1>3, <2>1 DEF KeptInv, NotSaving
  <1>5. CASE UNCHANGED formVars
    BY <1>5 DEF formVars, KeptInv, NotSaving
  <1>6. CASE FormStep
    <2>1. CASE FormStall \/ FormTimeout \/ FormRecvError \/ FormRejected \/ FormAccepted
               \/ \E k \in 1..2 : FormPart(k)
      <3>1. fpc = "recv" /\ fpc' \in {"recv", "idle", "keyErase"} /\ UNCHANGED <<wifi, asked>>
        BY <2>1 DEF FormStall, FormTimeout, FormRecvError, FormRejected, FormAccepted, FormPart,
                    Receiving, Received, Returned
      <3> QED
        BY <1>3, <3>1
    <2>2. CASE FormKeyErase
      <3>1. /\ fpc = "keyErase" /\ fpc' = "keyWrite" /\ UNCHANGED <<form, asked>>
            /\ form.to # "wifi" => UNCHANGED wifi
        BY <2>2 DEF FormKeyErase, Stored
      <3>2. CASE form.to = "wifi"
        BY <3>1, <3>2 DEF KeptInv, NotSaving
      <3>3. CASE form.to # "wifi"
        BY <1>3, <3>1, <3>3
      <3> QED
        BY <3>2, <3>3
    <2>3. CASE FormKeyWrite
      <3>1. fpc = "keyWrite" /\ Stored(form.val) /\ AfterSave
        BY <2>3 DEF FormKeyWrite
      <3>2. CASE form.to = "wifi"
        <4>1. fpc' = "queue" /\ form' = form
          BY <3>1, <3>2 DEF AfterSave
        <4>2. form.val # Blank
          BY <3>1, BlankAssumption DEF FormInv, ValInv
        <4>3. wifi' = [valid |-> form.val # Blank, conf |-> form.val]
          BY <3>1, <3>2 DEF Stored
        <4>4. wifi'.conf = form.val
          BY <4>3
        <4>5. wifi'.valid = (form.val # Blank)
          BY <4>3
        <4>6. wifi'.valid
          BY <4>2, <4>5
        <4> QED
          BY <4>1, <4>4, <4>6 DEF KeptInv, NotSaving
      <3>3. CASE form.to # "wifi"
        <4>1. fpc' = "idle" /\ UNCHANGED <<wifi, asked>>
          BY <3>1, <3>3 DEF AfterSave, Stored, Returned
        <4> QED
          BY <1>3, <3>1, <3>3, <4>1
      <3> QED
        BY <3>2, <3>3
    <2>4. CASE FormKeyDataFails
      BY <2>4 DEF FormKeyDataFails
    <2>5. CASE QueueConf
      <3>1. fpc = "queue" /\ fpc' = "idle" /\ asked' = form.val /\ UNCHANGED wifi
        BY <2>5 DEF QueueConf, Returned
      <3> QED
        BY <3>1 DEF KeptInv, NotSaving
    <2> QED
      BY <1>6, <2>1, <2>2, <2>3, <2>4, <2>5 DEF FormStep
  <1> QED
    BY <1>1, <1>2, <1>4, <1>5, <1>6 DEF FormNext

LEMMA KeptAlways == FormSpec => []KeptInv
  BY InitKept, NextKept, FormsAlways, PTL DEF FormSpec

-----------------------------------------------------------------------------
(* How long a form takes.                                                     *)

\* What the work of a form being received amounts to.
LEMMA RecvWork ==
    ASSUME FormInv, fpc = "recv"
    PROVE  /\ form.len \in 0..2 /\ form.got \in 0..2
           /\ clock.silent \in {0, 5000, 10000}
           /\ FormWork = (form.len - form.got) * 15000 + (15000 - clock.silent) + 4
  <1>1. form \in FormRecs
    BY DEF FormInv, FormTypeOK, FormRecs
  <1>2. form.len \in 0..2 /\ form.got \in 0..2
    BY <1>1 DEF FormRecs
  <1>3. clock.silent \in {0, 5000, 10000}
    BY DEF FormInv, ClockInv
  <1> QED
    BY <1>2, <1>3 DEF FormWork, SilentMax

LEMMA NextFormWork ==
    ASSUME FormInv, FormInv', FormNext, fpc \in {"recv", "keyErase", "keyWrite", "queue"},
           fpc' # "boot", ~UNCHANGED <<fpc, form, clock>>
    PROVE  FormWork' \in 0 .. FormWork - 1
  <1>1. CASE FormStall
    <2>1. fpc = "recv" /\ fpc' = "recv" /\ form' = form /\ clock' = Waited /\ ~Expired
          /\ form.got < form.len
      BY <1>1 DEF FormStall, Receiving
    <2>2. clock'.silent = clock.silent + 5000 /\ clock.silent \in {0, 5000}
      BY <2>1, WaitedClock
    <2>3. FormWork' = (form.len - form.got) * 15000 + (15000 - clock'.silent) + 4
      BY <2>1 DEF FormWork, SilentMax
    <2>4. form.len - form.got \in {1, 2}
      BY <2>1, RecvWork
    <2> QED
      BY <2>1, <2>2, <2>3, <2>4, RecvWork
  <1>2. CASE \E k \in 1..2 : FormPart(k)
    <2>1. PICK k \in 1..2 : FormPart(k)
      BY <1>2
    <2>2. /\ fpc = "recv" /\ fpc' = "recv" /\ form.got < form.len /\ k <= form.len - form.got
          /\ form' = [form EXCEPT !.got = form.got + k]
          /\ clock' = [clock EXCEPT !.start = clock.now, !.silent = 0]
      BY <2>1 DEF FormPart, Receiving
    <2>3. form \in FormRecs
      BY <2>2 DEF FormInv, FormTypeOK, FormRecs
    <2>4. form'.got = form.got + k /\ form'.len = form.len
      BY <2>2, <2>3 DEF FormRecs
    <2>5. clock'.silent = 0
      <3> DEFINE S == 0..(ClockMod - 1)
                 T == {0, 5000, 10000}
      <3>1. clock \in [start : S, now : S, silent : T]
        BY DEF FormInv, ClockInv
      <3> HIDE DEF S, T
      <3> QED
        BY <2>2, <3>1
    <2>6. FormWork' = (form.len - (form.got + k)) * 15000 + 15000 + 4
      BY <2>2, <2>4, <2>5 DEF FormWork, SilentMax
    <2>7. form.len \in {1, 2} /\ form.got \in {0, 1} /\ clock.silent \in {0, 5000, 10000}
      BY <2>2, RecvWork
    <2> QED
      BY <2>2, <2>6, <2>7, RecvWork
  <1>3. CASE FormTimeout \/ FormRecvError \/ FormRejected \/ FormAccepted
    <2>1. fpc = "recv" /\ fpc' \in {"idle", "keyErase"} /\ form.got <= form.len
      BY <1>3, RecvWork DEF FormTimeout, FormRecvError, FormRejected, FormAccepted, Receiving,
                            Received, Returned
    <2>2. FormWork' \in {0, 3}
      BY <2>1 DEF FormWork
    <2>3. form.len - form.got \in 0..2
      BY <2>1, RecvWork
    <2> QED
      BY <2>1, <2>2, <2>3, RecvWork
  <1>4. CASE FormKeyErase \/ FormKeyWrite \/ FormKeyDataFails \/ QueueConf
    <2>1. \/ fpc = "keyErase" /\ fpc' \in {"keyWrite", "queue", "idle"}
          \/ fpc = "keyWrite" /\ fpc' \in {"queue", "idle"}
          \/ fpc = "queue" /\ fpc' = "idle"
      BY <1>4 DEF FormKeyErase, FormKeyWrite, FormKeyDataFails, QueueConf, AfterSave, Returned
    <2> QED
      BY <2>1 DEF FormWork
  <1>5. CASE \/ FormsPowerLoss \/ wifi_init_sta \/ start_ota_file_server \/ FormRequest
             \/ StationReceives
    BY <1>5 DEF FormsPowerLoss, FormsLost, wifi_init_sta, start_ota_file_server, FormRequest,
                execute_handle, StationReceives
  <1> QED
    BY <1>1, <1>2, <1>3, <1>4, <1>5 DEF FormNext, FormStep

\* Every step of a form brings its end nearer, for any width of the clock and any
\* reading of it: silence and parts in any order hold the httpd task no longer.
THEOREM FormsProgress == FormSpec => FormProgresses
  <1> DEFINE Under == fpc \in {"recv", "keyErase", "keyWrite", "queue"} /\ fpc' # "boot"
             Nearer == FormWork' \in 0 .. FormWork - 1
  <1>1. FormInv /\ FormInv' /\ [FormNext]_formVars => [Under => Nearer]_<<fpc, form, clock>>
    <2> SUFFICES ASSUME FormInv, FormInv', [FormNext]_formVars, Under,
                        ~UNCHANGED <<fpc, form, clock>>
                 PROVE  Nearer
      OBVIOUS
    <2>1. FormNext
      BY DEF formVars
    <2> QED
      BY <2>1, NextFormWork
  <1> QED
    BY <1>1, FormsAlways, PTL DEF FormSpec, FormProgresses
=============================================================================
