---------------------------- MODULE WifiStaProofs ----------------------------
(* Theorems about WifiSta, for any forms, number of retries and length of the  *)
(* event queue.                                                               *)
EXTENDS WifiSta, HttpFormsProofs, SequenceTheorems

-----------------------------------------------------------------------------
(* The forms.                                                                 *)

LEMMA NextIsFormNext == [Next]_vars => [FormNext]_formVars
  <1> SUFFICES ASSUME [Next]_vars PROVE [FormNext]_formVars
    OBVIOUS
  <1>1. CASE PowerLoss
    BY <1>1 DEF PowerLoss, FormNext
  <1>2. CASE wifi_ap_sta_init
    BY <1>2 DEF wifi_ap_sta_init, FormNext
  <1>3. CASE (start_ota_file_server \/ FormRequest) /\ UNCHANGED staVars
    BY <1>3 DEF FormNext
  <1>4. CASE Httpd
    BY <1>4 DEF Httpd, FormNext
  <1>5. CASE ReceiveConf
    BY <1>5 DEF ReceiveConf, FormNext, StationReceives
  <1>6. CASE SetConfig
    BY <1>6 DEF SetConfig, FormNext, FormsPowerLoss
  <1>7. CASE \/ ConnectAfterSet \/ event_handler
             \/ DriverConnects \/ DriverGotIp \/ DriverDisconnects
             \/ UNCHANGED vars
    BY <1>7 DEF ConnectAfterSet, event_handler, DriverConnects, DriverGotIp,
                DriverDisconnects, vars
  <1> QED
    BY <1>1, <1>2, <1>3, <1>4, <1>5, <1>6, <1>7 DEF Next, wifi_sta_connect_handle

\* The station task and the start do to the forms what HttpForms says: every
\* theorem about forms holds of the station that takes configurations from them.
THEOREM StationImplementsForms == Spec => ImplementsForms
  <1>1. Init => FormInit
    BY DEF Init
  <1> QED
    BY <1>1, NextIsFormNext, PTL DEF Spec, ImplementsForms, FormSpec

LEMMA FormsHere == Spec => [](FormInv /\ KeptInv)
  BY StationImplementsForms, FormsAlways, KeptAlways, PTL DEF ImplementsForms

\* Between forms a restart will use what the station was told, as long as
\* key_data can be written.
THEOREM RestartUsesSame == Spec => []KeptForRestart
  <1>1. KeptInv => KeptForRestart
    BY DEF KeptInv, NotSaving, KeptForRestart
  <1> QED
    BY <1>1, FormsHere, PTL

-----------------------------------------------------------------------------
(* Types.                                                                     *)
EventIds == {"start", "disconnected", "gotIp"}
DriverRecs == [st : {"stopped", "idle", "connecting", "linked", "up"},
               conf : Sectors, refused : BOOLEAN]
QuietInv == sta = "off" => events = <<>> /\ queue = <<>>
TypeInv == TypeOK /\ QuietInv

\* An event posted where there is room, and one taken.
LEMMA PostEvent ==
    ASSUME NEW S, NEW q \in Seq(S), NEW e \in S
    PROVE  /\ Append(q, e) \in Seq(S) /\ Len(Append(q, e)) = Len(q) + 1 /\ Len(q) \in Nat
           /\ Append(q, e) # <<>> /\ Append(q, e)[Len(Append(q, e))] = e
  BY AppendProperties, LenProperties

LEMMA TakeEvent ==
    ASSUME NEW S, NEW q \in Seq(S), q # <<>>
    PROVE  /\ Head(q) \in S /\ Tail(q) \in Seq(S) /\ Len(Tail(q)) = Len(q) - 1
           /\ Len(q) \in Nat /\ Len(q) >= 1
           /\ Tail(q) = <<>> => Head(q) = q[Len(q)]
           /\ Tail(q) # <<>> => Tail(q)[Len(Tail(q))] = q[Len(q)]
  <1>1. /\ Head(q) \in S /\ Head(q) = q[1] /\ Tail(q) \in Seq(S) /\ Len(Tail(q)) = Len(q) - 1
        /\ \A i \in 1..Len(Tail(q)) : Tail(q)[i] = q[i + 1]
        /\ Len(q) \in Nat /\ Len(q) >= 1
    BY HeadTailProperties, EmptySeq, LenProperties
  <1>2. ASSUME Tail(q) = <<>> PROVE Head(q) = q[Len(q)]
    <2>0. Len(<<>>) = 0
      BY EmptySeq
    <2>1. Len(Tail(q)) = 0
      BY <1>2, <2>0, Zenon
    <2>2. Len(q) = 1
      BY <1>1, <2>1
    <2> QED
      BY <1>1, <2>2
  <1>3. ASSUME Tail(q) # <<>> PROVE Tail(q)[Len(Tail(q))] = q[Len(q)]
    <2>1. Len(Tail(q)) # 0 /\ Len(Tail(q)) \in Nat
      BY <1>1, <1>3, EmptySeq, LenProperties
    <2>2. Len(Tail(q)) \in 1..Len(Tail(q)) /\ Len(Tail(q)) + 1 = Len(q)
      BY <1>1, <2>1
    <2> QED
      BY <1>1, <2>2
  <1> QED
    BY <1>1, <1>2, <1>3

LEMMA InitStation == Init => TypeInv
  <1> SUFFICES ASSUME Init PROVE TypeInv
    OBVIOUS
  <1>1. events \in Seq(EventIds) /\ Len(events) <= MaxEvents
    BY EventsAssumption DEF Init
  <1>2. s_retry_num \in 0..ESP_MAXIMUM_RETRY
    BY RetryAssumption DEF Init
  <1> QED
    BY <1>1, <1>2, SectorsAre DEF Init, FormInit, TypeInv, TypeOK, QuietInv, EventIds

\* esp_wifi_connect() with the events evs then waiting.
LEMMA ConnectTypes ==
    ASSUME TypeInv, NEW evs \in Seq(EventIds), Len(evs) <= MaxEvents, esp_wifi_connect(evs)
    PROVE  /\ events' \in Seq(EventIds) /\ Len(events') <= MaxEvents
           /\ driver' \in DriverRecs /\ driver'.conf = driver.conf
           /\ \/ driver'.st = "connecting"
              \/ driver'.st = driver.st /\ driver'.refused
  <1>0. driver \in DriverRecs
    BY DEF TypeInv, TypeOK, DriverRecs
  <1>1. /\ \/ driver' = [driver EXCEPT !.st = "connecting", !.refused = FALSE]
           \/ driver.st = "connecting" /\ driver' = driver
           \/ driver' = [driver EXCEPT !.refused = TRUE]
        /\ \/ events' = evs
           \/ Len(evs) < MaxEvents /\ events' = Append(evs, "disconnected")
    BY DEF esp_wifi_connect, Connects
  <1>2. events' \in Seq(EventIds) /\ Len(events') <= MaxEvents
    <2>1. "disconnected" \in EventIds
      BY DEF EventIds
    <2>2. CASE Len(evs) < MaxEvents /\ events' = Append(evs, "disconnected")
      <3>1. events' \in Seq(EventIds) /\ Len(events') = Len(evs) + 1 /\ Len(evs) \in Nat
        BY <2>1, <2>2, PostEvent
      <3> QED
        BY <2>2, <3>1, EventsAssumption
    <2> QED
      BY <1>1, <2>2
  <1>3. /\ driver' \in DriverRecs /\ driver'.conf = driver.conf
        /\ \/ driver'.st = "connecting"
           \/ driver'.st = driver.st /\ driver'.refused
    BY <1>0, <1>1 DEF DriverRecs
  <1> QED
    BY <1>2, <1>3

\* What one call of event_handler() does.
LEMMA HandlerDoes ==
    ASSUME TypeInv, event_handler
    PROVE  /\ events # <<>> /\ UNCHANGED <<formVars, sta, sta_conf>>
           /\ \/ /\ Head(events) \in {"start", "disconnected"}
                 /\ esp_wifi_connect(Tail(events))
                 /\ \/ s_retry_num' = s_retry_num
                    \/ s_retry_num' = s_retry_num + 1 /\ s_retry_num < ESP_MAXIMUM_RETRY
                 /\ UNCHANGED bits
              \/ /\ Head(events) = "disconnected" /\ ~(s_retry_num < ESP_MAXIMUM_RETRY)
                 /\ bits' = bits \cup {"FAIL"} /\ events' = Tail(events)
                 /\ UNCHANGED <<driver, s_retry_num>>
              \/ /\ Head(events) = "gotIp"
                 /\ s_retry_num' = 0 /\ bits' = bits \cup {"CONNECTED"}
                 /\ events' = Tail(events) /\ UNCHANGED driver
  <1>1. events # <<>> /\ UNCHANGED <<formVars, sta, sta_conf>>
    BY DEF event_handler
  <1>2. Head(events) \in {"start", "disconnected", "gotIp"}
    BY <1>1, TakeEvent DEF TypeInv, TypeOK
  <1>3. CASE Head(events) = "start"
    <2>1. esp_wifi_connect(Tail(events)) /\ UNCHANGED <<s_retry_num, bits>>
      BY <1>3 DEF event_handler
    <2> QED
      BY <1>1, <1>3, <2>1
  <1>4. CASE Head(events) = "disconnected"
    <2>1. IF MayRetry
          THEN /\ esp_wifi_connect(Tail(events))
               /\ s_retry_num' = s_retry_num + 1
               /\ UNCHANGED bits
          ELSE /\ bits' = bits \cup {"FAIL"}
               /\ events' = Tail(events)
               /\ UNCHANGED <<driver, s_retry_num>>
      BY <1>4 DEF event_handler
    <2> QED
      BY <1>1, <1>4, <2>1 DEF MayRetry
  <1>5. CASE Head(events) = "gotIp"
    <2>1. /\ s_retry_num' = 0 /\ bits' = bits \cup {"CONNECTED"}
          /\ events' = Tail(events) /\ UNCHANGED driver
      BY <1>5 DEF event_handler
    <2> QED
      BY <1>1, <1>5, <2>1
  <1> QED
    BY <1>2, <1>3, <1>4, <1>5

\* Steps of the httpd task do not restart the chip.
LEMMA FormStepsStay ==
    ASSUME FormStep \/ start_ota_file_server \/ FormRequest
    PROVE  fpc # "boot" /\ fpc' # "boot"
  BY DEF start_ota_file_server, FormRequest, execute_handle, FormStep, FormStall, FormTimeout,
         FormRecvError, FormRejected, FormAccepted, FormPart, FormKeyErase, FormKeyWrite,
         FormKeyDataFails, QueueConf, Receiving, Received, Returned, AfterSave

LEMMA NextStation == TypeInv /\ FormInv /\ [Next]_vars => TypeInv'
  <1> SUFFICES ASSUME TypeInv, FormInv, [Next]_vars PROVE TypeInv'
    OBVIOUS
  <1>0. /\ events \in Seq(EventIds) /\ Len(events) <= MaxEvents
        /\ driver \in DriverRecs /\ s_retry_num \in 0..ESP_MAXIMUM_RETRY
        /\ sta # "off" => driver.st # "stopped"
    BY DEF TypeInv, TypeOK, EventIds, DriverRecs
  <1>1. ASSUME StaLost, FormsLost PROVE TypeInv'
    <2>1. events' \in Seq(EventIds) /\ Len(events') <= MaxEvents
      BY <1>1, EventsAssumption DEF StaLost
    <2>2. s_retry_num' \in 0..ESP_MAXIMUM_RETRY
      BY <1>1, RetryAssumption DEF StaLost
    <2> QED
      BY <1>1, <2>1, <2>2, SectorsAre
      DEF StaLost, FormsLost, TypeInv, TypeOK, QuietInv, EventIds
  <1>2. CASE PowerLoss
    BY <1>1, <1>2 DEF PowerLoss, FormsPowerLoss
  <1>3. CASE wifi_ap_sta_init
    <2>1. /\ sta = "off" /\ sta' = "wait" /\ fpc' = "off"
          /\ driver' = [st |-> "idle", conf |-> asked', refused |-> FALSE]
          /\ events' = <<"start">>
          /\ UNCHANGED <<sta_conf, s_retry_num, bits>>
      BY <1>3 DEF wifi_ap_sta_init, wifi_init_sta
    <2>2. asked' \in Sectors
      BY <1>3, StartForms DEF wifi_ap_sta_init, FormInv, FormTypeOK
    <2>3. events' \in Seq(EventIds) /\ Len(events') <= MaxEvents
      <3>1. <<"start">> \in Seq(EventIds) /\ Len(<<"start">>) = 1
        BY DEF EventIds
      <3>2. 1 <= MaxEvents
        BY EventsAssumption
      <3> QED
        BY <2>1, <3>1, <3>2
    <2> QED
      BY <2>1, <2>2, <2>3 DEF TypeInv, TypeOK, QuietInv, EventIds
  <1>4. CASE (start_ota_file_server \/ FormRequest \/ FormStep) /\ UNCHANGED staVars
    <2>1. /\ fpc # "boot" /\ fpc' # "boot"
          /\ UNCHANGED <<sta, sta_conf, driver, events, s_retry_num, bits>>
      BY <1>4, FormStepsStay DEF staVars
    <2> QED
      BY <2>1 DEF TypeInv, TypeOK, QuietInv
  <1>5. CASE ReceiveConf
    <2>1. /\ sta = "wait" /\ queue # <<>> /\ sta_conf' = Head(queue) /\ sta' = "set"
          /\ UNCHANGED <<fpc, driver, events, s_retry_num, bits>>
      BY <1>5 DEF ReceiveConf
    <2>2. PICK c \in Sectors : queue = <<c>>
      BY <2>1 DEF FormInv, FormTypeOK
    <2>3. sta_conf' = c
      BY <2>1, <2>2
    <2> QED
      BY <2>1, <2>3 DEF TypeInv, TypeOK, QuietInv
  <1>6. CASE SetConfig
    <2>1. CASE /\ sta = "set" /\ sta' = "connect"
               /\ driver' = [driver EXCEPT !.conf = sta_conf, !.refused = FALSE]
               /\ UNCHANGED <<formVars, sta_conf, events, s_retry_num, bits>>
      <3>1. sta_conf \in Sectors
        BY DEF TypeInv, TypeOK
      <3>2. driver'.st = driver.st /\ driver' \in DriverRecs
        BY <1>0, <2>1, <3>1 DEF DriverRecs
      <3> QED
        BY <2>1, <3>2 DEF TypeInv, TypeOK, QuietInv, formVars, DriverRecs
    <2>2. CASE FormsLost /\ StaLost
      BY <1>1, <2>2
    <2> QED
      BY <1>6, <2>1, <2>2 DEF SetConfig
  <1>7. CASE ConnectAfterSet
    <2>1. /\ sta = "connect" /\ sta' = "wait" /\ sta_conf' = Blank
          /\ esp_wifi_connect(events) /\ UNCHANGED <<fpc, s_retry_num, bits>>
      BY <1>7 DEF ConnectAfterSet, formVars
    <2>2. /\ events' \in Seq(EventIds) /\ Len(events') <= MaxEvents
          /\ driver' \in DriverRecs /\ driver'.st # "stopped"
      <3>1. /\ events' \in Seq(EventIds) /\ Len(events') <= MaxEvents
            /\ driver' \in DriverRecs
            /\ driver'.st = "connecting" \/ driver'.st = driver.st
        BY <1>0, <2>1, ConnectTypes
      <3> QED
        BY <1>0, <2>1, <3>1
    <2> QED
      BY <2>1, <2>2, SectorsAre DEF TypeInv, TypeOK, QuietInv, EventIds, DriverRecs
  <1>8. CASE event_handler
    <2>1. events # <<>> /\ UNCHANGED <<sta, sta_conf, fpc>>
      BY <1>8, HandlerDoes DEF formVars
    <2>2. sta # "off"
      BY <2>1 DEF TypeInv, QuietInv
    <2>3. Tail(events) \in Seq(EventIds) /\ Len(Tail(events)) <= MaxEvents
      <3>1. Tail(events) \in Seq(EventIds) /\ Len(Tail(events)) = Len(events) - 1
            /\ Len(events) \in Nat
        BY <1>0, <2>1, TakeEvent
      <3> QED
        BY <1>0, <3>1, EventsAssumption
    <2>4. CASE /\ esp_wifi_connect(Tail(events)) /\ UNCHANGED bits
               /\ \/ s_retry_num' = s_retry_num
                  \/ s_retry_num' = s_retry_num + 1 /\ s_retry_num < ESP_MAXIMUM_RETRY
      <3>1. s_retry_num' \in 0..ESP_MAXIMUM_RETRY
        BY <1>0, <2>4, RetryAssumption
      <3>2. /\ events' \in Seq(EventIds) /\ Len(events') <= MaxEvents
            /\ driver' \in DriverRecs
            /\ driver'.st = "connecting" \/ driver'.st = driver.st
        BY <2>3, <2>4, ConnectTypes
      <3>3. driver'.st # "stopped"
        BY <1>0, <2>2, <3>2
      <3> QED
        BY <2>1, <2>2, <2>4, <3>1, <3>2, <3>3
        DEF TypeInv, TypeOK, QuietInv, EventIds, DriverRecs
    <2>5. CASE /\ bits' \in {bits \cup {"FAIL"}, bits \cup {"CONNECTED"}}
               /\ events' = Tail(events) /\ s_retry_num' \in {s_retry_num, 0} /\ UNCHANGED driver
      <3>1. s_retry_num' \in 0..ESP_MAXIMUM_RETRY
        BY <1>0, <2>5, RetryAssumption
      <3> QED
        BY <2>1, <2>2, <2>3, <2>5, <3>1 DEF TypeInv, TypeOK, QuietInv, EventIds
    <2> QED
      BY <1>8, <2>4, <2>5, HandlerDoes
  <1>9. CASE DriverConnects \/ DriverGotIp \/ DriverDisconnects
    <2>1. /\ driver.st \in {"connecting", "linked", "up"}
          /\ \E st \in {"linked", "up", "idle"} :
                \/ driver' = [driver EXCEPT !.st = st]
                \/ driver' = [driver EXCEPT !.st = st, !.refused = FALSE]
          /\ \/ events' = events
             \/ Len(events) < MaxEvents
                /\ \E e \in {"gotIp", "disconnected"} : events' = Append(events, e)
          /\ UNCHANGED <<fpc, sta, sta_conf, s_retry_num, bits>>
      BY <1>9 DEF DriverConnects, DriverGotIp, DriverDisconnects, formVars
    <2>2. events' \in Seq(EventIds) /\ Len(events') <= MaxEvents
      <3>1. CASE events' = events
        BY <1>0, <3>1
      <3>2. CASE Len(events) < MaxEvents
                 /\ \E e \in {"gotIp", "disconnected"} : events' = Append(events, e)
        <4>1. PICK e \in EventIds : events' = Append(events, e)
          BY <3>2 DEF EventIds
        <4>2. events' \in Seq(EventIds) /\ Len(events') = Len(events) + 1 /\ Len(events) \in Nat
          BY <1>0, <4>1, PostEvent
        <4> QED
          BY <3>2, <4>2, EventsAssumption
      <3> QED
        BY <2>1, <3>1, <3>2
    <2>3. driver' \in DriverRecs /\ driver'.st # "stopped"
      BY <1>0, <2>1 DEF DriverRecs
    <2>4. sta # "off"
      BY <2>1 DEF TypeInv, TypeOK
    <2> QED
      BY <2>1, <2>2, <2>3, <2>4 DEF TypeInv, TypeOK, QuietInv, EventIds, DriverRecs
  <1>10. CASE UNCHANGED vars
    BY <1>10 DEF vars, formVars, staVars, TypeInv, TypeOK, QuietInv
  <1> QED
    BY <1>2, <1>3, <1>4, <1>5, <1>6, <1>7, <1>8, <1>9, <1>10
    DEF Next, Httpd, wifi_sta_connect_handle

LEMMA StationAlways == Spec => []TypeInv
  BY InitStation, NextStation, FormsHere, PTL DEF Spec

\* The variables of the station keep their types: the retries are counted to
\* ESP_MAXIMUM_RETRY and no further, and the station runs from the start on.
THEOREM StationTypes == Spec => []TypeOK
  <1>1. TypeInv => TypeOK
    BY DEF TypeInv
  <1> QED
    BY <1>1, StationAlways, PTL

-----------------------------------------------------------------------------
(* The configuration used.                                                    *)

\* Where the configuration handed on last is: in the queue; or, when that is
\* empty, with the station task or with the driver.
LastInv ==
    sta # "off" =>
        /\ queue # <<>> => queue = <<asked>>
        /\ queue = <<>> /\ sta = "set" => sta_conf = asked
        /\ queue = <<>> /\ sta \in {"wait", "connect"} => driver.conf = asked

LEMMA NextLast == TypeInv /\ FormInv /\ LastInv /\ [Next]_vars => LastInv'
  <1> SUFFICES ASSUME TypeInv, FormInv, LastInv, [Next]_vars PROVE LastInv'
    OBVIOUS
  <1>0. driver \in DriverRecs
    BY DEF TypeInv, TypeOK, DriverRecs
  <1>1. ASSUME StaLost PROVE LastInv'
    BY <1>1 DEF StaLost, LastInv
  \* A step that concerns neither forms nor the station task.
  <1>2. ASSUME UNCHANGED <<queue, asked, sta, sta_conf>>, driver'.conf = driver.conf
        PROVE  LastInv'
    BY <1>2 DEF LastInv
  <1>3. CASE PowerLoss
    BY <1>1, <1>3 DEF PowerLoss
  <1>4. CASE wifi_ap_sta_init
    <2>1. sta = "off" /\ sta' = "wait" /\ driver' = [st |-> "idle", conf |-> asked', refused |-> FALSE]
          /\ queue' = queue
      BY <1>4 DEF wifi_ap_sta_init, wifi_init_sta
    <2>2. queue = <<>>
      BY <2>1 DEF TypeInv, QuietInv
    <2> QED
      BY <2>1, <2>2 DEF LastInv
  <1>5. CASE (start_ota_file_server \/ FormRequest \/ FormStep) /\ UNCHANGED staVars
    <2>1. UNCHANGED <<sta, sta_conf, driver>>
      BY <1>5 DEF staVars
    <2>2. CASE QueueConf
      <3>1. queue' = <<form.val>> /\ asked' = form.val
        BY <2>2 DEF QueueConf, Queued
      <3>2. queue' # <<>>
        BY <3>1
      <3> QED
        BY <3>1, <3>2 DEF LastInv
    <2>3. CASE UNCHANGED <<queue, asked>>
      BY <1>2, <2>1, <2>3
    <2> QED
      BY <1>5, <2>2, <2>3
      DEF start_ota_file_server, FormRequest, execute_handle, FormStep, FormStall, FormTimeout,
          FormRecvError, FormRejected, FormAccepted, FormPart, FormKeyErase, FormKeyWrite,
          FormKeyDataFails, AfterSave
  <1>6. CASE ReceiveConf
    <2>1. /\ sta = "wait" /\ queue # <<>> /\ sta_conf' = Head(queue) /\ queue' = <<>>
          /\ sta' = "set" /\ asked' = asked
      BY <1>6 DEF ReceiveConf
    <2>2. queue = <<asked>>
      BY <2>1 DEF LastInv
    <2>3. sta_conf' = asked'
      BY <2>1, <2>2
    <2> QED
      BY <2>1, <2>3 DEF LastInv
  <1>7. CASE SetConfig
    <2>1. CASE /\ driver' = [driver EXCEPT !.conf = sta_conf, !.refused = FALSE]
               /\ sta = "set" /\ sta' = "connect" /\ UNCHANGED <<queue, asked>>
      <3>1. driver'.conf = sta_conf
        BY <1>0, <2>1 DEF DriverRecs
      <3> QED
        BY <2>1, <3>1 DEF LastInv
    <2>2. CASE StaLost
      BY <1>1, <2>2
    <2> QED
      BY <1>7, <2>1, <2>2 DEF SetConfig, formVars
  <1>8. ASSUME NEW evs, esp_wifi_connect(evs) PROVE driver'.conf = driver.conf
    BY <1>0, <1>8 DEF esp_wifi_connect, Connects, DriverRecs
  <1>9. CASE ConnectAfterSet
    <2>1. sta = "connect" /\ sta' = "wait" /\ UNCHANGED <<queue, asked>>
          /\ driver'.conf = driver.conf
      BY <1>8, <1>9 DEF ConnectAfterSet, formVars
    <2> QED
      BY <2>1 DEF LastInv
  <1>10. CASE event_handler
    <2>1. UNCHANGED <<queue, asked, sta, sta_conf>>
      BY <1>10, HandlerDoes DEF formVars
    <2>2. driver'.conf = driver.conf
      BY <1>8, <1>10, HandlerDoes
    <2> QED
      BY <1>2, <2>1, <2>2
  <1>11. CASE DriverConnects \/ DriverGotIp \/ DriverDisconnects
    <2>1. /\ \E st \in {"linked", "up", "idle"} :
                \/ driver' = [driver EXCEPT !.st = st]
                \/ driver' = [driver EXCEPT !.st = st, !.refused = FALSE]
          /\ UNCHANGED <<queue, asked, sta, sta_conf>>
      BY <1>11 DEF DriverConnects, DriverGotIp, DriverDisconnects, formVars
    <2>2. driver'.conf = driver.conf
      BY <1>0, <2>1 DEF DriverRecs
    <2> QED
      BY <1>2, <2>1, <2>2
  <1>12. CASE UNCHANGED vars
    BY <1>2, <1>12 DEF vars, formVars, staVars
  <1> QED
    BY <1>3, <1>4, <1>5, <1>6, <1>7, <1>9, <1>10, <1>11, <1>12
    DEF Next, Httpd, wifi_sta_connect_handle

\* However forms, the station task and the event loop interleave, when the station
\* task has nothing more to do the driver has the configuration accepted last.
THEOREM LastAcceptedUsed == Spec => []UsesLastAccepted
  <1>1. Init => LastInv
    BY DEF Init, LastInv
  <1>2. TypeInv /\ LastInv => UsesLastAccepted
    BY DEF LastInv, UsesLastAccepted
  <1> QED
    BY <1>1, <1>2, NextLast, StationAlways, FormsHere, PTL DEF Spec

-----------------------------------------------------------------------------
(* The retries.                                                               *)

\* While the station stands still, though the station task is not about to
\* connect and the driver has not refused to, the last event waiting is one that
\* makes event_handler() connect, or give up and say so.
IdleInv ==
    driver.st = "idle" /\ sta # "connect" /\ ~driver.refused =>
        IF events = <<>>
        THEN s_retry_num = ESP_MAXIMUM_RETRY /\ "FAIL" \in bits
        ELSE events[Len(events)] \in {"start", "disconnected"}

LEMMA NextIdle == TypeInv /\ IdleInv /\ [Next]_vars => IdleInv'
  <1> SUFFICES ASSUME TypeInv, IdleInv, [Next]_vars PROVE IdleInv'
    OBVIOUS
  <1>0. /\ driver \in DriverRecs
        /\ events \in Seq(EventIds) /\ Len(events) <= MaxEvents
        /\ s_retry_num \in 0..ESP_MAXIMUM_RETRY
    BY DEF TypeInv, TypeOK, EventIds, DriverRecs
  <1>1. ASSUME driver'.st # "idle" \/ driver'.refused \/ sta' = "connect" PROVE IdleInv'
    BY <1>1 DEF IdleInv
  <1>2. ASSUME UNCHANGED <<driver, events, s_retry_num, bits>>, sta = "connect" => sta' = "connect"
        PROVE  IdleInv'
    BY <1>2 DEF IdleInv
  <1>3. ASSUME StaLost PROVE IdleInv'
    BY <1>1, <1>3 DEF StaLost
  <1>4. CASE PowerLoss
    BY <1>3, <1>4 DEF PowerLoss
  <1>5. CASE wifi_ap_sta_init
    <2>1. events' = <<"start">>
      BY <1>5 DEF wifi_ap_sta_init
    <2>2. events' # <<>> /\ Len(events') = 1 /\ events'[1] = "start"
      BY <2>1
    <2> QED
      BY <2>2 DEF IdleInv
  <1>6. CASE (start_ota_file_server \/ FormRequest \/ FormStep) /\ UNCHANGED staVars
    BY <1>2, <1>6 DEF staVars
  <1>7. CASE ReceiveConf \/ UNCHANGED vars
    BY <1>2, <1>7 DEF ReceiveConf, vars, staVars
  <1>8. CASE SetConfig
    BY <1>1, <1>3, <1>8 DEF SetConfig
  <1>9. ASSUME NEW evs, esp_wifi_connect(evs) PROVE driver'.st = "connecting" \/ driver'.refused
    BY <1>0, <1>9 DEF esp_wifi_connect, Connects, DriverRecs
  <1>10. CASE ConnectAfterSet
    BY <1>1, <1>9, <1>10 DEF ConnectAfterSet
  <1>11. CASE event_handler
    <2>0. events # <<>> /\ UNCHANGED sta
      BY <1>11, HandlerDoes
    <2>1. /\ Tail(events) = <<>> => Head(events) = events[Len(events)]
          /\ Tail(events) # <<>> => Tail(events)[Len(Tail(events))] = events[Len(events)]
      BY <1>0, <2>0, TakeEvent
    <2>2. CASE esp_wifi_connect(Tail(events))
      BY <1>1, <1>9, <2>2
    <2>3. CASE /\ Head(events) = "disconnected" /\ ~(s_retry_num < ESP_MAXIMUM_RETRY)
               /\ bits' = bits \cup {"FAIL"} /\ events' = Tail(events)
               /\ UNCHANGED <<driver, s_retry_num>>
      <3>1. s_retry_num' = ESP_MAXIMUM_RETRY
        BY <1>0, <2>3, RetryAssumption
      <3> QED
        BY <2>0, <2>1, <2>3, <3>1 DEF IdleInv
    <2>4. CASE /\ Head(events) = "gotIp"
               /\ events' = Tail(events) /\ UNCHANGED driver
      BY <2>0, <2>1, <2>4 DEF IdleInv
    <2> QED
      BY <1>11, <2>2, <2>3, <2>4, HandlerDoes
  <1>12. CASE DriverConnects \/ DriverGotIp
    <2>1. \E st \in {"linked", "up"} : driver' = [driver EXCEPT !.st = st]
      BY <1>12 DEF DriverConnects, DriverGotIp
    <2>2. driver'.st # "idle"
      BY <1>0, <2>1 DEF DriverRecs
    <2> QED
      BY <1>1, <2>2
  <1>13. CASE DriverDisconnects
    <2>1. events' = Append(events, "disconnected")
      BY <1>13 DEF DriverDisconnects
    <2>2. events' # <<>> /\ events'[Len(events')] = "disconnected"
      BY <1>0, <2>1, PostEvent DEF EventIds
    <2> QED
      BY <2>2 DEF IdleInv
  <1> QED
    BY <1>4, <1>5, <1>6, <1>7, <1>8, <1>10, <1>11, <1>12, <1>13
    DEF Next, Httpd, wifi_sta_connect_handle

\* The station stands still only after ESP_MAXIMUM_RETRY lost connections, and
\* says so, or when the driver has refused a connection and esp_wifi_connect()'s
\* result was dropped: no order of events and forms makes it forget one that was
\* lost.
THEOREM StationNeverStuck == Spec => []NeverStuck
  <1>1. Init => IdleInv
    BY DEF Init, IdleInv
  <1>2. IdleInv => NeverStuck
    BY DEF IdleInv, NeverStuck
  <1> QED
    BY <1>1, <1>2, NextIdle, StationAlways, PTL DEF Spec
=============================================================================
