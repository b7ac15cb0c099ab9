------------------------------- MODULE WifiSta -------------------------------
(* The WiFi station of src/main/wifi_ap_sta.c and the forms that configure    *)
(* it.  Four things run concurrently: the httpd task (HttpForms), the station *)
(* task wifi_sta_connect_handle(), the event loop that calls event_handler(), *)
(* and the WiFi driver with the access points out there.  The driver is       *)
(* external, modelled from how the code uses it.                              *)
EXTENDS HttpForms, Sequences

CONSTANTS
    ESP_MAXIMUM_RETRY,   \* 5 in the code
    MaxEvents,           \* events the default event loop queues
    EmptySsid            \* the ssid of no characters, which a form may hold

ASSUME RetryAssumption == ESP_MAXIMUM_RETRY \in Nat
ASSUME EventsAssumption == MaxEvents \in Nat \ {0}

VARIABLES
    sta,          \* where the station task is
    sta_conf,     \* its wifi_conf, received from the queue
    driver,       \* the station interface: state, configuration, and whether it
                  \* has refused to connect with it since
    events,       \* posted and not handled
    s_retry_num,
    bits          \* of s_wifi_event_group

staVars == <<sta, sta_conf, driver, events, s_retry_num, bits>>
vars == <<formVars, staVars>>

-----------------------------------------------------------------------------
Init ==
    /\ FormInit
    /\ sta = "off" /\ sta_conf = Blank
    /\ driver = [st |-> "stopped", conf |-> Blank, refused |-> FALSE]
    /\ events = <<>> /\ s_retry_num = 0 /\ bits = {}

StaLost ==
    /\ sta' = "off" /\ sta_conf' = Blank
    /\ driver' = [st |-> "stopped", conf |-> Blank, refused |-> FALSE]
    /\ events' = <<>> /\ s_retry_num' = 0 /\ bits' = {}

PowerLoss == FormsPowerLoss /\ StaLost

wifi_ap_sta_init_Unsaved ==
    /\ fpc = "boot" /\ fpc' = "off"
    /\ asked' = IF wifi.valid THEN wifi.conf ELSE Default
    /\ UNCHANGED <<wifi, license, form, buf, clock, queue>>
    /\ sta = "off" /\ sta' = "wait"
    /\ driver' = [st |-> "idle", conf |-> asked', refused |-> FALSE]
    /\ events' = <<"start">>
    /\ UNCHANGED <<sta_conf, s_retry_num, bits>>

\* wifi_init_sta(), then esp_wifi_start().
wifi_ap_sta_init ==
    /\ wifi_init_sta
    /\ sta = "off" /\ sta' = "wait"
    /\ driver' = [st |-> "idle", conf |-> asked', refused |-> FALSE]
    /\ events' = <<"start">>
    /\ UNCHANGED <<sta_conf, s_retry_num, bits>>

-----------------------------------------------------------------------------
\* ESP_ERR_WIFI_SSID.
NoSsid(c) == c \in {EmptySsid} \X Halves

\* esp_wifi_connect() starts a connection with the current configuration; one
\* that stands is given up for it.  The events then waiting are evs, and perhaps
\* the loss of that connection.
Connects(evs) ==
    /\ ~NoSsid(driver.conf)
    /\ driver' = [driver EXCEPT !.st = "connecting", !.refused = FALSE]
    /\ \/ events' = evs
       \/ /\ driver.st \in {"linked", "up"} /\ Len(evs) < MaxEvents
          /\ events' = Append(evs, "disconnected")

\* It is refused while a connection is being made, which goes on; for want of an
\* ssid, always; and at any time for want of memory.  No event follows then, and
\* the code does not look at the result (lines 53, 56 and 164).
esp_wifi_connect(evs) ==
    \/ driver.st # "connecting" /\ Connects(evs)
    \/ driver.st = "connecting" /\ UNCHANGED driver /\ events' = evs
    \/ /\ driver.st # "connecting"
       /\ driver' = [driver EXCEPT !.refused = TRUE] /\ events' = evs

\* The station task: xQueueReceive().
ReceiveConf ==
    /\ sta = "wait" /\ queue # <<>>
    /\ sta_conf' = Head(queue) /\ queue' = <<>>
    /\ sta' = "set"
    /\ UNCHANGED <<wifi, license, fpc, form, buf, clock, asked, driver, events, s_retry_num, bits>>

\* wifi_sta_conf_update(): esp_wifi_set_config() fails while a connection is
\* being made, and ESP_ERROR_CHECK() restarts the chip.
SetConfig ==
    /\ sta = "set"
    /\ \/ /\ driver.st # "connecting"
          /\ driver' = [driver EXCEPT !.conf = sta_conf, !.refused = FALSE]
          /\ sta' = "connect"
          /\ UNCHANGED <<formVars, sta_conf, events, s_retry_num, bits>>
       \/ /\ driver.st = "connecting"
          /\ FormsLost /\ StaLost /\ UNCHANGED <<wifi, license>>

ConnectAfterSet_Skipped ==
    /\ sta = "connect" /\ sta' = "wait" /\ sta_conf' = Blank
    /\ UNCHANGED <<formVars, driver, events, s_retry_num, bits>>

ConnectAfterSet ==
    /\ sta = "connect" /\ sta' = "wait" /\ sta_conf' = Blank
    /\ esp_wifi_connect(events)
    /\ UNCHANGED <<formVars, s_retry_num, bits>>

-----------------------------------------------------------------------------
\* Slips of the bound.
MayRetry_Fewer == s_retry_num + 1 < ESP_MAXIMUM_RETRY
MayRetry_More == s_retry_num <= ESP_MAXIMUM_RETRY
MayRetry == s_retry_num < ESP_MAXIMUM_RETRY

\* The event loop: event_handler(), once per event, in the order of posting.
event_handler ==
    /\ events # <<>>
    /\ CASE Head(events) = "start" ->
                esp_wifi_connect(Tail(events)) /\ UNCHANGED <<s_retry_num, bits>>
         [] Head(events) = "disconnected" ->
                IF MayRetry
                THEN /\ esp_wifi_connect(Tail(events))
                     /\ s_retry_num' = s_retry_num + 1
                     /\ UNCHANGED bits
                ELSE /\ bits' = bits \cup {"FAIL"}
                     /\ events' = Tail(events)
                     /\ UNCHANGED <<driver, s_retry_num>>
         [] Head(events) = "gotIp" ->
                /\ s_retry_num' = 0
                /\ bits' = bits \cup {"CONNECTED"}
                /\ events' = Tail(events)
                /\ UNCHANGED driver
    /\ UNCHANGED <<formVars, sta, sta_conf>>

-----------------------------------------------------------------------------
\* The driver's own steps: the access point answers, then its DHCP server; or
\* they do not, or the connection is lost.
DriverConnects ==
    /\ driver.st = "connecting"
    /\ driver' = [driver EXCEPT !.st = "linked"]
    /\ UNCHANGED <<formVars, sta, sta_conf, events, s_retry_num, bits>>

DriverGotIp ==
    /\ driver.st = "linked" /\ Len(events) < MaxEvents
    /\ driver' = [driver EXCEPT !.st = "up"]
    /\ events' = Append(events, "gotIp")
    /\ UNCHANGED <<formVars, sta, sta_conf, s_retry_num, bits>>

DriverDisconnects ==
    /\ driver.st \in {"connecting", "linked", "up"} /\ Len(events) < MaxEvents
    /\ driver' = [driver EXCEPT !.st = "idle", !.refused = FALSE]
    /\ events' = Append(events, "disconnected")
    /\ UNCHANGED <<formVars, sta, sta_conf, s_retry_num, bits>>

-----------------------------------------------------------------------------
wifi_sta_connect_handle == ReceiveConf \/ SetConfig \/ ConnectAfterSet
Httpd == FormStep /\ UNCHANGED staVars

Next ==
    \/ PowerLoss \/ wifi_ap_sta_init
    \/ (start_ota_file_server \/ FormRequest) /\ UNCHANGED staVars
    \/ Httpd
    \/ wifi_sta_connect_handle
    \/ event_handler
    \/ DriverConnects \/ DriverGotIp \/ DriverDisconnects

Spec == Init /\ [][Next]_vars

\* FreeRTOS runs every task that is ready: the station task has a higher
\* priority than httpd and blocks only on its queue.  Nothing is assumed of
\* clients, of httpd, of the event loop or of the driver.
FairSpec == Spec /\ WF_vars(wifi_sta_connect_handle)
-----------------------------------------------------------------------------
(* Properties. *)
TypeOK ==
    /\ sta \in {"off", "wait", "set", "connect"} /\ sta_conf \in Sectors
    /\ sta = "off" <=> fpc = "boot"
    /\ driver \in [st : {"stopped", "idle", "connecting", "linked", "up"},
                   conf : Sectors, refused : BOOLEAN]
    /\ driver.st = "stopped" <=> sta = "off"
    /\ events \in Seq({"start", "disconnected", "gotIp"}) /\ Len(events) <= MaxEvents
    /\ s_retry_num \in 0..ESP_MAXIMUM_RETRY
    /\ bits \subseteq {"CONNECTED", "FAIL"}

\* The station task and the start do to the forms, their records and the queue
\* what HttpForms says of them, and nothing else.
ImplementsForms == FormSpec

\* Whatever forms came in meanwhile, once the station task has nothing more to
\* do the driver has the configuration accepted last: file_server.c:243
\* overwrites what the station has not yet taken.
UsesLastAccepted == sta = "wait" /\ queue = <<>> => driver.conf = asked

\* Between forms what the station was told to use is what a restart will use,
\* as long as key_data can be written: forms save first and hand on then
\* (file_server.c:236 and :243), and what is read at start is used as it was
\* read, the default included.
KeptForRestart ==
    ~KeyDataMayFail /\ fpc \in {"off", "idle", "recv"}
        => wifi.conf = asked /\ (wifi.valid \/ asked = Default)

\* The station never just stops.  It stands still without an event to come only
\* when event_handler() has spent its retries and said so in the event group,
\* when the station task is about to ask for a connection, or when the driver has
\* refused the last one asked for with this configuration: that result is lost.
NeverStuck ==
    driver.st = "idle" /\ events = <<>>
        => \/ s_retry_num = ESP_MAXIMUM_RETRY /\ "FAIL" \in bits
           \/ sta = "connect"
           \/ driver.refused

\* Every configuration that is accepted is tried, unless a later one takes its
\* place or the chip restarts: even when the retries are spent the station
\* task asks for a connection with it, which the driver makes or refuses.
AcceptedIsTried ==
    \A c \in Values("wifi") :
        queue = <<c>> ~> \/ driver.conf = c /\ (driver.st = "connecting" \/ driver.refused)
                         \/ asked # c
                         \/ sta = "off"
=============================================================================
