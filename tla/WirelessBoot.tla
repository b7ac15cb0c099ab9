---------------------------- MODULE WirelessBoot ----------------------------
(* The device: app_main() of src/main/main.c starts the firmware server and  *)
(* then the socket OTA service.  The httpd task and the udp_server task run  *)
(* concurrently and share the flash, the boot selection and the heap, with   *)
(* no lock between them.  A reset stops both.                                *)
EXTENDS OtaFlash, Sequences

CONSTANTS UploadTargets, EraseTargets, NameMentions, BodyLens, KeyDataMayFail,
          Datagrams, Segments, Garbage, MboxSize, AuthModes, MaxHandles

\* What the two modules assume of their constants.
ASSUME HeapAssumption == MaxHandles \in Nat
ASSUME LengthsAssumption == BodyLens \subseteq Nat
ASSUME RequestsAssumption ==
    /\ UploadTargets \cup EraseTargets \subseteq AppParts \cup {"nvs"}
    /\ NameMentions \subseteq SUBSET (AppParts \cup {"nvs"})
    /\ KeyDataMayFail \in BOOLEAN
ASSUME InvitationsAssumption ==
    /\ \A d \in Datagrams : "size" \in DOMAIN d => d["size"] \in Nat
    /\ AuthModes \subseteq BOOLEAN /\ MboxSize \in Nat
ASSUME StreamsAssumption ==
    Segments \subseteq Seq(Images) \ {<<>>} /\ Garbage \notin Seq(Images)

VARIABLES image, boot, handles,
          sector, info, running, pc, req, got, stalls, reply,
          g_auth, upc, mbox, otaState, announced, rcvd, peer, held

Server == INSTANCE FirmwareServer
Sockets == INSTANCE OtaBySockets

shared == <<image, boot, handles>>
serverVars == <<sector, info, running, pc, req, got, stalls, reply>>
socketVars == <<g_auth, upc, mbox, otaState, announced, rcvd, peer, held>>
vars == <<shared, serverVars, socketVars>>

Init == Server!Init /\ Sockets!Init

PowerLoss == Server!PowerLoss /\ Sockets!Reset

\* esp_restart() from either task.
Restart ==
    \/ Server!restart_execute_handle /\ Sockets!Reset
    \/ Sockets!Restart /\ Server!Reset

Bootloader == \E pin \in BOOLEAN : Server!Bootloader(pin) /\ UNCHANGED socketVars

\* app_main(): the file server first.  (When it cannot be started, nothing of
\* the socket service is there yet to be reset.)
app_main ==
    \/ Server!start_ota_file_server /\ UNCHANGED socketVars
    \/ pc \notin {"off", "start"} /\ Sockets!ota_init /\ UNCHANGED serverVars

httpd_task == (Server!Request \/ Server!HandlerStep) /\ UNCHANGED socketVars

udp_server_task == Sockets!OtaStep /\ UNCHANGED serverVars

Next == PowerLoss \/ Restart \/ Bootloader \/ app_main \/ httpd_task \/ udp_server_task

Spec == Init /\ [][Next]_vars

-----------------------------------------------------------------------------
\* The types of both parts.
TypeOK ==
    /\ Server!TypeOK /\ Sockets!TypeOK
    /\ upc # "off" => running = "factory"

\* Neither task ends or aborts the update handle of the other.
HandlesApart == held /\ pc = "recv" => handles >= 2

\* With both tasks writing firmwares, the records of app and flashApp still
\* name nothing but what the partitions hold.
OthersNeverMisdescribed ==
    \A p \in {"app", "flashApp"} :
        /\ Server!Valid(sector[p]) => RemainsOf(sector[p].fw, image[p])
        /\ Server!Valid(info[p]) => RemainsOf(info[p].fw, image[p])

-----------------------------------------------------------------------------
\* What the log says, and the code does not always do.

\* "MD5 check success": the firmware the service selects to boot is the one
\* whose MD5 was announced.  It is unless the server writes secondApp meanwhile.
Md5CheckedBoots ==
    [][(upc = "check" /\ upc' = "restart" /\ boot' # boot) =>
        /\ announced.md5 # Garbage
        /\ \A i \in 1..Len(announced.md5) : image[boot'][i] = announced.md5[i]]_vars
=============================================================================
