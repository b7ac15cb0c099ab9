---------------------------- MODULE LogRedirection ----------------------------
(* src/main/esp_user_log_redirection.c: every line logged by any task goes     *)
(* through a hook into a queue; a task sends the queued lines to the host that *)
(* announced itself last, another one receives the announcements.  Both tasks  *)
(* log themselves.  Text, level and UART output of a line are left out: a line *)
(* is the block of heap that holds it.                                         *)
EXTENDS Naturals, Sequences

CONSTANTS
    Writers,    \* the tasks that log, other than the two of this file
    Hosts,      \* that announce themselves
    Socks,      \* socket numbers
    Blocks,     \* what the heap has room for
    Unknown,    \* an address that may be any block's, or none's
    LOG_REDIRECTION_QUEUE_NUM,  \* 128 in the code
    None

ASSUME QueueAssumption == LOG_REDIRECTION_QUEUE_NUM \in Nat \ {0}
ASSUME NoneAssumption ==
    None \notin Blocks \cup {Unknown} \cup Socks \cup Hosts \cup [sock : Socks, host : Hosts]
ASSUME WritersAssumption == {"log_send", "log_rec"} \cap Writers = {}

VARIABLES
    init,      \* how far esp_log_redirection_init() has got
    hook,      \* where each task is in esp_log_redirection_vprintf()
    data,      \* log_info.data of each call
    used,      \* blocks allocated, until noMemory
    queue,     \* g_log_redirection_queue
    udp_info,  \* udp_info_queue, of one
    send,      \* log_send: state, udp_send_info and log_info.data
    rec,       \* log_rec: state, socket, and the host a datagram came from
    leaked,    \* history: lines sent, or not, and never freed, until noMemory
    late,      \* history: lines for another host since the last announcement
    noMemory   \* history: vasprintf() has failed since the start

vars == <<init, hook, data, used, queue, udp_info, send, rec, leaked, late, noMemory>>
hookVars == <<hook, data, used, noMemory>>

-----------------------------------------------------------------------------
Pointers == Blocks \cup {Unknown}
Tasks == Writers \cup {"log_send", "log_rec"}
InitSteps == <<"start", "config", "hook", "queues", "running">>

Configured == init # "start"
HookInstalled_First == TRUE
HookInstalled == init \notin {"start", "config"}
QueuesCreated == init \in {"queues", "running"}

Init ==
    /\ init = "start"
    /\ hook = [t \in Tasks |-> "idle"] /\ data = [t \in Tasks |-> None]
    /\ used = {} /\ queue = <<>> /\ udp_info = None
    /\ send = [st |-> "off", info |-> None, line |-> None]
    /\ rec = [st |-> "off", sock |-> None, host |-> None]
    /\ leaked = {} /\ late = 0 /\ noMemory = FALSE

Restarted ==
    /\ init' = "start"
    /\ hook' = [t \in Tasks |-> "idle"] /\ data' = [t \in Tasks |-> None]
    /\ used' = {} /\ queue' = <<>> /\ udp_info' = None
    /\ send' = [st |-> "off", info |-> None, line |-> None]
    /\ rec' = [st |-> "off", sock |-> None, host |-> None]
    /\ leaked' = {} /\ late' = 0 /\ noMemory' = FALSE

\* esp_log_redirection_init(): the configuration, the hook, the two queues,
\* the two tasks.  Other tasks log all the time.
esp_log_redirection_init ==
    \E i \in 1..3 :
        /\ init = InitSteps[i] /\ init' = InitSteps[i + 1]
        /\ UNCHANGED <<hookVars, queue, udp_info, send, rec, leaked, late>>

CreateTasks ==
    /\ init = "queues" /\ init' = "running"
    /\ send' = [send EXCEPT !.st = "peek"] /\ rec' = [rec EXCEPT !.st = "socket"]
    /\ UNCHANGED <<hookVars, queue, udp_info, leaked, late>>

-----------------------------------------------------------------------------
\* A call of ESP_LOGx() by t.  Without the hook the line goes to the UART only.
Idle(t) == hook[t] = "idle"
Log(t) == Idle(t) /\ hook' = [hook EXCEPT ![t] = "format"] /\ UNCHANGED <<data, used, noMemory>>

WriterLogs ==
    /\ HookInstalled
    /\ \E t \in Writers : Log(t)
    /\ UNCHANGED <<init, queue, udp_info, send, rec, leaked, late>>

\* vasprintf() allocates the line: some free block, which one matters little.
Free == CHOOSE b \in Blocks : b \notin used
HookFormat(t) ==
    /\ hook[t] = "format"
    /\ IF noMemory
       THEN data' = [data EXCEPT ![t] = Unknown] /\ UNCHANGED used
       ELSE /\ ~(Blocks \subseteq used)
            /\ data' = [data EXCEPT ![t] = Free] /\ used' = used \cup {Free}
    /\ hook' = [hook EXCEPT ![t] = "level"]
    /\ UNCHANGED <<init, queue, udp_info, send, rec, leaked, late, noMemory>>

\* Without memory its result is -1, which is taken for a size that is not 0, and
\* the pointer is left as it was on the stack: often that of an earlier line.  It
\* is read, which may restart the chip, and goes on as if it were this line's:
\* queued, or freed whosever it is.  From then on the heap may do anything, and a
\* pointer may be any line's: those in the tasks and in the queue stay there, and
\* whose they were is forgotten.
Forgotten(p) == IF p = None THEN None ELSE Unknown
HookNoMemory(t) ==
    /\ hook[t] = "format" /\ (noMemory \/ Blocks \subseteq used)
    /\ \/ Restarted
       \/ /\ data' = [u \in Tasks |-> IF u = t THEN Unknown ELSE Forgotten(data[u])]
          /\ queue' = [i \in DOMAIN queue |-> Unknown]
          /\ send' = [send EXCEPT !.line = Forgotten(@)]
          /\ hook' = [hook EXCEPT ![t] = "enqueue"]
          /\ noMemory' = TRUE /\ leaked' = {}
          /\ UNCHANGED <<init, used, udp_info, rec, late>>

HookReturns(t) ==
    /\ hook' = [hook EXCEPT ![t] = "idle"] /\ data' = [data EXCEPT ![t] = None]

\* free().  What the heap's own checks find of it ends the program: a Restart.
Frees(b) == used' = IF noMemory THEN used ELSE used \ {b}

\* An empty line is freed at once.
HookEmpty(t) ==
    /\ hook[t] = "level"
    /\ Frees(data[t])
    /\ HookReturns(t)
    /\ UNCHANGED <<init, queue, udp_info, send, rec, leaked, late, noMemory>>

\* g_log_config->log_level_uart decides whether the UART gets the line.
HookLevel(t) ==
    /\ hook[t] = "level" /\ hook' = [hook EXCEPT ![t] = "enqueue"]
    /\ UNCHANGED <<init, data, used, queue, udp_info, send, rec, leaked, late, noMemory>>

HookEnqueue_Waits(t) ==
    /\ hook[t] = "enqueue"
    /\ IF ~QueuesCreated
       THEN UNCHANGED queue /\ Frees(data[t])
       ELSE /\ Len(queue) < LOG_REDIRECTION_QUEUE_NUM
            /\ queue' = Append(queue, data[t]) /\ UNCHANGED used
    /\ HookReturns(t)
    /\ UNCHANGED <<init, udp_info, send, rec, leaked, late, noMemory>>

HookEnqueue_FreesAnyway(t) ==
    /\ hook[t] = "enqueue"
    /\ queue' = IF QueuesCreated /\ Len(queue) < LOG_REDIRECTION_QUEUE_NUM
                THEN Append(queue, data[t]) ELSE queue
    /\ Frees(data[t])
    /\ HookReturns(t)
    /\ UNCHANGED <<init, udp_info, send, rec, leaked, late, noMemory>>

HookEnqueue_Overflows(t) ==
    /\ hook[t] = "enqueue"
    /\ queue' = Append(queue, data[t])
    /\ HookReturns(t)
    /\ UNCHANGED <<init, used, udp_info, send, rec, leaked, late, noMemory>>

\* xQueueSend() with a time-out of 0; without a queue, or when it is full, the
\* line is freed, and lost.
HookEnqueue(t) ==
    /\ hook[t] = "enqueue"
    /\ IF QueuesCreated /\ Len(queue) < LOG_REDIRECTION_QUEUE_NUM
       THEN queue' = Append(queue, data[t]) /\ UNCHANGED used
       ELSE UNCHANGED queue /\ Frees(data[t])
    /\ HookReturns(t)
    /\ UNCHANGED <<init, udp_info, send, rec, leaked, late, noMemory>>

esp_log_redirection_vprintf(t) ==
    \/ HookFormat(t) \/ HookNoMemory(t) \/ HookEmpty(t)
    \/ HookLevel(t) \/ HookEnqueue(t)

-----------------------------------------------------------------------------
\* esp_log_redirection_send_task(): a round peeks the host and then waits up
\* to a second for a line.
SendPeek_Takes ==
    /\ send.st = "peek" /\ Idle("log_send") /\ udp_info # None
    /\ send' = [send EXCEPT !.st = "receive", !.info = udp_info]
    /\ udp_info' = None
    /\ UNCHANGED <<init, hookVars, queue, rec, leaked, late>>

SendPeek ==
    /\ send.st = "peek" /\ Idle("log_send") /\ udp_info # None
    /\ send' = [send EXCEPT !.st = "receive", !.info = udp_info]
    /\ UNCHANGED <<init, hookVars, queue, udp_info, rec, leaked, late>>

SendTimeout ==
    /\ send.st = "receive" /\ queue = <<>>
    /\ send' = [send EXCEPT !.st = "peek"]
    /\ UNCHANGED <<init, hookVars, queue, udp_info, rec, leaked, late>>

SendReceive ==
    /\ send.st = "receive" /\ Idle("log_send") /\ queue # <<>>
    /\ send' = [send EXCEPT !.st = "send", !.line = Head(queue)]
    /\ queue' = Tail(queue)
    /\ UNCHANGED <<init, hookVars, udp_info, rec, leaked, late>>

NextRound_NoPeek == "receive"
NextRound == "peek"

\* sendto(), and the next round.  The line is not freed.
LineDone ==
    /\ send.st = "send"
    /\ send' = [send EXCEPT !.st = NextRound, !.line = None]
    /\ leaked' = IF noMemory THEN leaked ELSE leaked \cup {send.line}
    /\ late' = IF udp_info # None /\ send.info.host # udp_info.host /\ late < 2
               THEN late + 1 ELSE late
    /\ UNCHANGED <<init, queue, udp_info, rec>>

SendTo ==
    /\ LineDone
    /\ rec.sock = send.info.sock
    /\ UNCHANGED hookVars

\* It fails on a socket that was closed since, and on one that is open when
\* there is no route or no memory; the failure is logged, through the hook.
SendFails == LineDone /\ Log("log_send")

esp_log_redirection_send_task ==
    SendPeek \/ SendTimeout \/ SendReceive \/ SendTo \/ SendFails

-----------------------------------------------------------------------------
\* esp_log_redirection_rec_task().
RecStep(from, to) ==
    /\ rec.st = from /\ Idle("log_rec")
    /\ rec' = [rec EXCEPT !.st = to]
RecLogs == Log("log_rec") /\ UNCHANGED <<init, queue, udp_info, send, leaked, late>>

RecSocket ==
    \E s \in Socks :
        /\ rec.st = "socket" /\ Idle("log_rec")
        /\ rec' = [rec EXCEPT !.st = "bind", !.sock = s]
        /\ RecLogs

\* Without a socket the task ends, and no host is heard any more.
RecNoSocket == RecStep("socket", "ended") /\ RecLogs

\* A bind() that fails is logged, and the socket is used all the same.
RecBind == RecStep("bind", "recv") /\ RecLogs
RecBindFails == RecStep("bind", "bound") /\ RecLogs
RecBound == RecStep("bound", "recv") /\ RecLogs

\* A datagram, whatever it says, announces its sender, after two lines of log.
RecDatagram ==
    \E h \in Hosts :
        /\ rec.st = "recv" /\ Idle("log_rec")
        /\ rec' = [rec EXCEPT !.st = "received", !.host = h]
        /\ RecLogs
RecLogged == RecStep("received", "overwrite") /\ RecLogs

RecOverwrite ==
    /\ rec.st = "overwrite" /\ Idle("log_rec")
    /\ rec' = [rec EXCEPT !.st = "recv", !.host = None]
    /\ udp_info' = [sock |-> rec.sock, host |-> rec.host]
    /\ late' = 0
    /\ UNCHANGED <<init, hookVars, queue, send, leaked>>

RecError == RecStep("recv", "failed") /\ RecLogs
RecErrorLogged == RecStep("failed", "close") /\ RecLogs

\* udp_info keeps the number of the socket.
RecClose ==
    /\ rec.st = "close" /\ Idle("log_rec")
    /\ rec' = [st |-> "socket", sock |-> None, host |-> None]
    /\ UNCHANGED <<init, hookVars, queue, udp_info, send, leaked, late>>

esp_log_redirection_rec_task ==
    \/ RecSocket \/ RecNoSocket \/ RecBind \/ RecBindFails \/ RecBound
    \/ RecDatagram \/ RecLogged \/ RecOverwrite
    \/ RecError \/ RecErrorLogged \/ RecClose

-----------------------------------------------------------------------------
\* Of another cause, such as a finished update.
Restart == init # "start" /\ Restarted

Next ==
    \/ Restart
    \/ esp_log_redirection_init \/ CreateTasks
    \/ WriterLogs
    \/ \E t \in Tasks : esp_log_redirection_vprintf(t)
    \/ esp_log_redirection_send_task
    \/ esp_log_redirection_rec_task

Spec == Init /\ [][Next]_vars

\* Every task that is ready is scheduled.  log_send and log_rec have the same
\* priority and take turns.  No writer has to log, no host to announce itself.
FairSpec ==
    /\ Spec
    /\ \A t \in Tasks : WF_vars(esp_log_redirection_vprintf(t))
    /\ WF_vars(esp_log_redirection_send_task)
-----------------------------------------------------------------------------
(* Properties. *)
UdpInfos == [sock : Socks, host : Hosts]

TypeOK ==
    /\ init \in {"start", "config", "hook", "queues", "running"}
    /\ hook \in [Tasks -> {"idle", "format", "level", "enqueue"}]
    /\ data \in [Tasks -> Pointers \cup {None}]
    /\ \A t \in Tasks : data[t] = None <=> hook[t] \in {"idle", "format"}
    /\ used \subseteq Blocks /\ leaked \subseteq Pointers /\ noMemory \in BOOLEAN
    /\ queue \in Seq(Pointers) /\ Len(queue) <= LOG_REDIRECTION_QUEUE_NUM
    /\ udp_info \in UdpInfos \cup {None}
    /\ send \in [st : {"off", "peek", "receive", "send"},
                 info : UdpInfos \cup {None}, line : Pointers \cup {None}]
    /\ send.line = None <=> send.st # "send"
    /\ send.st \in {"receive", "send"} => send.info # None
    /\ rec \in [st : {"off", "socket", "bind", "bound", "recv", "received",
                      "overwrite", "failed", "close", "ended"},
                sock : Socks \cup {None}, host : Hosts \cup {None}]
    /\ rec.host = None <=> rec.st \notin {"received", "overwrite"}
    /\ late \in 0..2

\* Nobody is in the hook before there is a configuration to read, though tasks
\* log while esp_log_redirection_init() runs (lines 331 to 339).
NoNullDeref == \A t \in Tasks : hook[t] # "idle" => Configured

\* As long as vasprintf() has had memory, every line allocated belongs to one
\* task, to one place of the queue or to the send task, or was sent by it; none
\* was freed.  So nobody reads a line that was freed, none is freed twice, and
\* none is lost but on purpose.  Once it had none, nothing of this holds until a
\* restart: any line may be queued again or freed by a task that never owned it.
Held == {data[t] : t \in Tasks} \ {None}
Queued == {queue[i] : i \in DOMAIN queue}
InHand == {send.line} \ {None}
HeldApart == \A t, u \in Tasks : t # u /\ data[t] # None => data[t] # data[u]
QueuedApart == \A i, j \in DOMAIN queue : i # j => queue[i] # queue[j]
OneOwner ==
    /\ used = Held \cup Queued \cup InHand \cup leaked
    /\ HeldApart /\ QueuedApart
    /\ Held \cap Queued = {} /\ (Held \cup Queued) \cap leaked = {}
    /\ InHand \cap (Held \cup Queued \cup leaked) = {}
OwnedOnce == noMemory \/ OneOwner

\* The lines go the way LogLines describes, each from one owner to the next and
\* in the order of the queue, whatever fails or is logged on the way, until there
\* is no memory for one.
OwnerOf(b) ==
    CASE b \notin used -> "nobody"
      [] b \in used \cap Held -> "task"
      [] b \in used \cap Queued -> "queue"
      [] b \in used \cap InHand -> "sender"
      [] OTHER -> "leaked"
Lines == INSTANCE LogLines
             WITH Lines <- Blocks, Capacity <- LOG_REDIRECTION_QUEUE_NUM,
                  owner <- [b \in Blocks |-> OwnerOf(b)], order <- queue,
                  short <- noMemory
ImplementsLines == Lines!Spec

\* When another host announces itself, at most one more line goes to the host
\* before: the one of the round that was under way (line 196 and 202).
OneStaleLine == late <= 1

\* Nobody is held up by logging: a full queue drops the line (line 137).
LoggersNeverBlock == \A t \in Tasks : hook[t] # "idle" ~> hook[t] = "idle"

\* Once a host has announced itself, in udp_info or in the round before, lines do
\* not stay in the queue for good: the send task comes back for the next one, also
\* when sendto() fails, when the failures are queued behind them, and when the
\* memory has run out.
Announced == udp_info # None \/ send.info # None
QueuedLeaves == []<>(~Announced \/ queue = <<>> \/ send.st = "send")
=============================================================================
