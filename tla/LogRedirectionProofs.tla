------------------------- MODULE LogRedirectionProofs -------------------------
(* Theorems about LogRedirection, for any number of tasks, hosts, sockets and  *)
(* lines and any length of the queue.                                         *)
EXTENDS LogRedirection, SequenceTheorems, TLAPS

-----------------------------------------------------------------------------
(* Lemmas about the heap and the queue.                                       *)

\* While the heap has room, the block given out is one of it and was free.
LEMMA FreeIsFree ==
    ASSUME ~(Blocks \subseteq used)
    PROVE  Free \in Blocks /\ Free \notin used
  BY DEF Free

\* What a line put at the end of a queue of lines makes of it.
LEMMA PutLine ==
    ASSUME NEW S, NEW q \in Seq(S), NEW b \in S
    PROVE  /\ Append(q, b) \in Seq(S) /\ Len(Append(q, b)) = Len(q) + 1
           /\ DOMAIN Append(q, b) = 1..(Len(q) + 1)
           /\ \A i \in 1..Len(q) : Append(q, b)[i] = q[i]
           /\ Append(q, b)[Len(q) + 1] = b
  BY AppendProperties

\* And a line taken from its front.
LEMMA TakeLine ==
    ASSUME NEW S, NEW q \in Seq(S), q # <<>>
    PROVE  /\ Head(q) \in S /\ Head(q) = q[1] /\ Len(q) >= 1
           /\ Tail(q) \in Seq(S) /\ Len(Tail(q)) = Len(q) - 1
           /\ DOMAIN Tail(q) = 1..(Len(q) - 1)
           /\ \A i \in 1..(Len(q) - 1) : Tail(q)[i] = q[i + 1]
  BY HeadTailProperties, EmptySeq

-----------------------------------------------------------------------------
(* Types, and who can be in the hook.                                         *)

\* The two tasks run only once esp_log_redirection_init() is through.
TasksStarted ==
    /\ send.st # "off" => init = "running"
    /\ rec.st # "off" => init = "running"

\* What log_rec has in hand.
RecKnows ==
    /\ rec.st \in {"bind", "bound", "recv", "received", "overwrite", "failed", "close"}
            => rec.sock \in Socks
    /\ rec.st \in {"received", "overwrite"} => rec.host \in Hosts

TypeInv == TypeOK /\ TasksStarted /\ RecKnows /\ NoNullDeref

LEMMA InitTypes == Init => TypeInv
  <1> SUFFICES ASSUME Init PROVE TypeInv
    OBVIOUS
  <1>1. /\ hook \in [Tasks -> {"idle"}] /\ data \in [Tasks -> {None}]
        /\ queue \in Seq(Pointers) /\ Len(queue) = 0
    BY DEF Init
  <1>2. /\ send \in [st : {"off"}, info : {None}, line : {None}]
        /\ rec \in [st : {"off"}, sock : {None}, host : {None}]
    BY DEF Init
  <1>3. \A t \in Tasks : hook[t] = "idle" /\ data[t] = None
    BY DEF Init
  <1>4. Len(queue) <= LOG_REDIRECTION_QUEUE_NUM
    BY <1>1, QueueAssumption
  <1>5. /\ init = "start" /\ used = {} /\ leaked = {} /\ noMemory = FALSE
        /\ udp_info = None /\ late = 0
    BY DEF Init
  <1>6. /\ send \in [st : {"off", "peek", "receive", "send"},
                      info : UdpInfos \cup {None}, line : Pointers \cup {None}]
        /\ send.line = None <=> send.st # "send"
    BY <1>2
  <1>7. /\ rec \in [st : {"off", "socket", "bind", "bound", "recv", "received",
                            "overwrite", "failed", "close", "ended"},
                      sock : Socks \cup {None}, host : Hosts \cup {None}]
        /\ rec.host = None <=> rec.st \notin {"received", "overwrite"}
    BY <1>2
  <1>8. /\ hook \in [Tasks -> {"idle", "format", "level", "enqueue"}]
        /\ data \in [Tasks -> Pointers \cup {None}]
        /\ \A t \in Tasks : data[t] = None <=> hook[t] \in {"idle", "format"}
    BY <1>1, <1>3
  <1>9. TypeOK
    <2>1. noMemory \in BOOLEAN
      BY <1>5
    <2>2. init = "start" /\ used = {} /\ leaked = {} /\ udp_info = None /\ late = 0
      BY <1>5
    <2> QED
      BY <1>1, <1>2, <1>4, <1>6, <1>7, <1>8, <2>1, <2>2 DEF TypeOK
  <1> QED
    BY <1>2, <1>3, <1>5, <1>9 DEF TypeInv, TasksStarted, RecKnows, NoNullDeref

LEMMA RestartedTypes == Restarted => TypeInv'
  <1> SUFFICES ASSUME Restarted PROVE TypeInv'
    OBVIOUS
  <1>1. /\ hook' \in [Tasks -> {"idle"}] /\ data' \in [Tasks -> {None}]
        /\ queue' \in Seq(Pointers) /\ Len(queue') = 0
    BY DEF Restarted
  <1>2. /\ send' \in [st : {"off"}, info : {None}, line : {None}]
        /\ rec' \in [st : {"off"}, sock : {None}, host : {None}]
    BY DEF Restarted
  <1>3. \A t \in Tasks : hook'[t] = "idle" /\ data'[t] = None
    BY DEF Restarted
  <1>4. Len(queue') <= LOG_REDIRECTION_QUEUE_NUM
    BY <1>1, QueueAssumption
  <1>5. /\ init' = "start" /\ used' = {} /\ leaked' = {} /\ noMemory' = FALSE
        /\ udp_info' = None /\ late' = 0
    BY DEF Restarted
  <1>6. /\ send' \in [st : {"off", "peek", "receive", "send"},
                      info : UdpInfos \cup {None}, line : Pointers \cup {None}]
        /\ send'.line = None <=> send'.st # "send"
    BY <1>2
  <1>7. /\ rec' \in [st : {"off", "socket", "bind", "bound", "recv", "received",
                            "overwrite", "failed", "close", "ended"},
                      sock : Socks \cup {None}, host : Hosts \cup {None}]
        /\ rec'.host = None <=> rec'.st \notin {"received", "overwrite"}
    BY <1>2
  <1>8. /\ hook' \in [Tasks -> {"idle", "format", "level", "enqueue"}]
        /\ data' \in [Tasks -> Pointers \cup {None}]
        /\ \A t \in Tasks : data'[t] = None <=> hook'[t] \in {"idle", "format"}
    BY <1>1, <1>3
  <1>9. TypeOK'
    <2>1. noMemory' \in BOOLEAN
      BY <1>5
    <2>2. init' = "start" /\ used' = {} /\ leaked' = {} /\ udp_info' = None /\ late' = 0
      BY <1>5
    <2> QED
      BY <1>1, <1>2, <1>4, <1>6, <1>7, <1>8, <2>1, <2>2 DEF TypeOK
  <1> QED
    BY <1>2, <1>3, <1>5, <1>9 DEF TypeInv, TasksStarted, RecKnows, NoNullDeref

\* A step of the hook itself.
LEMMA HookTypes ==
    ASSUME TypeInv, NEW t \in Tasks, esp_log_redirection_vprintf(t)
    PROVE  TypeInv'
  <1> USE NoneAssumption DEF TypeInv, TypeOK, Pointers
  <1>1. CASE HookFormat(t)
    <2>1. \E b \in Pointers : data' = [data EXCEPT ![t] = b]
      BY <1>1, FreeIsFree DEF HookFormat
    <2>2. used' \subseteq Blocks
      BY <1>1, FreeIsFree DEF HookFormat
    <2>3. /\ hook[t] = "format" /\ hook' = [hook EXCEPT ![t] = "level"]
          /\ UNCHANGED <<init, queue, udp_info, send, rec, leaked, late, noMemory>>
      BY <1>1 DEF HookFormat
    <2> QED
      BY <2>1, <2>2, <2>3 DEF TasksStarted, RecKnows, NoNullDeref, Configured
  <1>2. CASE HookNoMemory(t)
    <2>1. CASE Restarted
      BY <2>1, RestartedTypes
    <2>2. CASE ~Restarted
      <3>1. /\ hook[t] = "format" /\ hook' = [hook EXCEPT ![t] = "enqueue"]
            /\ data' = [u \in Tasks |-> IF u = t THEN Unknown ELSE Forgotten(data[u])]
            /\ queue' = [i \in DOMAIN queue |-> Unknown]
            /\ send' = [send EXCEPT !.line = Forgotten(@)]
            /\ noMemory' = TRUE /\ leaked' = {}
            /\ UNCHANGED <<init, used, udp_info, rec, late>>
        BY <1>2, <2>2 DEF HookNoMemory
      <3>2. queue' \in Seq(Pointers) /\ Len(queue') = Len(queue)
        BY <3>1
      <3>3. /\ data' \in [Tasks -> Pointers \cup {None}]
            /\ \A u \in Tasks : data'[u] = None <=> u # t /\ data[u] = None
        BY <3>1 DEF Forgotten
      <3>4. /\ send' \in [st : {"off", "peek", "receive", "send"},
                            info : UdpInfos \cup {None}, line : Pointers \cup {None}]
            /\ send'.st = send.st /\ send'.info = send.info
            /\ send'.line = None <=> send.line = None
        BY <3>1 DEF Forgotten
      <3> HIDE DEF Pointers
      <3>5. \A u \in Tasks : data'[u] = None <=> hook'[u] \in {"idle", "format"}
        BY <3>1, <3>3
      <3> QED
        BY <3>1, <3>2, <3>3, <3>4, <3>5 DEF TasksStarted, RecKnows, NoNullDeref, Configured
    <2> QED
      BY <2>1, <2>2
  <1>3. CASE HookEmpty(t)
    BY <1>3 DEF HookEmpty, Frees, HookReturns, TasksStarted, RecKnows, NoNullDeref, Configured
  <1>4. CASE HookLevel(t)
    BY <1>4 DEF HookLevel, TasksStarted, RecKnows, NoNullDeref, Configured
  <1>5. CASE HookEnqueue(t)
    <2>1. data[t] \in Pointers
      BY <1>5 DEF HookEnqueue
    <2>2. queue' \in Seq(Pointers) /\ Len(queue') <= LOG_REDIRECTION_QUEUE_NUM
      <3>1. CASE QueuesCreated /\ Len(queue) < LOG_REDIRECTION_QUEUE_NUM
        <4>1. queue' = Append(queue, data[t])
          BY <1>5, <3>1 DEF HookEnqueue
        <4>2. queue' \in Seq(Pointers) /\ Len(queue') = Len(queue) + 1
          BY <4>1, <2>1, PutLine
        <4> QED
          BY <3>1, <4>2, QueueAssumption
      <3>2. CASE ~(QueuesCreated /\ Len(queue) < LOG_REDIRECTION_QUEUE_NUM)
        BY <1>5, <3>2 DEF HookEnqueue
      <3> QED
        BY <3>1, <3>2
    <2>3. used' \subseteq Blocks
      BY <1>5 DEF HookEnqueue, Frees
    <2>4. /\ hook' = [hook EXCEPT ![t] = "idle"] /\ data' = [data EXCEPT ![t] = None]
          /\ UNCHANGED <<init, udp_info, send, rec, leaked, late, noMemory>>
      BY <1>5 DEF HookEnqueue, HookReturns
    <2> QED
      BY <2>2, <2>3, <2>4 DEF TasksStarted, RecKnows, NoNullDeref, Configured
  <1> QED
    BY <1>1, <1>2, <1>3, <1>4, <1>5 DEF esp_log_redirection_vprintf

LEMMA SendTypes ==
    ASSUME TypeInv, esp_log_redirection_send_task
    PROVE  TypeInv'
  <1> USE NoneAssumption DEF TypeInv, TypeOK, Pointers, TasksStarted, RecKnows, NoNullDeref, Configured
  <1>1. CASE SendPeek
    BY <1>1 DEF SendPeek, hookVars
  <1>2. CASE SendTimeout
    BY <1>2 DEF SendTimeout, hookVars
  <1>3. CASE SendReceive
    <2>1. queue # <<>> /\ queue \in Seq(Pointers) /\ queue' = Tail(queue)
      BY <1>3 DEF SendReceive
    <2>2. /\ Head(queue) \in Pointers /\ queue' \in Seq(Pointers)
          /\ Len(queue') = Len(queue) - 1
      BY <2>1, TakeLine
    <2>3. Len(queue') <= LOG_REDIRECTION_QUEUE_NUM
      BY <2>1, <2>2, QueueAssumption
    <2>4. /\ send' = [send EXCEPT !.st = "send", !.line = Head(queue)]
          /\ send.st = "receive"
          /\ UNCHANGED <<init, hook, data, used, noMemory, udp_info, rec, leaked, late>>
      BY <1>3 DEF SendReceive, hookVars
    <2> QED
      BY <2>2, <2>3, <2>4
  <1>4. ASSUME LineDone
        PROVE  /\ send' \in [st : {"off", "peek", "receive", "send"},
                             info : UdpInfos \cup {None}, line : Pointers \cup {None}]
               /\ send'.st = "peek" /\ send'.line = None /\ init = "running"
               /\ leaked' \subseteq Pointers /\ late' \in 0..2
               /\ UNCHANGED <<init, queue, udp_info, rec>>
    <2>1. /\ send.st = "send" /\ send' = [send EXCEPT !.st = "peek", !.line = None]
          /\ leaked' \subseteq leaked \cup {send.line}
          /\ UNCHANGED <<init, queue, udp_info, rec>>
      BY <1>4 DEF LineDone, NextRound
    <2>2. late' \in 0..2
      <3>1. late' \in {late, late + 1} /\ (late' = late + 1 => late < 2)
        BY <1>4 DEF LineDone
      <3> QED
        BY <3>1
    <2>3. send.line \in Pointers
      BY <2>1
    <2> QED
      BY <2>1, <2>2, <2>3
  <1>5. CASE SendTo
    <2>1. LineDone /\ UNCHANGED <<hook, data, used, noMemory>>
      BY <1>5 DEF SendTo, hookVars
    <2> QED
      BY <1>4, <2>1
  <1>6. CASE SendFails
    <2>1. LineDone /\ hook' = [hook EXCEPT !["log_send"] = "format"]
      BY <1>6 DEF SendFails, Log
    <2>2. hook["log_send"] = "idle" /\ UNCHANGED <<data, used, noMemory>>
      BY <1>6 DEF SendFails, Log, Idle
    <2>3. "log_send" \in Tasks
      BY DEF Tasks
    <2> QED
      BY <1>4, <2>1, <2>2, <2>3
  <1> QED
    BY <1>1, <1>2, <1>3, <1>5, <1>6 DEF esp_log_redirection_send_task

LEMMA RecTypes ==
    ASSUME TypeInv, esp_log_redirection_rec_task
    PROVE  TypeInv'
  <1> USE NoneAssumption DEF TypeInv, TypeOK, Pointers, TasksStarted, RecKnows, NoNullDeref, Configured
  <1>0. "log_rec" \in Tasks
    BY DEF Tasks
  \* All but two steps log; this is what they have in common.
  <1>1. ASSUME RecLogs, rec.st # "off", RecKnows',
               rec' \in [st : {"off", "socket", "bind", "bound", "recv", "received",
                               "overwrite", "failed", "close", "ended"},
                         sock : Socks \cup {None}, host : Hosts \cup {None}],
               (rec.host = None <=> rec.st \notin {"received", "overwrite"})'
        PROVE  TypeInv'
    <2>1. /\ hook["log_rec"] = "idle" /\ hook' = [hook EXCEPT !["log_rec"] = "format"]
          /\ UNCHANGED <<data, used, noMemory, init, queue, udp_info, send, leaked, late>>
      BY <1>1 DEF RecLogs, Log, Idle
    <2> QED
      BY <1>0, <1>1, <2>1
  <1>2. CASE RecSocket
    <2>1. PICK s \in Socks : rec.st = "socket" /\ rec' = [rec EXCEPT !.st = "bind", !.sock = s]
      BY <1>2 DEF RecSocket
    <2>2. RecLogs
      BY <1>2 DEF RecSocket
    <2> QED
      BY <1>1, <2>1, <2>2
  <1>3. CASE RecNoSocket \/ RecBind \/ RecBindFails \/ RecBound
    <2>1. RecLogs /\ \/ rec.st = "socket" /\ rec' = [rec EXCEPT !.st = "ended"]
                     \/ rec.st = "bind" /\ rec' = [rec EXCEPT !.st = "recv"]
                     \/ rec.st = "bind" /\ rec' = [rec EXCEPT !.st = "bound"]
                     \/ rec.st = "bound" /\ rec' = [rec EXCEPT !.st = "recv"]
      BY <1>3 DEF RecNoSocket, RecBind, RecBindFails, RecBound, RecStep
    <2> QED
      BY <1>1, <2>1
  <1>4. CASE RecDatagram
    <2>1. PICK h \in Hosts : rec.st = "recv" /\ rec' = [rec EXCEPT !.st = "received", !.host = h]
      BY <1>4 DEF RecDatagram
    <2>2. RecLogs
      BY <1>4 DEF RecDatagram
    <2> QED
      BY <1>1, <2>1, <2>2
  <1>5. CASE RecLogged \/ RecError \/ RecErrorLogged
    <2>1. RecLogs /\ \/ rec.st = "received" /\ rec' = [rec EXCEPT !.st = "overwrite"]
                     \/ rec.st = "recv" /\ rec' = [rec EXCEPT !.st = "failed"]
                     \/ rec.st = "failed" /\ rec' = [rec EXCEPT !.st = "close"]
      BY <1>5 DEF RecLogged, RecError, RecErrorLogged, RecStep
    <2> QED
      BY <1>1, <2>1
  <1>6. CASE RecOverwrite
    <2>1. /\ rec.st = "overwrite" /\ rec' = [rec EXCEPT !.st = "recv", !.host = None]
          /\ udp_info' = [sock |-> rec.sock, host |-> rec.host] /\ late' = 0
          /\ UNCHANGED <<init, hook, data, used, noMemory, queue, send, leaked>>
      BY <1>6 DEF RecOverwrite, hookVars
    <2>2. udp_info' \in UdpInfos
      BY <2>1 DEF UdpInfos
    <2>3. rec' \in [st : {"recv"}, sock : Socks, host : {None}]
      BY <2>1
    <2> QED
      BY <2>1, <2>2, <2>3
  <1>7. CASE RecClose
    BY <1>7 DEF RecClose, hookVars
  <1> QED
    BY <1>2, <1>3, <1>4, <1>5, <1>6, <1>7 DEF esp_log_redirection_rec_task

\* TypeInv is inductive.
LEMMA NextTypes == TypeInv /\ [Next]_vars => TypeInv'
  <1> SUFFICES ASSUME TypeInv, [Next]_vars PROVE TypeInv'
    OBVIOUS
  <1>1. CASE Restart
    BY <1>1, RestartedTypes DEF Restart
  <1>2. CASE esp_log_redirection_init
    BY <1>2 DEF esp_log_redirection_init, InitSteps, hookVars, TypeInv, TypeOK, TasksStarted,
                RecKnows, NoNullDeref, Configured
  <1>3. CASE CreateTasks
    BY <1>3 DEF CreateTasks, hookVars, TypeInv, TypeOK, TasksStarted, RecKnows,
                NoNullDeref, Configured
  <1>4. CASE WriterLogs
    <2>1. PICK t \in Writers : hook[t] = "idle" /\ hook' = [hook EXCEPT ![t] = "format"]
      BY <1>4 DEF WriterLogs, Log, Idle
    <2>2. /\ HookInstalled
          /\ UNCHANGED <<data, used, noMemory, init, queue, udp_info, send, rec, leaked, late>>
      BY <1>4 DEF WriterLogs, Log
    <2>3. t \in Tasks
      BY DEF Tasks
    <2> QED
      BY <2>1, <2>2, <2>3 DEF HookInstalled, TypeInv, TypeOK, TasksStarted, RecKnows,
                              NoNullDeref, Configured
  <1>5. CASE \E t \in Tasks : esp_log_redirection_vprintf(t)
    BY <1>5, HookTypes
  <1>6. CASE esp_log_redirection_send_task
    BY <1>6, SendTypes
  <1>7. CASE esp_log_redirection_rec_task
    BY <1>7, RecTypes
  <1>8. CASE UNCHANGED vars
    BY <1>8 DEF vars, TypeInv, TypeOK, TasksStarted, RecKnows, NoNullDeref, Configured
  <1> QED
    BY <1>1, <1>2, <1>3, <1>4, <1>5, <1>6, <1>7, <1>8 DEF Next

LEMMA TypesAlways == Spec => []TypeInv
  BY InitTypes, NextTypes, PTL DEF Spec

\* The variables of the log redirection keep their types, the queue never holds
\* more than LOG_REDIRECTION_QUEUE_NUM lines.
THEOREM TypeCorrect == Spec => []TypeOK
  <1>1. TypeInv => TypeOK
    BY DEF TypeInv
  <1> QED
    BY <1>1, TypesAlways, PTL

\* No task is in the hook before esp_log_redirection_init() has stored the
\* configuration that the hook reads, whoever logs in the meantime.
THEOREM HookHasConfig == Spec => []NoNullDeref
  <1>1. TypeInv => NoNullDeref
    BY DEF TypeInv
  <1> QED
    BY <1>1, TypesAlways, PTL

-----------------------------------------------------------------------------
(* The host of the lines.                                                     *)

\* Once a line went to another host than the one announced last, the round
\* under way has that one: OneStaleLine itself says nothing of the round.
LateInv ==
    /\ late <= 1
    /\ late = 1 /\ send.st \in {"receive", "send"}
            => udp_info # None /\ send.info.host = udp_info.host

LEMMA InitLate == Init => LateInv
  BY DEF Init, LateInv

LEMMA NextLate == TypeInv /\ LateInv /\ [Next]_vars => LateInv'
  <1> SUFFICES ASSUME TypeInv, LateInv, [Next]_vars PROVE LateInv'
    OBVIOUS
  <1>0. late \in 0..2
    BY DEF TypeInv, TypeOK
  \* What the steps outside of the two tasks have in common.
  <1>1. ASSUME UNCHANGED <<udp_info, late>>, send'.info = send.info,
               send'.st = send.st \/ send'.st = "peek" \/ (send.st = "receive" /\ send'.st = "send")
        PROVE  LateInv'
    BY <1>1 DEF LateInv
  <1>2. ASSUME Restarted PROVE LateInv'
    BY <1>2 DEF Restarted, LateInv
  <1>3. CASE Restart
    BY <1>2, <1>3 DEF Restart
  <1>4. CASE esp_log_redirection_init
    BY <1>1, <1>4 DEF esp_log_redirection_init
  <1>5. CASE CreateTasks
    <2>1. send' = [send EXCEPT !.st = "peek"] /\ UNCHANGED <<udp_info, late>>
      BY <1>5 DEF CreateTasks
    <2>2. send'.st = "peek" /\ send'.info = send.info
      BY <2>1 DEF TypeInv, TypeOK
    <2> QED
      BY <1>1, <2>1, <2>2
  <1>6. CASE WriterLogs
    BY <1>1, <1>6 DEF WriterLogs
  <1>7. CASE \E t \in Tasks : esp_log_redirection_vprintf(t)
    <2>1. PICK t \in Tasks : esp_log_redirection_vprintf(t)
      BY <1>7
    <2>2. CASE HookNoMemory(t)
      <3>1. CASE Restarted
        BY <1>2, <3>1
      <3>2. CASE ~Restarted
        <4>1. send' = [send EXCEPT !.line = Forgotten(@)] /\ UNCHANGED <<udp_info, late>>
          BY <2>2, <3>2 DEF HookNoMemory
        <4>2. send'.info = send.info /\ send'.st = send.st
          BY <4>1 DEF TypeInv, TypeOK
        <4> QED
          BY <1>1, <4>1, <4>2
      <3> QED
        BY <3>1, <3>2
    <2>3. CASE HookFormat(t) \/ HookEmpty(t) \/ HookLevel(t) \/ HookEnqueue(t)
      BY <1>1, <2>3 DEF HookFormat, HookEmpty, HookLevel, HookEnqueue
    <2> QED
      BY <2>1, <2>2, <2>3 DEF esp_log_redirection_vprintf
  <1>8. CASE esp_log_redirection_send_task
    <2>1. CASE SendPeek
      <3>1. /\ send' = [send EXCEPT !.st = "receive", !.info = udp_info]
            /\ udp_info # None /\ UNCHANGED <<udp_info, late>>
        BY <2>1 DEF SendPeek
      <3>2. send'.info = udp_info
        BY <3>1 DEF TypeInv, TypeOK
      <3> QED
        BY <3>1, <3>2 DEF LateInv
    <2>2. CASE SendTimeout
      <3>1. send' = [send EXCEPT !.st = "peek"] /\ UNCHANGED <<udp_info, late>>
        BY <2>2 DEF SendTimeout
      <3>2. send'.st = "peek" /\ send'.info = send.info
        BY <3>1 DEF TypeInv, TypeOK
      <3> QED
        BY <1>1, <3>1, <3>2
    <2>3. CASE SendReceive
      <3>1. /\ send' = [send EXCEPT !.st = "send", !.line = Head(queue)]
            /\ send.st = "receive" /\ UNCHANGED <<udp_info, late>>
        BY <2>3 DEF SendReceive
      <3>2. send'.st = "send" /\ send'.info = send.info
        BY <3>1 DEF TypeInv, TypeOK
      <3> QED
        BY <1>1, <3>1, <3>2
    <2>4. ASSUME LineDone PROVE LateInv'
      <3>1. /\ send.st = "send" /\ UNCHANGED udp_info
            /\ send' = [send EXCEPT !.st = "peek", !.line = None]
            /\ late' = IF udp_info # None /\ send.info.host # udp_info.host /\ late < 2
                       THEN late + 1 ELSE late
        BY <2>4 DEF LineDone, NextRound
      <3>2. send'.st = "peek"
        BY <3>1 DEF TypeInv, TypeOK
      <3>3. late = 1 => send.info.host = udp_info.host
        BY <3>1 DEF LateInv
      <3>4. late \in {0, 1}
        BY <1>0 DEF LateInv
      <3>5. CASE late = 1
        BY <3>1, <3>2, <3>3, <3>5 DEF LateInv
      <3>6. CASE late = 0
        <4>1. late' \in {0, 1}
          BY <3>1, <3>6
        <4> QED
          BY <3>2, <4>1 DEF LateInv
      <3> QED
        BY <3>4, <3>5, <3>6
    <2>5. CASE SendTo
      BY <2>4, <2>5 DEF SendTo
    <2>6. CASE SendFails
      BY <2>4, <2>6 DEF SendFails
    <2> QED
      BY <1>8, <2>1, <2>2, <2>3, <2>5, <2>6 DEF esp_log_redirection_send_task
  <1>9. CASE esp_log_redirection_rec_task
    <2>1. CASE RecOverwrite
      BY <2>1 DEF RecOverwrite, LateInv
    <2>2. CASE RecLogs
      BY <1>1, <2>2 DEF RecLogs
    <2>3. CASE RecClose
      BY <1>1, <2>3 DEF RecClose
    <2> QED
      BY <1>9, <2>1, <2>2, <2>3
      DEF esp_log_redirection_rec_task, RecSocket, RecNoSocket, RecBind, RecBindFails,
          RecBound, RecDatagram, RecLogged, RecError, RecErrorLogged
  <1>10. CASE UNCHANGED vars
    BY <1>1, <1>10 DEF vars
  <1> QED
    BY <1>3, <1>4, <1>5, <1>6, <1>7, <1>8, <1>9, <1>10 DEF Next

\* However announcements and lines interleave, at most one line goes to the host
\* before once another one has announced itself.
THEOREM StaleAtMostOnce == Spec => []OneStaleLine
  <1>1. LateInv => OneStaleLine
    BY DEF LateInv, OneStaleLine
  <1>2. Spec => []LateInv
    BY InitLate, NextLate, TypesAlways, PTL DEF Spec
  <1> QED
    BY <1>1, <1>2, PTL

-----------------------------------------------------------------------------
(* Ownership.                                                                 *)

\* What a task that gets a line, and one that gives its line away, hold.
LEMMA HeldTakes ==
    ASSUME TypeInv, NEW t \in Tasks, data[t] = None, NEW b \in Pointers, b \notin Held,
           data' = [data EXCEPT ![t] = b], HeldApart
    PROVE  Held' = Held \cup {b} /\ HeldApart'
  <1>1. data \in [Tasks -> Pointers \cup {None}] /\ b # None
    BY NoneAssumption DEF TypeInv, TypeOK, Pointers
  <1>2. data'[t] = b /\ \A u \in Tasks : u # t => data'[u] = data[u]
    BY <1>1
  <1>3. \A u \in Tasks : data[u] # b
    BY <1>1 DEF Held
  <1>4. Held' = Held \cup {b}
    BY <1>1, <1>2 DEF Held
  <1>5. HeldApart'
    BY <1>1, <1>2, <1>3 DEF HeldApart
  <1> QED
    BY <1>4, <1>5

LEMMA HeldGives ==
    ASSUME TypeInv, NEW t \in Tasks, data[t] # None,
           data' = [data EXCEPT ![t] = None], HeldApart
    PROVE  Held' = Held \ {data[t]} /\ HeldApart' /\ data[t] \in Held
  <1>1. data \in [Tasks -> Pointers \cup {None}]
    BY DEF TypeInv, TypeOK
  <1>2. data'[t] = None /\ \A u \in Tasks : u # t => data'[u] = data[u]
    BY <1>1
  <1>3. \A u \in Tasks : u # t => data[u] # data[t]
    BY DEF HeldApart
  <1>4. Held' = Held \ {data[t]} /\ data[t] \in Held
    BY <1>1, <1>2, <1>3 DEF Held
  <1>5. HeldApart'
    BY <1>1, <1>2 DEF HeldApart
  <1> QED
    BY <1>4, <1>5

\* What the queue holds after a line is put in and after one is taken out.
LEMMA QueuedTakes ==
    ASSUME TypeInv, NEW b \in Pointers, b \notin Queued, queue' = Append(queue, b), QueuedApart
    PROVE  Queued' = Queued \cup {b} /\ QueuedApart'
  <1>1. queue \in Seq(Pointers) /\ DOMAIN queue = 1..Len(queue) /\ Len(queue) \in Nat
    BY DEF TypeInv, TypeOK
  <1>2. /\ DOMAIN queue' = 1..(Len(queue) + 1)
        /\ \A i \in 1..Len(queue) : queue'[i] = queue[i]
        /\ queue'[Len(queue) + 1] = b
    BY <1>1, PutLine
  <1>3. 1..(Len(queue) + 1) = (1..Len(queue)) \cup {Len(queue) + 1}
    BY <1>1
  <1>4. Queued' = Queued \cup {b}
    BY <1>1, <1>2, <1>3 DEF Queued
  <1>5. \A i \in 1..Len(queue) : queue[i] # b
    BY <1>1 DEF Queued
  <1>6. QueuedApart'
    BY <1>1, <1>2, <1>3, <1>5 DEF QueuedApart
  <1> QED
    BY <1>4, <1>6

LEMMA QueuedGives ==
    ASSUME TypeInv, queue # <<>>, queue' = Tail(queue), QueuedApart
    PROVE  /\ Queued' = Queued \ {Head(queue)} /\ QueuedApart'
           /\ Head(queue) \in Queued
  <1>1. queue \in Seq(Pointers) /\ DOMAIN queue = 1..Len(queue) /\ Len(queue) \in Nat
    BY DEF TypeInv, TypeOK
  <1>2. /\ Head(queue) = queue[1] /\ Len(queue) >= 1
        /\ DOMAIN queue' = 1..(Len(queue) - 1)
        /\ \A i \in 1..(Len(queue) - 1) : queue'[i] = queue[i + 1]
    BY <1>1, TakeLine
  <1>3. \A i \in 2..Len(queue) : i - 1 \in 1..(Len(queue) - 1) /\ queue'[i - 1] = queue[i]
    <2> TAKE i \in 2..Len(queue)
    <2>1. i - 1 \in 1..(Len(queue) - 1) /\ (i - 1) + 1 = i
      BY <1>1
    <2>2. queue'[i - 1] = queue[(i - 1) + 1]
      BY <1>2, <2>1
    <2> QED
      BY <2>1, <2>2
  <1>4. \A i \in 2..Len(queue) : queue[i] # queue[1]
    BY <1>1, <1>2 DEF QueuedApart
  <1>5. 1..Len(queue) = {1} \cup 2..Len(queue)
    BY <1>1, <1>2
  <1>6. Queued = {queue[1]} \cup {queue[i] : i \in 2..Len(queue)}
    BY <1>1, <1>5 DEF Queued
  <1>7. Queued' = {queue[i] : i \in 2..Len(queue)}
    <2>1. Queued' = {queue'[i] : i \in 1..(Len(queue) - 1)}
      BY <1>2 DEF Queued
    <2>2. ASSUME NEW x \in Queued' PROVE \E i \in 2..Len(queue) : x = queue[i]
      <3>1. PICK j \in 1..(Len(queue) - 1) : x = queue'[j]
        BY <2>1, <2>2
      <3>2. j + 1 \in 2..Len(queue) /\ x = queue[j + 1]
        BY <1>1, <1>2, <3>1
      <3> QED
        BY <3>2
    <2>3. ASSUME NEW i \in 2..Len(queue) PROVE queue[i] \in Queued'
      BY <1>3, <2>1
    <2> QED
      BY <2>2, <2>3
  <1>8. QueuedApart'
    <2> SUFFICES ASSUME NEW i \in 1..(Len(queue) - 1), NEW j \in 1..(Len(queue) - 1), i # j
                 PROVE  queue'[i] # queue'[j]
      BY <1>2 DEF QueuedApart
    <2>1. i + 1 \in 1..Len(queue) /\ j + 1 \in 1..Len(queue) /\ i + 1 # j + 1
      BY <1>1
    <2>2. queue[i + 1] # queue[j + 1]
      BY <1>1, <2>1 DEF QueuedApart
    <2> QED
      BY <1>2, <2>2
  <1> QED
    BY <1>2, <1>4, <1>6, <1>7, <1>8

LEMMA InitOwned == Init => OwnedOnce
  BY DEF Init, OwnedOnce, OneOwner, Held, Queued, InHand, HeldApart, QueuedApart

LEMMA RestartedOwned == Restarted => OneOwner'
  BY DEF Restarted, OneOwner, Held, Queued, InHand, HeldApart, QueuedApart

\* A step of the hook: a line begins, ends, or goes to the queue.
LEMMA HookOwned ==
    ASSUME TypeInv, OneOwner, ~noMemory, ~noMemory', NEW t \in Tasks, esp_log_redirection_vprintf(t)
    PROVE  OneOwner'
  <1>0. /\ data \in [Tasks -> Pointers \cup {None}]
        /\ data[t] = None <=> hook[t] \in {"idle", "format"}
        /\ None \notin Pointers
    BY NoneAssumption DEF TypeInv, TypeOK, Pointers
  <1>1. CASE HookFormat(t)
    <2>1. /\ Free \in Blocks /\ Free \notin used
          /\ data' = [data EXCEPT ![t] = Free] /\ used' = used \cup {Free}
          /\ data[t] = None /\ UNCHANGED <<queue, send, leaked>>
      BY <1>0, <1>1, FreeIsFree DEF HookFormat
    <2>2. Held' = Held \cup {Free} /\ HeldApart'
      <3>1. Free \in Pointers /\ Free \notin Held
        BY <2>1 DEF OneOwner, Pointers
      <3> QED
        BY <2>1, <3>1, HeldTakes DEF OneOwner
    <2>3. Queued' = Queued /\ InHand' = InHand /\ (QueuedApart => QueuedApart')
      BY <2>1 DEF Queued, InHand, QueuedApart
    <2> QED
      BY <2>1, <2>2, <2>3 DEF OneOwner
  <1>2. CASE HookNoMemory(t)
    BY <1>2, RestartedOwned DEF HookNoMemory
  <1>3. CASE HookLevel(t)
    BY <1>3 DEF HookLevel, OneOwner, Held, Queued, InHand, HeldApart, QueuedApart
  \* The line of t goes.
  <1>4. ASSUME hook[t] \in {"level", "enqueue"}, data' = [data EXCEPT ![t] = None]
        PROVE  Held' = Held \ {data[t]} /\ HeldApart' /\ data[t] \in Held /\ data[t] \in Pointers
    <2>1. data[t] # None
      BY <1>0, <1>4
    <2> QED
      BY <1>0, <1>4, <2>1, HeldGives DEF OneOwner
  <1>5. ASSUME hook[t] \in {"level", "enqueue"}, data' = [data EXCEPT ![t] = None],
               used' = used \ {data[t]}, UNCHANGED <<queue, send, leaked>>
        PROVE  OneOwner'
    <2>1. Held' = Held \ {data[t]} /\ HeldApart' /\ data[t] \in Held
      BY <1>4, <1>5
    <2>2. Queued' = Queued /\ InHand' = InHand /\ (QueuedApart => QueuedApart')
      BY <1>5 DEF Queued, InHand, QueuedApart
    <2> QED
      BY <1>5, <2>1, <2>2 DEF OneOwner
  <1>6. CASE HookEmpty(t)
    BY <1>5, <1>6 DEF HookEmpty, Frees, HookReturns
  <1>7. CASE HookEnqueue(t)
    <2>1. /\ hook[t] = "enqueue" /\ data' = [data EXCEPT ![t] = None]
          /\ UNCHANGED <<send, leaked>>
      BY <1>7 DEF HookEnqueue, HookReturns
    <2>2. CASE QueuesCreated /\ Len(queue) < LOG_REDIRECTION_QUEUE_NUM
      <3>1. queue' = Append(queue, data[t]) /\ used' = used
        BY <1>7, <2>2 DEF HookEnqueue
      <3>2. Held' = Held \ {data[t]} /\ HeldApart' /\ data[t] \in Held /\ data[t] \in Pointers
        BY <1>4, <2>1
      <3>3. Queued' = Queued \cup {data[t]} /\ QueuedApart'
        BY <3>1, <3>2, QueuedTakes DEF OneOwner
      <3>4. InHand' = InHand /\ leaked' = leaked
        BY <2>1 DEF InHand
      <3> QED
        BY <3>1, <3>2, <3>3, <3>4 DEF OneOwner
    <2>3. CASE ~(QueuesCreated /\ Len(queue) < LOG_REDIRECTION_QUEUE_NUM)
      <3>1. queue' = queue /\ used' = used \ {data[t]}
        BY <1>7, <2>3 DEF HookEnqueue, Frees
      <3> QED
        BY <1>5, <2>1, <3>1
    <2> QED
      BY <2>2, <2>3
  <1> QED
    BY <1>1, <1>2, <1>3, <1>6, <1>7 DEF esp_log_redirection_vprintf

\* A step of the send task: a line is taken from the queue, and given up.
LEMMA SendOwned ==
    ASSUME TypeInv, OneOwner, ~noMemory, ~noMemory', esp_log_redirection_send_task
    PROVE  OneOwner'
  <1>0. /\ queue \in Seq(Pointers) /\ None \notin Pointers
        /\ send \in [st : {"off", "peek", "receive", "send"},
                     info : UdpInfos \cup {None}, line : Pointers \cup {None}]
        /\ send.line = None <=> send.st # "send"
    BY NoneAssumption DEF TypeInv, TypeOK, Pointers
  <1>1. ASSUME UNCHANGED data PROVE Held' = Held /\ (HeldApart => HeldApart')
    BY <1>1 DEF Held, HeldApart
  <1>2. ASSUME UNCHANGED queue PROVE Queued' = Queued /\ (QueuedApart => QueuedApart')
    BY <1>2 DEF Queued, QueuedApart
  <1>3. CASE SendPeek \/ SendTimeout
    <2>1. /\ UNCHANGED <<data, used, queue, leaked>>
          /\ \/ send' = [send EXCEPT !.st = "receive", !.info = udp_info]
             \/ send' = [send EXCEPT !.st = "peek"]
      BY <1>3 DEF SendPeek, SendTimeout, hookVars
    <2>2. send'.line = send.line
      BY <1>0, <2>1
    <2>3. InHand' = InHand
      BY <2>2 DEF InHand
    <2> QED
      BY <1>1, <1>2, <2>1, <2>3 DEF OneOwner
  <1>4. CASE SendReceive
    <2>1. /\ send.st = "receive" /\ queue # <<>> /\ queue' = Tail(queue)
          /\ send' = [send EXCEPT !.st = "send", !.line = Head(queue)]
          /\ UNCHANGED <<data, used, leaked>>
      BY <1>4 DEF SendReceive, hookVars
    <2>2. /\ Queued' = Queued \ {Head(queue)} /\ QueuedApart'
          /\ Head(queue) \in Queued /\ Head(queue) \in Pointers
      BY <1>0, <2>1, QueuedGives, TakeLine DEF OneOwner
    <2>3. send'.line = Head(queue) /\ send.line = None
      BY <1>0, <2>1
    <2>4. InHand = {} /\ InHand' = {Head(queue)}
      BY <1>0, <2>2, <2>3 DEF InHand
    <2> QED
      BY <1>1, <2>1, <2>2, <2>4 DEF OneOwner
  <1>5. ASSUME LineDone, UNCHANGED <<data, used>> PROVE OneOwner'
    <2>1. /\ send.st = "send" /\ send' = [send EXCEPT !.st = "peek", !.line = None]
          /\ leaked' = leaked \cup {send.line} /\ UNCHANGED queue
      BY <1>5 DEF LineDone, NextRound
    <2>2. send'.line = None /\ send.line # None
      BY <1>0, <2>1
    <2>3. InHand' = {} /\ InHand = {send.line}
      BY <2>2 DEF InHand
    <2> QED
      BY <1>1, <1>2, <1>5, <2>1, <2>3 DEF OneOwner
  <1>6. CASE SendTo \/ SendFails
    BY <1>5, <1>6 DEF SendTo, SendFails, Log, hookVars
  <1> QED
    BY <1>3, <1>4, <1>6 DEF esp_log_redirection_send_task

LEMMA NextOwner ==
    TypeInv /\ OneOwner /\ ~noMemory /\ ~noMemory' /\ [Next]_vars => OneOwner'
  <1> SUFFICES ASSUME TypeInv, OneOwner, ~noMemory, ~noMemory', [Next]_vars PROVE OneOwner'
    OBVIOUS
  <1>1. ASSUME UNCHANGED <<data, used, queue, send, leaked>> PROVE OneOwner'
    BY <1>1 DEF OneOwner, Held, Queued, InHand, HeldApart, QueuedApart
  <1>2. CASE Restart
    BY <1>2, RestartedOwned DEF Restart
  <1>3. CASE esp_log_redirection_init \/ WriterLogs \/ UNCHANGED vars
    BY <1>1, <1>3 DEF esp_log_redirection_init, WriterLogs, Log, vars, hookVars
  <1>4. CASE CreateTasks
    <2>1. send' = [send EXCEPT !.st = "peek"] /\ UNCHANGED <<data, used, queue, leaked>>
      BY <1>4 DEF CreateTasks, hookVars
    <2>2. send'.line = send.line
      BY <2>1 DEF TypeInv, TypeOK
    <2> QED
      BY <2>1, <2>2 DEF OneOwner, Held, Queued, InHand, HeldApart, QueuedApart
  <1>5. CASE \E t \in Tasks : esp_log_redirection_vprintf(t)
    BY <1>5, HookOwned
  <1>6. CASE esp_log_redirection_send_task
    BY <1>6, SendOwned
  <1>7. CASE esp_log_redirection_rec_task
    BY <1>1, <1>7
    DEF esp_log_redirection_rec_task, RecSocket, RecNoSocket, RecBind, RecBindFails, RecBound,
        RecDatagram, RecLogged, RecOverwrite, RecError, RecErrorLogged, RecClose, RecLogs,
        Log, hookVars
  <1> QED
    BY <1>2, <1>3, <1>4, <1>5, <1>6, <1>7 DEF Next

\* Only a restart ends the lack of memory.
LEMMA MemoryBack ==
    ASSUME TypeInv, noMemory, ~noMemory', [Next]_vars
    PROVE  Restarted
  <1>1. CASE Restart
    BY <1>1 DEF Restart
  <1>2. CASE esp_log_redirection_init \/ CreateTasks \/ WriterLogs \/ UNCHANGED vars
    BY <1>2 DEF esp_log_redirection_init, CreateTasks, WriterLogs, Log, vars, hookVars
  <1>3. CASE \E t \in Tasks : esp_log_redirection_vprintf(t)
    BY <1>3 DEF esp_log_redirection_vprintf, HookFormat, HookNoMemory, HookEmpty, HookLevel,
                HookEnqueue
  <1>4. CASE esp_log_redirection_send_task
    BY <1>4 DEF esp_log_redirection_send_task, SendPeek, SendTimeout, SendReceive, SendTo,
                SendFails, Log, hookVars
  <1>5. CASE esp_log_redirection_rec_task
    BY <1>5
    DEF esp_log_redirection_rec_task, RecSocket, RecNoSocket, RecBind, RecBindFails, RecBound,
        RecDatagram, RecLogged, RecOverwrite, RecError, RecErrorLogged, RecClose, RecLogs,
        Log, hookVars
  <1> QED
    BY <1>1, <1>2, <1>3, <1>4, <1>5 DEF Next

LEMMA NextOwned == TypeInv /\ OwnedOnce /\ [Next]_vars => OwnedOnce'
  <1> SUFFICES ASSUME TypeInv, OwnedOnce, [Next]_vars, ~noMemory' PROVE OneOwner'
    BY DEF OwnedOnce
  <1>1. CASE noMemory
    BY <1>1, MemoryBack, RestartedOwned
  <1>2. CASE ~noMemory
    BY <1>2, NextOwner DEF OwnedOnce
  <1> QED
    BY <1>1, <1>2

\* From a start on until vasprintf() finds no memory, every line allocated is in
\* one place only: with a task in the hook, in the queue, with the send task, or
\* among those that were sent and never freed.
THEOREM LinesOwnedOnce == Spec => []OwnedOnce
  BY InitOwned, NextOwned, TypesAlways, PTL DEF Spec

-----------------------------------------------------------------------------
(* The way of a line.                                                         *)

OwnerFcn == [b \in Blocks |-> OwnerOf(b)]

\* While every line is in one place, that place is its owner.
LEMMA OwnerIsPlace ==
    ASSUME OneOwner, NEW b \in Blocks
    PROVE  /\ OwnerOf(b) = "nobody" <=> b \notin used
           /\ OwnerOf(b) = "task" <=> b \in Held
           /\ OwnerOf(b) = "queue" <=> b \in Queued
           /\ OwnerOf(b) = "sender" <=> b \in InHand
           /\ OwnerOf(b) = "leaked" <=> b \in leaked
  BY DEF OneOwner, OwnerOf

\* A step that leaves the five sets alone leaves every line where it is, one
\* that moves a single line passes that line on.
LEMMA NobodyMoves ==
    ASSUME UNCHANGED <<used, Held, Queued, InHand>>
    PROVE  OwnerFcn' = OwnerFcn
  BY DEF OwnerFcn, OwnerOf

LEMMA OneMoves ==
    ASSUME NEW l \in Blocks,
           \A b \in Blocks \ {l} :
               /\ b \in used' <=> b \in used
               /\ b \in Held' <=> b \in Held
               /\ b \in Queued' <=> b \in Queued
               /\ b \in InHand' <=> b \in InHand
    PROVE  OwnerFcn' = [OwnerFcn EXCEPT ![l] = OwnerOf(l)']
  <1>1. ASSUME NEW b \in Blocks \ {l} PROVE OwnerOf(b)' = OwnerOf(b)
    BY <1>1 DEF OwnerOf
  <1> QED
    BY <1>1 DEF OwnerFcn

\* Nothing is owned once the chip has restarted.
LEMMA RestartedLines ==
    ASSUME Restarted
    PROVE  OwnerFcn' = [b \in Blocks |-> "nobody"] /\ queue' = <<>>
  BY DEF Restarted, OwnerFcn, OwnerOf

LEMMA HookLines ==
    ASSUME TypeInv, OneOwner, OneOwner', noMemory = FALSE, noMemory' = FALSE,
           NEW t \in Tasks, esp_log_redirection_vprintf(t)
    PROVE  [Lines!Next]_<<OwnerFcn, queue, noMemory>>
  <1>0. /\ data \in [Tasks -> Pointers \cup {None}]
        /\ data[t] = None <=> hook[t] \in {"idle", "format"}
        /\ None \notin Pointers
    BY NoneAssumption DEF TypeInv, TypeOK, Pointers
  <1>1. ASSUME UNCHANGED <<queue, send>> PROVE UNCHANGED <<Queued, InHand>>
    BY <1>1 DEF Queued, InHand
  <1>2. CASE HookFormat(t)
    <2>0. PICK l : l = Free
      OBVIOUS
    <2>1. /\ l \in Blocks /\ l \notin used
          /\ data' = [data EXCEPT ![t] = l] /\ used' = used \cup {l}
          /\ data[t] = None /\ UNCHANGED <<queue, send>>
      BY <1>0, <1>2, <2>0, FreeIsFree DEF HookFormat
    <2>2. Held' = Held \cup {l}
      <3>1. l \in Pointers /\ l \notin Held
        BY <2>1 DEF OneOwner, Pointers
      <3> QED
        BY <2>1, <3>1, HeldTakes DEF OneOwner
    <2>3. OwnerFcn' = [OwnerFcn EXCEPT ![l] = OwnerOf(l)']
      BY <1>1, <2>1, <2>2, OneMoves
    <2>4. OwnerOf(l) = "nobody"
      BY <2>1 DEF OwnerOf
    <2>5. OwnerOf(l)' = "task"
      <3>1. l \in used' /\ l \in Held'
        BY <2>1, <2>2
      <3> QED
        BY <3>1 DEF OneOwner, OwnerOf
    <2>6. Lines!Write(l)
      BY <2>1, <2>3, <2>4, <2>5 DEF Lines!Write, Lines!Passes, OwnerFcn
    <2> QED
      BY <2>1, <2>6 DEF Lines!Next
  <1>3. CASE HookNoMemory(t)
    <2>1. Lines!Restart
      BY <1>3, RestartedLines DEF HookNoMemory, Lines!Restart, Lines!NobodyOwns, OwnerFcn
    <2> QED
      BY <2>1 DEF Lines!Next
  <1>4. CASE HookLevel(t)
    <2>1. UNCHANGED <<used, queue, Held, Queued, InHand>>
      BY <1>1, <1>4 DEF HookLevel, Held
    <2> QED
      BY <2>1, NobodyMoves
  \* The line of t goes.
  <1>5. ASSUME hook[t] \in {"level", "enqueue"}, data' = [data EXCEPT ![t] = None],
               NEW l, l = data[t]
        PROVE  /\ Held' = Held \ {l} /\ l \in Held /\ l \in Blocks
               /\ l \in used /\ OwnerOf(l) = "task"
    <2>1. l # None
      BY <1>0, <1>5
    <2>2. Held' = Held \ {l} /\ l \in Held
      BY <1>5, <2>1, HeldGives DEF OneOwner
    <2>3. l \in used /\ l \in Blocks
      BY <2>2 DEF OneOwner, TypeInv, TypeOK
    <2> QED
      BY <2>2, <2>3 DEF OneOwner, OwnerOf
  <1>6. ASSUME hook[t] \in {"level", "enqueue"}, data' = [data EXCEPT ![t] = None],
               used' = used \ {data[t]}, UNCHANGED <<queue, send>>
        PROVE  Lines!Next
    <2>0. PICK l : l = data[t]
      OBVIOUS
    <2>1. /\ Held' = Held \ {l} /\ l \in Blocks /\ OwnerOf(l) = "task"
          /\ used' = used \ {l}
      BY <1>5, <1>6, <2>0
    <2>2. OwnerFcn' = [OwnerFcn EXCEPT ![l] = OwnerOf(l)']
      BY <1>1, <1>6, <2>1, OneMoves
    <2>3. OwnerOf(l)' = "nobody"
      BY <2>1 DEF OwnerOf
    <2>4. Lines!Drop(l)
      BY <1>6, <2>1, <2>2, <2>3 DEF Lines!Drop, Lines!Passes, OwnerFcn
    <2> QED
      BY <2>1, <2>4 DEF Lines!Next
  <1>7. CASE HookEmpty(t)
    BY <1>6, <1>7 DEF HookEmpty, Frees, HookReturns
  <1>8. CASE HookEnqueue(t)
    <2>0. PICK l : l = data[t]
      OBVIOUS
    <2>1. hook[t] = "enqueue" /\ data' = [data EXCEPT ![t] = None] /\ UNCHANGED send
      BY <1>8 DEF HookEnqueue, HookReturns
    <2>2. CASE QueuesCreated /\ Len(queue) < LOG_REDIRECTION_QUEUE_NUM
      <3>1. queue' = Append(queue, l) /\ used' = used
        BY <1>8, <2>0, <2>2 DEF HookEnqueue
      <3>2. /\ Held' = Held \ {l} /\ l \in Held /\ l \in Blocks
            /\ l \in used /\ OwnerOf(l) = "task"
        BY <1>5, <2>0, <2>1
      <3>3. Queued' = Queued \cup {l} /\ InHand' = InHand
        <4>1. l \in Pointers /\ l \notin Queued
          BY <3>2 DEF OneOwner, Pointers
        <4> QED
          BY <2>1, <3>1, <4>1, QueuedTakes DEF OneOwner, InHand
      <3>4. OwnerFcn' = [OwnerFcn EXCEPT ![l] = OwnerOf(l)']
        BY <3>1, <3>2, <3>3, OneMoves
      <3>5. OwnerOf(l)' = "queue"
        BY <3>1, <3>2, <3>3 DEF OwnerOf
      <3>6. Lines!Enqueue(l)
        BY <2>2, <3>1, <3>2, <3>4, <3>5 DEF Lines!Enqueue, Lines!Passes, OwnerFcn
      <3> QED
        BY <3>2, <3>6 DEF Lines!Next
    <2>3. CASE ~(QueuesCreated /\ Len(queue) < LOG_REDIRECTION_QUEUE_NUM)
      <3>1. queue' = queue /\ used' = used \ {data[t]}
        BY <1>8, <2>3 DEF HookEnqueue, Frees
      <3>2. Lines!Next
        BY <1>6, <2>1, <3>1
      <3> QED
        BY <3>2
    <2> QED
      BY <2>2, <2>3
  <1> QED
    BY <1>2, <1>3, <1>4, <1>7, <1>8 DEF esp_log_redirection_vprintf

LEMMA SendLines ==
    ASSUME TypeInv, OneOwner, OneOwner', noMemory = FALSE, noMemory' = FALSE,
           esp_log_redirection_send_task
    PROVE  [Lines!Next]_<<OwnerFcn, queue, noMemory>>
  <1>0. /\ queue \in Seq(Pointers) /\ None \notin Pointers
        /\ send \in [st : {"off", "peek", "receive", "send"},
                     info : UdpInfos \cup {None}, line : Pointers \cup {None}]
        /\ send.line = None <=> send.st # "send"
    BY NoneAssumption DEF TypeInv, TypeOK, Pointers
  <1>1. CASE SendPeek \/ SendTimeout
    <2>1. /\ UNCHANGED <<data, used, queue>>
          /\ \/ send' = [send EXCEPT !.st = "receive", !.info = udp_info]
             \/ send' = [send EXCEPT !.st = "peek"]
      BY <1>1 DEF SendPeek, SendTimeout, hookVars
    <2>2. send'.line = send.line
      BY <1>0, <2>1
    <2>3. UNCHANGED <<Held, Queued, InHand>>
      BY <2>1, <2>2 DEF Held, Queued, InHand
    <2> QED
      BY <2>1, <2>3, NobodyMoves
  <1>2. CASE SendReceive
    <2>0. PICK l : l = Head(queue)
      OBVIOUS
    <2>1. /\ send.st = "receive" /\ queue # <<>> /\ queue' = Tail(queue)
          /\ send' = [send EXCEPT !.st = "send", !.line = l]
          /\ UNCHANGED <<data, used>>
      BY <1>2, <2>0 DEF SendReceive, hookVars
    <2>2. /\ Queued' = Queued \ {l} /\ l \in Queued /\ l \in Blocks
      <3>1. Queued' = Queued \ {l} /\ l \in Queued
        BY <2>0, <2>1, QueuedGives DEF OneOwner
      <3> QED
        BY <3>1 DEF OneOwner, TypeInv, TypeOK
    <2>3. send'.line = l /\ send.line = None
      BY <1>0, <2>1
    <2>4. InHand = {} /\ InHand' = {l} /\ Held' = Held
      BY <1>0, <2>1, <2>2, <2>3 DEF InHand, Held, Pointers
    <2>5. OwnerFcn' = [OwnerFcn EXCEPT ![l] = OwnerOf(l)']
      BY <2>1, <2>2, <2>4, OneMoves
    <2>6. OwnerOf(l) = "queue"
      BY <2>2, OwnerIsPlace
    <2>7. OwnerOf(l)' = "sender"
      BY <2>1, <2>2, <2>4 DEF OneOwner, OwnerOf
    <2>8. \A m \in Blocks : OwnerOf(m) # "sender"
      BY <2>4, OwnerIsPlace
    <2>9. Lines!Dequeue(l)
      BY <2>0, <2>1, <2>2, <2>5, <2>6, <2>7, <2>8 DEF Lines!Dequeue, Lines!Passes, OwnerFcn
    <2> QED
      BY <2>2, <2>9 DEF Lines!Next
  <1>3. ASSUME LineDone, UNCHANGED <<data, used>> PROVE Lines!Next
    <2>0. PICK l : l = send.line
      OBVIOUS
    <2>1. /\ send.st = "send" /\ send' = [send EXCEPT !.st = "peek", !.line = None]
          /\ UNCHANGED queue
      BY <1>3 DEF LineDone, NextRound
    <2>2. send'.line = None /\ l # None
      BY <1>0, <2>0, <2>1
    <2>3. InHand' = {} /\ InHand = {l} /\ l \in Blocks
      BY <2>0, <2>2 DEF InHand, OneOwner, TypeInv, TypeOK
    <2>4. UNCHANGED <<Held, Queued>>
      BY <1>3, <2>1 DEF Held, Queued
    <2>5. OwnerFcn' = [OwnerFcn EXCEPT ![l] = OwnerOf(l)']
      BY <1>3, <2>3, <2>4, OneMoves
    <2>6. OwnerOf(l) = "sender"
      BY <2>3, OwnerIsPlace
    <2>7. OwnerOf(l)' = "leaked"
      <3>1. l \in used' /\ l \notin Held' /\ l \notin Queued' /\ l \notin InHand'
        BY <1>3, <2>3, <2>4 DEF OneOwner
      <3> QED
        BY <3>1 DEF OwnerOf
    <2>8. Lines!Finish(l)
      BY <2>1, <2>3, <2>5, <2>6, <2>7 DEF Lines!Finish, Lines!Passes, OwnerFcn
    <2> QED
      BY <2>3, <2>8 DEF Lines!Next
  <1>4. CASE SendTo \/ SendFails
    BY <1>3, <1>4 DEF SendTo, SendFails, Log, hookVars
  <1> QED
    BY <1>1, <1>2, <1>4 DEF esp_log_redirection_send_task

LEMMA InitLines == Init => Lines!Init
  BY DEF Init, Lines!Init, Lines!NobodyOwns, OwnerOf

\* While there is memory, before and after.
LEMMA MemoryLines ==
    ASSUME TypeInv, OneOwner, OneOwner', noMemory = FALSE, noMemory' = FALSE, [Next]_vars
    PROVE  [Lines!Next]_<<OwnerFcn, queue, noMemory>>
  <1>1. ASSUME UNCHANGED <<data, used, queue, send>> PROVE UNCHANGED <<OwnerFcn, queue, noMemory>>
    <2>1. UNCHANGED <<Held, Queued, InHand>>
      BY <1>1 DEF Held, Queued, InHand
    <2> QED
      BY <1>1, <2>1, NobodyMoves
  <1>2. CASE Restart
    <2>1. Lines!Restart
      BY <1>2, RestartedLines DEF Restart, Lines!Restart, Lines!NobodyOwns, OwnerFcn
    <2> QED
      BY <2>1 DEF Lines!Next
  <1>3. CASE esp_log_redirection_init \/ WriterLogs \/ UNCHANGED vars
    BY <1>1, <1>3 DEF esp_log_redirection_init, WriterLogs, Log, vars, hookVars
  <1>4. CASE CreateTasks
    <2>1. send' = [send EXCEPT !.st = "peek"] /\ UNCHANGED <<data, used, queue>>
      BY <1>4 DEF CreateTasks, hookVars
    <2>2. send'.line = send.line
      BY <2>1 DEF TypeInv, TypeOK
    <2>3. UNCHANGED <<Held, Queued, InHand>>
      BY <2>1, <2>2 DEF Held, Queued, InHand
    <2> QED
      BY <2>1, <2>3, NobodyMoves
  <1>5. CASE \E t \in Tasks : esp_log_redirection_vprintf(t)
    BY <1>5, HookLines
  <1>6. CASE esp_log_redirection_send_task
    BY <1>6, SendLines
  <1>7. CASE esp_log_redirection_rec_task
    BY <1>1, <1>7
    DEF esp_log_redirection_rec_task, RecSocket, RecNoSocket, RecBind, RecBindFails, RecBound,
        RecDatagram, RecLogged, RecOverwrite, RecError, RecErrorLogged, RecClose, RecLogs,
        Log, hookVars
  <1> QED
    BY <1>2, <1>3, <1>4, <1>5, <1>6, <1>7 DEF Next

\* Only a line that finds every block owned runs short of memory.
LEMMA ShortLines ==
    ASSUME TypeInv, OwnedOnce, noMemory' = TRUE, [Next]_vars
    PROVE  Lines!RunsShort
  <1>1. CASE noMemory
    BY <1>1 DEF Lines!RunsShort
  <1>2. CASE ~noMemory
    <2>1. Blocks \subseteq used
      <3>1. \E t \in Tasks : HookNoMemory(t)
        BY <1>2
        DEF Next, Restart, Restarted, esp_log_redirection_init, CreateTasks, WriterLogs, Log,
            vars, hookVars, esp_log_redirection_vprintf, HookFormat, HookEmpty, HookLevel,
            HookEnqueue, esp_log_redirection_send_task, SendPeek, SendTimeout, SendReceive,
            SendTo, SendFails, esp_log_redirection_rec_task, RecSocket, RecNoSocket, RecBind,
            RecBindFails, RecBound, RecDatagram, RecLogged, RecOverwrite, RecError,
            RecErrorLogged, RecClose, RecLogs
      <3> QED
        BY <1>2, <3>1 DEF HookNoMemory
    <2>2. \A b \in Blocks : OwnerOf(b) # "nobody"
      BY <1>2, <2>1, OwnerIsPlace DEF OwnedOnce
    <2> QED
      BY <2>2 DEF Lines!RunsShort
  <1> QED
    BY <1>1, <1>2

LEMMA NextLines ==
    TypeInv /\ TypeInv' /\ OwnedOnce /\ OwnedOnce' /\ [Next]_vars
        => [Lines!Next]_<<[b \in Blocks |-> OwnerOf(b)], queue, noMemory>>
  <1> SUFFICES ASSUME TypeInv, TypeInv', OwnedOnce, OwnedOnce', [Next]_vars
               PROVE  [Lines!Next]_<<OwnerFcn, queue, noMemory>>
    BY DEF OwnerFcn
  <1>0. noMemory \in BOOLEAN /\ noMemory' \in BOOLEAN
    BY DEF TypeInv, TypeOK
  <1>1. CASE noMemory' = TRUE
    BY <1>1, ShortLines DEF Lines!Next
  <1>2. CASE noMemory = TRUE /\ noMemory' = FALSE
    <2>1. Restarted
      BY <1>2, MemoryBack
    <2>2. Lines!Restart
      BY <1>2, <2>1, RestartedLines DEF Lines!Restart, Lines!NobodyOwns, OwnerFcn
    <2> QED
      BY <2>2 DEF Lines!Next
  <1>3. CASE noMemory = FALSE /\ noMemory' = FALSE
    BY <1>3, MemoryLines DEF OwnedOnce
  <1> QED
    BY <1>0, <1>1, <1>2, <1>3

\* Hook, queue and send task together implement LogLines: until vasprintf() finds
\* no memory a line passes from one owner to the next, in the order of the queue,
\* and memory that somebody reads, or that was leaked, is not given out again;
\* it runs short only when every block is owned, and only a restart ends that.
THEOREM LogImplementsLines == Spec => ImplementsLines
  <1>1. TypeInv /\ [Next]_vars => TypeInv'
    BY NextTypes
  <1>2. TypeInv /\ OwnedOnce /\ [Next]_vars => OwnedOnce'
    BY NextOwned
  <1> QED
    BY <1>1, <1>2, InitOwned, InitLines, NextLines, TypesAlways, PTL
    DEF Spec, ImplementsLines, Lines!Spec
=============================================================================
