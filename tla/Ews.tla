------------------------------- MODULE Ews -------------------------------
(***************************************************************************)
(* Life cycle of the embedded HTTP server that serves PXE boots: ews_start *)
(* and ews_stop (ews/ews.c), the accept thread and one handler thread per  *)
(* connection (ews/EmbeddableWebServer.h).                                 *)
(*                                                                         *)
(* Three kinds of processes run concurrently:                              *)
(*   - the owner, the launcher's UI thread, which starts and stops servers *)
(*     and blocks inside ews_stop (program counter opc);                   *)
(*   - the accept thread of the current server (program counter apc);      *)
(*   - one handler thread per accepted connection (conn[c]).               *)
(* A critical section that cannot block inside is one action, except where *)
(* unlocked readers can see its middle (serverStop: StopFlag, StopClose).  *)
(***************************************************************************)
EXTENDS Naturals, Sequences, FiniteSets

CONSTANT Conns            \* connection slots: at most this many clients at a time

ASSUME ConnsFinite == IsFiniteSet(Conns)

VARIABLES
  opc,        \* owner: "idle", "running", or where it is inside ews_stop
  alloc,      \* is the EWS_SERVER (and the struct Server in it) allocated
  shouldRun,  \* server->shouldRun
  listener,   \* server->listenerfd
  stopped,    \* server->stopped
  count,      \* server->activeConnectionCount
  apc,        \* accept thread
  conn,       \* what each connection, and its handler thread, is doing
  backlog,    \* clients connected and not yet accepted, first come first
  active      \* counters.activeConnections, shared by all servers

vars == <<opc, alloc, shouldRun, listener, stopped, count, apc, conn, backlog, active>>

flags == <<shouldRun, stopped>>
clients == <<conn, backlog, active>>
---------------------------------------------------------------------------
OwnerStates    == {"idle", "running", "stopclose", "stopwait", "stopsleep", "join"}
(* "none" is the zeroed field before socket(), "invalid" is INVALID_SOCKET *)
ListenerStates == {"none", "invalid", "open", "listening", "closed"}
AcceptStates   == {"none", "socket", "bind", "listen", "loop", "accept", "count",
                   "spawn", "drain", "wait", "sleep", "signal", "return", "done"}
ConnStates     == {"free", "pending", "accepted", "counted", "created", "recv",
                   "respond", "close", "finish", "freeing", "lost"}

(* Connections included in activeConnectionCount.                          *)
CountedStates  == {"counted", "created", "recv", "respond", "close", "finish", "lost"}
Counted        == {c \in Conns : conn[c] \in CountedStates}

(* Handler threads that still dereference connection->server.              *)
HandlerStates  == {"created", "recv", "respond", "close", "finish"}
Handlers       == {c \in Conns : conn[c] \in HandlerStates}

(* Connections whose handler thread could not be created.                  *)
Lost           == {c \in Conns : conn[c] = "lost"}

(* Handlers that have raised counters.activeConnections and not yet        *)
(* lowered it.                                                             *)
Active         == {c \in Conns : conn[c] \in {"recv", "respond", "close"}}

Stopping       == opc \in {"stopclose", "stopwait", "stopsleep", "join"}
---------------------------------------------------------------------------
Init ==
  /\ opc = "idle"
  /\ alloc = FALSE
  /\ shouldRun = FALSE
  /\ listener = "none"
  /\ stopped = FALSE
  /\ count = 0
  /\ apc = "none"
  /\ conn = [c \in Conns |-> "free"]
  /\ backlog = << >>
  /\ active = 0

(* closesocket(listenerfd): the stack resets the clients of the backlog.   *)
(* Closing the zero of a fresh struct, or a closed socket again, fails     *)
(* without effect.                                                         *)
CloseListener ==
  IF listener \in {"open", "listening"}
    THEN /\ listener' = "closed"
         /\ conn' = [c \in Conns |-> IF conn[c] = "pending" THEN "free" ELSE conn[c]]
         /\ backlog' = << >>
    ELSE UNCHANGED <<listener, conn, backlog>>
---------------------------------------------------------------------------
(* The owner.                                                              *)

(* ews_start: the struct is zeroed and initialised, then the thread        *)
(* created.  A failed malloc or CreateThread undoes everything and returns *)
(* NULL, which changes nothing here.                                       *)
EwsStart ==
  /\ opc = "idle"
  /\ opc' = "running"
  /\ alloc' = TRUE
  /\ shouldRun' = TRUE
  /\ listener' = "none"
  /\ stopped' = FALSE
  /\ count' = 0
  /\ apc' = "socket"
  /\ UNCHANGED clients

(* serverStop takes globalMutex and clears the flag the accept loop reads  *)
(* without that mutex ...                                                  *)
StopFlag ==
  /\ opc = "running"
  /\ opc' = "stopclose"
  /\ shouldRun' = FALSE
  /\ UNCHANGED <<alloc, listener, stopped, count, apc, clients>>

(* ... closes the listener and releases globalMutex.                       *)
StopClose ==
  /\ opc = "stopclose"
  /\ opc' = "stopwait"
  /\ CloseListener
  /\ UNCHANGED <<alloc, flags, count, apc, active>>

(* while (!server->stopped) pthread_cond_wait(stoppedCond).                *)
StopWait ==
  /\ opc = "stopwait"
  /\ opc' = IF stopped THEN "join" ELSE "stopsleep"
  /\ UNCHANGED <<alloc, flags, listener, count, apc, clients>>

(* Condition variables may wake their waiter for no reason.                *)
StopSpuriousWake ==
  /\ opc = "stopsleep"
  /\ opc' = "stopwait"
  /\ UNCHANGED <<alloc, flags, listener, count, apc, clients>>

(* ews_stop joins the accept thread, then serverDeInit and free.           *)
StopFree ==
  /\ opc = "join"
  /\ apc = "done"
  /\ opc' = "idle"
  /\ alloc' = FALSE
  /\ UNCHANGED <<flags, listener, count, apc, clients>>

Owner == EwsStart \/ StopFlag \/ StopClose \/ StopWait \/ StopSpuriousWake \/ StopFree
---------------------------------------------------------------------------
(* The accept thread, acceptConnectionsUntilStoppedInternal.               *)

AcceptGoto(from, to) == apc = from /\ apc' = to

(* socket() fails: the thread returns 1 and leaves server->stopped unset.  *)
CreateListener ==
  /\ \/ AcceptGoto("socket", "bind") /\ listener' = "open"
     \/ AcceptGoto("socket", "done") /\ listener' = "invalid"
  /\ UNCHANGED <<opc, alloc, flags, count, clients>>

(* bind() fails when the port is taken, and when serverStop has already    *)
(* closed the socket: again return 1 with server->stopped unset.           *)
Bind ==
  /\ \/ listener = "open" /\ AcceptGoto("bind", "listen")
     \/ AcceptGoto("bind", "done")
  /\ UNCHANGED <<opc, alloc, flags, listener, count, clients>>

(* A failed listen() is only reported.                                     *)
Listen ==
  /\ AcceptGoto("listen", "loop")
  /\ listener' \in {listener} \cup (IF listener = "open" THEN {"listening"} ELSE {})
  /\ UNCHANGED <<opc, alloc, flags, count, clients>>

(* while (server->shouldRun), read without a lock.                         *)
LoopTest ==
  /\ AcceptGoto("loop", IF shouldRun THEN "accept" ELSE "drain")
  /\ UNCHANGED <<opc, alloc, flags, listener, count, clients>>

AcceptConnection ==
  /\ listener = "listening"
  /\ backlog # << >>
  /\ AcceptGoto("accept", "count")
  /\ conn' = [conn EXCEPT ![Head(backlog)] = "accepted"]
  /\ backlog' = Tail(backlog)
  /\ UNCHANGED <<opc, alloc, flags, listener, count, active>>

(* accept() fails on a socket that is closed or not listening.  Winsock's  *)
(* error codes are neither EINTR nor EBADF, so the loop is left.           *)
AcceptClosed ==
  /\ listener # "listening"
  /\ AcceptGoto("accept", "drain")
  /\ UNCHANGED <<opc, alloc, flags, listener, count, clients>>

(* Any other failure of accept(), a connection reset in the backlog say,   *)
(* leaves the loop too.                                                    *)
AcceptFails ==
  /\ listener = "listening"
  /\ AcceptGoto("accept", "drain")
  /\ UNCHANGED <<opc, alloc, flags, listener, count, clients>>

CountConnection ==
  \E c \in Conns :
    /\ conn[c] = "accepted"
    /\ AcceptGoto("count", "spawn")
    /\ count' = count + 1
    /\ conn' = [conn EXCEPT ![c] = "counted"]
    /\ UNCHANGED <<opc, alloc, flags, listener, backlog, active>>

(* pthread_create compares CreateThread's NULL with INVALID_HANDLE_VALUE,  *)
(* so a failure is reported as success and the connection stays counted.   *)
SpawnHandler ==
  \E c \in Conns, outcome \in {"created", "lost"} :
    /\ conn[c] = "counted"
    /\ AcceptGoto("spawn", "loop")
    /\ conn' = [conn EXCEPT ![c] = outcome]
    /\ UNCHANGED <<opc, alloc, flags, listener, count, backlog, active>>

(* Mutant: the listener is left to serverStop.                             *)
DrainUnclosed ==
  /\ opc # "stopclose"
  /\ AcceptGoto("drain", "wait")
  /\ UNCHANGED <<opc, alloc, flags, listener, count, clients>>

(* The listener is closed once more, under the globalMutex serverStop      *)
(* holds in "stopclose".                                                   *)
Drain ==
  /\ opc # "stopclose"
  /\ AcceptGoto("drain", "wait")
  /\ CloseListener
  /\ UNCHANGED <<opc, alloc, flags, count, active>>

(* Mutant: off by one.                                                     *)
AwaitHandlersButOne ==
  /\ AcceptGoto("wait", IF count > 1 THEN "sleep" ELSE "signal")
  /\ UNCHANGED <<opc, alloc, flags, listener, count, clients>>

(* while (activeConnectionCount > 0) pthread_cond_wait(...).               *)
AwaitHandlers ==
  /\ AcceptGoto("wait", IF count > 0 THEN "sleep" ELSE "signal")
  /\ UNCHANGED <<opc, alloc, flags, listener, count, clients>>

AwaitSpuriousWake ==
  /\ AcceptGoto("sleep", "wait")
  /\ UNCHANGED <<opc, alloc, flags, listener, count, clients>>

(* Mutant: stopped is set and stoppedCond not signalled.                   *)
SignalStoppedSilently ==
  /\ AcceptGoto("signal", "return")
  /\ stopped' = TRUE
  /\ UNCHANGED <<opc, alloc, shouldRun, listener, count, clients>>

SignalStopped ==
  /\ AcceptGoto("signal", "return")
  /\ stopped' = TRUE
  /\ opc' = IF opc = "stopsleep" THEN "stopwait" ELSE opc
  /\ UNCHANGED <<alloc, shouldRun, listener, count, clients>>

AcceptReturn ==
  /\ AcceptGoto("return", "done")
  /\ UNCHANGED <<opc, alloc, flags, listener, count, clients>>

(* What the accept thread does by itself, failures of accept() aside.      *)
AcceptSteps ==
  \/ CreateListener \/ Bind \/ Listen \/ LoopTest \/ AcceptConnection \/ AcceptClosed
  \/ CountConnection \/ SpawnHandler \/ Drain \/ AwaitHandlers \/ SignalStopped
  \/ AcceptReturn
---------------------------------------------------------------------------
(* The handler thread of connection c, connectionHandlerThread.            *)

HandlerGoto(c, from, to) == conn[c] = from /\ conn' = [conn EXCEPT ![c] = to]

(* Mutant: OptionIncludeStatusPageAndCounters off; only the increment      *)
(* tests it.                                                               *)
HandlerStartNoStatus(c) ==
  /\ HandlerGoto(c, "created", "recv")
  /\ UNCHANGED <<opc, alloc, flags, listener, count, apc, backlog, active>>

HandlerStart(c) ==
  /\ HandlerGoto(c, "created", "recv")
  /\ active' = active + 1
  /\ UNCHANGED <<opc, alloc, flags, listener, count, apc, backlog>>

(* Mutant: the thread returns at once when there is no request.            *)
HandlerRecvEarlyReturn(c) ==
  /\ \/ HandlerGoto(c, "recv", "respond")
     \/ HandlerGoto(c, "recv", "freeing")
  /\ UNCHANGED <<opc, alloc, flags, listener, count, apc, backlog, active>>

(* recv until the request is complete, or the peer closes or fails.  It    *)
(* has no timeout.                                                         *)
HandlerRecv(c) ==
  /\ \/ HandlerGoto(c, "recv", "respond")
     \/ HandlerGoto(c, "recv", "close")
  /\ UNCHANGED <<opc, alloc, flags, listener, count, apc, backlog, active>>

(* createResponseForRequest follows server->tag to the root directory;     *)
(* whether the response was sent makes no difference to what follows.      *)
HandlerRespond(c) ==
  /\ HandlerGoto(c, "respond", "close")
  /\ UNCHANGED <<opc, alloc, flags, listener, count, apc, backlog, active>>

HandlerClose(c) ==
  /\ HandlerGoto(c, "close", "finish")
  /\ active' = active - 1
  /\ UNCHANGED <<opc, alloc, flags, listener, count, apc, backlog>>

(* Mutant: the condition variable is not signalled.                        *)
HandlerFinishSilently(c) ==
  /\ HandlerGoto(c, "finish", "freeing")
  /\ count' = count - 1
  /\ UNCHANGED <<opc, alloc, flags, listener, apc, backlog, active>>

HandlerFinish(c) ==
  /\ HandlerGoto(c, "finish", "freeing")
  /\ count' = count - 1
  /\ apc' = IF apc = "sleep" THEN "wait" ELSE apc
  /\ UNCHANGED <<opc, alloc, flags, listener, backlog, active>>

(* connectionFree, after which the thread returns and the slot is free.    *)
HandlerFree(c) ==
  /\ HandlerGoto(c, "freeing", "free")
  /\ UNCHANGED <<opc, alloc, flags, listener, count, apc, backlog, active>>

HandlerSteps(c) ==
  \/ HandlerStart(c) \/ HandlerRespond(c) \/ HandlerClose(c)
  \/ HandlerFinish(c) \/ HandlerFree(c)
---------------------------------------------------------------------------
(* A client connects: the TCP stack queues it while the socket listens.    *)
Connect(c) ==
  /\ conn[c] = "free"
  /\ listener = "listening"
  /\ conn' = [conn EXCEPT ![c] = "pending"]
  /\ backlog' = Append(backlog, c)
  /\ UNCHANGED <<opc, alloc, flags, listener, count, apc, active>>

Next ==
  \/ Owner
  \/ AcceptSteps \/ AcceptFails \/ AwaitSpuriousWake
  \/ \E c \in Conns : HandlerSteps(c) \/ HandlerRecv(c) \/ Connect(c)

Spec == Init /\ [][Next]_vars

(* Threads are scheduled; ews_stop, once entered, is executed.  A recv     *)
(* ends because every client sends its request or disconnects: this is     *)
(* assumed of the clients, the code has no timeout.  Nothing obliges the   *)
(* owner to start or stop a server, a client to connect, accept() to fail  *)
(* or a condition variable to wake spuriously.                             *)
Fairness ==
  /\ WF_vars(StopClose \/ StopWait \/ StopFree)
  /\ WF_vars(AcceptSteps)
  /\ \A c \in Conns : WF_vars(HandlerSteps(c)) /\ WF_vars(HandlerRecv(c))

FairSpec == Spec /\ Fairness
===========================================================================
