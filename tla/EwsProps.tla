----------------------------- MODULE EwsProps -----------------------------
(***************************************************************************)
(* Properties of Ews, and the inductive invariant they follow from.        *)
(***************************************************************************)
EXTENDS Ews

(* Types of the variables of the accept thread, the handlers and the       *)
(* owner; the counters never become negative.                              *)
TypeOK ==
  /\ opc \in OwnerStates
  /\ alloc \in BOOLEAN
  /\ shouldRun \in BOOLEAN
  /\ listener \in ListenerStates
  /\ stopped \in BOOLEAN
  /\ count \in Nat
  /\ apc \in AcceptStates
  /\ conn \in [Conns -> ConnStates]
  /\ backlog \in Seq(Conns)
  /\ active \in Nat
---------------------------------------------------------------------------
(* ews_stop frees the EWS_SERVER only when neither the accept thread nor a *)
(* handler thread is left that dereferences it (ews.c:113, the handlers'   *)
(* connection->server, and server->tag in createResponseForRequest).       *)
NoUseAfterFree ==
  ~alloc => apc \in {"none", "done"} /\ Handlers = {}

(* activeConnectionCount is the number of connections accepted and not     *)
(* finished, including those whose thread could not be created: an         *)
(* undercount would let ews_stop free the server under a handler, an       *)
(* overcount makes it wait for ever (EmbeddableWebServer.h:1652, 2041).    *)
CountExact == count = Cardinality(Counted)

(* The number of active connections on the status page is the number of    *)
(* handlers at work, across stopping and starting servers.                 *)
ActiveExact == active = Cardinality(Active)

(* While a thread waits on a condition variable the condition it waits for *)
(* is false, so the signal that makes it true is yet to come: no wakeup is *)
(* lost between the two critical sections.                                 *)
NoLostWakeup ==
  /\ opc = "stopsleep" => ~stopped
  /\ apc = "sleep" => count > 0
---------------------------------------------------------------------------
(* The accept thread reports stopped only after serverStop asked for it or *)
(* accept() failed, and then every handler it created has finished.        *)
StopsDrained == [][stopped' /\ ~stopped => Counted = {} /\ backlog = << >>]_vars

(* Once serverStop has cleared shouldRun the accept thread may finish what *)
(* it is doing but does not go back to accept().                           *)
NoNewAccept == [][Stopping /\ apc' = "accept" => apc = "accept"]_vars

(* The accept thread is out of its loop for good.                          *)
OutOfLoop == apc \in {"drain", "wait", "sleep", "signal", "return", "done"}

(* The accept thread, the handlers and the owner together implement the    *)
(* server of EwsService: no handler outlives the call of ews_stop, and     *)
(* none is created once the accept thread has left its loop.               *)
Service == INSTANCE EwsService WITH
  phase <- CASE opc = "idle" -> "off"
             [] opc = "running" -> "on"
             [] OTHER -> IF OutOfLoop THEN "draining" ELSE "stopping",
  serving <- Handlers

ImplementsService == Service!SSpec
---------------------------------------------------------------------------
(* The inductive invariant.  Its parts say which thread can be where when  *)
(* another one is somewhere, and what the backlog of the socket holds.     *)

(* The server exists while the owner has it, and the flag is up until      *)
(* ews_stop takes it down.                                                 *)
OwnerInv ==
  /\ alloc = (opc # "idle")
  /\ shouldRun = (opc = "running")

(* The accept thread exists only while the owner has a server, and serves  *)
(* connections only in its loop and while it waits for the last of them.   *)
ThreadInv ==
  /\ opc = "idle" => apc \in {"none", "done"}
  /\ apc \in {"none", "socket", "bind", "listen", "signal", "return", "done"} => Counted = {}

(* The accept thread has at most one connection in hand.                   *)
InHandInv ==
  /\ \A c \in Conns : /\ conn[c] = "accepted" => apc = "count"
                      /\ conn[c] = "counted" => apc = "spawn"
  /\ \A c, d \in Conns :
       conn[c] \in {"accepted", "counted"} /\ conn[d] \in {"accepted", "counted"} => c = d

(* The backlog lists clients that wait for accept(), each once, and only a *)
(* listening socket has one.                                               *)
BacklogInv ==
  /\ \A i \in 1 .. Len(backlog) : conn[backlog[i]] = "pending"
  /\ \A i, j \in 1 .. Len(backlog) : backlog[i] = backlog[j] => i = j
  /\ listener = "listening" => apc \in {"loop", "accept", "count", "spawn", "drain"}
  /\ backlog # << >> => listener = "listening"

(* The inductive invariant of Ews, from which the safety properties above  *)
(* follow (ews.c:86-125, EmbeddableWebServer.h:1518, 1572 and 1970).       *)
IInv ==
  /\ TypeOK
  /\ OwnerInv
  /\ ThreadInv
  /\ InHandInv
  /\ BacklogInv
  /\ CountExact
  /\ ActiveExact
  /\ NoLostWakeup
---------------------------------------------------------------------------
(* States of the accept thread once bind() has succeeded.                  *)
BeyondBind ==
  apc \in AcceptStates \ {"none", "socket", "bind", "done"} \/ (apc = "done" /\ stopped)

(* ews_stop returns, provided that bind() succeeded and that a thread      *)
(* could be created for every connection.                                  *)
StopReturnsOnceBound == (Stopping /\ BeyondBind) ~> (opc = "idle" \/ Lost # {})

(* Whoever connects is answered or disconnected, even if accept() fails or *)
(* the server is stopped, unless its handler thread could not be created.  *)
ClientsReleased == \A c \in Conns : conn[c] = "pending" ~> conn[c] \in {"free", "lost"}

(* "If you want a clean server shutdown you can use serverInit() +         *)
(* acceptConnectionsUntilStopped() + serverDeInit()"                       *)
(* (EmbeddableWebServer.h:30): stopping a server terminates, as long as    *)
(* the threads it needs can be created.                                    *)
StopReturns == Stopping ~> (opc = "idle" \/ Lost # {})
===========================================================================
