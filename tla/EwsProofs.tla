---------------------------- MODULE EwsProofs ----------------------------
(***************************************************************************)
(* Proofs about Ews: the invariant IInv is inductive for every finite set  *)
(* of connections, the server is not used after it is freed, and Ews       *)
(* implements EwsService.                                                  *)
(***************************************************************************)
EXTENDS EwsProps, FiniteSetTheorems, SequenceTheorems, TLAPS

(* The sets counted by the two counters are finite, so that their          *)
(* cardinalities are natural numbers.                                      *)
LEMMA Finite ==
  /\ IsFiniteSet(Counted) /\ Cardinality(Counted) \in Nat
  /\ IsFiniteSet(Active) /\ Cardinality(Active) \in Nat
<1>1. Counted \subseteq Conns /\ Active \subseteq Conns
  BY DEF Counted, Active
<1>2. IsFiniteSet(Counted) /\ IsFiniteSet(Active)
  BY <1>1, ConnsFinite, FS_Subset
<1> QED
  BY <1>2, FS_CardinalityType

(* Moving one connection c to state `to' adds c to the connections whose   *)
(* state is in S, removes it or leaves them as they are.                   *)
LEMMA Move ==
  ASSUME NEW S, NEW c \in Conns, NEW to, TypeOK,
         conn' = [conn EXCEPT ![c] = to]
  PROVE  LET In == {d \in Conns : conn[d] \in S}
             InNext == {d \in Conns : conn'[d] \in S}
         IN  /\ conn[c] \notin S /\ to \in S => Cardinality(InNext) = Cardinality(In) + 1
             /\ conn[c] \in S /\ to \notin S => Cardinality(InNext) = Cardinality(In) - 1
             /\ (conn[c] \in S) = (to \in S) => InNext = In
<1> DEFINE In == {d \in Conns : conn[d] \in S}
           InNext == {d \in Conns : conn'[d] \in S}
<1>1. IsFiniteSet(In)
  BY ConnsFinite, FS_Subset
<1>2. ASSUME conn[c] \notin S, to \in S
      PROVE  Cardinality(InNext) = Cardinality(In) + 1
  <2>1. InNext = In \cup {c} /\ c \notin In
    BY <1>2 DEF TypeOK
  <2> HIDE DEF In, InNext
  <2> QED
    BY <1>1, <2>1, FS_AddElement
<1>3. ASSUME conn[c] \in S, to \notin S
      PROVE  Cardinality(InNext) = Cardinality(In) - 1
  <2>1. InNext = In \ {c} /\ c \in In
    BY <1>3 DEF TypeOK
  <2> HIDE DEF In, InNext
  <2> QED
    BY <1>1, <2>1, FS_RemoveElement
<1>4. ASSUME (conn[c] \in S) = (to \in S)
      PROVE  InNext = In
  BY <1>4 DEF TypeOK
<1> QED
  BY <1>2, <1>3, <1>4

(* Steps that leave the connections alone leave both sets alone.           *)
LEMMA Still ==
  ASSUME UNCHANGED conn
  PROVE  Counted' = Counted /\ Active' = Active
BY DEF Counted, Active

(* Closing the listener sends only waiting clients away.                   *)
LEMMA Closing ==
  ASSUME TypeOK, BacklogInv, CloseListener
  PROVE  /\ Counted' = Counted /\ Active' = Active
         /\ listener' \in ListenerStates /\ listener' # "listening"
         /\ conn' \in [Conns -> ConnStates]
         /\ backlog' = << >> /\ backlog' \in Seq(Conns) /\ Len(backlog') = 0
         /\ \A c \in Conns : \/ conn'[c] = conn[c]
                             \/ conn[c] = "pending" /\ conn'[c] = "free"
<1> USE DEF TypeOK, BacklogInv, CloseListener, ListenerStates, ConnStates
<1>1. \A c \in Conns : \/ conn'[c] = conn[c]
                       \/ conn[c] = "pending" /\ conn'[c] = "free"
  OBVIOUS
<1>2. Counted' = Counted /\ Active' = Active
  BY <1>1 DEF Counted, Active, CountedStates
<1>3. conn' \in [Conns -> ConnStates]
  OBVIOUS
<1>4. listener' \in ListenerStates /\ listener' # "listening" /\ backlog' = << >>
  OBVIOUS
<1> QED
  BY EmptySeq, <1>1, <1>2, <1>3, <1>4
---------------------------------------------------------------------------
LEMMA InitIInv == Init => IInv
<1> SUFFICES ASSUME Init PROVE IInv
  OBVIOUS
<1>1. Counted = {} /\ Active = {}
  BY DEF Init, Counted, Active, CountedStates
<1>2. CountExact /\ ActiveExact
  BY <1>1, FS_EmptySet DEF Init, CountExact, ActiveExact
<1>3. TypeOK
  BY EmptySeq DEF Init, TypeOK, OwnerStates, ListenerStates, AcceptStates, ConnStates
<1>4. BacklogInv
  BY EmptySeq DEF Init, BacklogInv
<1>5. OwnerInv /\ ThreadInv /\ InHandInv /\ NoLostWakeup
  BY <1>1 DEF Init, OwnerInv, ThreadInv, InHandInv, NoLostWakeup
<1> QED
  BY <1>2, <1>3, <1>4, <1>5 DEF IInv

(* The owner's actions.                                                    *)
LEMMA OwnerStep ==
  ASSUME IInv, Owner
  PROVE  IInv'
<1> USE DEF IInv, TypeOK, OwnerInv, ThreadInv, InHandInv, BacklogInv, CountExact,
            ActiveExact, NoLostWakeup, OwnerStates, ListenerStates, AcceptStates,
            ConnStates, clients, flags
<1>1. CASE EwsStart
  <2>1. Counted' = {} /\ Active' = Active
    BY <1>1, Still DEF EwsStart
  <2>2. CountExact'
    BY <1>1, <2>1, FS_EmptySet DEF EwsStart
  <2>3. TypeOK' /\ ActiveExact' /\ NoLostWakeup' /\ OwnerInv' /\ ThreadInv'
    BY <1>1, <2>1 DEF EwsStart
  <2>4. InHandInv' /\ BacklogInv'
    BY <1>1, <2>1 DEF EwsStart
  <2> QED
    BY <2>2, <2>3, <2>4
<1>2. CASE StopFlag
  BY <1>2, Still DEF StopFlag
<1>3. CASE StopClose
  <2>1. CloseListener /\ TypeOK /\ BacklogInv
    BY <1>3 DEF StopClose
  <2>2. TypeOK' /\ OwnerInv' /\ CountExact' /\ ActiveExact' /\ NoLostWakeup'
    BY <1>3, <2>1, Closing DEF StopClose
  <2>3. ThreadInv'
    BY <1>3, <2>1, Closing DEF StopClose
  <2>4. InHandInv'
    BY <1>3, <2>1, Closing DEF StopClose
  <2>5. BacklogInv'
    BY <1>3, <2>1, Closing DEF StopClose
  <2> QED
    BY <2>2, <2>3, <2>4, <2>5
<1>4. CASE StopWait
  BY <1>4, Still DEF StopWait
<1>5. CASE StopSpuriousWake
  BY <1>5, Still DEF StopSpuriousWake
<1>6. CASE StopFree
  BY <1>6, Still DEF StopFree
<1> QED
  BY <1>1, <1>2, <1>3, <1>4, <1>5, <1>6 DEF Owner

(* The accept thread's actions that leave the connections alone.           *)
LEMMA AcceptStillStep ==
  ASSUME IInv,
         \/ CreateListener \/ Bind \/ Listen \/ LoopTest \/ AcceptClosed \/ AcceptFails
         \/ AwaitHandlers \/ AwaitSpuriousWake \/ SignalStopped \/ AcceptReturn
  PROVE  IInv'
<1> USE DEF IInv, TypeOK, OwnerInv, ThreadInv, InHandInv, BacklogInv, CountExact,
            ActiveExact, NoLostWakeup, OwnerStates, ListenerStates, AcceptStates,
            ConnStates, clients, flags, AcceptGoto
<1>1. CASE CreateListener
  BY <1>1, Still DEF CreateListener
<1>2. CASE Bind
  BY <1>2, Still DEF Bind
<1>3. CASE Listen
  BY <1>3, Still DEF Listen
<1>4. CASE LoopTest
  BY <1>4, Still DEF LoopTest
<1>5. CASE AcceptClosed
  BY <1>5, Still DEF AcceptClosed
<1>6. CASE AcceptFails
  BY <1>6, Still DEF AcceptFails
<1>7. CASE AwaitHandlers
  <2>1. Counted' = Counted /\ Active' = Active
    BY <1>7, Still DEF AwaitHandlers
  <2>2. apc' = "signal" => Counted = {}
    BY <1>7, Finite, FS_EmptySet DEF AwaitHandlers
  <2> QED
    BY <1>7, <2>1, <2>2 DEF AwaitHandlers
<1>8. CASE AwaitSpuriousWake
  BY <1>8, Still DEF AwaitSpuriousWake
<1>9. CASE SignalStopped
  BY <1>9, Still DEF SignalStopped
<1>10. CASE AcceptReturn
  BY <1>10, Still DEF AcceptReturn
<1> QED
  BY <1>1, <1>2, <1>3, <1>4, <1>5, <1>6, <1>7, <1>8, <1>9, <1>10

(* The accept thread's actions that take a connection a step further.      *)
LEMMA AcceptMoveStep ==
  ASSUME IInv, AcceptConnection \/ CountConnection \/ SpawnHandler \/ Drain
  PROVE  IInv'
<1> USE DEF IInv, TypeOK, OwnerInv, ThreadInv, InHandInv, BacklogInv, CountExact,
            ActiveExact, NoLostWakeup, OwnerStates, ListenerStates, AcceptStates,
            ConnStates, clients, flags, AcceptGoto
<1>1. CASE AcceptConnection
  <2> DEFINE c == Head(backlog)
  <2>1. /\ c \in Conns /\ c = backlog[1] /\ conn[c] = "pending"
        /\ backlog' \in Seq(Conns)
        /\ Len(backlog') = Len(backlog) - 1
        /\ \A i \in 1 .. Len(backlog') : backlog'[i] = backlog[i + 1]
        /\ Len(backlog) \in Nat \ {0}
    BY <1>1, HeadTailProperties, EmptySeq DEF AcceptConnection
  <2>2. conn' = [conn EXCEPT ![c] = "accepted"]
    BY <1>1 DEF AcceptConnection
  <2> HIDE DEF c
  <2>3. Counted' = Counted /\ Active' = Active
    BY <2>1, <2>2 DEF Counted, Active, CountedStates
  <2>4. TypeOK' /\ CountExact' /\ ActiveExact' /\ NoLostWakeup' /\ OwnerInv' /\ ThreadInv'
    BY <1>1, <2>1, <2>2, <2>3 DEF AcceptConnection
  <2>5. InHandInv'
    BY <1>1, <2>1, <2>2 DEF AcceptConnection
  <2>6. \A i \in 1 .. Len(backlog') : conn'[backlog'[i]] = "pending"
    <3> TAKE i \in 1 .. Len(backlog')
    <3>1. i + 1 \in 1 .. Len(backlog) /\ backlog'[i] = backlog[i + 1]
      BY <2>1
    <3>2. backlog[i + 1] # c
      BY <2>1, <3>1
    <3> QED
      BY <2>1, <2>2, <3>1, <3>2
  <2>7. \A i, j \in 1 .. Len(backlog') : backlog'[i] = backlog'[j] => i = j
    BY <2>1
  <2>8. BacklogInv'
    BY <1>1, <2>6, <2>7 DEF AcceptConnection
  <2> QED
    BY <2>4, <2>5, <2>8
<1>2. CASE CountConnection
  <2>1. PICK c \in Conns : /\ conn[c] = "accepted"
                           /\ conn' = [conn EXCEPT ![c] = "counted"]
    BY <1>2 DEF CountConnection
  <2>2. Cardinality(Counted') = Cardinality(Counted) + 1
    BY <2>1, Move DEF Counted, CountedStates
  <2>3. Active' = Active
    BY <2>1 DEF Active
  <2>4. TypeOK' /\ CountExact' /\ ActiveExact' /\ NoLostWakeup' /\ OwnerInv' /\ ThreadInv'
    BY <1>2, <2>1, <2>2, <2>3 DEF CountConnection
  <2>5. InHandInv' /\ BacklogInv'
    BY <1>2, <2>1 DEF CountConnection
  <2> QED
    BY <2>4, <2>5
<1>3. CASE SpawnHandler
  <2>1. PICK c \in Conns, outcome \in {"created", "lost"} :
          /\ conn[c] = "counted"
          /\ conn' = [conn EXCEPT ![c] = outcome]
    BY <1>3 DEF SpawnHandler
  <2>2. Counted' = Counted /\ Active' = Active
    BY <2>1 DEF Counted, Active, CountedStates
  <2>3. TypeOK' /\ CountExact' /\ ActiveExact' /\ NoLostWakeup' /\ OwnerInv' /\ ThreadInv'
    BY <1>3, <2>1, <2>2 DEF SpawnHandler
  <2>4. InHandInv' /\ BacklogInv'
    BY <1>3, <2>1 DEF SpawnHandler
  <2> QED
    BY <2>3, <2>4
<1>4. CASE Drain
  <2>1. CloseListener /\ TypeOK /\ BacklogInv
    BY <1>4 DEF Drain
  <2>2. TypeOK' /\ OwnerInv' /\ CountExact' /\ ActiveExact' /\ NoLostWakeup'
    BY <1>4, <2>1, Closing DEF Drain
  <2>3. ThreadInv'
    BY <1>4, <2>1, Closing DEF Drain
  <2>4. InHandInv'
    BY <1>4, <2>1, Closing DEF Drain
  <2>5. BacklogInv'
    BY <1>4, <2>1, Closing DEF Drain
  <2> QED
    BY <2>2, <2>3, <2>4, <2>5
<1> QED
  BY <1>1, <1>2, <1>3, <1>4

(* A handler thread moves its own connection.                              *)
LEMMA HandlerStep ==
  ASSUME IInv, NEW c \in Conns, HandlerSteps(c) \/ HandlerRecv(c)
  PROVE  IInv'
<1> USE DEF IInv, TypeOK, OwnerInv, ThreadInv, InHandInv, BacklogInv, CountExact,
            ActiveExact, NoLostWakeup, OwnerStates, ListenerStates, AcceptStates,
            ConnStates, flags, HandlerGoto
<1>1. CASE HandlerStart(c)
  <2>1. conn[c] = "created" /\ conn' = [conn EXCEPT ![c] = "recv"]
    BY <1>1 DEF HandlerStart
  <2>2. Counted' = Counted /\ Cardinality(Active') = Cardinality(Active) + 1
    BY <2>1, Move DEF Counted, CountedStates, Active
  <2> QED
    BY <1>1, <2>1, <2>2 DEF HandlerStart
<1>2. CASE HandlerRecv(c)
  <2>1. PICK to \in {"respond", "close"} :
          conn[c] = "recv" /\ conn' = [conn EXCEPT ![c] = to]
    BY <1>2 DEF HandlerRecv
  <2>2. Counted' = Counted /\ Active' = Active
    BY <2>1 DEF Counted, CountedStates, Active
  <2> QED
    BY <1>2, <2>1, <2>2 DEF HandlerRecv
<1>3. CASE HandlerRespond(c)
  <2>1. conn[c] = "respond" /\ conn' = [conn EXCEPT ![c] = "close"]
    BY <1>3 DEF HandlerRespond
  <2>2. Counted' = Counted /\ Active' = Active
    BY <2>1 DEF Counted, CountedStates, Active
  <2> QED
    BY <1>3, <2>1, <2>2 DEF HandlerRespond
<1>4. CASE HandlerClose(c)
  <2>1. conn[c] = "close" /\ conn' = [conn EXCEPT ![c] = "finish"]
    BY <1>4 DEF HandlerClose
  <2>2. Counted' = Counted
    BY <2>1 DEF Counted, CountedStates
  <2>4. Cardinality(Active') = Cardinality(Active) - 1
    <3> DEFINE S == {"recv", "respond", "close"}
    <3>1. conn[c] \in S /\ "finish" \notin S
      BY <2>1
    <3>2. Active = {d \in Conns : conn[d] \in S} /\ Active' = {d \in Conns : conn'[d] \in S}
      BY DEF Active
    <3> HIDE DEF S
    <3> QED
      BY <2>1, <3>1, <3>2, Move
  <2>3. Cardinality(Active') \in Nat
    BY <2>1, ConnsFinite, FS_Subset, FS_CardinalityType DEF Active
  <2> QED
    BY <1>4, <2>1, <2>2, <2>3, <2>4 DEF HandlerClose
<1>5. CASE HandlerFinish(c)
  <2>1. conn[c] = "finish" /\ conn' = [conn EXCEPT ![c] = "freeing"]
    BY <1>5 DEF HandlerFinish
  <2>2. Active' = Active
    BY <2>1 DEF Active
  <2>4. Cardinality(Counted') = Cardinality(Counted) - 1
    <3>1. conn[c] \in CountedStates /\ "freeing" \notin CountedStates
      BY <2>1 DEF CountedStates
    <3>2. /\ Counted = {d \in Conns : conn[d] \in CountedStates}
          /\ Counted' = {d \in Conns : conn'[d] \in CountedStates}
      BY DEF Counted, CountedStates
    <3> QED
      BY <2>1, <3>1, <3>2, Move
  <2>3. Cardinality(Counted') \in Nat /\ Counted' \subseteq Counted /\ Counted # {}
    BY <2>1, ConnsFinite, FS_Subset, FS_CardinalityType DEF Counted, CountedStates
  <2> QED
    BY <1>5, <2>1, <2>2, <2>3, <2>4 DEF HandlerFinish
<1>6. CASE HandlerFree(c)
  <2>1. conn[c] = "freeing" /\ conn' = [conn EXCEPT ![c] = "free"]
    BY <1>6 DEF HandlerFree
  <2>2. Counted' = Counted /\ Active' = Active
    BY <2>1 DEF Counted, CountedStates, Active
  <2> QED
    BY <1>6, <2>1, <2>2 DEF HandlerFree
<1> QED
  BY <1>1, <1>2, <1>3, <1>4, <1>5, <1>6 DEF HandlerSteps

(* A client joins the backlog.                                             *)
LEMMA ConnectStep ==
  ASSUME IInv, NEW c \in Conns, Connect(c)
  PROVE  IInv'
<1> USE DEF IInv, TypeOK, OwnerInv, ThreadInv, InHandInv, BacklogInv, CountExact,
            ActiveExact, NoLostWakeup, OwnerStates, ListenerStates, AcceptStates,
            ConnStates, flags, Connect
<1>1. Counted' = Counted /\ Active' = Active
  BY DEF Counted, CountedStates, Active
<1>2. /\ backlog' \in Seq(Conns) /\ Len(backlog) \in Nat
      /\ Len(backlog') = Len(backlog) + 1
      /\ \A i \in 1 .. Len(backlog) : backlog'[i] = backlog[i]
      /\ backlog'[Len(backlog) + 1] = c
  BY AppendProperties, LenProperties
<1>3. \A i \in 1 .. Len(backlog) : backlog[i] \in Conns /\ backlog[i] # c
  BY ElementOfSeq
<1>4. BacklogInv'
  <2>1. \A i \in 1 .. Len(backlog') : conn'[backlog'[i]] = "pending"
    BY <1>2, <1>3
  <2>2. \A i, j \in 1 .. Len(backlog') : backlog'[i] = backlog'[j] => i = j
    <3> TAKE i, j \in 1 .. Len(backlog')
    <3>1. CASE i <= Len(backlog) /\ j <= Len(backlog)
      BY <1>2, <3>1
    <3>2. CASE i = Len(backlog) + 1 \/ j = Len(backlog) + 1
      BY <1>2, <1>3, <3>2
    <3> QED
      BY <1>2, <3>1, <3>2
  <2> QED
    BY <2>1, <2>2
<1>5. TypeOK' /\ CountExact' /\ ActiveExact' /\ NoLostWakeup' /\ OwnerInv' /\ ThreadInv'
  BY <1>1, <1>2
<1>6. InHandInv'
  OBVIOUS
<1> QED
  BY <1>4, <1>5, <1>6

LEMMA NextIInv == IInv /\ [Next]_vars => IInv'
<1> SUFFICES ASSUME IInv, [Next]_vars PROVE IInv'
  OBVIOUS
<1>1. CASE Next
  BY <1>1, OwnerStep, AcceptStillStep, AcceptMoveStep, HandlerStep, ConnectStep
  DEF Next, AcceptSteps
<1>2. CASE UNCHANGED vars
  <2>1. Counted' = Counted /\ Active' = Active
    BY <1>2, Still DEF vars
  <2> QED
    BY <1>2, <2>1 DEF vars, IInv, TypeOK, OwnerInv, ThreadInv, InHandInv, BacklogInv,
                      CountExact, ActiveExact, NoLostWakeup
<1> QED
  BY <1>1, <1>2
---------------------------------------------------------------------------
(* The invariant holds in every reachable state.                           *)
THEOREM Invariant == Spec => []IInv
<1> QED
  BY InitIInv, NextIInv, PTL DEF Spec

(* The variables keep their types; neither counter becomes negative        *)
(* (EmbeddableWebServer.h:1653, 2042).                                     *)
THEOREM TypeCorrect == Spec => []TypeOK
<1>1. IInv => TypeOK
  BY DEF IInv
<1> QED
  BY <1>1, Invariant, PTL

(* ews_stop frees the EWS_SERVER after the accept thread and every handler *)
(* thread are through with it (ews.c:113-125), whatever the number of      *)
(* connections and however often servers are started and stopped.          *)
THEOREM MemorySafe == Spec => []NoUseAfterFree
<1>1. IInv => NoUseAfterFree
  <2>1. Handlers \subseteq Counted
    BY DEF Handlers, Counted, HandlerStates, CountedStates
  <2> QED
    BY <2>1 DEF IInv, OwnerInv, ThreadInv, NoUseAfterFree
<1> QED
  BY <1>1, Invariant, PTL

(* activeConnectionCount is exact (EmbeddableWebServer.h:1653, 2042).      *)
THEOREM CountCorrect == Spec => []CountExact
<1>1. IInv => CountExact
  BY DEF IInv
<1> QED
  BY <1>1, Invariant, PTL

(* The status page's number of active connections is the number of         *)
(* handlers at work, however servers are stopped and started               *)
(* (EmbeddableWebServer.h:1970, ews.c:86).                                 *)
THEOREM ActiveCorrect == Spec => []ActiveExact
<1>1. IInv => ActiveExact
  BY DEF IInv
<1> QED
  BY <1>1, Invariant, PTL

(* Neither condition variable loses a wakeup (EmbeddableWebServer.h:1531,  *)
(* 1677).                                                                  *)
THEOREM WakeupsKept == Spec => []NoLostWakeup
<1>1. IInv => NoLostWakeup
  BY DEF IInv
<1> QED
  BY <1>1, Invariant, PTL

(* The accept thread reports stopped with no connection left, waiting or   *)
(* served (EmbeddableWebServer.h:1674-1683).                               *)
THEOREM StopDrains == Spec => StopsDrained
<1>1. IInv /\ [Next]_vars => [stopped' /\ ~stopped => Counted = {} /\ backlog = << >>]_vars
  <2> SUFFICES ASSUME IInv, Next, stopped', ~stopped
               PROVE  Counted = {} /\ backlog = << >>
    OBVIOUS
  <2>1. apc = "signal"
    <3>1. stopped' = stopped \/ SignalStopped \/ EwsStart
      BY DEF Next, Owner, StopFlag, StopClose, StopWait, StopSpuriousWake, StopFree,
             AcceptSteps, CreateListener, Bind, Listen, LoopTest, AcceptConnection,
             AcceptClosed, AcceptFails, CountConnection, SpawnHandler, Drain,
             AwaitHandlers, AwaitSpuriousWake, AcceptReturn, HandlerSteps, HandlerStart,
             HandlerRecv, HandlerRespond, HandlerClose, HandlerFinish, HandlerFree,
             Connect, flags
    <3> QED
      BY <3>1 DEF SignalStopped, EwsStart, AcceptGoto
  <2> QED
    BY <2>1 DEF IInv, ThreadInv, BacklogInv
<1> QED
  BY <1>1, Invariant, PTL DEF Spec, StopsDrained

(* Once stopped, the accept thread does not return to accept()             *)
(* (EmbeddableWebServer.h:1634).                                           *)
THEOREM StopsAccepting == Spec => NoNewAccept
<1>1. IInv /\ [Next]_vars => [Stopping /\ apc' = "accept" => apc = "accept"]_vars
  <2> SUFFICES ASSUME IInv, Next, Stopping, apc' = "accept", apc # "accept"
               PROVE  FALSE
    OBVIOUS
  <2>1. LoopTest
    BY DEF Next, Owner, EwsStart, StopFlag, StopClose, StopWait, StopSpuriousWake, StopFree,
           AcceptSteps, CreateListener, Bind, Listen, AcceptConnection,
           AcceptClosed, AcceptFails, CountConnection, SpawnHandler, Drain, SignalStopped,
           AwaitHandlers, AwaitSpuriousWake, AcceptReturn, HandlerSteps, HandlerStart,
           HandlerRecv, HandlerRespond, HandlerClose, HandlerFinish, HandlerFree,
           Connect, AcceptGoto
  <2>2. ~shouldRun
    BY DEF IInv, OwnerInv, Stopping
  <2> QED
    BY <2>1, <2>2 DEF LoopTest, AcceptGoto
<1> QED
  BY <1>1, Invariant, PTL DEF Spec, NoNewAccept
---------------------------------------------------------------------------
(* Only creating a handler thread and its last use of the server change    *)
(* what EwsService sees of the connections.                                *)
LEMMA MoveHandlers ==
  ASSUME NEW c \in Conns, NEW to, TypeOK,
         conn' = [conn EXCEPT ![c] = to]
  PROVE  /\ conn[c] \notin HandlerStates /\ to \in HandlerStates
              => c \notin Handlers /\ Handlers' = Handlers \cup {c}
         /\ conn[c] \in HandlerStates /\ to \notin HandlerStates
              => c \in Handlers /\ Handlers' = Handlers \ {c}
         /\ (conn[c] \in HandlerStates) = (to \in HandlerStates) => Handlers' = Handlers
BY DEF Handlers, TypeOK

(* Every step of Ews is a step of EwsService or leaves its state alone.    *)
LEMMA ServiceStep == IInv /\ [Next]_vars => [Service!SNext]_(Service!svars)
<1> SUFFICES ASSUME IInv, [Next]_vars PROVE [Service!SNext]_(Service!svars)
  OBVIOUS
<1>0. UNCHANGED conn => Handlers' = Handlers
  BY DEF Handlers
<1> USE DEF Service!SNext, Service!svars
<1>1. CASE EwsStart
  <2>1. Service!SStart
    BY <1>0, <1>1 DEF EwsStart, clients, Service!SStart
  <2> QED
    BY <2>1
<1>2. CASE StopFlag
  <2>1. Service!SStop
    BY <1>0, <1>2 DEF StopFlag, clients, Service!SStop, OutOfLoop
  <2> QED
    BY <2>1
<1>3. CASE StopFree
  <2>1. Counted = {}
    BY <1>3 DEF StopFree, IInv, ThreadInv
  <2>2. Handlers = {}
    BY <2>1 DEF Handlers, Counted, HandlerStates, CountedStates
  <2>3. Service!SOff
    BY <1>0, <1>3, <2>2 DEF StopFree, clients, Service!SOff, OutOfLoop
  <2> QED
    BY <2>3
<1>4. CASE SpawnHandler
  <2>1. PICK c \in Conns, outcome \in {"created", "lost"} :
          conn[c] = "counted" /\ conn' = [conn EXCEPT ![c] = outcome]
    BY <1>4 DEF SpawnHandler
  <2>2. /\ opc \in OwnerStates \ {"idle"} /\ opc' = opc
        /\ ~OutOfLoop /\ ~OutOfLoop'
    BY <1>4 DEF SpawnHandler, AcceptGoto, IInv, ThreadInv, TypeOK, OutOfLoop
  <2>3. CASE outcome = "created"
    <3>1. c \notin Handlers /\ Handlers' = Handlers \cup {c}
      BY <2>1, <2>3, MoveHandlers DEF IInv, HandlerStates
    <3>2. Service!SBegin(c)
      BY <2>2, <3>1 DEF Service!SBegin, OwnerStates
    <3> QED
      BY <3>2
  <2>4. CASE outcome = "lost"
    <3>1. Handlers' = Handlers
      BY <2>1, <2>4 DEF IInv, TypeOK, Handlers, HandlerStates
    <3> QED
      BY <2>2, <3>1
  <2> QED
    BY <2>3, <2>4
<1>5. ASSUME NEW c \in Conns, HandlerFinish(c)
      PROVE  Service!SNext
  <2>1. c \in Handlers /\ Handlers' = Handlers \ {c}
    BY <1>5, MoveHandlers DEF HandlerFinish, HandlerGoto, IInv, HandlerStates
  <2>2. Service!SEnd(c)
    BY <1>5, <2>1 DEF HandlerFinish, Service!SEnd, OutOfLoop
  <2> QED
    BY <2>2
<1>6. ASSUME NEW c \in Conns,
             \/ HandlerStart(c) \/ HandlerRecv(c) \/ HandlerRespond(c) \/ HandlerClose(c)
             \/ HandlerFree(c) \/ Connect(c)
      PROVE  UNCHANGED Service!svars
  <2>1. PICK to \in ConnStates :
          /\ conn' = [conn EXCEPT ![c] = to]
          /\ (conn[c] \in HandlerStates) = (to \in HandlerStates)
    BY <1>6 DEF HandlerStart, HandlerRecv, HandlerRespond, HandlerClose, HandlerFree,
                Connect, HandlerGoto, HandlerStates, ConnStates
  <2>2. Handlers' = Handlers
    BY <2>1, MoveHandlers DEF IInv
  <2>3. opc' = opc /\ apc' = apc
    BY <1>6 DEF HandlerStart, HandlerRecv, HandlerRespond, HandlerClose, HandlerFree, Connect
  <2> QED
    BY <2>2, <2>3 DEF OutOfLoop
<1>7. CASE AcceptConnection \/ CountConnection
  <2>1. Handlers' = Handlers
    <3>1. CASE AcceptConnection
      <4>1. conn[Head(backlog)] = "pending" /\ Head(backlog) \in Conns
        BY <3>1, HeadTailProperties, EmptySeq DEF AcceptConnection, IInv, TypeOK, BacklogInv
      <4> QED
        BY <3>1, <4>1 DEF AcceptConnection, IInv, TypeOK, Handlers, HandlerStates
    <3>2. CASE CountConnection
      BY <3>2 DEF CountConnection, IInv, TypeOK, Handlers, HandlerStates
    <3> QED
      BY <1>7, <3>1, <3>2
  <2> QED
    BY <1>7, <2>1 DEF AcceptConnection, CountConnection, AcceptGoto, OutOfLoop
<1>8. CASE StopClose \/ Drain
  <2>1. CloseListener
    BY <1>8 DEF StopClose, Drain
  <2>2. Handlers' = Handlers
    BY <2>1, Closing DEF IInv, Handlers, HandlerStates
  <2> QED
    BY <1>8, <2>2 DEF StopClose, Drain, AcceptGoto, OutOfLoop
<1>9. CASE \/ StopWait \/ StopSpuriousWake \/ Listen \/ AwaitHandlers
           \/ AwaitSpuriousWake \/ SignalStopped \/ AcceptReturn
  BY <1>0, <1>9 DEF StopWait, StopSpuriousWake, Listen, AwaitHandlers, AwaitSpuriousWake,
     SignalStopped, AcceptReturn, clients, AcceptGoto, OutOfLoop
<1>10. CASE CreateListener \/ Bind \/ LoopTest \/ AcceptClosed \/ AcceptFails
  <2>1. opc' = opc /\ Handlers' = Handlers /\ (OutOfLoop => OutOfLoop')
    BY <1>0, <1>10 DEF CreateListener, Bind, LoopTest, AcceptClosed, AcceptFails,
       AcceptGoto, clients, OutOfLoop
  <2>2. Service!SDrain \/ UNCHANGED Service!svars
    BY <2>1 DEF Service!SDrain
  <2> QED
    BY <2>2
<1>11. CASE UNCHANGED vars
  BY <1>0, <1>11 DEF vars, OutOfLoop
<1> QED
  BY <1>1, <1>2, <1>3, <1>4, <1>5, <1>6, <1>7, <1>8, <1>9, <1>10, <1>11
  DEF Next, Owner, AcceptSteps, HandlerSteps

(* Ews implements EwsService: seen from the launcher, requests are handled *)
(* between ews_start and the return of ews_stop only.                      *)
THEOREM Refinement == Spec => ImplementsService
<1>1. Init => Service!SInit
  BY DEF Init, Service!SInit, Handlers, HandlerStates
<1> QED
  BY <1>1, ServiceStep, Invariant, PTL DEF Spec, ImplementsService, Service!SSpec
===========================================================================
