---------------------------- MODULE ServerProofs ----------------------------
(***************************************************************************)
(* The connections of a Server behave as module Connection says, so the    *)
(* theorems of ConnectionProofs carry over; ServerInv adds the acceptor,   *)
(* the signal handler and Run.                                             *)
(***************************************************************************)
EXTENDS Server, ConnectionProofs

\* Every step of the server is a step of the connections or leaves them alone.
LEMMA NextIsConnNext == ServerInv /\ [Next]_vars => [ConnNext]_connVars
<1> SUFFICES ASSUME ServerInv, [Next]_vars PROVE [ConnNext]_connVars
  OBVIOUS
<1>1. CASE StartAccept
  BY <1>1 DEF StartAccept, ConnNext, ServerAround
<1>2. CASE OnAccept
  <2>1. accepting \in Conns
    BY <1>2 DEF OnAccept, ServerInv, AcceptInv, TypeOK
  <2>2. Discard(accepting) \/ \E s \in {"open", "closed"} : Start(accepting, s)
    BY <1>2 DEF OnAccept
  <2> QED
    BY <2>1, <2>2 DEF ConnNext, ServerAround
<1>3. CASE OnSignal
  BY <1>3 DEF OnSignal, ConnNext, ServerAround
<1>4. CASE AcceptCompletes \/ SignalArrives \/ JoinThreads \/ RunReturns \/ UNCHANGED vars
  BY <1>4 DEF AcceptCompletes, SignalArrives, JoinThreads, RunReturns, vars
<1>5. CASE \E c \in Conns : RunHandler(Handler(c))
  BY <1>5 DEF RunHandler, ConnNext
<1>6. CASE \E c \in Conns : Completion(c) /\ UNCHANGED serverOnly
  BY <1>6 DEF ConnNext
<1>7. CASE \E c \in Conns : Application(c) /\ UNCHANGED serverOnly
  BY <1>7 DEF ConnNext
<1>8. CASE OnAcceptReturns
  BY <1>8 DEF OnAcceptReturns, ConnNext, ServerAround
<1> QED
  BY <1>1, <1>2, <1>3, <1>4, <1>5, <1>6, <1>7, <1>8 DEF Next

\* A step of a started connection neither creates nor accepts one, and stops
\* nothing.  It leaves connection_count_ at zero if it is.
LEMMA SessionStepLemma ==
    ASSUME ConnInv, NEW c \in Conns,
           Handler(c) \/ Completion(c) \/ Application(c) \/ AcceptReturns(c)
    PROVE  /\ stopped' = stopped
           /\ \A d \in Conns : life'[d] = "accepting" <=> life[d] = "accepting"
           /\ connection_count = 0 => connection_count' = 0
<1>1. stopped' = stopped
  BY DEF AcceptReturns, Handler, Completion, Application, OnRead, OnSend, OnTimer, OnReadError, OnReadProgress,
         OnReadMalformed, OnReadRequest, OnPostedWrite, OnSent, OnSendError, OnContinue, OnTimeout,
         OnTimerAborted, ReadCompletes, SendCompletes, TimerExpires, AppSend, AppDestroy, AppPost,
         AppDestructed, sharedVars
<1>2. \/ UNCHANGED <<life, connection_count>>
      \/ \E end \in {"destroyed", "destructing"} : ReleaseTo(c, end)
      \/ AppDestructed(c)
  BY DEF AcceptReturns, Handler, Completion, Application, OnRead, OnSend, OnTimer, OnReadError, OnReadProgress,
         OnReadMalformed, OnReadRequest, OnPostedWrite, OnSent, OnSendError, OnContinue, OnTimeout,
         OnTimerAborted, ReadCompletes, SendCompletes, TimerExpires, AppSend, AppDestroy, AppPost,
         Release, sharedVars
<1>3. life[c] = "started" \/ AppDestructed(c)
  <2>1. \/ \E op \in Ops : pend[c][op] > 0
        \/ \E k \in Requests : writes[c][k] > 0
        \/ \E k \in Requests : hrc[c][k] \in {"held", "posting", "sent", "dying"}
        \/ AppDestructed(c)
    BY DEF AcceptReturns, Handler, Completion, Application, OnRead, OnSend, OnTimer, OnReadError, OnReadProgress,
           OnReadMalformed, OnReadRequest, OnPostedWrite, OnSent, OnSendError, OnContinue, OnTimeout,
           OnTimerAborted, ReadCompletes, SendCompletes, TimerExpires, AppSend, AppDestroy, AppPost,
           Ops, SessionOps, ReadOps, SendOps, WaitOps
  <2> QED
    BY <2>1 DEF ConnInv, SessionInv, LifeInv, Unreferenced
<1>4. CASE AppDestructed(c)
  BY <1>1, <1>4 DEF AppDestructed, sharedVars, ConnInv, ConnTypeOK, ObjectTypeOK
<1>5. CASE life[c] = "started"
  <2>1. connection_count # 0
    <3>1. c \in Existing
      BY <1>5 DEF Existing, Exists
    <3> QED
      BY <3>1, FS_EmptySet DEF ConnInv, Lifetime
  <2>2. \A d \in Conns : life'[d] = "accepting" <=> life[d] = "accepting"
    BY <1>2, <1>5 DEF ReleaseTo, AppDestructed, ConnInv, ConnTypeOK, ObjectTypeOK
  <2> QED
    BY <1>1, <2>1, <2>2
<1> QED
  BY <1>3, <1>4, <1>5

LEMMA ServerInitLemma == Init => ConnInv /\ ServerInv
<1> SUFFICES ASSUME Init PROVE ConnInv /\ ServerInv
  OBVIOUS
<1>1. ConnInv
  BY InitLemma DEF Init
<1>2. TypeOK
  BY <1>1 DEF Init, TypeOK, ConnInv, AcceptStates
<1>3. AcceptInv /\ StopInv /\ ReturnInv
  BY NoConnAssumption DEF Init, ConnInit, StateInit, AcceptInv, StopInv, ReturnInv
<1> QED
  BY <1>1, <1>2, <1>3 DEF ServerInv

\* What the parts of Next that are not steps of a started connection do.
LEMMA ServerNextLemma ==
    ASSUME ConnInv, ServerInv, ConnInv', [Next]_vars
    PROVE  ServerInv'
<1>1. CASE StartAccept
  <2>1. TypeOK'
    BY <1>1 DEF StartAccept, ServerInv, TypeOK, ConnInv, AcceptStates
  <2>2. CASE IsStopped
    <3>1. UNCHANGED connVars /\ accept' = "none" /\ accepting' = NoConn
      BY <1>1, <2>2 DEF StartAccept
    <3> QED
      BY <1>1, <2>1, <2>2, <3>1
         DEF StartAccept, ServerInv, AcceptInv, StopInv, ReturnInv, IsStopped, connVars
  <2>3. CASE ~IsStopped
    <3>1. PICK c \in Conns : Create(c) /\ accepting' = c
      BY <1>1, <2>3 DEF StartAccept
    <3>2. accept' = "pending"
      BY <1>1, <2>3 DEF StartAccept
    <3>3. AcceptInv'
      <4>1. accepting = NoConn
        BY <1>1 DEF StartAccept, ServerInv, AcceptInv
      <4> QED
        BY <3>1, <3>2, <4>1, NoConnAssumption
           DEF Create, ServerInv, AcceptInv, TypeOK, ConnTypeOK, ObjectTypeOK
    <3>4. StopInv' /\ ReturnInv'
      BY <1>1, <3>1, <3>2 DEF StartAccept, Create, ServerInv, StopInv, ReturnInv
    <3> QED
      BY <2>1, <3>3, <3>4 DEF ServerInv
  <2> QED
    BY <2>2, <2>3
<1>2. CASE OnAccept
  <2>1. TypeOK'
    BY <1>2 DEF OnAccept, ServerInv, TypeOK, ConnInv, AcceptStates
  <2>2. accepting \in Conns /\ accepting' = NoConn /\ accept' \in {"starting", "none"}
    BY <1>2 DEF OnAccept, ServerInv, AcceptInv, TypeOK
  <2>3. /\ life' \in [Conns -> LifeStates]
        /\ life'[accepting] # "accepting"
        /\ \A d \in Conns : d # accepting => life'[d] = life[d]
    BY <1>2, <2>2 DEF OnAccept, Discard, Start, ConnInv, ConnTypeOK, ObjectTypeOK, LifeStates
  <2>4. AcceptInv'
    BY <2>2, <2>3, NoConnAssumption DEF ServerInv, AcceptInv
  <2>5. StopInv'
    BY <1>2 DEF OnAccept, Discard, Start, ServerInv, StopInv, sharedVars
  <2>6. ReturnInv'
    BY <1>2 DEF OnAccept, ServerInv, ReturnInv
  <2> QED
    BY <2>1, <2>4, <2>5, <2>6 DEF ServerInv
<1>3. CASE OnSignal
  <2>1. TypeOK'
    BY <1>3 DEF OnSignal, ServerInv, TypeOK, ConnInv, AcceptStates
  <2>2. AcceptInv'
    BY <1>3 DEF OnSignal, ServerInv, AcceptInv
  <2>3. StopInv' /\ ReturnInv'
    BY <1>3 DEF OnSignal, Stop, ServerInv, StopInv, ReturnInv
  <2> QED
    BY <2>1, <2>2, <2>3 DEF ServerInv
<1>4. CASE AcceptCompletes
  BY <1>4 DEF AcceptCompletes, ServerInv, TypeOK, ConnInv, AcceptStates, AcceptInv, StopInv,
              ReturnInv, connVars
<1>5. CASE SignalArrives
  BY <1>5 DEF SignalArrives, ServerInv, TypeOK, ConnInv, AcceptInv, StopInv, ReturnInv, connVars
<1>6. CASE JoinThreads
  BY <1>6 DEF JoinThreads, HasWork, ServerInv, TypeOK, ConnInv, AcceptInv, StopInv, ReturnInv,
              connVars
<1>7. CASE RunReturns
  BY <1>7 DEF RunReturns, HasConnections, ServerInv, TypeOK, ConnInv, AcceptInv, StopInv, ReturnInv,
              connVars
<1>8. ASSUME NEW c \in Conns, Handler(c) \/ Completion(c) \/ Application(c), UNCHANGED serverOnly
      PROVE  ServerInv'
  BY <1>8, SessionStepLemma
     DEF serverOnly, ServerInv, TypeOK, ConnInv, AcceptInv, StopInv, ReturnInv
<1>9. CASE OnAcceptReturns
  BY <1>9, SessionStepLemma
     DEF OnAcceptReturns, serverOnly, ServerInv, TypeOK, ConnInv, AcceptInv, StopInv, ReturnInv
<1>10. CASE UNCHANGED vars
  BY <1>10 DEF vars, serverOnly, ServerInv, TypeOK, ConnInv, AcceptInv, StopInv, ReturnInv, connVars
<1> QED
  BY <1>1, <1>2, <1>3, <1>4, <1>5, <1>6, <1>7, <1>8, <1>9, <1>10 DEF Next, RunHandler

\* The acceptor, the signal handler, Run and the connections keep their
\* invariants together, whatever the clients and the application do.
THEOREM ServerInvariance == Spec => [](ConnInv /\ ServerInv)
<1>1. ConnInv /\ ServerInv /\ [Next]_vars => ConnInv' /\ ServerInv'
  BY NextIsConnNext, NextLemma, ServerNextLemma
<1> QED
  BY <1>1, ServerInitLemma, PTL DEF Spec

\* The server uses its connections as module Connection allows, so all that is
\* proved of ConnSpec holds in the server.
THEOREM ServerRunsConnections == Spec => ConnSpec
<1>1. Init => ConnInit
  BY DEF Init
<1> QED
  BY <1>1, NextIsConnNext, ServerInvariance, PTL DEF Spec, ConnSpec

\* Types of the whole server; connection_count_ never wraps below zero.
THEOREM ServerTypeCorrect == Spec => []TypeOK
<1>1. ServerInv => TypeOK
  BY DEF ServerInv
<1> QED
  BY <1>1, ServerInvariance, PTL

\* No accept error ends the accept loop before the stop.
THEOREM AcceptLoopStaysAlive == Spec => []AcceptLoopAlive
<1>1. ServerInv => AcceptLoopAlive
  BY DEF ServerInv, StopInv, AcceptLoopAlive
<1> QED
  BY <1>1, ServerInvariance, PTL

\* The io_context does not run dry before the stop.
THEOREM ThreadsOutliveServiceCorrect == Spec => []ThreadsOutliveService
<1>1. ServerInv => ThreadsOutliveService
  BY DEF ServerInv, StopInv, ThreadsOutliveService
<1> QED
  BY <1>1, ServerInvariance, PTL

\* Run returns only when no Connection exists and nothing refers to one.
THEOREM CleanReturnCorrect == Spec => []CleanReturn
<1>1. ConnInv /\ ServerInv => CleanReturn
  <2> SUFFICES ASSUME ConnInv, ServerInv, run = "returned", NEW c \in Conns
               PROVE  ~Exists(c) /\ Unreferenced(c)
    BY DEF CleanReturn
  <2>1. Existing = {}
    BY FS_EmptySet DEF ConnInv, Lifetime, ServerInv, ReturnInv
  <2> QED
    BY <2>1 DEF Existing, Exists, ConnInv, Lifetime
<1> QED
  BY <1>1, ServerInvariance, PTL

\* HalfDuplex, for the connections of a server.
THEOREM ServerHalfDuplex == Spec => []HalfDuplex
BY ServerRunsConnections, HalfDuplexCorrect, PTL

\* A server answers each peer as module Session says.
THEOREM ServerImplementsSession == Spec => ImplementsSession
BY ServerRunsConnections, SessionImplemented, PTL

\* No connection of a server outlives its session for the sake of the timer.
THEOREM ServerTimersEnd == Spec => []TimerEndsWithSession
BY ServerRunsConnections, TimerEndsCorrect, PTL

\* A server loses a reply to its stop or to the timeout only.
THEOREM ServerLosesNoReply == Spec => NoReplyLost
BY ServerRunsConnections, NoReplyLostCorrect, PTL
=============================================================================
