------------------------------- MODULE Server -------------------------------
(***************************************************************************)
(* Http::Server::Server: the acceptor, the signal handler, the threads of  *)
(* io_context::run and Run's wait for the last connection, around the      *)
(* connections of module Connection.                                       *)
(*                                                                         *)
(* The accept and signal handlers share a strand.  The accept handler      *)
(* makes three steps, Connection::Start, StartAccept and its return, which *)
(* drops its reference to the connection, because handlers of the new      *)
(* connection may already run between them on another thread.              *)
(***************************************************************************)
EXTENDS Connection

CONSTANT NoConn     \* no connection is being accepted

ASSUME NoConnAssumption == NoConn \notin Conns

VARIABLES
    accept,     \* the accept operation: see AcceptStates
    accepting,  \* the connection whose socket it will open
    acceptor,   \* acceptor_: "open" or "closed"
    signals,    \* async_wait on signals_: "waiting", "caught", "handled"
    run         \* Server::Run: "threads", "spinning", "returned"

serverOnly == <<accept, accepting, acceptor, signals, run>>
vars == <<connVars, serverOnly>>

\* "starting": StartAccept is to run, first in the constructor and later at the
\* end of the accept handler.  "ok", "failed" and "aborted": the handler is queued.
AcceptStates == {"starting", "pending", "ok", "failed", "aborted", "none"}

TypeOK ==
    /\ ConnTypeOK
    /\ accept \in AcceptStates
    /\ accepting \in Conns \cup {NoConn}
    /\ acceptor \in {"open", "closed"}
    /\ signals \in {"waiting", "caught", "handled"}
    /\ run \in {"threads", "spinning", "returned"}

Init ==
    /\ ConnInit
    /\ accept = "starting"
    /\ accepting = NoConn
    /\ acceptor = "open"
    /\ signals = "waiting"
    /\ run = "threads"

-----------------------------------------------------------------------------
(* The server's strand.                                                    *)

\* The accept handler has called Start and not yet returned.
AcceptHandlerRuns ==
    accept = "starting" \/ \E c \in Conns : pend[c]["accepted"] > 0

StartAccept ==
    /\ run = "threads"
    /\ accept = "starting"
    /\ \/ /\ IsStopped
          /\ accept' = "none"
          /\ accepting' = NoConn
          /\ UNCHANGED connVars
       \/ /\ ~IsStopped
          /\ \E c \in Conns :
                 /\ Create(c)
                 /\ accepting' = c
          /\ accept' = "pending"
    /\ UNCHANGED <<acceptor, signals, run>>

OnAcceptGivesUp ==
    /\ run = "threads"
    /\ ~AcceptHandlerRuns
    /\ \/ /\ accept \in {"aborted", "failed"}
          /\ Discard(accepting)
          /\ accept' = "none"
       \/ /\ accept = "ok"
          /\ Start(accepting, "open")
          /\ accept' = "starting"
    /\ accepting' = NoConn
    /\ UNCHANGED <<acceptor, signals, run>>

\* The accept handler, up to its call of StartAccept.  An error other than
\* operation_aborted is logged and the connection is started all the same.
OnAccept ==
    /\ run = "threads"
    /\ ~AcceptHandlerRuns
    /\ \/ /\ accept = "aborted"
          /\ Discard(accepting)
          /\ accept' = "none"
       \/ /\ accept \in {"ok", "failed"}
          /\ Start(accepting, IF accept = "ok" THEN "open" ELSE "closed")
          /\ accept' = "starting"
    /\ accepting' = NoConn
    /\ UNCHANGED <<acceptor, signals, run>>

\* The end of the accept handler, after its call of StartAccept.
OnAcceptReturns ==
    /\ run = "threads"
    /\ accept # "starting"
    /\ \E c \in Conns : AcceptReturns(c)
    /\ UNCHANGED serverOnly

OnSignalKeepsAccepting ==
    /\ run = "threads"
    /\ signals = "caught"
    /\ ~AcceptHandlerRuns
    /\ Stop
    /\ signals' = "handled"
    /\ UNCHANGED <<connection_count, life, socket, pend, writes, sessionVars,
                   canceled, hrc, delivered, accept, accepting, acceptor, run>>

\* The signal handler.  It waits while the accept handler is between its steps.
OnSignal ==
    /\ run = "threads"
    /\ signals = "caught"
    /\ ~AcceptHandlerRuns
    /\ Stop
    /\ acceptor' = "closed"
    /\ accept' = IF accept = "pending" THEN "aborted" ELSE accept
    /\ signals' = "handled"
    /\ UNCHANGED <<connection_count, life, socket, pend, writes, sessionVars,
                   canceled, hrc, delivered, accepting, run>>

\* A client connects, or the accept fails.  Bound: the last Connection of the
\* model is never given a client, so that one is always left to be accepted.
AcceptCompletes ==
    /\ accept = "pending"
    /\ \E c \in Conns : life[c] = "none"
    /\ accept' \in {"ok", "failed"}
    /\ UNCHANGED <<connVars, accepting, acceptor, signals, run>>

SignalArrives ==
    /\ signals = "waiting"
    /\ signals' = "caught"
    /\ UNCHANGED <<connVars, accept, accepting, acceptor, run>>

-----------------------------------------------------------------------------
(* Server::Run.                                                            *)

\* Work that keeps io_context::run from returning.
ConnectionHasWork(c) ==
    \/ \E op \in Ops : pend[c][op] > 0
    \/ \E k \in Requests : writes[c][k] > 0

HasWork ==
    \/ accept # "none"
    \/ signals # "handled"
    \/ \E c \in Conns : ConnectionHasWork(c)

\* The io_context runs out of work and stops for good; the threads are joined.
JoinThreads ==
    /\ run = "threads"
    /\ ~HasWork
    /\ run' = "spinning"
    /\ UNCHANGED <<connVars, accept, accepting, acceptor, signals>>

\* while (state_.HasConnections());
RunReturns ==
    /\ run = "spinning"
    /\ ~HasConnections
    /\ run' = "returned"
    /\ UNCHANGED <<connVars, accept, accepting, acceptor, signals>>

-----------------------------------------------------------------------------

\* Handlers of connections need a thread of the io_context.
RunHandler(H) == run = "threads" /\ H /\ UNCHANGED serverOnly

Next ==
    \/ StartAccept
    \/ OnAccept
    \/ OnAcceptReturns
    \/ OnSignal
    \/ AcceptCompletes
    \/ SignalArrives
    \/ JoinThreads
    \/ RunReturns
    \/ \E c \in Conns : RunHandler(Handler(c))
    \/ \E c \in Conns : Completion(c) /\ UNCHANGED serverOnly
    \/ \E c \in Conns : Application(c) /\ UNCHANGED serverOnly

Spec == Init /\ [][Next]_vars

\* The io_context threads run every queued handler, the timer expires, a call
\* into the library returns and the application disposes of what it retains.
\* Clients owe nothing: reads, sends, accepts and signals may never come.
Fairness ==
    /\ WF_vars(StartAccept)
    /\ WF_vars(OnAccept)
    /\ WF_vars(OnAcceptReturns)
    /\ WF_vars(OnSignal)
    /\ WF_vars(JoinThreads)
    /\ WF_vars(RunReturns)
    /\ \A c \in Conns :
           /\ WF_vars(RunHandler(OnRead(c)))
           /\ WF_vars(RunHandler(OnSend(c)))
           /\ WF_vars(RunHandler(OnContinue(c)))
           /\ WF_vars(RunHandler(OnTimer(c)))
           /\ WF_vars(TimerExpires(c) /\ UNCHANGED serverOnly)
           /\ \A k \in Requests :
                  /\ WF_vars(RunHandler(OnPostedWrite(c, k)))
                  /\ WF_vars(AppPost(c, k) /\ UNCHANGED serverOnly)
                  /\ WF_vars(AppDestroy(c, k) /\ UNCHANGED serverOnly)
           /\ WF_vars(AppDestructed(c) /\ UNCHANGED serverOnly)

FairSpec == Spec /\ Fairness

-----------------------------------------------------------------------------
(* Safety.                                                                 *)

\* Until the stop the server never loses its accept loop: whatever an accept
\* ends with, another one is outstanding or about to be started.
AcceptLoopAlive == ~stopped => accept # "none"

\* The threads do not run out of work before the stop.  If they did, Run would
\* spin on HasConnections with nobody left to run the signal handler.
ThreadsOutliveService == run # "threads" => stopped

\* When Run returns, and the Server with its State and io_context may be
\* destroyed, no Connection exists, none of their handlers is queued and no
\* thread of the application still holds an HttpRequestConnection.
CleanReturn ==
    run = "returned" =>
        \A c \in Conns : ~Exists(c) /\ Unreferenced(c)

\* A response that Write accepted is in the queue of an io_context that still
\* runs handlers.
AcceptedWriteWillRun ==
    \A c \in Conns, k \in Requests : writes[c][k] > 0 => run = "threads"

(* Liveness, under FairSpec.                                               *)

\* AcceptedWriteWillRun fails for this connection: it will never be released.
Stranded(c) == run # "threads" /\ \E k \in Requests : writes[c][k] > 0

\* A stop, whenever the signal comes, ends with the return of Run, unless a
\* connection is stranded or one without a timer waits for its client.
StopReturns ==
    stopped ~>
        \/ run = "returned"
        \/ \E c \in Conns : Stranded(c) \/ (c \notin TimedConns /\ life[c] = "started")

\* Every started connection that has a timer is destroyed after a while, even if
\* the client goes silent or never reads its response, unless it is stranded.
ConnectionsEnd ==
    \A c \in TimedConns : life[c] = "started" ~> life[c] = "destroyed" \/ Stranded(c)

\* Every request gets its response unless the stop or the timeout comes first.
RequestsAnswered ==
    \A c \in Conns, k \in Requests :
        parsed[c] = k ~> answered[c][k] > 0 \/ stopped \/ canceled[c]

-----------------------------------------------------------------------------
(* The inductive invariant behind the safety properties.                   *)

\* The connection being accepted is the one the accept operation will open.
AcceptInv ==
    /\ \A c \in Conns : life[c] = "accepting" <=> accepting = c
    /\ accepting = NoConn <=> accept \in {"starting", "none"}

\* Only the signal handler stops the server, and only it closes the acceptor.
StopInv ==
    /\ stopped <=> signals = "handled"
    /\ accept \in {"aborted", "none"} => stopped
    /\ run # "threads" => stopped

ReturnInv == run = "returned" => connection_count = 0

ServerInv == TypeOK /\ AcceptInv /\ StopInv /\ ReturnInv
=============================================================================
