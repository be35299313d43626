--------------------------- MODULE RequestSender ---------------------------
(***************************************************************************)
(* Http::Client::RequestSender: the thread that runs the handlers of all   *)
(* requests, SendRequest, Stop and the destructor.                         *)
(*                                                                         *)
(* SendRequest tests the stop flag and creates the request later; both may *)
(* happen on any thread, so a stop, and the end of the worker thread, can  *)
(* come in between.                                                        *)
(***************************************************************************)
EXTENDS Request

VARIABLES
    stopped,    \* state_.stopped_
    worker      \* io_context_ and its thread: see WorkerStates

\* "stopping": io_context::stop was called; "joined": the thread has ended;
\* "destroyed": the RequestSender is gone.
WorkerStates == {"running", "stopping", "joined", "destroyed"}

senderVars == <<stopped, worker>>
clientVars == <<requestVars, senderVars>>

ClientTypeOK ==
    /\ RequestTypeOK
    /\ stopped \in BOOLEAN
    /\ worker \in WorkerStates

ClientInit ==
    /\ RequestInit
    /\ stopped = FALSE
    /\ worker = "running"

-----------------------------------------------------------------------------

\* SendRequest as far as the test of the flag.  A refused request is dropped
\* with its handler.
SendRequest(r) ==
    /\ worker # "destroyed"
    /\ call[r] = "none"
    /\ call' = [call EXCEPT ![r] = IF stopped THEN "refused" ELSE "checked"]
    /\ UNCHANGED <<pend, socket, handler, alive, timed_out, calls, senderVars>>

\* Stop by the thread that wins the exchange.
Stop ==
    /\ worker = "running"
    /\ ~stopped
    /\ stopped' = TRUE
    /\ worker' = "stopping"
    /\ UNCHANGED requestVars

\* The thread finishes the handler it is in; Stop's join returns.
Join ==
    /\ worker = "stopping"
    /\ worker' = "joined"
    /\ UNCHANGED <<requestVars, stopped>>

InSendRequest(r) == call[r] \in {"checked", "created", "sent"}

DestroyDropsRequests ==
    /\ worker = "joined"
    /\ \A r \in Reqs : ~InSendRequest(r)
    /\ worker' = "destroyed"
    /\ pend' = [r \in Reqs |-> [op \in Ops |-> 0]]
    /\ alive' = [r \in Reqs |-> FALSE]
    /\ handler' = [r \in Reqs |-> FALSE]
    /\ UNCHANGED <<call, socket, timed_out, stopped, calls>>

\* ~RequestSender, after Stop.  The destructor of io_context_ destroys what is
\* outstanding, and with it the last references to the requests.  The program
\* must not destroy the sender under a call of SendRequest.
Destroy ==
    /\ worker = "joined"
    /\ \A r \in Reqs : ~InSendRequest(r)
    /\ worker' = "destroyed"
    /\ pend' = [r \in Reqs |-> [op \in Ops |-> 0]]
    /\ alive' = [r \in Reqs |-> FALSE]
    /\ handler' = [r \in Reqs |-> FALSE]
    /\ calls' = [r \in Reqs |->
                    IF handler[r] THEN [calls[r] EXCEPT !["nothing"] = @ + 1] ELSE calls[r]]
    /\ UNCHANGED <<call, socket, timed_out, stopped>>

\* A step of a call of SendRequest, on whatever thread.
Caller(r) ==
    /\ Create(r) \/ Send(r) \/ Return(r)
    /\ UNCHANGED senderVars

\* A handler, while the io_context runs.
RunHandler(H) == worker = "running" /\ H /\ UNCHANGED senderVars

\* Bound: what completes after the stop is not observed by anyone.
Completion(r) ==
    /\ worker = "running"
    /\ (\E op \in Steps : StepCompletes(r, op)) \/ TimerExpires(r)
    /\ UNCHANGED senderVars

ClientNext ==
    \/ \E r \in Reqs : SendRequest(r) \/ Caller(r) \/ Completion(r)
    \/ \E r \in Reqs : RunHandler(OnStep(r)) \/ RunHandler(OnTimer(r))
    \/ Stop
    \/ Join
    \/ Destroy

ClientSpec == ClientInit /\ [][ClientNext]_clientVars

\* The worker thread runs queued handlers, timers expire, the resolver gives an
\* answer or an error, and a call of SendRequest goes on.  Peers owe nothing.
ClientFairness ==
    \A r \in Reqs :
        /\ WF_clientVars(Caller(r))
        /\ WF_clientVars(RunHandler(OnStep(r)))
        /\ WF_clientVars(RunHandler(OnTimer(r)))
        /\ WF_clientVars(RunHandler(StepCompletes(r, "resolve")))
        /\ WF_clientVars(RunHandler(TimerExpires(r)))

FairClientSpec == ClientSpec /\ ClientFairness

-----------------------------------------------------------------------------
(* Properties.                                                             *)

\* Once the sender is destroyed every request it accepted has been reported.
AllReported ==
    worker = "destroyed" =>
        \A r \in Reqs : call[r] = "refused" \/ call[r] = "none"
                        \/ calls[r]["response"] + calls[r]["nothing"] = 1

\* Every request is reported after a while, however silent the server, unless
\* the sender is stopped or the timeout came before the socket was opened.
RequestsEnd ==
    \A r \in Reqs :
        call[r] = "sent" ~>
            ~handler[r] \/ stopped \/ timed_out[r] = "early"

\* The timeout ends a request, whatever the request is doing (Request.hpp:66).
TimeoutEndsRequest ==
    \A r \in Reqs : timed_out[r] # "no" ~> ~handler[r] \/ stopped

-----------------------------------------------------------------------------
(* The inductive invariant behind the safety properties.                   *)

DestroyedInv ==
    worker = "destroyed" => \A r \in Reqs : ~InSendRequest(r) /\ ~handler[r]

ClientInv == ClientTypeOK /\ (\A r \in Reqs : RequestInv(r)) /\ DestroyedInv
=============================================================================
