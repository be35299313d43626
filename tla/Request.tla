------------------------------ MODULE Request ------------------------------
(***************************************************************************)
(* Http::Client::Request: one exchange with a server.  It resolves the     *)
(* address, connects, writes the request and reads the response, one       *)
(* operation after the other, while a timer runs.  There is no strand: all *)
(* handlers run on the one thread of RequestSender, only Send runs on the  *)
(* thread of the caller.                                                   *)
(*                                                                         *)
(* The response handler gets the response when it is complete.  In every   *)
(* other case it gets nothing, from the destructor, which runs when the    *)
(* last operation or the caller lets go of the object.                     *)
(***************************************************************************)
EXTENDS Integers

CONSTANTS
    Reqs,           \* calls of SendRequest
    HasTimeout      \* timeout_ # 0 (60 s unless the caller says otherwise)

ASSUME HasTimeoutAssumption == HasTimeout \in BOOLEAN

\* The steps of an exchange and the timer.  <<op, "begun">> is an initiated
\* asynchronous operation, <<op, "ok">> and <<op, "err">> are its queued handler.
Steps == {"resolve", "connect", "write", "read"}
Results == {"begun", "ok", "err"}
StepOps == Steps \X Results
Ops == (Steps \cup {"wait"}) \X Results

VARIABLES
    call,       \* the call of SendRequest: see CallStates
    pend,       \* pend[r][op]: how many ops of that kind are outstanding
    socket,     \* socket_: "closed" or "open"
    handler,    \* response_handler_ holds a function
    alive,      \* the Request object exists
    timed_out,  \* history: the timer's handler ran, and when
    calls       \* history: what the response handler was called with

requestVars == <<call, pend, socket, handler, alive, timed_out, calls>>

\* "checked": the sender is not stopped; "created": the Request exists and its
\* timer runs; "sent": async_resolve is initiated.
CallStates == {"none", "checked", "created", "sent", "returned", "refused"}

Answers == {"response", "nothing"}

RequestTypeOK ==
    /\ call \in [Reqs -> CallStates]
    /\ pend \in [Reqs -> [Ops -> Nat]]
    /\ socket \in [Reqs -> {"closed", "open"}]
    /\ handler \in [Reqs -> BOOLEAN]
    /\ alive \in [Reqs -> BOOLEAN]
    /\ timed_out \in [Reqs -> {"no", "early", "open"}]
    /\ calls \in [Reqs -> [Answers -> 0..1]]

RequestInit ==
    /\ call = [r \in Reqs |-> "none"]
    /\ pend = [r \in Reqs |-> [op \in Ops |-> 0]]
    /\ socket = [r \in Reqs |-> "closed"]
    /\ handler = [r \in Reqs |-> FALSE]
    /\ alive = [r \in Reqs |-> FALSE]
    /\ timed_out = [r \in Reqs |-> "no"]
    /\ calls = [r \in Reqs |-> [a \in Answers |-> 0]]

-----------------------------------------------------------------------------
(* What the handlers do to the outstanding operations p of a request.      *)

Begin(p, op) == [p EXCEPT ![<<op, "begun">>] = @ + 1]

Finish(p, op, result) == [p EXCEPT ![<<op, result>>] = @ - 1]

Complete(p, op, result) ==
    [p EXCEPT ![<<op, "begun">>] = @ - 1, ![<<op, result>>] = @ + 1]

\* A write or read on a closed socket fails at once.
BeginOn(p, op, s) ==
    IF s = "open" THEN Begin(p, op) ELSE [p EXCEPT ![<<op, "err">>] = @ + 1]

\* All operations op that are not complete fail; handlers already queued stay.
Abort(p, ops) ==
    [o \in Ops |->
        IF o[1] \notin ops THEN p[o]
        ELSE IF o[2] = "begun" THEN 0
        ELSE IF o[2] = "err" THEN p[o] + p[<<o[1], "begun">>]
        ELSE p[o]]

\* The timer's handler after a cancel is <<"wait", "err">>.
CancelTimeoutTimer(p) == Abort(p, {"wait"})

\* socket_.close() knows nothing of the resolver.
CloseSocket(p) == Abort(p, Steps \ {"resolve"})

SetTimeoutTimerForgotten(p) == p

SetTimeoutTimer(p) == IF HasTimeout THEN Begin(p, "wait") ELSE p

SetPend(r, p) == pend' = [pend EXCEPT ![r] = p]

-----------------------------------------------------------------------------
(* Lifetime.                                                               *)

Unreferenced(r) ==
    /\ call[r] \notin {"created", "sent"}
    /\ \A op \in Ops : pend[r][op] = 0

Called(r, answer) == calls' = [calls EXCEPT ![r][answer] = @ + 1]

ReleaseToDestroysNow(r, p) ==
    /\ SetPend(r, p)
    /\ alive' = [alive EXCEPT ![r] = FALSE]
    /\ handler' = [handler EXCEPT ![r] = FALSE]
    /\ IF handler[r] THEN Called(r, "nothing") ELSE UNCHANGED calls

\* The end of every step that drops a reference: ~Request if it was the last.
ReleaseTo(r, p) ==
    /\ SetPend(r, p)
    /\ IF Unreferenced(r)'
       THEN /\ alive' = [alive EXCEPT ![r] = FALSE]
            /\ handler' = [handler EXCEPT ![r] = FALSE]
            /\ IF handler[r] THEN Called(r, "nothing") ELSE UNCHANGED calls
       ELSE UNCHANGED <<alive, handler, calls>>

-----------------------------------------------------------------------------
(* Send, on the caller's thread, in two steps: the timer can expire, and    *)
(* its handler run on the other thread, before the resolver is asked.       *)

\* Request::Create, and Send as far as SetTimeoutTimer.
Create(r) ==
    /\ call[r] = "checked"
    /\ call' = [call EXCEPT ![r] = "created"]
    /\ alive' = [alive EXCEPT ![r] = TRUE]
    /\ handler' = [handler EXCEPT ![r] = TRUE]
    /\ SetPend(r, SetTimeoutTimer(pend[r]))
    /\ UNCHANGED <<socket, timed_out, calls>>

Send(r) ==
    /\ call[r] = "created"
    /\ call' = [call EXCEPT ![r] = "sent"]
    /\ SetPend(r, Begin(pend[r], "resolve"))
    /\ UNCHANGED <<socket, handler, alive, timed_out, calls>>

\* SendRequest returns and lets go of the Request, which may be over already:
\* then its destructor runs here.
Return(r) ==
    /\ call[r] = "sent"
    /\ call' = [call EXCEPT ![r] = "returned"]
    /\ UNCHANGED <<socket, timed_out>>
    /\ ReleaseTo(r, pend[r])

-----------------------------------------------------------------------------
(* Operations completing in the operating system.                          *)

StepCompletes(r, op) ==
    /\ op \in Steps
    /\ pend[r][<<op, "begun">>] > 0
    /\ \E result \in {"ok", "err"} : SetPend(r, Complete(pend[r], op, result))
    /\ UNCHANGED <<call, socket, handler, alive, timed_out, calls>>

TimerExpires(r) ==
    /\ pend[r][<<"wait", "begun">>] > 0
    /\ SetPend(r, Complete(pend[r], "wait", "ok"))
    /\ UNCHANGED <<call, socket, handler, alive, timed_out, calls>>

-----------------------------------------------------------------------------
(* Completion handlers, on the thread of RequestSender.                    *)

Runs(r, op, result) == pend[r][<<op, result>>] > 0

\* DoConnect: async_connect opens the socket.
OnResolved(r) ==
    /\ Runs(r, "resolve", "ok")
    /\ SetPend(r, Begin(Finish(pend[r], "resolve", "ok"), "connect"))
    /\ socket' = [socket EXCEPT ![r] = "open"]
    /\ UNCHANGED <<call, handler, alive, timed_out, calls>>

OnConnectedReadsToo(r) ==
    /\ Runs(r, "connect", "ok")
    /\ SetPend(r, BeginOn(BeginOn(Finish(pend[r], "connect", "ok"), "write", socket[r]),
                          "read", socket[r]))
    /\ UNCHANGED <<call, socket, handler, alive, timed_out, calls>>

\* DoWrite.
OnConnected(r) ==
    /\ Runs(r, "connect", "ok")
    /\ SetPend(r, BeginOn(Finish(pend[r], "connect", "ok"), "write", socket[r]))
    /\ UNCHANGED <<call, socket, handler, alive, timed_out, calls>>

\* DoRead.
OnWritten(r) ==
    /\ Runs(r, "write", "ok")
    /\ SetPend(r, BeginOn(Finish(pend[r], "write", "ok"), "read", socket[r]))
    /\ UNCHANGED <<call, socket, handler, alive, timed_out, calls>>

OnErrorKeepsTimer(r, op) ==
    /\ op \in Steps
    /\ Runs(r, op, "err")
    /\ UNCHANGED <<call, socket, timed_out>>
    /\ ReleaseTo(r, Finish(pend[r], op, "err"))

\* Every handler does the same with an error.
OnError(r, op) ==
    /\ op \in Steps
    /\ Runs(r, op, "err")
    /\ UNCHANGED <<call, socket, timed_out>>
    /\ ReleaseTo(r, CancelTimeoutTimer(Finish(pend[r], op, "err")))

\* The response is not complete yet: read on.
OnReadProgress(r) ==
    /\ Runs(r, "read", "ok")
    /\ SetPend(r, BeginOn(Finish(pend[r], "read", "ok"), "read", socket[r]))
    /\ UNCHANGED <<call, socket, handler, alive, timed_out, calls>>

\* The parser refuses the response.
OnReadBad(r) ==
    /\ Runs(r, "read", "ok")
    /\ UNCHANGED <<call, socket, timed_out>>
    /\ ReleaseTo(r, CancelTimeoutTimer(Finish(pend[r], "read", "ok")))

OnReadResponseKeepsHandler(r) ==
    /\ Runs(r, "read", "ok")
    /\ SetPend(r, CloseSocket(CancelTimeoutTimer(Finish(pend[r], "read", "ok"))))
    /\ Called(r, "response")
    /\ socket' = [socket EXCEPT ![r] = "closed"]
    /\ UNCHANGED <<call, timed_out, handler>>
    /\ alive' = [alive EXCEPT ![r] = ~Unreferenced(r)']

OnReadResponseReadsOn(r) ==
    /\ Runs(r, "read", "ok")
    /\ SetPend(r, BeginOn(Finish(pend[r], "read", "ok"), "read", socket[r]))
    /\ Called(r, "response")
    /\ UNCHANGED <<call, socket, handler, alive, timed_out>>

\* The response is complete.  response_handler_ is reset before the object can
\* be destroyed, so the destructor does not call it again.
OnReadResponse(r) ==
    /\ Runs(r, "read", "ok")
    /\ SetPend(r, CloseSocket(CancelTimeoutTimer(Finish(pend[r], "read", "ok"))))
    /\ Called(r, "response")
    /\ handler' = [handler EXCEPT ![r] = FALSE]
    /\ socket' = [socket EXCEPT ![r] = "closed"]
    /\ UNCHANGED <<call, timed_out>>
    /\ alive' = [alive EXCEPT ![r] = ~Unreferenced(r)']

\* The timer's handler after the timeout.
OnTimeout(r) ==
    /\ Runs(r, "wait", "ok")
    /\ timed_out' = [timed_out EXCEPT ![r] = IF socket[r] = "open" THEN "open" ELSE "early"]
    /\ socket' = [socket EXCEPT ![r] = "closed"]
    /\ UNCHANGED call
    /\ ReleaseTo(r, CloseSocket(Finish(pend[r], "wait", "ok")))

\* The timer's handler after a cancel.
OnTimerAborted(r) ==
    /\ Runs(r, "wait", "err")
    /\ UNCHANGED <<call, socket, timed_out>>
    /\ ReleaseTo(r, Finish(pend[r], "wait", "err"))

OnStep(r) ==
    \/ OnResolved(r)
    \/ OnConnected(r)
    \/ OnWritten(r)
    \/ OnReadProgress(r)
    \/ OnReadBad(r)
    \/ OnReadResponse(r)
    \/ \E op \in Steps : OnError(r, op)

OnTimer(r) == OnTimeout(r) \/ OnTimerAborted(r)

-----------------------------------------------------------------------------
(* Properties.                                                             *)

Outstanding(r, ops) == \E op \in ops, result \in Results : pend[r][<<op, result>>] > 0

\* Without a strand, buffer_, response_parser_ and socket_ are safe only because
\* the exchange has one operation outstanding at a time.
OneStepAtATime ==
    \A r \in Reqs : \A o, p \in StepOps :
        pend[r][o] > 0 /\ pend[r][p] > 0 => o = p /\ pend[r][o] = 1

\* The response handler is called exactly once for every Request that was
\* created: not twice, although two places call it, and not before the object
\* has done with it.  No Request ends in silence.
CalledOnce ==
    \A r \in Reqs :
        LET n == calls[r]["response"] + calls[r]["nothing"] IN
        IF call[r] \in {"none", "checked", "refused"}
        THEN n = 0 /\ ~alive[r]
        ELSE n = IF handler[r] THEN 0 ELSE 1

\* A Request exists exactly as long as something refers to it: the call that
\* created it, or the handler of an operation, whichever of them ends last on
\* whichever thread.  (That it has called its handler then is CalledOnce.)
RequestLifetime ==
    \A r \in Reqs : alive[r] <=> ~Unreferenced(r)

\* When the exchange is over the timer is canceled.  The failure of a request is
\* reported by its destructor, so a timer that is left would hold the report
\* back for the rest of the timeout.
TimerEndsWithRequest ==
    \A r \in Reqs :
        call[r] \in {"sent", "returned"} /\ ~Outstanding(r, Steps) =>
            pend[r][<<"wait", "begun">>] = 0

-----------------------------------------------------------------------------
(* The inductive invariant of one request.  While an operation of the       *)
(* exchange is outstanding the handler is still to be called: this is what   *)
(* makes it safe to call it without a test when the response is complete.    *)

StepInv(r) ==
    \A o \in StepOps : pend[r][o] > 0 =>
        /\ pend[r][o] = 1
        /\ \A p \in StepOps \ {o} : pend[r][p] = 0
        /\ handler[r]
        /\ call[r] \in {"sent", "returned"}

Created(r) == call[r] \in {"created", "sent", "returned"}

CallsInv(r) ==
    /\ ~Created(r) => ~alive[r]
    /\ handler[r] => alive[r]
    /\ call[r] = "created" => handler[r]
    /\ calls[r]["response"] + calls[r]["nothing"] = IF handler[r] \/ ~Created(r) THEN 0 ELSE 1

RequestInv(r) ==
    /\ StepInv(r)
    /\ CallsInv(r)
    /\ alive[r] <=> ~Unreferenced(r)
=============================================================================
