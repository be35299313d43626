----------------------------- MODULE Connection -----------------------------
(***************************************************************************)
(* Http::Server::Connection and Http::Server::HttpRequestConnection.       *)
(*                                                                         *)
(* A connection is a state machine driven by completion handlers that its  *)
(* strand runs one at a time: a read handler, a DoWrite posted by Write, a *)
(* send handler, a posted DoContinueSession and a timer handler.  A        *)
(* handler is one action.  The object lives as long as something holds a   *)
(* shared_ptr to it: an initiated operation, a queued handler, or an       *)
(* HttpRequestConnection in the hands of the application, whose threads    *)
(* are not on the strand.  The step that drops the last reference also     *)
(* runs the destructor.                                                    *)
(***************************************************************************)
EXTENDS ServerState, FiniteSets

CONSTANTS
    Conns,          \* Connection objects the model may create
    MaxRequests,    \* bound: requests that arrive on one connection
    HandlerModes,   \* what request_handler_ does with a request, see below
    TimedConns      \* connections with timeout_ # 0 (Server's all have 60 s)

ASSUME ConnectionAssumption ==
    /\ MaxRequests \in Nat \ {0}
    /\ HandlerModes \subseteq {"reply", "retain"}
    /\ TimedConns \subseteq Conns

\* "reply":  Send inside the callback, as Server/src/main.cpp does.
\* "retain": keep the HttpRequestConnection; another thread sends or drops it.

Requests == 1..MaxRequests

\* What may be outstanding on a connection.  Without suffix: an initiated
\* asynchronous operation; with suffix: its handler, queued with that result.
ReadOps == {"read", "read_ok", "read_err", "continue"}
SendOps == {"send", "send_ok", "send_part", "send_err"}
WaitOps == {"wait", "wait_ok", "wait_aborted"}

SessionOps == ReadOps \cup SendOps

\* "accepted": the accept handler that called Start, until it returns.
Ops == SessionOps \cup WaitOps \cup {"accepted"}

VARIABLES
    life,       \* the object: see LifeStates
    socket,     \* "open" or "closed"
    pend,       \* pend[c][op]: how many ops of that kind are outstanding
    writes,     \* writes[c][k]: posted DoWrite calls carrying response k
    can_write,  \* can_write_data_
    canceled,   \* canceled_
    response,   \* response_: whose response the send buffer holds, 0 if none
    parsed,     \* requests parsed so far; the last one has this number
    keep,       \* keep[c][k]: keep_alive_ of request k
    hrc,        \* hrc[c][k]: the HttpRequestConnection of request k
    answered,   \* history: answered[c][k], async_send calls for response k
    delivered   \* history: delivered[c][k], how much of response k went out

sharedVars == <<connection_count, stopped>>
sessionVars == <<can_write, response, parsed, keep, answered>>
connVars == <<connection_count, stopped, life, socket, pend, writes, can_write,
              canceled, response, parsed, keep, hrc, answered, delivered>>

\* "destructing": ~Connection has run, the members are being destroyed.  Seen
\* only when a thread of the application drops the last reference.
LifeStates == {"none", "accepting", "started", "destructing", "destroyed"}

HrcStates == {"none", "held", "posting", "sent", "dying", "gone"}

ObjectTypeOK ==
    /\ life \in [Conns -> LifeStates]
    /\ socket \in [Conns -> {"open", "closed"}]
    /\ pend \in [Conns -> [Ops -> Nat]]
    /\ writes \in [Conns -> [Requests -> Nat]]
    /\ can_write \in [Conns -> BOOLEAN]
    /\ canceled \in [Conns -> BOOLEAN]
    /\ response \in [Conns -> 0..MaxRequests]
    /\ parsed \in [Conns -> 0..MaxRequests]
    /\ keep \in [Conns -> [Requests -> BOOLEAN]]
    /\ hrc \in [Conns -> [Requests -> HrcStates]]
    /\ answered \in [Conns -> [Requests -> Nat]]
    /\ delivered \in [Conns -> [Requests -> {"no", "part", "all"}]]

ConnTypeOK == StateTypeOK /\ ObjectTypeOK

ConnInit ==
    /\ StateInit
    /\ life = [c \in Conns |-> "none"]
    /\ socket = [c \in Conns |-> "closed"]
    /\ pend = [c \in Conns |-> [op \in Ops |-> 0]]
    /\ writes = [c \in Conns |-> [k \in Requests |-> 0]]
    /\ can_write = [c \in Conns |-> FALSE]
    /\ canceled = [c \in Conns |-> FALSE]
    /\ response = [c \in Conns |-> 0]
    /\ parsed = [c \in Conns |-> 0]
    /\ keep = [c \in Conns |-> [k \in Requests |-> FALSE]]
    /\ hrc = [c \in Conns |-> [k \in Requests |-> "none"]]
    /\ answered = [c \in Conns |-> [k \in Requests |-> 0]]
    /\ delivered = [c \in Conns |-> [k \in Requests |-> "no"]]

-----------------------------------------------------------------------------
(* What the handlers do to the outstanding operations p of a connection.   *)

Begin(p, op) == [p EXCEPT ![op] = @ + 1]

Finish(p, op) == [p EXCEPT ![op] = @ - 1]

Complete(p, op, result) == [p EXCEPT ![op] = @ - 1, ![result] = @ + 1]

\* timeout_timer_->cancel(): a handler that is already queued stays queued.
CancelTimeoutTimer(p) ==
    [p EXCEPT !["wait"] = 0, !["wait_aborted"] = @ + p["wait"]]

\* socket_.close() fails the operations that have not completed yet.
CloseSocket(p) ==
    [p EXCEPT !["read"] = 0, !["read_err"] = @ + p["read"],
              !["send"] = 0, !["send_err"] = @ + p["send"]]

SetTimeoutTimerForgotten(c, p) == p

SetTimeoutTimer(c, p) == IF c \in TimedConns THEN Begin(p, "wait") ELSE p

\* An operation started on a closed socket fails at once.
DoRead(p, s) == Begin(p, IF s = "open" THEN "read" ELSE "read_err")

StartSendAndContinue(p, s) ==
    Begin(Begin(p, IF s = "open" THEN "send" ELSE "send_err"), "continue")

StartSend(p, s) == Begin(p, IF s = "open" THEN "send" ELSE "send_err")

SetPend(c, p) == pend' = [pend EXCEPT ![c] = p]

-----------------------------------------------------------------------------
(* Lifetime.                                                               *)

Unreferenced(c) ==
    /\ \A op \in Ops : pend[c][op] = 0
    /\ \A k \in Requests : writes[c][k] = 0
    /\ \A k \in Requests : hrc[c][k] \in {"none", "gone"}

ReleaseEveryTime(c, end) ==
    /\ RemoveConnection
    /\ life' = IF Unreferenced(c)' THEN [life EXCEPT ![c] = end] ELSE life

\* The end of every step that drops a reference: ~Connection if it was the last.
ReleaseTo(c, end) ==
    IF Unreferenced(c)'
    THEN /\ life' = [life EXCEPT ![c] = end]
         /\ RemoveConnection
    ELSE UNCHANGED <<life, connection_count>>

\* A handler drops its reference: the thread that runs it also finishes the
\* destructor before Server::Run can join it.
Release(c) == ReleaseTo(c, "destroyed")

\* Connection::CreateHttpConnection, called by StartAccept.
Create(c) ==
    /\ life[c] = "none"
    /\ life' = [life EXCEPT ![c] = "accepting"]
    /\ AddConnection
    /\ UNCHANGED <<stopped, socket, pend, writes, sessionVars, canceled, hrc,
                   delivered>>

\* The accept handler drops the connection of an accept that was aborted.
Discard(c) ==
    /\ life[c] = "accepting"
    /\ life' = [life EXCEPT ![c] = "destroyed"]
    /\ RemoveConnection
    /\ UNCHANGED <<stopped, socket, pend, writes, sessionVars, canceled, hrc,
                   delivered>>

\* Connection::Start, also called when the accept failed and left no socket.
\* The accept handler that calls it goes on and keeps its reference.
Start(c, s) ==
    /\ life[c] = "accepting"
    /\ life' = [life EXCEPT ![c] = "started"]
    /\ socket' = [socket EXCEPT ![c] = s]
    /\ SetPend(c, DoRead(SetTimeoutTimer(c, Begin(pend[c], "accepted")), s))
    /\ UNCHANGED <<sharedVars, writes, sessionVars, canceled, hrc, delivered>>

\* The accept handler that called Start returns and drops its capture.
AcceptReturns(c) ==
    /\ pend[c]["accepted"] > 0
    /\ SetPend(c, Finish(pend[c], "accepted"))
    /\ UNCHANGED <<stopped, socket, writes, sessionVars, canceled, hrc,
                   delivered>>
    /\ Release(c)

-----------------------------------------------------------------------------
(* Operations completing in the operating system.                          *)

ReadCompletes(c) ==
    /\ pend[c]["read"] > 0
    /\ \E result \in {"read_ok", "read_err"} :
           SetPend(c, Complete(pend[c], "read", result))
    /\ UNCHANGED <<sharedVars, life, socket, writes, sessionVars, canceled, hrc,
                   delivered>>

\* async_send completes once some of the buffer has been sent.
SendCompletes(c) ==
    /\ pend[c]["send"] > 0
    /\ \/ /\ SetPend(c, Complete(pend[c], "send", "send_ok"))
          /\ delivered' = [delivered EXCEPT ![c][response[c]] = "all"]
       \/ /\ SetPend(c, Complete(pend[c], "send", "send_part"))
          /\ delivered' = [delivered EXCEPT ![c][response[c]] = "part"]
       \/ /\ SetPend(c, Complete(pend[c], "send", "send_err"))
          /\ UNCHANGED delivered
    /\ UNCHANGED <<sharedVars, life, socket, writes, sessionVars, canceled, hrc>>

TimerExpires(c) ==
    /\ pend[c]["wait"] > 0
    /\ SetPend(c, Complete(pend[c], "wait", "wait_ok"))
    /\ UNCHANGED <<sharedVars, life, socket, writes, sessionVars, canceled, hrc,
                   delivered>>

-----------------------------------------------------------------------------
(* Completion handlers.  The strand runs them one at a time.               *)

\* DoWrite of response k; p is what remains outstanding of the calling handler
\* and writable the value the compare_exchange finds in can_write_data_.
DoWrite(c, k, p, writable) ==
    /\ can_write' = [can_write EXCEPT ![c] = FALSE]
    /\ IF writable /\ ~IsStopped
       THEN /\ response' = [response EXCEPT ![c] = k]
            /\ answered' = [answered EXCEPT ![c][k] = @ + 1]
            /\ SetPend(c, StartSend(p, socket[c]))
       ELSE /\ SetPend(c, p)
            /\ UNCHANGED <<response, answered>>

\* DoRead's handler with an error: end of stream, reset, or a closed socket.
OnReadError(c) ==
    /\ pend[c]["read_err"] > 0
    /\ SetPend(c, CancelTimeoutTimer(Finish(pend[c], "read_err")))
    /\ UNCHANGED <<stopped, socket, writes, sessionVars, canceled, hrc,
                   delivered>>
    /\ Release(c)

\* DoRead's handler, request still incomplete: read again.
OnReadProgress(c) ==
    /\ pend[c]["read_ok"] > 0
    /\ SetPend(c, DoRead(Finish(pend[c], "read_ok"), socket[c]))
    /\ UNCHANGED <<sharedVars, life, socket, writes, sessionVars, canceled, hrc,
                   delivered>>

OnReadMalformedReadsOn(c) ==
    /\ pend[c]["read_ok"] > 0
    /\ parsed[c] < MaxRequests
    /\ parsed' = [parsed EXCEPT ![c] = @ + 1]
    /\ DoWrite(c, parsed[c] + 1, DoRead(Finish(pend[c], "read_ok"), socket[c]), TRUE)
    /\ UNCHANGED <<stopped, socket, writes, canceled, keep, hrc, delivered>>
    /\ Release(c)

\* DoRead's handler, malformed request: answer 400 without keep-alive.
OnReadMalformed(c) ==
    /\ pend[c]["read_ok"] > 0
    /\ parsed[c] < MaxRequests
    /\ parsed' = [parsed EXCEPT ![c] = @ + 1]
    /\ DoWrite(c, parsed[c] + 1, Finish(pend[c], "read_ok"), TRUE)
    /\ UNCHANGED <<stopped, socket, writes, canceled, keep, hrc, delivered>>
    /\ Release(c)

\* Connection::ConnectionIsAvailable
ConnectionIsAvailable(c) == ~IsStopped /\ ~canceled[c]

\* Connection::Write for a request whose parsing has set can_write_data_.
PostWrite(c, k) == writes' = [writes EXCEPT ![c][k] = @ + 1]

OnReadRequestUnwritable(c, mode, keep_alive) ==
    LET k == parsed[c] + 1 IN
    /\ pend[c]["read_ok"] > 0
    /\ parsed[c] < MaxRequests
    /\ parsed' = [parsed EXCEPT ![c] = k]
    /\ keep' = [keep EXCEPT ![c][k] = keep_alive]
    /\ SetPend(c, Finish(pend[c], "read_ok"))
    /\ hrc' = [hrc EXCEPT ![c][k] = IF mode = "retain" THEN "held" ELSE "gone"]
    /\ UNCHANGED <<stopped, socket, canceled, can_write, response, answered,
                   delivered, writes>>
    /\ Release(c)

\* DoRead's handler, complete request: call request_handler_ with a new
\* HttpRequestConnection.  A callback that replies destroys it on return.
OnReadRequest(c, mode, keep_alive) ==
    LET k == parsed[c] + 1 IN
    /\ pend[c]["read_ok"] > 0
    /\ parsed[c] < MaxRequests
    /\ parsed' = [parsed EXCEPT ![c] = k]
    /\ keep' = [keep EXCEPT ![c][k] = keep_alive]
    /\ can_write' = [can_write EXCEPT ![c] = TRUE]
    /\ SetPend(c, Finish(pend[c], "read_ok"))
    /\ hrc' = [hrc EXCEPT ![c][k] = IF mode = "retain" THEN "held" ELSE "gone"]
    /\ IF mode = "reply" /\ ConnectionIsAvailable(c)
       THEN PostWrite(c, k)
       ELSE UNCHANGED writes
    /\ UNCHANGED <<stopped, socket, canceled, response, answered, delivered>>
    /\ Release(c)

\* The DoWrite that Write posted.
OnPostedWrite(c, k) ==
    /\ writes[c][k] > 0
    /\ writes' = [writes EXCEPT ![c][k] = @ - 1]
    /\ DoWrite(c, k, pend[c], can_write[c])
    /\ UNCHANGED <<stopped, socket, canceled, parsed, keep, hrc, delivered>>
    /\ Release(c)

OnSentAlwaysContinues(c, result) ==
    /\ result \in {"send_ok", "send_part"}
    /\ pend[c][result] > 0
    /\ SetPend(c, Begin(Finish(pend[c], result), "continue"))
    /\ UNCHANGED <<sharedVars, life, socket, writes, sessionVars, canceled, hrc,
                   delivered>>

\* DoWrite's handler without error.  It ignores the number of bytes sent.
OnSent(c, result) ==
    LET p == Finish(pend[c], result) IN
    /\ result \in {"send_ok", "send_part"}
    /\ pend[c][result] > 0
    /\ SetPend(c, IF keep[c][response[c]] THEN Begin(p, "continue")
                                          ELSE CancelTimeoutTimer(p))
    /\ UNCHANGED <<stopped, socket, writes, sessionVars, canceled, hrc,
                   delivered>>
    /\ Release(c)

OnSendErrorKeepsTimer(c) ==
    /\ pend[c]["send_err"] > 0
    /\ SetPend(c, Finish(pend[c], "send_err"))
    /\ UNCHANGED <<stopped, socket, writes, sessionVars, canceled, hrc,
                   delivered>>
    /\ Release(c)

\* DoWrite's handler with an error.
OnSendError(c) ==
    /\ pend[c]["send_err"] > 0
    /\ SetPend(c, CancelTimeoutTimer(Finish(pend[c], "send_err")))
    /\ UNCHANGED <<stopped, socket, writes, sessionVars, canceled, hrc,
                   delivered>>
    /\ Release(c)

\* The handler posted by DoContinueSession.
OnContinue(c) ==
    /\ pend[c]["continue"] > 0
    /\ response' = [response EXCEPT ![c] = 0]
    /\ SetPend(c, DoRead(Finish(pend[c], "continue"), socket[c]))
    /\ UNCHANGED <<sharedVars, life, socket, writes, can_write, parsed, keep,
                   answered, canceled, hrc, delivered>>

\* The timer's handler after the timeout.
OnTimeout(c) ==
    /\ pend[c]["wait_ok"] > 0
    /\ canceled' = [canceled EXCEPT ![c] = TRUE]
    /\ socket' = [socket EXCEPT ![c] = "closed"]
    /\ SetPend(c, CloseSocket(Finish(pend[c], "wait_ok")))
    /\ UNCHANGED <<stopped, writes, sessionVars, hrc, delivered>>
    /\ Release(c)

\* The timer's handler after a cancel.
OnTimerAborted(c) ==
    /\ pend[c]["wait_aborted"] > 0
    /\ SetPend(c, Finish(pend[c], "wait_aborted"))
    /\ UNCHANGED <<stopped, socket, writes, sessionVars, canceled, hrc,
                   delivered>>
    /\ Release(c)

-----------------------------------------------------------------------------
(* A retained HttpRequestConnection, used by a thread of the application.  *)
(* Write tests the flags first and posts later: two steps.                 *)

Writable(c) == can_write[c] /\ ConnectionIsAvailable(c)

SetHrc(c, k, s) == hrc' = [hrc EXCEPT ![c][k] = s]

AppSendTwice(c, k) ==
    /\ hrc[c][k] \in {"held", "sent"}
    /\ SetHrc(c, k, IF Writable(c) THEN "posting" ELSE "sent")
    /\ UNCHANGED <<sharedVars, life, socket, pend, writes, sessionVars,
                   canceled, delivered>>

\* HttpRequestConnection::Send, up to the test in Connection::Write.
AppSend(c, k) ==
    /\ hrc[c][k] = "held"
    /\ SetHrc(c, k, IF Writable(c) THEN "posting" ELSE "sent")
    /\ UNCHANGED <<sharedVars, life, socket, pend, writes, sessionVars,
                   canceled, delivered>>

AppDestroyAlwaysAnswers(c, k) ==
    /\ hrc[c][k] \in {"held", "sent"}
    /\ SetHrc(c, k, IF Writable(c) THEN "dying" ELSE "gone")
    /\ UNCHANGED <<stopped, socket, pend, writes, sessionVars, canceled,
                   delivered>>
    /\ ReleaseTo(c, "destructing")

\* ~HttpRequestConnection: sends a 500 if no response was sent.
AppDestroy(c, k) ==
    /\ hrc[c][k] \in {"held", "sent"}
    /\ SetHrc(c, k, IF hrc[c][k] = "held" /\ Writable(c) THEN "dying" ELSE "gone")
    /\ UNCHANGED <<stopped, socket, pend, writes, sessionVars, canceled,
                   delivered>>
    /\ ReleaseTo(c, "destructing")

\* Destruction of the members of the Connection, on the application's thread.
AppDestructed(c) ==
    /\ life[c] = "destructing"
    /\ life' = [life EXCEPT ![c] = "destroyed"]
    /\ UNCHANGED <<sharedVars, socket, pend, writes, sessionVars, canceled, hrc,
                   delivered>>

\* strand_.post in Connection::Write, and the return from Send.
AppPost(c, k) ==
    /\ hrc[c][k] \in {"posting", "dying"}
    /\ SetHrc(c, k, IF hrc[c][k] = "posting" THEN "sent" ELSE "gone")
    /\ PostWrite(c, k)
    /\ UNCHANGED <<sharedVars, life, socket, pend, sessionVars, canceled,
                   delivered>>

-----------------------------------------------------------------------------
(* Handlers run on a thread of io_context::run, completions come from the  *)
(* system, the rest from the application.                                  *)

OnRead(c) ==
    \/ OnReadError(c)
    \/ OnReadProgress(c)
    \/ OnReadMalformed(c)
    \/ \E mode \in HandlerModes, keep_alive \in BOOLEAN :
           OnReadRequest(c, mode, keep_alive)

OnSend(c) ==
    \/ \E result \in {"send_ok", "send_part"} : OnSent(c, result)
    \/ OnSendError(c)

OnTimer(c) == OnTimeout(c) \/ OnTimerAborted(c)

Handler(c) ==
    \/ OnRead(c)
    \/ \E k \in Requests : OnPostedWrite(c, k)
    \/ OnSend(c)
    \/ OnContinue(c)
    \/ OnTimer(c)

Completion(c) == ReadCompletes(c) \/ SendCompletes(c) \/ TimerExpires(c)

Application(c) ==
    \/ \E k \in Requests : AppSend(c, k) \/ AppDestroy(c, k) \/ AppPost(c, k)
    \/ AppDestructed(c)

\* The server around the connections, as far as they can see it.
ServerAround ==
    \/ /\ Stop
       /\ UNCHANGED <<connection_count, life, socket, pend, writes, sessionVars,
                      canceled, hrc, delivered>>
    \/ \E c \in Conns : \/ Create(c)
                        \/ Discard(c)
                        \/ \E s \in {"open", "closed"} : Start(c, s)
                        \/ AcceptReturns(c)

ConnNext ==
    \/ \E c \in Conns : Handler(c) \/ Completion(c) \/ Application(c)
    \/ ServerAround

ConnSpec == ConnInit /\ [][ConnNext]_connVars

-----------------------------------------------------------------------------
(* Properties.                                                             *)

Outstanding(c, ops) == \E op \in ops : pend[c][op] > 0

\* The application has yet to answer request k.
Unanswered(c, k) == hrc[c][k] \in {"held", "posting", "dying"}

\* An answer to request k is to come or on its way to DoWrite.
Replying(c, k) == Unanswered(c, k) \/ writes[c][k] > 0

\* A connection does one thing at a time: it receives a request, has one
\* request answered, or sends one response.  buffer_, request_parser_ and
\* response_ have no other protection against two handlers using them at once.
HalfDuplex ==
    \A c \in Conns :
        /\ \A op, o \in SessionOps :
               pend[c][op] > 0 /\ pend[c][o] > 0 => op = o /\ pend[c][op] = 1
        /\ \A k \in Requests : Replying(c, k) =>
               /\ ~Outstanding(c, SessionOps)
               /\ k = parsed[c]
               /\ writes[c][k] = IF Unanswered(c, k) THEN 0 ELSE 1

\* async_send reads response_ until it completes: nothing may assign or clear
\* the member while the operation is in progress.
BufferStable ==
    [][\A c \in Conns : pend[c]["send"] > 0 => response'[c] = response[c]]_connVars

\* Whatever a thread of the application does with an HttpRequestConnection,
\* the response it sends answers the latest request, and each request gets at
\* most one response.
AnswersLatestRequest ==
    [][\A c \in Conns, k \in Requests :
           answered'[c][k] # answered[c][k] =>
               k = parsed'[c] /\ answered[c][k] = 0 /\ answered'[c][k] = 1]_connVars

\* A Connection exists as long as anything can still call into it, and no
\* longer, and connection_count_ counts the Connections that exist.
Exists(c) == life[c] \in {"accepting", "started"}

Existing == {c \in Conns : Exists(c)}

Lifetime ==
    /\ \A c \in Conns : life[c] = "started" <=> ~Unreferenced(c)
    /\ connection_count = Cardinality(Existing)

\* Nothing of the session is left to do.
SessionOver(c) ==
    ~Outstanding(c, SessionOps) /\ \A k \in Requests : ~Replying(c, k)

\* When a session ends the timeout is canceled, so that the timer does not keep
\* the socket open for the rest of the 60 seconds.  Only a stop of the server
\* leaves connections to the timer.
TimerEndsWithSession ==
    \A c \in Conns :
        life[c] = "started" /\ SessionOver(c) => pend[c]["wait"] = 0 \/ stopped

\* A reply is lost only to a stop or to the timeout: the first Send on an
\* available connection is accepted, and a response that Write accepted is
\* handed to the socket unless the server stopped in between.
NoReplyLost ==
    [][\A c \in Conns, k \in Requests :
           /\ Unanswered(c, k) /\ ~Unanswered(c, k)' /\ ConnectionIsAvailable(c)
              => writes'[c][k] = writes[c][k] + 1
           /\ writes'[c][k] < writes[c][k] /\ ~stopped
              => answered'[c][k] = answered[c][k] + 1]_connVars

\* No request is read before the previous ones were answered, each once, and
\* none after a response without keep-alive.
EarlierRequestsAnswered ==
    \A c \in Conns, k \in Requests :
        k < parsed[c] => answered[c][k] = 1 /\ keep[c][k]

\* On a connection that is kept alive the next request is read when all of the
\* response has been sent (Connection.hpp:61).
WholeResponseFirst ==
    \A c \in Conns, k \in Requests :
        k < parsed[c] => delivered[c][k] = "all"

\* IsAlive, which an application can ask of an HttpRequestConnection that it has
\* kept, says whether the connection is alive (HttpRequestConnection.hpp:51): not
\* when its session is over and nothing will be read or sent any more.
AliveUntilOver ==
    \A c \in Conns, k \in Requests :
        hrc[c][k] \in {"held", "sent"} /\ ConnectionIsAvailable(c) => ~SessionOver(c)

-----------------------------------------------------------------------------
(* The inductive invariant behind HalfDuplex, EarlierRequestsAnswered and   *)
(* Lifetime.  can_write_data_ is a token: it is set while the latest request *)
(* waits for its answer, and nothing is being read or sent meanwhile.        *)

OneOperation(c) ==
    \A op \in SessionOps : pend[c][op] > 0 =>
        /\ pend[c][op] = 1
        /\ \A o \in SessionOps \ {op} : pend[c][o] = 0
        /\ ~can_write[c]

TokenHeld(c, k) == k = parsed[c] /\ can_write[c]

RequestInv(c, k) ==
    /\ Unanswered(c, k) => TokenHeld(c, k) /\ writes[c][k] = 0
    /\ writes[c][k] > 0 => TokenHeld(c, k) /\ writes[c][k] = 1
    /\ TokenHeld(c, k) => answered[c][k] = 0
    /\ answered[c][k] <= 1
    /\ k < parsed[c] => answered[c][k] = 1 /\ keep[c][k]
    /\ k > parsed[c] => answered[c][k] = 0 /\ hrc[c][k] = "none" /\ ~keep[c][k]
    /\ Outstanding(c, ReadOps) /\ k <= parsed[c] => answered[c][k] = 1 /\ keep[c][k]
    /\ Outstanding(c, SendOps) /\ k = parsed[c] => answered[c][k] = 1

ResponseInv(c) ==
    Outstanding(c, SendOps) => response[c] = parsed[c] /\ parsed[c] # 0

\* Only a started connection is referred to, and it has parsed nothing before.
LifeInv(c) ==
    /\ life[c] = "started" <=> ~Unreferenced(c)
    /\ life[c] \in {"none", "accepting"} => parsed[c] = 0 /\ ~can_write[c]

SessionInv(c) ==
    /\ OneOperation(c)
    /\ \A k \in Requests : RequestInv(c, k)
    /\ ResponseInv(c)
    /\ LifeInv(c)

ConnInv ==
    /\ ConnTypeOK
    /\ \A c \in Conns : SessionInv(c)
    /\ IsFiniteSet(Existing)
    /\ Lifetime
=============================================================================
