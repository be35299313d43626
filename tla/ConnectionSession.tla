------------------------- MODULE ConnectionSession -------------------------
(***************************************************************************)
(* Connection implements Session.  The phase is read off the outstanding   *)
(* operations; whether the socket is open, the timer runs or the object    *)
(* exists makes no difference to the peer's view of the session.           *)
(***************************************************************************)
EXTENDS Connection

Phase(c) ==
    IF life[c] \in {"none", "accepting"} THEN "new"
    ELSE IF Outstanding(c, ReadOps) THEN "receiving"
    ELSE IF Outstanding(c, SendOps) THEN "sending"
    ELSE IF \E k \in Requests : Replying(c, k) THEN "answering"
    ELSE "over"

phaseOf == [c \in Conns |-> Phase(c)]
finalOf == [c \in Conns |-> IF parsed[c] = 0 THEN FALSE ELSE ~keep[c][parsed[c]]]
repliedOf == [c \in Conns |-> {k \in Requests : answered[c][k] > 0}]

Abstract == INSTANCE Session
    WITH phase <- phaseOf, request <- parsed, final <- finalOf, replied <- repliedOf

\* Every behaviour of the connections, whatever the server, the timers, the
\* peers and the threads of the application do, is one of Session: requests are
\* answered one at a time, in order, once, and none follows the final response.
ImplementsSession == Abstract!SessionSpec
=============================================================================
