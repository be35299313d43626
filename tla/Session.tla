------------------------------ MODULE Session ------------------------------
(***************************************************************************)
(* What a connection promises: it receives a request, waits for its        *)
(* answer, sends it, and only then, if the connection is kept alive,       *)
(* receives the next one.  It may close at any time.  No object, strand,   *)
(* timer or socket appears here; Connection implements this specification  *)
(* under the mapping of module ConnectionSession.                          *)
(***************************************************************************)
EXTENDS Naturals

CONSTANTS Conns, MaxRequests

VARIABLES
    phase,      \* what each connection is doing
    request,    \* the number of the latest request
    final,      \* the latest request ends the session once answered
    replied     \* the requests that were answered

sessionVars == <<phase, request, final, replied>>

Requests == 1..MaxRequests

Phases == {"new", "receiving", "answering", "sending", "over"}

SessionTypeOK ==
    /\ phase \in [Conns -> Phases]
    /\ request \in [Conns -> 0..MaxRequests]
    /\ final \in [Conns -> BOOLEAN]
    /\ replied \in [Conns -> SUBSET Requests]

SessionInit ==
    /\ phase = [c \in Conns |-> "new"]
    /\ request = [c \in Conns |-> 0]
    /\ final = [c \in Conns |-> FALSE]
    /\ replied = [c \in Conns |-> {}]

Enter(c, from, to) ==
    /\ phase[c] = from
    /\ phase' = [phase EXCEPT ![c] = to]

Open(c) ==
    /\ Enter(c, "new", "receiving")
    /\ UNCHANGED <<request, final, replied>>

\* A request arrives, and the application, or nobody, will answer it.
Receive(c, to) ==
    /\ request[c] < MaxRequests
    /\ request' = [request EXCEPT ![c] = @ + 1]
    /\ Enter(c, "receiving", to)
    /\ \E last \in BOOLEAN : final' = [final EXCEPT ![c] = last]
    /\ UNCHANGED replied

\* A malformed request is answered at once, and is the last.
Reject(c) ==
    /\ request[c] < MaxRequests
    /\ request' = [request EXCEPT ![c] = @ + 1]
    /\ Enter(c, "receiving", "sending")
    /\ final' = [final EXCEPT ![c] = TRUE]
    /\ replied' = [replied EXCEPT ![c] = @ \cup {request[c] + 1}]

Reply(c) ==
    /\ Enter(c, "answering", "sending")
    /\ request[c] \notin replied[c]
    /\ replied' = [replied EXCEPT ![c] = @ \cup {request[c]}]
    /\ UNCHANGED <<request, final>>

KeepAlive(c) ==
    /\ Enter(c, "sending", "receiving")
    /\ ~final[c]
    /\ UNCHANGED <<request, final, replied>>

Close(c) ==
    /\ phase[c] # "over"
    /\ phase' = [phase EXCEPT ![c] = "over"]
    /\ UNCHANGED <<request, final, replied>>

SessionStep(c) ==
    \/ Open(c)
    \/ \E to \in {"answering", "over"} : Receive(c, to)
    \/ Reject(c)
    \/ Reply(c)
    \/ KeepAlive(c)
    \/ Close(c)

SessionNext == \E c \in Conns : SessionStep(c)

SessionSpec == SessionInit /\ [][SessionNext]_sessionVars
=============================================================================
