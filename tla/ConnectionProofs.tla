-------------------------- MODULE ConnectionProofs --------------------------
(***************************************************************************)
(* ConnInv is an invariant of ConnSpec, for any number of connections and  *)
(* of requests, with and without a timeout, whatever the request handler   *)
(* does.  HalfDuplex, EarlierRequestsAnswered and Lifetime follow, and what*)
(* a connection does for its peer: it implements Session, it answers each  *)
(* request at most once, it loses no reply, it leaves response_ alone while*)
(* it is sent, and its timer ends with the session.                        *)
(***************************************************************************)
EXTENDS ConnectionSession, FiniteSetTheorems, TLAPS

-----------------------------------------------------------------------------
(* The helpers on outstanding operations.                                  *)

Single(p) ==
    \A op \in SessionOps : p[op] > 0 =>
        p[op] = 1 /\ \A o \in SessionOps \ {op} : p[o] = 0

None(p) == \A op \in SessionOps : p[op] = 0

Only(p, op) ==
    /\ p[op] = 1
    /\ \A o \in SessionOps \ {op} : p[o] = 0

LEMMA BeginLemma ==
    ASSUME NEW p \in [Ops -> Nat], NEW op \in Ops
    PROVE  /\ Begin(p, op) \in [Ops -> Nat]
           /\ \A o \in Ops : Begin(p, op)[o] = IF o = op THEN p[o] + 1 ELSE p[o]
BY DEF Begin

LEMMA BeginFirst ==
    ASSUME NEW p \in [Ops -> Nat], NEW op \in SessionOps, None(p)
    PROVE  /\ Begin(p, op) \in [Ops -> Nat]
           /\ Only(Begin(p, op), op)
BY DEF Begin, None, Only, Ops

LEMMA FinishLast ==
    ASSUME NEW p \in [Ops -> Nat], NEW op \in SessionOps, Single(p), p[op] > 0
    PROVE  /\ Finish(p, op) \in [Ops -> Nat]
           /\ None(Finish(p, op))
           /\ Only(p, op)
           /\ \A o \in WaitOps : Finish(p, op)[o] = p[o]
BY DEF Finish, Single, None, Only, Ops, SessionOps, ReadOps, SendOps, WaitOps

LEMMA FinishLemma ==
    ASSUME NEW p \in [Ops -> Nat], NEW op \in Ops, p[op] > 0
    PROVE  /\ Finish(p, op) \in [Ops -> Nat]
           /\ \A o \in Ops : o # op => Finish(p, op)[o] = p[o]
BY DEF Finish

LEMMA CompleteLemma ==
    ASSUME NEW p \in [Ops -> Nat], NEW op \in SessionOps, NEW r \in SessionOps,
           op # r, Single(p), p[op] > 0
    PROVE  /\ Complete(p, op, r) \in [Ops -> Nat]
           /\ Only(Complete(p, op, r), r)
           /\ Only(p, op)
BY DEF Complete, Single, Only, Ops

LEMMA CancelLemma ==
    ASSUME NEW p \in [Ops -> Nat]
    PROVE  /\ CancelTimeoutTimer(p) \in [Ops -> Nat]
           /\ \A o \in SessionOps : CancelTimeoutTimer(p)[o] = p[o]
           /\ None(p) => None(CancelTimeoutTimer(p))
BY DEF CancelTimeoutTimer, None, Ops, SessionOps, ReadOps, SendOps, WaitOps

LEMMA CloseLemma ==
    ASSUME NEW p \in [Ops -> Nat], Single(p)
    PROVE  /\ CloseSocket(p) \in [Ops -> Nat]
           /\ Single(CloseSocket(p))
           /\ (\E o \in ReadOps : CloseSocket(p)[o] > 0) <=> (\E o \in ReadOps : p[o] > 0)
           /\ (\E o \in SendOps : CloseSocket(p)[o] > 0) <=> (\E o \in SendOps : p[o] > 0)
<1> DEFINE q == CloseSocket(p)
<1>1. /\ q \in [Ops -> Nat]
      /\ q["read"] = 0 /\ q["read_err"] = p["read_err"] + p["read"]
      /\ q["send"] = 0 /\ q["send_err"] = p["send_err"] + p["send"]
      /\ \A o \in Ops \ {"read", "read_err", "send", "send_err"} : q[o] = p[o]
  BY DEF CloseSocket, Ops, SessionOps, ReadOps, SendOps, WaitOps
<1> HIDE DEF q
<1>2. (\E o \in ReadOps : q[o] > 0) <=> (\E o \in ReadOps : p[o] > 0)
  BY <1>1 DEF Ops, SessionOps, ReadOps, SendOps
<1>3. (\E o \in SendOps : q[o] > 0) <=> (\E o \in SendOps : p[o] > 0)
  BY <1>1 DEF Ops, SessionOps, ReadOps, SendOps
<1>4. ASSUME NEW op \in SessionOps, q[op] > 0
      PROVE  q[op] = 1 /\ \A o \in SessionOps \ {op} : q[o] = 0
  <2>1. CASE op \in {"read_err", "read"}
    BY <1>1, <1>4, <2>1 DEF Single, Ops, SessionOps, ReadOps, SendOps
  <2>2. CASE op \in {"send_err", "send"}
    BY <1>1, <1>4, <2>2 DEF Single, Ops, SessionOps, ReadOps, SendOps
  <2>3. CASE op \notin {"read", "read_err", "send", "send_err"}
    <3>1. p[op] = 1 /\ q[op] = 1 /\ \A o \in SessionOps \ {op} : p[o] = 0
      BY <1>1, <1>4, <2>3 DEF Single, Ops
    <3>2. p["read"] = 0 /\ p["read_err"] = 0 /\ p["send"] = 0 /\ p["send_err"] = 0
      BY <3>1, <2>3 DEF SessionOps, ReadOps, SendOps
    <3> QED
      BY <1>1, <3>1, <3>2 DEF Ops
  <2> QED
    BY <2>1, <2>2, <2>3
<1> QED
  BY <1>1, <1>2, <1>3, <1>4 DEF Single, q

LEMMA DoReadLemma ==
    ASSUME NEW p \in [Ops -> Nat], None(p), NEW s
    PROVE  /\ DoRead(p, s) \in [Ops -> Nat]
           /\ \E op \in ReadOps : Only(DoRead(p, s), op)
BY BeginFirst DEF DoRead, SessionOps, ReadOps

LEMMA StartSendLemma ==
    ASSUME NEW p \in [Ops -> Nat], None(p), NEW s
    PROVE  /\ StartSend(p, s) \in [Ops -> Nat]
           /\ \E op \in SendOps : Only(StartSend(p, s), op)
BY BeginFirst DEF StartSend, SessionOps, SendOps

-----------------------------------------------------------------------------
(* What one step does: it leaves the other connections alone, keeps        *)
(* connection_count_ in step with the connections that exist, and          *)
(* reestablishes the invariant of its own connection.                      *)

Same(d) ==
    /\ life'[d] = life[d]
    /\ pend'[d] = pend[d]
    /\ writes'[d] = writes[d]
    /\ can_write'[d] = can_write[d]
    /\ response'[d] = response[d]
    /\ parsed'[d] = parsed[d]
    /\ keep'[d] = keep[d]
    /\ hrc'[d] = hrc[d]
    /\ answered'[d] = answered[d]

Counted(c) ==
    \/ Exists(c)' = Exists(c) /\ connection_count' = connection_count
    \/ ~Exists(c) /\ Exists(c)' /\ connection_count' = connection_count + 1
    \/ Exists(c) /\ ~Exists(c)' /\ connection_count' = connection_count - 1

StepOK(c) ==
    /\ ObjectTypeOK'
    /\ stopped' \in BOOLEAN
    /\ SessionInv(c)'
    /\ \A d \in Conns \ {c} : Same(d)
    /\ Counted(c)

LEMMA SameLemma ==
    ASSUME NEW d \in Conns, Same(d), SessionInv(d)
    PROVE  SessionInv(d)' /\ Exists(d)' = Exists(d)
BY DEF Same, SessionInv, OneOperation, RequestInv, ResponseInv, LifeInv, TokenHeld,
       Unanswered, Outstanding, Unreferenced, Exists

LEMMA StepLemma ==
    ASSUME ConnInv, NEW c \in Conns, StepOK(c)
    PROVE  ConnInv'
<1>1. \A d \in Conns \ {c} : Exists(d)' = Exists(d)
  BY SameLemma DEF ConnInv, StepOK
<1>2. \A d \in Conns : SessionInv(d)'
  BY SameLemma DEF ConnInv, StepOK
<1>3. IsFiniteSet(Existing') /\ connection_count' = Cardinality(Existing')
  <2>0. IsFiniteSet(Existing) /\ connection_count = Cardinality(Existing)
    BY DEF ConnInv, Lifetime
  <2>1. CASE Exists(c)' = Exists(c) /\ connection_count' = connection_count
    <3>1. Existing' = Existing
      BY <1>1, <2>1 DEF Existing
    <3> QED
      BY <2>0, <2>1, <3>1
  <2>2. CASE ~Exists(c) /\ Exists(c)' /\ connection_count' = connection_count + 1
    <3>1. Existing' = Existing \cup {c} /\ c \notin Existing
      BY <1>1, <2>2 DEF Existing
    <3> QED
      BY <2>0, <2>2, <3>1, FS_AddElement
  <2>3. CASE Exists(c) /\ ~Exists(c)' /\ connection_count' = connection_count - 1
    <3>1. Existing' = Existing \ {c} /\ c \in Existing
      BY <1>1, <2>3 DEF Existing
    <3> QED
      BY <2>0, <2>3, <3>1, FS_RemoveElement
  <2> QED
    BY <2>1, <2>2, <2>3 DEF StepOK, Counted
<1>4. connection_count' \in Nat
  BY <1>3, FS_CardinalityType
<1> QED
  BY <1>2, <1>3, <1>4 DEF ConnInv, ConnTypeOK, StateTypeOK, StepOK, Lifetime, SessionInv, LifeInv

\* How a step may change the life of a started connection.
LifeStep(c) ==
    /\ life' \in [Conns -> LifeStates]
    /\ life'[c] = "started" <=> ~Unreferenced(c)'
    /\ life'[c] \notin {"none", "accepting"}
    /\ \A d \in Conns \ {c} : life'[d] = life[d]
    /\ Counted(c)

\* The step that drops the last reference runs the destructor.
LEMMA ReleaseLemma ==
    ASSUME ConnInv, NEW c \in Conns, life[c] = "started",
           NEW end \in {"destroyed", "destructing"}, ReleaseTo(c, end)
    PROVE  LifeStep(c)
BY DEF ConnInv, ConnTypeOK, ObjectTypeOK, ReleaseTo, RemoveConnection, LifeStep, Counted,
       Exists, LifeStates

\* A step that leaves something outstanding keeps the connection.
LEMMA KeepLemma ==
    ASSUME ConnInv, NEW c \in Conns, life[c] = "started",
           UNCHANGED <<life, connection_count>>, ~Unreferenced(c)'
    PROVE  LifeStep(c)
BY DEF ConnInv, ConnTypeOK, ObjectTypeOK, LifeStep, Counted, Exists

LEMMA StartedLemma ==
    ASSUME ConnInv, NEW c \in Conns, NEW op \in Ops, pend[c][op] > 0
    PROVE  life[c] = "started"
BY DEF ConnInv, ConnTypeOK, ObjectTypeOK, SessionInv, LifeInv, Unreferenced

LEMMA SingleLemma ==
    ASSUME ConnInv, NEW c \in Conns
    PROVE  pend[c] \in [Ops -> Nat] /\ Single(pend[c])
BY DEF ConnInv, ConnTypeOK, ObjectTypeOK, SessionInv, OneOperation, Single

-----------------------------------------------------------------------------
(* The initial state.                                                      *)

LEMMA InitLemma == ConnInit => ConnInv
<1> SUFFICES ASSUME ConnInit PROVE ConnInv
  OBVIOUS
<1>1. ConnTypeOK
  <2>1. StateTypeOK
    BY DEF ConnInit, StateInit, StateTypeOK
  <2>2. /\ response \in [Conns -> 0..MaxRequests]
        /\ parsed \in [Conns -> 0..MaxRequests]
    BY ConnectionAssumption DEF ConnInit
  <2>3. /\ life \in [Conns -> LifeStates]
        /\ socket \in [Conns -> {"open", "closed"}]
        /\ can_write \in [Conns -> BOOLEAN]
        /\ canceled \in [Conns -> BOOLEAN]
    BY DEF ConnInit, LifeStates
  <2>4. pend \in [Conns -> [Ops -> Nat]]
    BY DEF ConnInit
  <2>5. /\ writes \in [Conns -> [Requests -> Nat]]
        /\ answered \in [Conns -> [Requests -> Nat]]
    BY DEF ConnInit
  <2>6. /\ keep \in [Conns -> [Requests -> BOOLEAN]]
        /\ hrc \in [Conns -> [Requests -> HrcStates]]
        /\ delivered \in [Conns -> [Requests -> {"no", "part", "all"}]]
    BY DEF ConnInit, HrcStates
  <2> QED
    BY <2>1, <2>2, <2>3, <2>4, <2>5, <2>6 DEF ConnTypeOK, ObjectTypeOK
<1>2. \A c \in Conns : SessionInv(c)
  BY DEF ConnInit, SessionInv, OneOperation, RequestInv, ResponseInv, LifeInv, TokenHeld,
         Unanswered, Outstanding, Unreferenced, Ops, SessionOps, Requests
<1>3. Existing = {}
  BY DEF ConnInit, Existing, Exists
<1>4. IsFiniteSet(Existing) /\ Cardinality(Existing) = 0
  BY <1>3, FS_EmptySet
<1>5. connection_count = 0
  BY DEF ConnInit, StateInit
<1>6. \A c \in Conns : life[c] = "started" <=> ~Unreferenced(c)
  BY <1>2 DEF SessionInv, LifeInv
<1> QED
  BY <1>1, <1>2, <1>4, <1>5, <1>6 DEF ConnInv, Lifetime

-----------------------------------------------------------------------------
(* One lemma per action.                                                   *)

\* A step that changes only the life of a connection nothing refers to.
LEMMA UnstartedLemma ==
    ASSUME ConnInv, NEW c \in Conns,
           UNCHANGED <<pend, writes, sessionVars, hrc>>,
           life[c] # "started", life'[c] # "started",
           life'[c] \in {"none", "accepting"} => life[c] \in {"none", "accepting"}
    PROVE  SessionInv(c)'
<1>0. SessionInv(c)
  BY DEF ConnInv
<1>1. OneOperation(c)'
  BY <1>0 DEF SessionInv, OneOperation, sessionVars
<1>2. \A k \in Requests : RequestInv(c, k)'
  BY <1>0 DEF SessionInv, RequestInv, TokenHeld, Unanswered, Outstanding, sessionVars
<1>3. ResponseInv(c)'
  BY <1>0 DEF SessionInv, ResponseInv, Outstanding, sessionVars
<1>4. LifeInv(c)'
  BY <1>0 DEF SessionInv, LifeInv, Unreferenced, sessionVars
<1> QED
  BY <1>1, <1>2, <1>3, <1>4 DEF SessionInv

LEMMA CreateStep ==
    ASSUME ConnInv, NEW c \in Conns, Create(c)
    PROVE  StepOK(c)
<1>1. ObjectTypeOK' /\ stopped' \in BOOLEAN
  BY DEF ConnInv, ConnTypeOK, StateTypeOK, ObjectTypeOK, Create, LifeStates, sessionVars
<1>2. SessionInv(c)'
  BY UnstartedLemma DEF ConnInv, ConnTypeOK, ObjectTypeOK, Create
<1>3. \A d \in Conns \ {c} : Same(d)
  BY DEF ConnInv, ConnTypeOK, ObjectTypeOK, Create, sessionVars, Same
<1>4. Counted(c)
  BY DEF ConnInv, ConnTypeOK, ObjectTypeOK, Create, Counted, Exists, AddConnection
<1> QED
  BY <1>1, <1>2, <1>3, <1>4 DEF StepOK

LEMMA DiscardStep ==
    ASSUME ConnInv, NEW c \in Conns, Discard(c)
    PROVE  StepOK(c)
<1>1. ObjectTypeOK' /\ stopped' \in BOOLEAN
  BY DEF ConnInv, ConnTypeOK, StateTypeOK, ObjectTypeOK, Discard, LifeStates, sessionVars
<1>2. SessionInv(c)'
  BY UnstartedLemma DEF ConnInv, ConnTypeOK, ObjectTypeOK, Discard
<1>3. \A d \in Conns \ {c} : Same(d)
  BY DEF ConnInv, ConnTypeOK, ObjectTypeOK, Discard, sessionVars, Same
<1>4. Counted(c)
  BY DEF ConnInv, ConnTypeOK, ObjectTypeOK, Discard, Counted, Exists, RemoveConnection
<1> QED
  BY <1>1, <1>2, <1>3, <1>4 DEF StepOK

\* A step that only changes what is outstanding.
LEMMA PendStep ==
    ASSUME ConnInv, NEW c \in Conns, LifeStep(c),
           NEW q \in [Ops -> Nat], SetPend(c, q), Single(q),
           (\E o \in ReadOps : q[o] > 0) =>
               \A k \in Requests : k <= parsed[c] => answered[c][k] = 1 /\ keep[c][k],
           (\E o \in SendOps : q[o] > 0) =>
               Outstanding(c, SendOps) /\ response'[c] = response[c],
           (\E o \in SessionOps : q[o] > 0) => Outstanding(c, SessionOps),
           UNCHANGED <<stopped, writes, can_write, parsed, keep, answered, hrc>>,
           response' \in [Conns -> 0..MaxRequests],
           \A d \in Conns \ {c} : response'[d] = response[d],
           canceled' \in [Conns -> BOOLEAN],
           socket' \in [Conns -> {"open", "closed"}],
           delivered' \in [Conns -> [Requests -> {"no", "part", "all"}]]
    PROVE  StepOK(c)
<1>0. pend' = [pend EXCEPT ![c] = q]
  BY DEF SetPend
<1>a. pend'[c] = q
  BY <1>0 DEF ConnInv, ConnTypeOK, ObjectTypeOK
<1>1. ObjectTypeOK' /\ stopped' \in BOOLEAN
  BY <1>0 DEF ConnInv, ConnTypeOK, StateTypeOK, ObjectTypeOK, LifeStep
<1>b. SessionInv(c)
  BY DEF ConnInv
<1>2. SessionInv(c)'
  <2>1. OneOperation(c)'
    BY <1>a, <1>b DEF SessionInv, OneOperation, Single, Outstanding
  <2>2. ASSUME NEW k \in Requests PROVE RequestInv(c, k)'
    BY <1>a, <1>b DEF SessionInv, RequestInv, TokenHeld, Unanswered, Outstanding
  <2>3. ResponseInv(c)'
    BY <1>a, <1>b DEF SessionInv, ResponseInv, Outstanding
  <2>4. LifeInv(c)'
    BY DEF LifeStep, LifeInv
  <2> QED
    BY <2>1, <2>2, <2>3, <2>4 DEF SessionInv
<1>3. \A d \in Conns \ {c} : Same(d)
  BY <1>0 DEF ConnInv, ConnTypeOK, ObjectTypeOK, Same, LifeStep
<1> QED
  BY <1>1, <1>2, <1>3 DEF StepOK, LifeStep

\* Beside its first read, a new connection has an accept handler and a timer.
LEMMA AcceptedLemma ==
    ASSUME ConnInv, NEW c \in Conns, \A o \in Ops : pend[c][o] = 0
    PROVE  LET q == SetTimeoutTimer(c, Begin(pend[c], "accepted")) IN
           /\ q \in [Ops -> Nat] /\ None(q)
           /\ q["wait"] \in {0, 1} /\ q["wait_ok"] = 0 /\ q["wait_aborted"] = 0
<1> DEFINE p == Begin(pend[c], "accepted")
<1>1. /\ p \in [Ops -> Nat]
      /\ \A o \in Ops : o # "accepted" => p[o] = 0
  BY SingleLemma, BeginLemma DEF Ops
<1> HIDE DEF p
<1>2. /\ Begin(p, "wait") \in [Ops -> Nat]
      /\ \A o \in Ops : Begin(p, "wait")[o] = IF o = "wait" THEN p[o] + 1 ELSE p[o]
  BY <1>1, BeginLemma DEF Ops, WaitOps
<1>3. SetTimeoutTimer(c, p) \in {p, Begin(p, "wait")}
  BY DEF SetTimeoutTimer
<1>4. /\ SessionOps \subseteq Ops /\ "wait" \notin SessionOps /\ "accepted" \notin SessionOps
      /\ WaitOps \subseteq Ops /\ "accepted" \notin WaitOps
  BY DEF Ops, SessionOps, ReadOps, SendOps, WaitOps
<1>5. CASE SetTimeoutTimer(c, p) = p
  BY <1>1, <1>4, <1>5 DEF None, WaitOps, p
<1>6. CASE SetTimeoutTimer(c, p) = Begin(p, "wait")
  BY <1>1, <1>2, <1>4, <1>6 DEF None, WaitOps, p
<1> QED
  BY <1>3, <1>5, <1>6

LEMMA StartStep ==
    ASSUME ConnInv, NEW c \in Conns, NEW s \in {"open", "closed"}, Start(c, s)
    PROVE  StepOK(c)
<1>1. \A o \in Ops : pend[c][o] = 0
  BY DEF ConnInv, SessionInv, LifeInv, Unreferenced, Start
<1> DEFINE q == SetTimeoutTimer(c, Begin(pend[c], "accepted"))
<1>2. q \in [Ops -> Nat] /\ None(q)
  BY <1>1, AcceptedLemma
<1>3. /\ pend'[c] \in [Ops -> Nat]
      /\ pend' = [pend EXCEPT ![c] = pend'[c]]
      /\ \E op \in ReadOps : Only(pend'[c], op)
  BY <1>2, DoReadLemma DEF Start, SetPend, ConnInv, ConnTypeOK, ObjectTypeOK
<1>4. ObjectTypeOK' /\ stopped' \in BOOLEAN
  BY <1>3 DEF ConnInv, ConnTypeOK, StateTypeOK, ObjectTypeOK, Start, LifeStates, sessionVars, sharedVars
<1>5. SessionInv(c)'
  <2>0. ~Outstanding(c, SendOps)'
    BY <1>3 DEF Outstanding, Only, SessionOps, ReadOps, SendOps
  <2>1. OneOperation(c)'
    BY <1>3 DEF ConnInv, SessionInv, OneOperation, LifeInv, Start, Only, sessionVars, SessionOps
  <2>2. ASSUME NEW k \in Requests PROVE RequestInv(c, k)'
    BY <1>3, <2>0 DEF ConnInv, SessionInv, RequestInv, TokenHeld, Unanswered, Outstanding, sessionVars,
       Start, LifeInv, Requests
  <2>3. ResponseInv(c)'
    BY <2>0 DEF ResponseInv
  <2>4. LifeInv(c)'
    BY <1>3 DEF ConnInv, ConnTypeOK, ObjectTypeOK, SessionInv, LifeInv, Unreferenced, sessionVars, Start, Only,
       Ops, SessionOps
  <2> QED
    BY <2>1, <2>2, <2>3, <2>4 DEF SessionInv
<1>6. \A d \in Conns \ {c} : Same(d)
  BY <1>3 DEF ConnInv, ConnTypeOK, ObjectTypeOK, sessionVars, Same, Start
<1>7. Counted(c)
  BY DEF Counted, Exists, sharedVars, Start, ConnInv, ConnTypeOK, ObjectTypeOK
<1> QED
  BY <1>4, <1>5, <1>6, <1>7 DEF StepOK

\* What an outstanding operation says of its connection.
LEMMA ReadingLemma ==
    ASSUME ConnInv, NEW c \in Conns, Outstanding(c, ReadOps)
    PROVE  /\ life[c] = "started"
           /\ \A k \in Requests : k <= parsed[c] => answered[c][k] = 1 /\ keep[c][k]
           /\ ~can_write[c]
BY StartedLemma DEF ConnInv, SessionInv, OneOperation, RequestInv, Outstanding, SessionOps, Ops

LEMMA SendingLemma ==
    ASSUME ConnInv, NEW c \in Conns, Outstanding(c, SendOps)
    PROVE  /\ life[c] = "started"
           /\ response[c] = parsed[c] /\ parsed[c] \in Requests
           /\ \A k \in Requests : k <= parsed[c] => answered[c][k] = 1
           /\ \A k \in Requests : k < parsed[c] => keep[c][k]
           /\ ~can_write[c]
<1>1. life[c] = "started"
  BY StartedLemma DEF Outstanding, SessionOps, Ops
<1>2. response[c] = parsed[c] /\ parsed[c] \in Requests
  BY DEF ConnInv, SessionInv, ResponseInv, ConnTypeOK, ObjectTypeOK, Requests
<1>3. \A k \in Requests : k <= parsed[c] => answered[c][k] = 1
  BY <1>2 DEF ConnInv, SessionInv, RequestInv, Requests
<1>4. \A k \in Requests : k < parsed[c] => keep[c][k]
  BY <1>2 DEF ConnInv, SessionInv, RequestInv, Requests
<1>5. ~can_write[c]
  BY DEF ConnInv, SessionInv, OneOperation, Outstanding, SessionOps
<1> QED
  BY <1>1, <1>2, <1>3, <1>4, <1>5

\* The connection reads, or goes on reading, all requests so far answered.
LEMMA ReadsOn ==
    ASSUME ConnInv, NEW c \in Conns, life[c] = "started", Outstanding(c, SessionOps),
           \A k \in Requests : k <= parsed[c] => answered[c][k] = 1 /\ keep[c][k],
           NEW q \in [Ops -> Nat], NEW r \in ReadOps, Only(q, r), SetPend(c, q),
           UNCHANGED <<sharedVars, life, socket, writes, can_write, parsed, keep, answered,
                       canceled, hrc, delivered>>,
           response' \in [Conns -> 0..MaxRequests],
           \A d \in Conns \ {c} : response'[d] = response[d]
    PROVE  StepOK(c)
<1>1. pend'[c] = q
  BY DEF SetPend, ConnInv, ConnTypeOK, ObjectTypeOK
<1>2. ~Unreferenced(c)'
  BY <1>1 DEF Unreferenced, Only, Ops, SessionOps
<1>3. LifeStep(c)
  BY <1>2, KeepLemma DEF sharedVars
<1>4. Single(q) /\ ~(\E o \in SendOps : q[o] > 0)
  BY DEF Only, Single, SessionOps, ReadOps, SendOps
<1> QED
  BY <1>3, <1>4, PendStep DEF sharedVars, ConnInv, ConnTypeOK, ObjectTypeOK

\* A handler ends and the connection with it, if nothing else is outstanding.
LEMMA DropsOne ==
    ASSUME ConnInv, NEW c \in Conns, life[c] = "started",
           NEW q \in [Ops -> Nat], Single(q), SetPend(c, q), Release(c),
           (\E o \in ReadOps : q[o] > 0) => Outstanding(c, ReadOps),
           (\E o \in SendOps : q[o] > 0) => Outstanding(c, SendOps),
           UNCHANGED <<stopped, writes, sessionVars, hrc, delivered>>,
           canceled' \in [Conns -> BOOLEAN],
           socket' \in [Conns -> {"open", "closed"}]
    PROVE  StepOK(c)
<1>1. LifeStep(c)
  BY ReleaseLemma DEF Release
<1>2. (\E o \in ReadOps : q[o] > 0) =>
          \A k \in Requests : k <= parsed[c] => answered[c][k] = 1 /\ keep[c][k]
  BY ReadingLemma
<1>3. (\E o \in SessionOps : q[o] > 0) => Outstanding(c, SessionOps)
  BY DEF Outstanding, SessionOps
<1> QED
  BY <1>1, <1>2, <1>3, PendStep DEF sessionVars, ConnInv, ConnTypeOK, ObjectTypeOK

LEMMA ReadCompletesStep ==
    ASSUME ConnInv, NEW c \in Conns, ReadCompletes(c)
    PROVE  StepOK(c)
<1>1. PICK r \in {"read_ok", "read_err"} : SetPend(c, Complete(pend[c], "read", r))
  BY DEF ReadCompletes
<1>2. /\ Complete(pend[c], "read", r) \in [Ops -> Nat]
      /\ Only(Complete(pend[c], "read", r), r)
  BY SingleLemma, CompleteLemma DEF ReadCompletes, SessionOps, ReadOps
<1>3. Outstanding(c, ReadOps) /\ Outstanding(c, SessionOps)
  BY DEF ReadCompletes, Outstanding, SessionOps, ReadOps
<1>4. r \in ReadOps
  BY DEF ReadOps
<1> QED
  BY <1>1, <1>2, <1>3, <1>4, ReadingLemma, ReadsOn
     DEF ReadCompletes, sessionVars, ConnInv, ConnTypeOK, ObjectTypeOK

LEMMA OnReadProgressStep ==
    ASSUME ConnInv, NEW c \in Conns, OnReadProgress(c)
    PROVE  StepOK(c)
<1>1. /\ Finish(pend[c], "read_ok") \in [Ops -> Nat]
      /\ None(Finish(pend[c], "read_ok"))
  BY SingleLemma, FinishLast DEF OnReadProgress, SessionOps, ReadOps
<1>2. PICK r \in ReadOps :
        /\ DoRead(Finish(pend[c], "read_ok"), socket[c]) \in [Ops -> Nat]
        /\ Only(DoRead(Finish(pend[c], "read_ok"), socket[c]), r)
  BY <1>1, DoReadLemma
<1>3. Outstanding(c, ReadOps) /\ Outstanding(c, SessionOps)
  BY DEF OnReadProgress, Outstanding, SessionOps, ReadOps
<1> QED
  BY <1>2, <1>3, ReadingLemma, ReadsOn
     DEF OnReadProgress, sessionVars, ConnInv, ConnTypeOK, ObjectTypeOK

LEMMA OnContinueStep ==
    ASSUME ConnInv, NEW c \in Conns, OnContinue(c)
    PROVE  StepOK(c)
<1>1. /\ Finish(pend[c], "continue") \in [Ops -> Nat]
      /\ None(Finish(pend[c], "continue"))
  BY SingleLemma, FinishLast DEF OnContinue, SessionOps, ReadOps
<1>2. PICK r \in ReadOps :
        /\ DoRead(Finish(pend[c], "continue"), socket[c]) \in [Ops -> Nat]
        /\ Only(DoRead(Finish(pend[c], "continue"), socket[c]), r)
  BY <1>1, DoReadLemma
<1>3. Outstanding(c, ReadOps) /\ Outstanding(c, SessionOps)
  BY DEF OnContinue, Outstanding, SessionOps, ReadOps
<1>4. /\ response' \in [Conns -> 0..MaxRequests]
      /\ \A d \in Conns \ {c} : response'[d] = response[d]
  BY ConnectionAssumption DEF OnContinue, ConnInv, ConnTypeOK, ObjectTypeOK
<1> QED
  BY <1>2, <1>3, <1>4, ReadingLemma, ReadsOn DEF OnContinue

LEMMA OnReadErrorStep ==
    ASSUME ConnInv, NEW c \in Conns, OnReadError(c)
    PROVE  StepOK(c)
<1> DEFINE f == Finish(pend[c], "read_err")
           q == CancelTimeoutTimer(f)
<1>1. f \in [Ops -> Nat] /\ None(f)
  BY SingleLemma, FinishLast DEF OnReadError, SessionOps, ReadOps
<1>2. q \in [Ops -> Nat] /\ None(q)
  BY <1>1, CancelLemma
<1>3. Outstanding(c, ReadOps)
  BY DEF OnReadError, Outstanding, ReadOps
<1>4. Single(q) /\ \A o \in SessionOps : ~(q[o] > 0)
  BY <1>2 DEF None, Single
<1>5. SetPend(c, q)
  BY DEF OnReadError
<1> HIDE DEF q
<1> QED
  BY <1>2, <1>3, <1>4, <1>5, ReadingLemma, DropsOne
     DEF OnReadError, ConnInv, ConnTypeOK, ObjectTypeOK, SessionOps

LEMMA OnSendErrorStep ==
    ASSUME ConnInv, NEW c \in Conns, OnSendError(c)
    PROVE  StepOK(c)
<1> DEFINE f == Finish(pend[c], "send_err")
           q == CancelTimeoutTimer(f)
<1>1. f \in [Ops -> Nat] /\ None(f)
  BY SingleLemma, FinishLast DEF OnSendError, SessionOps, SendOps
<1>2. q \in [Ops -> Nat] /\ None(q)
  BY <1>1, CancelLemma
<1>3. Outstanding(c, SendOps)
  BY DEF OnSendError, Outstanding, SendOps
<1>4. Single(q) /\ \A o \in SessionOps : ~(q[o] > 0)
  BY <1>2 DEF None, Single
<1>5. SetPend(c, q)
  BY DEF OnSendError
<1> HIDE DEF q
<1> QED
  BY <1>2, <1>3, <1>4, <1>5, SendingLemma, DropsOne
     DEF OnSendError, ConnInv, ConnTypeOK, ObjectTypeOK, SessionOps

LEMMA OnSentStep ==
    ASSUME ConnInv, NEW c \in Conns, NEW result \in {"send_ok", "send_part"}, OnSent(c, result)
    PROVE  StepOK(c)
<1> DEFINE f == Finish(pend[c], result)
<1>1. f \in [Ops -> Nat] /\ None(f)
  BY SingleLemma, FinishLast DEF OnSent, SessionOps, SendOps
<1>2. Outstanding(c, SendOps) /\ Outstanding(c, SessionOps)
  BY DEF OnSent, Outstanding, SessionOps, SendOps
<1>3. CASE keep[c][response[c]]
  <2> DEFINE q == Begin(f, "continue")
  <2>1. q \in [Ops -> Nat] /\ Only(q, "continue") /\ "continue" \in ReadOps
    BY <1>1, BeginFirst DEF SessionOps, ReadOps
  <2>2. SetPend(c, q)
    BY <1>3 DEF OnSent
  <2>3. \A k \in Requests : k <= parsed[c] => answered[c][k] = 1 /\ keep[c][k]
    BY <1>2, <1>3, SendingLemma DEF ConnInv, ConnTypeOK, ObjectTypeOK, Requests
  <2>4. ~Unreferenced(c)'
    BY <2>1, <2>2 DEF SetPend, Unreferenced, Only, Ops, SessionOps, ReadOps, ConnInv, ConnTypeOK,
                      ObjectTypeOK
  <2>5. UNCHANGED <<life, connection_count>>
    BY <2>4 DEF OnSent, Release, ReleaseTo
  <2> HIDE DEF q
  <2> QED
    BY <1>2, <2>1, <2>2, <2>3, <2>5, SendingLemma, ReadsOn
       DEF OnSent, sharedVars, sessionVars, ConnInv, ConnTypeOK, ObjectTypeOK
<1>4. CASE ~keep[c][response[c]]
  <2> DEFINE q == CancelTimeoutTimer(f)
  <2>1. q \in [Ops -> Nat] /\ None(q)
    BY <1>1, CancelLemma
  <2>2. SetPend(c, q)
    BY <1>4 DEF OnSent
  <2>3. Single(q) /\ \A o \in SessionOps : ~(q[o] > 0)
    BY <2>1 DEF None, Single
  <2> HIDE DEF q
  <2> QED
    BY <1>2, <2>1, <2>2, <2>3, SendingLemma, DropsOne
       DEF OnSent, ConnInv, ConnTypeOK, ObjectTypeOK, SessionOps
<1> QED
  BY <1>3, <1>4

LEMMA OnTimerAbortedStep ==
    ASSUME ConnInv, NEW c \in Conns, OnTimerAborted(c)
    PROVE  StepOK(c)
<1> DEFINE q == Finish(pend[c], "wait_aborted")
<1>1. /\ q \in [Ops -> Nat]
      /\ \A o \in SessionOps : q[o] = pend[c][o]
  BY SingleLemma, FinishLemma DEF OnTimerAborted, Ops, SessionOps, ReadOps, SendOps, WaitOps
<1>2. Single(q)
  BY <1>1, SingleLemma DEF Single
<1>3. SetPend(c, q)
  BY DEF OnTimerAborted
<1>4. life[c] = "started"
  BY StartedLemma DEF OnTimerAborted, Ops, WaitOps
<1> HIDE DEF q
<1> QED
  BY <1>1, <1>2, <1>3, <1>4, DropsOne
     DEF OnTimerAborted, Outstanding, ConnInv, ConnTypeOK, ObjectTypeOK, SessionOps

\* The accept handler has no part in the session.
LEMMA AcceptReturnsStep ==
    ASSUME ConnInv, NEW c \in Conns, AcceptReturns(c)
    PROVE  StepOK(c)
<1> DEFINE q == Finish(pend[c], "accepted")
<1>1. /\ q \in [Ops -> Nat]
      /\ \A o \in SessionOps : q[o] = pend[c][o]
  BY SingleLemma, FinishLemma DEF AcceptReturns, Ops, SessionOps, ReadOps, SendOps, WaitOps
<1>2. Single(q)
  BY <1>1, SingleLemma DEF Single
<1>3. SetPend(c, q)
  BY DEF AcceptReturns
<1>4. life[c] = "started"
  BY StartedLemma DEF AcceptReturns, Ops
<1> HIDE DEF q
<1> QED
  BY <1>1, <1>2, <1>3, <1>4, DropsOne
     DEF AcceptReturns, Outstanding, ConnInv, ConnTypeOK, ObjectTypeOK, SessionOps

LEMMA OnTimeoutStep ==
    ASSUME ConnInv, NEW c \in Conns, OnTimeout(c)
    PROVE  StepOK(c)
<1> DEFINE f == Finish(pend[c], "wait_ok")
           q == CloseSocket(f)
<1>1. /\ f \in [Ops -> Nat]
      /\ \A o \in SessionOps : f[o] = pend[c][o]
  BY SingleLemma, FinishLemma DEF OnTimeout, Ops, SessionOps, ReadOps, SendOps, WaitOps
<1>2. Single(f)
  BY <1>1, SingleLemma DEF Single
<1>3. /\ q \in [Ops -> Nat] /\ Single(q)
      /\ (\E o \in ReadOps : q[o] > 0) <=> (\E o \in ReadOps : f[o] > 0)
      /\ (\E o \in SendOps : q[o] > 0) <=> (\E o \in SendOps : f[o] > 0)
  BY <1>1, <1>2, CloseLemma
<1>4. /\ (\E o \in ReadOps : q[o] > 0) => Outstanding(c, ReadOps)
      /\ (\E o \in SendOps : q[o] > 0) => Outstanding(c, SendOps)
  BY <1>1, <1>3 DEF Outstanding, SessionOps
<1>5. SetPend(c, q)
  BY DEF OnTimeout
<1>6. life[c] = "started"
  BY StartedLemma DEF OnTimeout, Ops, WaitOps
<1>7. /\ canceled' \in [Conns -> BOOLEAN]
      /\ socket' \in [Conns -> {"open", "closed"}]
  BY DEF OnTimeout, ConnInv, ConnTypeOK, ObjectTypeOK
<1> HIDE DEF q
<1> QED
  BY <1>3, <1>4, <1>5, <1>6, <1>7, DropsOne DEF OnTimeout

LEMMA TimerExpiresStep ==
    ASSUME ConnInv, NEW c \in Conns, TimerExpires(c)
    PROVE  StepOK(c)
<1> DEFINE q == Complete(pend[c], "wait", "wait_ok")
<1>1. /\ q \in [Ops -> Nat]
      /\ q["wait_ok"] > 0
      /\ \A o \in SessionOps : q[o] = pend[c][o]
  BY SingleLemma DEF TimerExpires, Complete, Ops, SessionOps, ReadOps, SendOps, WaitOps
<1>2. Single(q)
  BY <1>1, SingleLemma DEF Single
<1>3. SetPend(c, q)
  BY DEF TimerExpires
<1>4. life[c] = "started"
  BY StartedLemma DEF TimerExpires, Ops, WaitOps
<1> HIDE DEF q
<1>5. ~Unreferenced(c)'
  BY <1>1, <1>3 DEF SetPend, Unreferenced, Ops, WaitOps, ConnInv, ConnTypeOK, ObjectTypeOK
<1>6. LifeStep(c)
  BY <1>4, <1>5, KeepLemma DEF TimerExpires, sharedVars
<1>7. /\ (\E o \in ReadOps : q[o] > 0) => Outstanding(c, ReadOps)
      /\ (\E o \in SendOps : q[o] > 0) => Outstanding(c, SendOps)
      /\ (\E o \in SessionOps : q[o] > 0) => Outstanding(c, SessionOps)
  BY <1>1 DEF Outstanding, SessionOps
<1> QED
  BY <1>1, <1>2, <1>3, <1>6, <1>7, ReadingLemma, PendStep
     DEF TimerExpires, sharedVars, sessionVars, ConnInv, ConnTypeOK, ObjectTypeOK

LEMMA SendCompletesStep ==
    ASSUME ConnInv, NEW c \in Conns, SendCompletes(c)
    PROVE  StepOK(c)
<1>0. delivered' \in [Conns -> [Requests -> {"no", "part", "all"}]]
  <2>1. delivered \in [Conns -> [Requests -> {"no", "part", "all"}]]
    BY DEF ConnInv, ConnTypeOK, ObjectTypeOK
  <2>2. \/ delivered' = delivered
        \/ \E v \in {"part", "all"} : delivered' = [delivered EXCEPT ![c][response[c]] = v]
    BY DEF SendCompletes
  <2> QED
    BY <2>1, <2>2
<1>1. PICK r \in {"send_ok", "send_part", "send_err"} :
          SetPend(c, Complete(pend[c], "send", r))
  BY DEF SendCompletes
<1> DEFINE q == Complete(pend[c], "send", r)
<1>2. r \in SendOps
  BY DEF SendOps
<1>3. q \in [Ops -> Nat] /\ Only(q, r)
  BY <1>2, SingleLemma, CompleteLemma DEF SendCompletes, SessionOps, SendOps
<1>4. Outstanding(c, SendOps) /\ Outstanding(c, SessionOps)
  BY DEF SendCompletes, Outstanding, SessionOps, SendOps
<1> HIDE DEF q
<1>5. ~Unreferenced(c)'
  BY <1>1, <1>2, <1>3 DEF q, SetPend, Unreferenced, Only, Ops, SessionOps, ConnInv, ConnTypeOK,
                          ObjectTypeOK
<1>6. LifeStep(c)
  BY <1>4, <1>5, SendingLemma, KeepLemma DEF SendCompletes, sharedVars
<1>7. Single(q) /\ ~(\E o \in ReadOps : q[o] > 0)
  BY <1>2, <1>3 DEF Only, Single, SessionOps, ReadOps, SendOps
<1> QED
  BY <1>0, <1>1, <1>3, <1>4, <1>6, <1>7, PendStep
     DEF q, SendCompletes, sharedVars, sessionVars, ConnInv, ConnTypeOK, ObjectTypeOK

LEMMA DoWriteLemma ==
    ASSUME ConnInv, NEW c \in Conns, NEW k \in Requests, NEW writable,
           NEW p \in [Ops -> Nat], None(p), DoWrite(c, k, p, writable)
    PROVE  /\ can_write' = [can_write EXCEPT ![c] = FALSE]
           /\ pend' \in [Conns -> [Ops -> Nat]]
           /\ pend' = [pend EXCEPT ![c] = pend'[c]]
           /\ answered' \in [Conns -> [Requests -> Nat]]
           /\ response' \in [Conns -> 0..MaxRequests]
           /\ \A d \in Conns \ {c} : answered'[d] = answered[d] /\ response'[d] = response[d]
           /\ \A j \in Requests \ {k} : answered'[c][j] = answered[c][j]
           /\ \/ /\ \E op \in SendOps : Only(pend'[c], op)
                 /\ response'[c] = k
                 /\ answered'[c][k] = answered[c][k] + 1
              \/ None(pend'[c]) /\ answered'[c][k] = answered[c][k]
<1>1. /\ pend \in [Conns -> [Ops -> Nat]]
      /\ answered \in [Conns -> [Requests -> Nat]]
      /\ response \in [Conns -> 0..MaxRequests]
  BY DEF ConnInv, ConnTypeOK, ObjectTypeOK
<1>2. can_write' = [can_write EXCEPT ![c] = FALSE]
  BY DEF DoWrite
<1>3. k \in 0..MaxRequests
  BY DEF Requests
<1>4. CASE writable /\ ~IsStopped
  <2> DEFINE q == StartSend(p, socket[c])
  <2>1. q \in [Ops -> Nat] /\ \E op \in SendOps : Only(q, op)
    BY StartSendLemma
  <2>2. /\ response' = [response EXCEPT ![c] = k]
        /\ answered' = [answered EXCEPT ![c][k] = @ + 1]
        /\ pend' = [pend EXCEPT ![c] = q]
    BY <1>4 DEF DoWrite, SetPend
  <2> HIDE DEF q
  <2>3. pend' \in [Conns -> [Ops -> Nat]] /\ pend'[c] = q
    BY <1>1, <2>1, <2>2
  <2> QED
    BY <1>1, <1>2, <1>3, <2>1, <2>2, <2>3
<1>5. CASE ~(writable /\ ~IsStopped)
  <2>1. /\ pend' = [pend EXCEPT ![c] = p]
        /\ response' = response /\ answered' = answered
    BY <1>5 DEF DoWrite, SetPend
  <2>2. pend' \in [Conns -> [Ops -> Nat]] /\ pend'[c] = p
    BY <1>1, <2>1
  <2> QED
    BY <1>1, <1>2, <2>1, <2>2
<1> QED
  BY <1>4, <1>5

\* While the token is there nothing is read or sent.
LEMMA TokenLemma ==
    ASSUME ConnInv, NEW c \in Conns, can_write[c]
    PROVE  pend[c] \in [Ops -> Nat] /\ None(pend[c])
<1>1. pend[c] \in [Ops -> Nat]
  BY SingleLemma
<1>2. OneOperation(c)
  BY DEF ConnInv, SessionInv
<1>3. ASSUME NEW op \in SessionOps PROVE pend[c][op] = 0
  <2>1. ~(pend[c][op] > 0)
    BY <1>2 DEF OneOperation
  <2>2. pend[c][op] \in Nat
    BY <1>1 DEF Ops
  <2> QED
    BY <2>1, <2>2
<1> QED
  BY <1>1, <1>3 DEF None

LEMMA OnPostedWriteStep ==
    ASSUME ConnInv, NEW c \in Conns, NEW k \in Requests, OnPostedWrite(c, k)
    PROVE  StepOK(c)
<1>0. RequestInv(c, k)
  BY DEF ConnInv, SessionInv
<1>1. /\ writes[c][k] = 1 /\ k = parsed[c] /\ can_write[c]
      /\ ~Unanswered(c, k) /\ answered[c][k] = 0
  <2>1. TokenHeld(c, k) /\ writes[c][k] = 1
    BY <1>0 DEF OnPostedWrite, RequestInv
  <2>2. answered[c][k] = 0 /\ ~Unanswered(c, k)
    BY <1>0, <2>1 DEF RequestInv
  <2> QED
    BY <2>1, <2>2 DEF TokenHeld
<1>2. pend[c] \in [Ops -> Nat] /\ None(pend[c])
  BY <1>1, TokenLemma
<1>3. life[c] = "started"
  BY <1>1 DEF ConnInv, SessionInv, LifeInv, Unreferenced
<1>4. LifeStep(c)
  BY <1>3, ReleaseLemma DEF OnPostedWrite, Release
<1>5. /\ can_write' = [can_write EXCEPT ![c] = FALSE]
      /\ pend' \in [Conns -> [Ops -> Nat]]
      /\ pend' = [pend EXCEPT ![c] = pend'[c]]
      /\ answered' \in [Conns -> [Requests -> Nat]]
      /\ response' \in [Conns -> 0..MaxRequests]
      /\ \A d \in Conns \ {c} : answered'[d] = answered[d] /\ response'[d] = response[d]
      /\ \A j \in Requests \ {k} : answered'[c][j] = answered[c][j]
      /\ \/ /\ \E op \in SendOps : Only(pend'[c], op)
            /\ response'[c] = k
            /\ answered'[c][k] = answered[c][k] + 1
         \/ None(pend'[c]) /\ answered'[c][k] = answered[c][k]
  BY <1>2, DoWriteLemma DEF OnPostedWrite
<1>6. /\ writes' = [writes EXCEPT ![c][k] = 0]
      /\ UNCHANGED <<stopped, socket, canceled, parsed, keep, hrc, delivered>>
  BY <1>1 DEF OnPostedWrite, ConnInv, ConnTypeOK, ObjectTypeOK
<1>7. ObjectTypeOK' /\ stopped' \in BOOLEAN
  BY <1>4, <1>5, <1>6 DEF ConnInv, ConnTypeOK, StateTypeOK, ObjectTypeOK, LifeStep
<1>8. SessionInv(c)'
  <2>0. SessionInv(c)
    BY DEF ConnInv
  <2>1. OneOperation(c)' /\ ~Outstanding(c, ReadOps)'
    BY <1>5 DEF OneOperation, Only, None, Outstanding, ConnInv, ConnTypeOK, ObjectTypeOK, SessionOps,
                ReadOps, SendOps
  <2>2. ASSUME NEW j \in Requests PROVE RequestInv(c, j)'
    <3>1. writes'[c][j] = 0 /\ ~Unanswered(c, j)'
      BY <1>1, <1>6, <2>0 DEF SessionInv, RequestInv, TokenHeld, Unanswered, ConnInv, ConnTypeOK,
                              ObjectTypeOK
    <3>2. ~TokenHeld(c, j)'
      BY <1>5 DEF TokenHeld, ConnInv, ConnTypeOK, ObjectTypeOK
    <3>3. Outstanding(c, SendOps)' => answered'[c][k] = 1
      BY <1>1, <1>5 DEF Outstanding, None, SessionOps
    <3>4. answered'[c][k] \in {0, 1}
      BY <1>1, <1>5
    <3>5. RequestInv(c, j)
      BY <2>0 DEF SessionInv
    <3>6. parsed' = parsed /\ keep' = keep /\ hrc' = hrc
      BY <1>6
    <3>7. CASE j = k
      BY <1>1, <2>1, <3>1, <3>2, <3>3, <3>4, <3>6, <3>7 DEF RequestInv, Requests
    <3>8. CASE j # k
      <4>1. answered'[c][j] = answered[c][j]
        BY <1>5, <3>8
      <4> QED
        BY <1>1, <2>1, <3>1, <3>2, <3>5, <3>6, <3>8, <4>1 DEF RequestInv, Requests
    <3> QED
      BY <3>7, <3>8
  <2>3. ResponseInv(c)'
    BY <1>1, <1>5, <1>6 DEF ResponseInv, Outstanding, None, SessionOps, Requests
  <2> QED
    BY <1>4, <2>1, <2>2, <2>3 DEF SessionInv, LifeStep, LifeInv
<1>9. \A d \in Conns \ {c} : Same(d)
  BY <1>4, <1>5, <1>6 DEF ConnInv, ConnTypeOK, ObjectTypeOK, Same, LifeStep
<1> QED
  BY <1>4, <1>7, <1>8, <1>9 DEF StepOK, LifeStep

\* While a request is being read nobody is replying, and all are answered.
LEMMA NewRequestLemma ==
    ASSUME ConnInv, NEW c \in Conns, pend[c]["read_ok"] > 0, parsed[c] < MaxRequests
    PROVE  /\ life[c] = "started"
           /\ Finish(pend[c], "read_ok") \in [Ops -> Nat]
           /\ None(Finish(pend[c], "read_ok"))
           /\ parsed[c] + 1 \in Requests
           /\ \A j \in Requests : writes[c][j] = 0 /\ ~Unanswered(c, j)
           /\ \A j \in Requests : j <= parsed[c] => answered[c][j] = 1 /\ keep[c][j]
           /\ \A j \in Requests : j > parsed[c] =>
                  answered[c][j] = 0 /\ hrc[c][j] = "none" /\ ~keep[c][j]
<1>1. Outstanding(c, ReadOps)
  BY DEF Outstanding, ReadOps
<1>2. /\ life[c] = "started" /\ ~can_write[c]
      /\ \A j \in Requests : j <= parsed[c] => answered[c][j] = 1 /\ keep[c][j]
  BY <1>1, ReadingLemma
<1>3. /\ Finish(pend[c], "read_ok") \in [Ops -> Nat]
      /\ None(Finish(pend[c], "read_ok"))
  BY SingleLemma, FinishLast DEF SessionOps, ReadOps
<1>4. parsed[c] + 1 \in Requests
  BY ConnectionAssumption DEF ConnInv, ConnTypeOK, ObjectTypeOK, Requests
<1>5. ASSUME NEW j \in Requests
      PROVE  /\ writes[c][j] = 0 /\ ~Unanswered(c, j)
             /\ j > parsed[c] => answered[c][j] = 0 /\ hrc[c][j] = "none" /\ ~keep[c][j]
  <2>1. RequestInv(c, j)
    BY DEF ConnInv, SessionInv
  <2>2. ~TokenHeld(c, j)
    BY <1>2 DEF TokenHeld
  <2>3. writes[c][j] \in Nat
    BY DEF ConnInv, ConnTypeOK, ObjectTypeOK
  <2> QED
    BY <2>1, <2>2, <2>3 DEF RequestInv
<1> QED
  BY <1>2, <1>3, <1>4, <1>5

LEMMA OnReadMalformedStep ==
    ASSUME ConnInv, NEW c \in Conns, OnReadMalformed(c)
    PROVE  StepOK(c)
<1> DEFINE k == parsed[c] + 1
           f == Finish(pend[c], "read_ok")
<1>0. pend[c]["read_ok"] > 0 /\ parsed[c] < MaxRequests
  BY DEF OnReadMalformed
<1>1. /\ life[c] = "started"
      /\ f \in [Ops -> Nat] /\ None(f)
      /\ k \in Requests
      /\ \A j \in Requests : writes[c][j] = 0 /\ ~Unanswered(c, j)
      /\ \A j \in Requests : j <= parsed[c] => answered[c][j] = 1 /\ keep[c][j]
      /\ \A j \in Requests : j > parsed[c] =>
             answered[c][j] = 0 /\ hrc[c][j] = "none" /\ ~keep[c][j]
  BY <1>0, NewRequestLemma
<1>2. LifeStep(c)
  BY <1>1, ReleaseLemma DEF OnReadMalformed, Release
<1>3. DoWrite(c, k, f, TRUE)
  BY DEF OnReadMalformed
<1>4. /\ parsed' = [parsed EXCEPT ![c] = k]
      /\ UNCHANGED <<stopped, socket, writes, canceled, keep, hrc, delivered>>
  BY DEF OnReadMalformed
<1> HIDE DEF f
<1>5. /\ can_write' = [can_write EXCEPT ![c] = FALSE]
      /\ pend' \in [Conns -> [Ops -> Nat]]
      /\ pend' = [pend EXCEPT ![c] = pend'[c]]
      /\ answered' \in [Conns -> [Requests -> Nat]]
      /\ response' \in [Conns -> 0..MaxRequests]
      /\ \A d \in Conns \ {c} : answered'[d] = answered[d] /\ response'[d] = response[d]
      /\ \A j \in Requests \ {k} : answered'[c][j] = answered[c][j]
      /\ \/ /\ \E op \in SendOps : Only(pend'[c], op)
            /\ response'[c] = k
            /\ answered'[c][k] = answered[c][k] + 1
         \/ None(pend'[c]) /\ answered'[c][k] = answered[c][k]
  BY <1>1, <1>3, DoWriteLemma
<1>6. parsed'[c] = k /\ parsed' \in [Conns -> 0..MaxRequests] /\ k \in Nat /\ parsed[c] \in Nat
  BY <1>1, <1>4 DEF ConnInv, ConnTypeOK, ObjectTypeOK, Requests
<1>7. ObjectTypeOK' /\ stopped' \in BOOLEAN
  BY <1>2, <1>4, <1>5, <1>6 DEF ConnInv, ConnTypeOK, StateTypeOK, ObjectTypeOK, LifeStep
<1>8. SessionInv(c)'
  <2>0. ~can_write'[c]
    BY <1>5 DEF ConnInv, ConnTypeOK, ObjectTypeOK
  <2>1. OneOperation(c)' /\ ~Outstanding(c, ReadOps)'
    BY <1>5, <2>0 DEF OneOperation, Only, None, Outstanding, SessionOps, ReadOps, SendOps
  <2>2. answered[c][k] = 0 /\ ~keep[c][k]
    BY <1>1, <1>6
  <2>3. Outstanding(c, SendOps)' => answered'[c][k] = 1 /\ response'[c] = k
    BY <1>5, <2>2 DEF Outstanding, None, SessionOps
  <2>4. answered'[c][k] \in {0, 1}
    BY <1>5, <2>2
  <2>5. ASSUME NEW j \in Requests PROVE RequestInv(c, j)'
    <3>1. writes'[c][j] = 0 /\ ~Unanswered(c, j)' /\ ~TokenHeld(c, j)'
      BY <1>1, <1>4, <2>0 DEF Unanswered, TokenHeld
    <3>2. CASE j = k
      BY <1>4, <1>6, <2>1, <2>3, <2>4, <3>1, <3>2, ~(k > k), ~(k < k) DEF RequestInv
    <3>3. CASE j # k
      <4>1. answered'[c][j] = answered[c][j] /\ keep'[c][j] = keep[c][j] /\ hrc'[c][j] = hrc[c][j]
        BY <1>4, <1>5, <3>3
      <4>2. CASE j <= parsed[c]
        <5>1. answered[c][j] = 1 /\ keep[c][j]
          BY <1>1, <4>2
        <5>2. ~(j > k)
          BY <1>6, <4>2 DEF Requests
        <5> QED
          BY <1>6, <2>1, <3>1, <3>3, <4>1, <5>1, <5>2 DEF RequestInv
      <4>3. CASE j > parsed[c]
        <5>1. answered[c][j] = 0 /\ hrc[c][j] = "none" /\ ~keep[c][j]
          BY <1>1, <4>3
        <5>2. ~(j < k)
          BY <1>6, <4>3 DEF Requests
        <5> QED
          BY <1>6, <2>1, <3>1, <3>3, <4>1, <5>1, <5>2 DEF RequestInv
      <4> QED
        BY <1>6, <4>2, <4>3 DEF Requests
    <3> QED
      BY <3>2, <3>3
  <2>6. ResponseInv(c)'
    BY <1>1, <1>6, <2>3 DEF ResponseInv, Requests
  <2> QED
    BY <1>2, <2>1, <2>5, <2>6 DEF SessionInv, LifeStep, LifeInv
<1>9. \A d \in Conns \ {c} : Same(d)
  BY <1>2, <1>4, <1>5 DEF ConnInv, ConnTypeOK, ObjectTypeOK, Same, LifeStep
<1> QED
  BY <1>2, <1>7, <1>8, <1>9 DEF StepOK, LifeStep

LEMMA OnReadRequestStep ==
    ASSUME ConnInv, NEW c \in Conns, NEW mode \in HandlerModes, NEW keep_alive \in BOOLEAN,
           OnReadRequest(c, mode, keep_alive)
    PROVE  StepOK(c)
<1> DEFINE k == parsed[c] + 1
           f == Finish(pend[c], "read_ok")
<1>0. pend[c]["read_ok"] > 0 /\ parsed[c] < MaxRequests
  BY DEF OnReadRequest
<1>1. /\ life[c] = "started"
      /\ f \in [Ops -> Nat] /\ None(f)
      /\ k \in Requests
      /\ \A j \in Requests : writes[c][j] = 0 /\ ~Unanswered(c, j)
      /\ \A j \in Requests : j <= parsed[c] => answered[c][j] = 1 /\ keep[c][j]
      /\ \A j \in Requests : j > parsed[c] =>
             answered[c][j] = 0 /\ hrc[c][j] = "none" /\ ~keep[c][j]
  BY <1>0, NewRequestLemma
<1>2. LifeStep(c)
  BY <1>1, ReleaseLemma DEF OnReadRequest, Release
<1>3. /\ parsed' = [parsed EXCEPT ![c] = k]
      /\ keep' = [keep EXCEPT ![c][k] = keep_alive]
      /\ can_write' = [can_write EXCEPT ![c] = TRUE]
      /\ pend' = [pend EXCEPT ![c] = f]
      /\ UNCHANGED <<stopped, socket, canceled, response, answered, delivered>>
  BY DEF OnReadRequest, SetPend
<1>4. PICK h \in {"held", "gone"} : hrc' = [hrc EXCEPT ![c][k] = h]
  BY DEF OnReadRequest
<1>5. \/ writes' = writes
      \/ h = "gone" /\ writes' = [writes EXCEPT ![c][k] = @ + 1]
  <2>1. CASE mode = "retain"
    BY <2>1 DEF OnReadRequest
  <2>2. CASE mode # "retain"
    <3>1. hrc' = [hrc EXCEPT ![c][k] = "gone"]
      BY <2>2 DEF OnReadRequest
    <3>2. hrc'[c][k] = "gone"
      BY <1>1, <3>1 DEF ConnInv, ConnTypeOK, ObjectTypeOK
    <3>3. h = "gone"
      BY <1>1, <1>4, <3>2 DEF ConnInv, ConnTypeOK, ObjectTypeOK
    <3> QED
      BY <3>3 DEF OnReadRequest, PostWrite
  <2> QED
    BY <2>1, <2>2
<1>6. parsed'[c] = k /\ parsed' \in [Conns -> 0..MaxRequests] /\ k \in Nat /\ parsed[c] \in Nat
  BY <1>1, <1>3 DEF ConnInv, ConnTypeOK, ObjectTypeOK, Requests
<1> HIDE DEF f
<1>7. ObjectTypeOK' /\ stopped' \in BOOLEAN
  <2>1. writes' \in [Conns -> [Requests -> Nat]]
    <3>1. writes \in [Conns -> [Requests -> Nat]]
      BY DEF ConnInv, ConnTypeOK, ObjectTypeOK
    <3>2. writes[c][k] + 1 \in Nat
      BY <1>1, <3>1
    <3> HIDE DEF k
    <3> QED
      BY <1>5, <3>1, <3>2
  <2>2. hrc' \in [Conns -> [Requests -> HrcStates]]
    BY <1>4 DEF ConnInv, ConnTypeOK, ObjectTypeOK, HrcStates
  <2>3. keep' \in [Conns -> [Requests -> BOOLEAN]]
    BY <1>3 DEF ConnInv, ConnTypeOK, ObjectTypeOK
  <2>4. pend' \in [Conns -> [Ops -> Nat]] /\ can_write' \in [Conns -> BOOLEAN]
    BY <1>1, <1>3 DEF ConnInv, ConnTypeOK, ObjectTypeOK
  <2> QED
    BY <1>2, <1>3, <1>6, <2>1, <2>2, <2>3, <2>4
       DEF ConnInv, ConnTypeOK, StateTypeOK, ObjectTypeOK, LifeStep
<1>8. SessionInv(c)'
  <2>0. pend'[c] = f
    BY <1>3 DEF ConnInv, ConnTypeOK, ObjectTypeOK
  <2>1. ~Outstanding(c, ReadOps)' /\ ~Outstanding(c, SendOps)'
    BY <1>1, <2>0 DEF Outstanding, None, SessionOps
  <2>2. OneOperation(c)'
    BY <1>1, <2>0 DEF OneOperation, None
  <2>3. ASSUME NEW j \in Requests PROVE RequestInv(c, j)'
    <3>1. can_write'[c]
      BY <1>3 DEF ConnInv, ConnTypeOK, ObjectTypeOK
    <3>2. CASE j = k
      <4>1. TokenHeld(c, j)' /\ ~(j < parsed'[c]) /\ ~(j > parsed'[c])
        BY <1>6, <3>1, <3>2 DEF TokenHeld
      <4>2. answered'[c][j] = 0
        BY <1>1, <1>3, <1>6, <3>2
      <4>3. hrc'[c][j] = h
        BY <1>4, <3>2 DEF ConnInv, ConnTypeOK, ObjectTypeOK
      <4>4. \/ writes'[c][j] = 0
            \/ h = "gone" /\ writes'[c][j] = 1
        BY <1>1, <1>5, <3>2 DEF ConnInv, ConnTypeOK, ObjectTypeOK
      <4> QED
        BY <2>1, <4>1, <4>2, <4>3, <4>4 DEF RequestInv, Unanswered
    <3>3. CASE j # k
      <4>1. /\ writes'[c][j] = 0
            /\ answered'[c][j] = answered[c][j]
            /\ keep'[c][j] = keep[c][j]
            /\ hrc'[c][j] = hrc[c][j]
        BY <1>1, <1>3, <1>4, <1>5, <3>3 DEF ConnInv, ConnTypeOK, ObjectTypeOK
      <4>2. ~Unanswered(c, j)' /\ ~TokenHeld(c, j)'
        BY <1>1, <1>6, <3>3, <4>1 DEF Unanswered, TokenHeld
      <4>3. CASE j <= parsed[c]
        <5>1. answered[c][j] = 1 /\ keep[c][j]
          BY <1>1, <4>3
        <5>2. ~(j > k)
          BY <1>6, <4>3 DEF Requests
        <5> QED
          BY <1>6, <2>1, <3>3, <4>1, <4>2, <5>1, <5>2 DEF RequestInv
      <4>4. CASE j > parsed[c]
        <5>1. answered[c][j] = 0 /\ hrc[c][j] = "none" /\ ~keep[c][j]
          BY <1>1, <4>4
        <5>2. ~(j < k)
          BY <1>6, <4>4 DEF Requests
        <5> QED
          BY <1>6, <2>1, <3>3, <4>1, <4>2, <5>1, <5>2 DEF RequestInv
      <4> QED
        BY <1>6, <4>3, <4>4 DEF Requests
    <3> QED
      BY <3>2, <3>3
  <2>4. ResponseInv(c)'
    BY <2>1 DEF ResponseInv
  <2> QED
    BY <1>2, <2>2, <2>3, <2>4 DEF SessionInv, LifeStep, LifeInv
<1>9. \A d \in Conns \ {c} : Same(d)
  BY <1>2, <1>3, <1>4, <1>5 DEF ConnInv, ConnTypeOK, ObjectTypeOK, Same, LifeStep
<1> QED
  BY <1>2, <1>7, <1>8, <1>9 DEF StepOK, LifeStep

\* A thread of the application calls Send, drops the HttpRequestConnection or
\* completes the post: hrc and writes of one request change, nothing else.
LEMMA AppStep ==
    ASSUME ConnInv, NEW c \in Conns, NEW k \in Requests, LifeStep(c),
           NEW h \in HrcStates, hrc' = [hrc EXCEPT ![c][k] = h],
           NEW w \in Nat, writes' = [writes EXCEPT ![c][k] = w],
           h = "none" => hrc[c][k] = "none",
           h \in {"held", "posting", "dying"} => Unanswered(c, k) /\ w = 0,
           w > 0 => w = 1 /\ TokenHeld(c, k),
           k > parsed[c] => h = "none",
           UNCHANGED <<stopped, socket, pend, sessionVars, canceled, delivered>>
    PROVE  StepOK(c)
<1>0. /\ hrc'[c][k] = h /\ writes'[c][k] = w
      /\ \A j \in Requests \ {k} : hrc'[c][j] = hrc[c][j] /\ writes'[c][j] = writes[c][j]
  BY DEF ConnInv, ConnTypeOK, ObjectTypeOK
<1>1. SessionInv(c)
  BY DEF ConnInv
<1>2. ObjectTypeOK' /\ stopped' \in BOOLEAN
  <2>1. writes' \in [Conns -> [Requests -> Nat]]
    BY DEF ConnInv, ConnTypeOK, ObjectTypeOK
  <2>2. hrc' \in [Conns -> [Requests -> HrcStates]]
    BY DEF ConnInv, ConnTypeOK, ObjectTypeOK
  <2> QED
    BY <2>1, <2>2 DEF ConnInv, ConnTypeOK, StateTypeOK, ObjectTypeOK, LifeStep, sessionVars
<1>3. SessionInv(c)'
  <2>1. OneOperation(c)' /\ ResponseInv(c)'
    BY <1>1 DEF SessionInv, OneOperation, ResponseInv, Outstanding, sessionVars
  <2>2. ASSUME NEW j \in Requests PROVE RequestInv(c, j)'
    <3>1. RequestInv(c, j)
      BY <1>1 DEF SessionInv
    <3>2. /\ TokenHeld(c, j)' <=> TokenHeld(c, j)
          /\ Outstanding(c, ReadOps)' <=> Outstanding(c, ReadOps)
          /\ Outstanding(c, SendOps)' <=> Outstanding(c, SendOps)
          /\ answered'[c][j] = answered[c][j] /\ keep'[c][j] = keep[c][j]
          /\ parsed'[c] = parsed[c]
      BY DEF TokenHeld, Outstanding, sessionVars
    <3>3. CASE j = k
      BY <1>0, <3>1, <3>2, <3>3 DEF RequestInv, Unanswered
    <3>4. CASE j # k
      BY <1>0, <3>1, <3>2, <3>4 DEF RequestInv, Unanswered
    <3> QED
      BY <3>3, <3>4
  <2> QED
    BY <2>1, <2>2 DEF SessionInv, LifeStep, LifeInv
<1>4. \A d \in Conns \ {c} : Same(d)
  BY DEF ConnInv, ConnTypeOK, ObjectTypeOK, Same, LifeStep, sessionVars
<1> QED
  BY <1>2, <1>3, <1>4 DEF StepOK, LifeStep

LEMMA AppSendStep ==
    ASSUME ConnInv, NEW c \in Conns, NEW k \in Requests, AppSend(c, k)
    PROVE  StepOK(c)
<1>1. PICK h \in {"posting", "sent"} : hrc' = [hrc EXCEPT ![c][k] = h]
  BY DEF AppSend, SetHrc
<1>2. Unanswered(c, k)
  BY DEF AppSend, Unanswered
<1>3. writes[c][k] = 0 /\ ~(k > parsed[c])
  <2>1. RequestInv(c, k)
    BY DEF ConnInv, SessionInv
  <2>2. hrc[c][k] # "none"
    BY DEF AppSend
  <2> QED
    BY <1>2, <2>1, <2>2 DEF RequestInv
<1>4. writes' = [writes EXCEPT ![c][k] = writes[c][k]] /\ writes[c][k] \in Nat
  BY <1>3 DEF AppSend, ConnInv, ConnTypeOK, ObjectTypeOK
<1>5. life[c] = "started" /\ hrc'[c][k] = h
  BY <1>1, <1>2 DEF Unanswered, ConnInv, SessionInv, LifeInv, Unreferenced, ConnTypeOK, ObjectTypeOK
<1>6. ~Unreferenced(c)'
  BY <1>5 DEF Unreferenced
<1>7. LifeStep(c)
  BY <1>5, <1>6, KeepLemma DEF AppSend, sharedVars
<1>8. h \in HrcStates /\ h # "none"
  BY DEF HrcStates
<1>9. UNCHANGED <<stopped, socket, pend, sessionVars, canceled, delivered>>
  BY DEF AppSend, sharedVars
<1>10. ~(writes[c][k] > 0)
  BY <1>3
<1> QED
  BY <1>1, <1>2, <1>3, <1>4, <1>7, <1>8, <1>9, <1>10, AppStep

LEMMA AppDestroyStep ==
    ASSUME ConnInv, NEW c \in Conns, NEW k \in Requests, AppDestroy(c, k)
    PROVE  StepOK(c)
<1>1. \E h \in {"dying", "gone"} :
          hrc' = [hrc EXCEPT ![c][k] = h] /\ (h = "dying" => Unanswered(c, k))
  <2>1. CASE hrc[c][k] = "held" /\ Writable(c)
    BY <2>1 DEF AppDestroy, SetHrc, Unanswered
  <2>2. CASE ~(hrc[c][k] = "held" /\ Writable(c))
    BY <2>2 DEF AppDestroy, SetHrc
  <2> QED
    BY <2>1, <2>2
<1>0. PICK h \in {"dying", "gone"} :
          hrc' = [hrc EXCEPT ![c][k] = h] /\ (h = "dying" => Unanswered(c, k))
  BY <1>1
<1>2. RequestInv(c, k)
  BY DEF ConnInv, SessionInv
<1>3. ~(k > parsed[c])
  BY <1>2 DEF AppDestroy, RequestInv
<1>4. writes' = [writes EXCEPT ![c][k] = writes[c][k]]
  BY DEF AppDestroy, ConnInv, ConnTypeOK, ObjectTypeOK
<1>5. /\ writes[c][k] \in Nat
      /\ writes[c][k] > 0 => writes[c][k] = 1 /\ TokenHeld(c, k)
      /\ h = "dying" => writes[c][k] = 0
  BY <1>0, <1>2 DEF RequestInv, ConnInv, ConnTypeOK, ObjectTypeOK
<1>6. life[c] = "started"
  BY DEF AppDestroy, ConnInv, SessionInv, LifeInv, Unreferenced
<1>7. LifeStep(c)
  BY <1>6, ReleaseLemma DEF AppDestroy
<1>8. h \in HrcStates /\ h # "none"
  BY DEF HrcStates
<1> QED
  BY <1>0, <1>3, <1>4, <1>5, <1>7, <1>8, AppStep DEF AppDestroy

LEMMA AppPostStep ==
    ASSUME ConnInv, NEW c \in Conns, NEW k \in Requests, AppPost(c, k)
    PROVE  StepOK(c)
<1>1. PICK h \in {"sent", "gone"} : hrc' = [hrc EXCEPT ![c][k] = h]
  BY DEF AppPost, SetHrc
<1>2. Unanswered(c, k) /\ hrc[c][k] # "none"
  BY DEF AppPost, Unanswered
<1>3. writes[c][k] = 0 /\ TokenHeld(c, k) /\ ~(k > parsed[c])
  <2>1. RequestInv(c, k)
    BY DEF ConnInv, SessionInv
  <2> QED
    BY <1>2, <2>1 DEF RequestInv
<1>4. writes' = [writes EXCEPT ![c][k] = 1]
  BY <1>3 DEF AppPost, PostWrite, ConnInv, ConnTypeOK, ObjectTypeOK
<1>5. life[c] = "started"
  BY <1>2 DEF Unanswered, ConnInv, SessionInv, LifeInv, Unreferenced
<1>6. writes'[c][k] = 1
  BY <1>4 DEF ConnInv, ConnTypeOK, ObjectTypeOK
<1>7. ~Unreferenced(c)'
  BY <1>6 DEF Unreferenced
<1>8. LifeStep(c)
  BY <1>5, <1>7, KeepLemma DEF AppPost, sharedVars
<1>9. h \in HrcStates /\ h # "none"
  BY DEF HrcStates
<1> QED
  BY <1>1, <1>3, <1>4, <1>8, <1>9, AppStep DEF AppPost, sharedVars

LEMMA AppDestructedStep ==
    ASSUME ConnInv, NEW c \in Conns, AppDestructed(c)
    PROVE  StepOK(c)
<1>1. life' = [life EXCEPT ![c] = "destroyed"] /\ life'[c] = "destroyed"
  BY DEF AppDestructed, ConnInv, ConnTypeOK, ObjectTypeOK
<1>2. ObjectTypeOK' /\ stopped' \in BOOLEAN
  BY <1>1 DEF AppDestructed, ConnInv, ConnTypeOK, StateTypeOK, ObjectTypeOK, LifeStates,
              sessionVars, sharedVars
<1>3. SessionInv(c)'
  BY <1>1, UnstartedLemma DEF AppDestructed
<1>4. \A d \in Conns \ {c} : Same(d)
  BY <1>1 DEF AppDestructed, Same, sessionVars, ConnInv, ConnTypeOK, ObjectTypeOK
<1>5. Counted(c)
  BY <1>1 DEF AppDestructed, Counted, Exists, sharedVars
<1> QED
  BY <1>2, <1>3, <1>4, <1>5 DEF StepOK

-----------------------------------------------------------------------------
(* The invariant.                                                          *)

LEMMA NextLemma == ConnInv /\ [ConnNext]_connVars => ConnInv'
<1> SUFFICES ASSUME ConnInv, [ConnNext]_connVars PROVE ConnInv'
  OBVIOUS
<1>1. ASSUME NEW c \in Conns, Handler(c) PROVE ConnInv'
  <2>1. CASE OnRead(c)
    BY <2>1, OnReadErrorStep, OnReadProgressStep, OnReadMalformedStep, OnReadRequestStep, StepLemma
       DEF OnRead
  <2>2. CASE \E k \in Requests : OnPostedWrite(c, k)
    BY <2>2, OnPostedWriteStep, StepLemma
  <2>3. CASE OnSend(c)
    BY <2>3, OnSentStep, OnSendErrorStep, StepLemma DEF OnSend
  <2>4. CASE OnContinue(c)
    BY <2>4, OnContinueStep, StepLemma
  <2>5. CASE OnTimer(c)
    BY <2>5, OnTimeoutStep, OnTimerAbortedStep, StepLemma DEF OnTimer
  <2> QED
    BY <1>1, <2>1, <2>2, <2>3, <2>4, <2>5 DEF Handler
<1>2. ASSUME NEW c \in Conns, Completion(c) PROVE ConnInv'
  BY <1>2, ReadCompletesStep, SendCompletesStep, TimerExpiresStep, StepLemma DEF Completion
<1>3. ASSUME NEW c \in Conns, Application(c) PROVE ConnInv'
  BY <1>3, AppSendStep, AppDestroyStep, AppPostStep, AppDestructedStep, StepLemma DEF Application
<1>4. CASE ServerAround
  <2>1. ASSUME NEW c \in Conns,
             Create(c) \/ Discard(c) \/ AcceptReturns(c) \/ \E s \in {"open", "closed"} : Start(c, s)
        PROVE  ConnInv'
    BY <2>1, CreateStep, DiscardStep, AcceptReturnsStep, StartStep, StepLemma
  <2>2. CASE /\ Stop
             /\ UNCHANGED <<connection_count, life, socket, pend, writes, sessionVars, canceled,
                            hrc, delivered>>
    <3>1. ConnTypeOK'
      BY <2>2 DEF Stop, ConnInv, ConnTypeOK, StateTypeOK, ObjectTypeOK, sessionVars
    <3>2. Existing' = Existing /\ \A c \in Conns : Unreferenced(c)' = Unreferenced(c)
      BY <2>2 DEF Existing, Exists, Unreferenced
    <3>3. ASSUME NEW c \in Conns PROVE Same(c)
      BY <2>2 DEF Same, sessionVars
    <3>4. \A c \in Conns : SessionInv(c)'
      BY <3>3, SameLemma DEF ConnInv
    <3> QED
      BY <2>2, <3>1, <3>2, <3>4 DEF ConnInv, Lifetime
  <2> QED
    BY <1>4, <2>1, <2>2 DEF ServerAround
<1>5. CASE UNCHANGED connVars
  <2>1. ConnTypeOK'
    BY <1>5 DEF connVars, ConnInv, ConnTypeOK, StateTypeOK, ObjectTypeOK
  <2>2. Existing' = Existing /\ \A c \in Conns : Unreferenced(c)' = Unreferenced(c)
    BY <1>5 DEF connVars, Existing, Exists, Unreferenced
  <2>3. ASSUME NEW c \in Conns PROVE Same(c)
    BY <1>5 DEF connVars, Same
  <2>4. \A c \in Conns : SessionInv(c)'
    BY <2>3, SameLemma DEF ConnInv
  <2> QED
    BY <1>5, <2>1, <2>2, <2>4 DEF connVars, ConnInv, Lifetime
<1> QED
  BY <1>1, <1>2, <1>3, <1>4, <1>5 DEF ConnNext

\* Whatever the server, the clients, the timers and the threads of the
\* application do, in any order, ConnInv holds.
THEOREM Invariance == ConnSpec => []ConnInv
BY InitLemma, NextLemma, PTL DEF ConnSpec

\* Every variable keeps its type; connection_count_ never drops below zero.
THEOREM TypeCorrect == ConnSpec => []ConnTypeOK
<1>1. ConnInv => ConnTypeOK
  BY DEF ConnInv
<1> QED
  BY <1>1, Invariance, PTL

\* A Connection lives exactly as long as something can call into it, and
\* connection_count_ counts the Connections that exist.
THEOREM LifetimeCorrect == ConnSpec => []Lifetime
<1>1. ConnInv => Lifetime
  BY DEF ConnInv
<1> QED
  BY <1>1, Invariance, PTL

\* At any time a connection has one read, one send or one posted continuation
\* outstanding, or the latest request is being answered, and no two of these.
THEOREM HalfDuplexCorrect == ConnSpec => []HalfDuplex
<1>1. ConnInv => HalfDuplex
  <2> SUFFICES ASSUME ConnInv, NEW c \in Conns
               PROVE  /\ \A op, o \in SessionOps :
                             pend[c][op] > 0 /\ pend[c][o] > 0 => op = o /\ pend[c][op] = 1
                      /\ \A k \in Requests : Replying(c, k) =>
                             /\ ~Outstanding(c, SessionOps)
                             /\ k = parsed[c]
                             /\ writes[c][k] = IF Unanswered(c, k) THEN 0 ELSE 1
    BY DEF HalfDuplex
  <2>1. ASSUME NEW op \in SessionOps, NEW o \in SessionOps, pend[c][op] > 0, pend[c][o] > 0
        PROVE  op = o /\ pend[c][op] = 1
    BY <2>1, SingleLemma DEF Single
  <2>2. ASSUME NEW k \in Requests, Replying(c, k)
        PROVE  /\ ~Outstanding(c, SessionOps)
               /\ k = parsed[c]
               /\ writes[c][k] = IF Unanswered(c, k) THEN 0 ELSE 1
    <3>1. RequestInv(c, k)
      BY DEF ConnInv, SessionInv
    <3>2. TokenHeld(c, k)
      BY <2>2, <3>1 DEF RequestInv, Replying
    <3>3. None(pend[c])
      BY <3>2, TokenLemma DEF TokenHeld
    <3>4. writes[c][k] = IF Unanswered(c, k) THEN 0 ELSE 1
      BY <2>2, <3>1 DEF RequestInv, Replying
    <3> QED
      BY <3>2, <3>3, <3>4 DEF TokenHeld, None, Outstanding
  <2> QED
    BY <2>1, <2>2
<1> QED
  BY <1>1, Invariance, PTL

\* A request is parsed only when all earlier ones were handed to async_send,
\* each exactly once, and asked to keep the connection alive.
THEOREM EarlierRequestsAnsweredCorrect == ConnSpec => []EarlierRequestsAnswered
<1>1. ConnInv => EarlierRequestsAnswered
  BY DEF ConnInv, SessionInv, RequestInv, EarlierRequestsAnswered
<1> QED
  BY <1>1, Invariance, PTL

-----------------------------------------------------------------------------
(* The connection implements Session.                                      *)

AbstractStep == [Abstract!SessionNext]_<<phaseOf, parsed, finalOf, repliedOf>>

-----------------------------------------------------------------------------
(* The phase of a connection.                                              *)

Answering(c) == \E k \in Requests : Replying(c, k)

\* A connection is in at most one phase.
LEMMA OnePhase ==
    ASSUME ConnInv, NEW c \in Conns
    PROVE  /\ Outstanding(c, ReadOps) => ~Outstanding(c, SendOps)
           /\ Outstanding(c, ReadOps) \/ Outstanding(c, SendOps) => ~Answering(c)
           /\ life[c] # "started" =>
                  ~Outstanding(c, ReadOps) /\ ~Outstanding(c, SendOps) /\ ~Answering(c)
<1>1. Answering(c) => can_write[c]
  BY DEF Answering, Replying, ConnInv, SessionInv, RequestInv, TokenHeld
<1>2. can_write[c] => \A op \in SessionOps : pend[c][op] = 0
  BY TokenLemma DEF None
<1>3. Outstanding(c, ReadOps) => ~Outstanding(c, SendOps)
  <2> SUFFICES ASSUME NEW r \in ReadOps, pend[c][r] > 0, NEW s \in SendOps, pend[c][s] > 0
               PROVE  FALSE
    BY DEF Outstanding
  <2>1. r \in SessionOps /\ s \in SessionOps /\ r # s
    BY DEF SessionOps, ReadOps, SendOps
  <2> QED
    BY <2>1, SingleLemma DEF Single
<1>4. Outstanding(c, ReadOps) \/ Outstanding(c, SendOps) => ~Answering(c)
  BY <1>1, <1>2 DEF Outstanding, SessionOps
<1>5. ASSUME life[c] # "started"
      PROVE  ~Outstanding(c, ReadOps) /\ ~Outstanding(c, SendOps) /\ ~Answering(c)
  <2>1. Unreferenced(c)
    BY <1>5 DEF ConnInv, SessionInv, LifeInv
  <2> QED
    BY <2>1 DEF Unreferenced, Outstanding, Answering, Replying, Unanswered, Ops, SessionOps
<1> QED
  BY <1>3, <1>4, <1>5

LEMMA PhaseLemma ==
    ASSUME ConnInv, NEW c \in Conns
    PROVE  /\ Outstanding(c, ReadOps) => Phase(c) = "receiving"
           /\ Outstanding(c, SendOps) => Phase(c) = "sending"
           /\ Answering(c) => Phase(c) = "answering"
<1>1. Outstanding(c, ReadOps) \/ Outstanding(c, SendOps) \/ Answering(c) => life[c] = "started"
  BY OnePhase
<1> QED
  BY <1>1, OnePhase DEF Phase, Answering

\* A step on c is a step of the session of c alone.
LEMMA OneSession ==
    ASSUME ConnInv, NEW c \in Conns, StepOK(c)
    PROVE  /\ phaseOf' = [phaseOf EXCEPT ![c] = phaseOf'[c]]
           /\ parsed' = [parsed EXCEPT ![c] = parsed'[c]]
           /\ finalOf' = [finalOf EXCEPT ![c] = finalOf'[c]]
           /\ repliedOf' = [repliedOf EXCEPT ![c] = repliedOf'[c]]
           /\ phaseOf[c] = Phase(c) /\ phaseOf'[c] = Phase(c)'
<1>1. ASSUME NEW d \in Conns \ {c}
      PROVE  /\ Phase(d)' = Phase(d)
             /\ parsed'[d] = parsed[d]
             /\ finalOf'[d] = finalOf[d]
             /\ repliedOf'[d] = repliedOf[d]
  <2>1. Same(d)
    BY DEF StepOK
  <2>2. Phase(d)' = Phase(d)
    BY <2>1 DEF Same, Phase, Outstanding, Replying, Unanswered
  <2> QED
    BY <2>1, <2>2 DEF Same, finalOf, repliedOf
<1>2. phaseOf' = [phaseOf EXCEPT ![c] = phaseOf'[c]]
  BY <1>1 DEF phaseOf
<1>3. parsed' = [parsed EXCEPT ![c] = parsed'[c]]
  BY <1>1 DEF StepOK, ObjectTypeOK, ConnInv, ConnTypeOK
<1>4. finalOf' = [finalOf EXCEPT ![c] = finalOf'[c]]
  BY <1>1, ZenonT(30) DEF finalOf
<1>5. repliedOf' = [repliedOf EXCEPT ![c] = repliedOf'[c]]
  BY <1>1 DEF repliedOf
<1> QED
  BY <1>2, <1>3, <1>4, <1>5 DEF phaseOf

Quiet(c) == UNCHANGED <<parsed[c], keep[c], answered[c]>>

\* A step that parses and answers nothing changes the phase only.
LEMMA QuietLemma ==
    ASSUME ConnInv, NEW c \in Conns, StepOK(c), Quiet(c)
    PROVE  /\ phaseOf' = [phaseOf EXCEPT ![c] = Phase(c)']
           /\ UNCHANGED <<parsed, finalOf, repliedOf>>
<1>1. finalOf'[c] = finalOf[c] /\ repliedOf'[c] = repliedOf[c] /\ parsed'[c] = parsed[c]
  BY DEF Quiet, finalOf, repliedOf
<1>2. parsed' = parsed
  BY <1>1, OneSession DEF ConnInv, ConnTypeOK, ObjectTypeOK
<1>3. finalOf' = finalOf
  BY <1>1, OneSession, ZenonT(30) DEF finalOf
<1>4. repliedOf' = repliedOf
  BY <1>1, OneSession, ZenonT(30) DEF repliedOf
<1> QED
  BY <1>2, <1>3, <1>4, OneSession

\* A step that leaves the phase, or after which nothing is left to do.
LEMMA StaysOrCloses ==
    ASSUME ConnInv, NEW c \in Conns, StepOK(c), Quiet(c), Phase(c)' \in {Phase(c), "over"}
    PROVE  AbstractStep
<1>1. /\ phaseOf' = [phaseOf EXCEPT ![c] = Phase(c)']
      /\ UNCHANGED <<parsed, finalOf, repliedOf>> /\ phaseOf[c] = Phase(c)
  BY QuietLemma, OneSession
<1>2. CASE Phase(c)' = Phase(c)
  <2>1. phaseOf' = phaseOf
    BY <1>1, <1>2 DEF phaseOf
  <2> QED
    BY <1>1, <2>1 DEF AbstractStep
<1>3. CASE Phase(c)' = "over" /\ Phase(c) # "over"
  <2>1. Abstract!Close(c)
    BY <1>1, <1>3 DEF Abstract!Close
  <2> QED
    BY <2>1 DEF AbstractStep, Abstract!SessionNext, Abstract!SessionStep
<1> QED
  BY <1>2, <1>3

\* The phase after a step.
LEMMA PhaseAfter ==
    ASSUME NEW c \in Conns, StepOK(c)
    PROVE  /\ Outstanding(c, ReadOps)' => Phase(c)' = "receiving"
           /\ Outstanding(c, SendOps)' /\ ~Outstanding(c, ReadOps)' => Phase(c)' = "sending"
           /\ Answering(c)' /\ ~Outstanding(c, ReadOps)' /\ ~Outstanding(c, SendOps)'
                  => Phase(c)' = "answering"
           /\ ~Outstanding(c, ReadOps)' /\ ~Outstanding(c, SendOps)' /\ ~Answering(c)'
              /\ life'[c] \notin {"none", "accepting"} => Phase(c)' = "over"
<1>1. Outstanding(c, ReadOps)' \/ Outstanding(c, SendOps)' \/ Answering(c)' => life'[c] = "started"
  <2>1. life'[c] = "started" <=> ~Unreferenced(c)'
    BY DEF StepOK, SessionInv, LifeInv
  <2>2. ASSUME Unreferenced(c)'
        PROVE  ~Outstanding(c, ReadOps)' /\ ~Outstanding(c, SendOps)' /\ ~Answering(c)'
    BY <2>2 DEF Unreferenced, Outstanding, Answering, Replying, Unanswered, Ops, SessionOps
  <2> QED
    BY <2>1, <2>2
<1> QED
  BY <1>1 DEF Phase, Answering

\* Nothing of the kind is outstanding any more, or only an operation of that kind.
LEMMA NoneAfter ==
    ASSUME NEW c \in Conns, None(pend'[c])
    PROVE  ~Outstanding(c, ReadOps)' /\ ~Outstanding(c, SendOps)'
BY DEF None, Outstanding, SessionOps

LEMMA OnlyAfter ==
    ASSUME NEW c \in Conns, NEW op \in SessionOps, Only(pend'[c], op)
    PROVE  /\ op \in ReadOps => Outstanding(c, ReadOps)' /\ ~Outstanding(c, SendOps)'
           /\ op \in SendOps => Outstanding(c, SendOps)' /\ ~Outstanding(c, ReadOps)'
BY DEF Only, Outstanding, SessionOps, ReadOps, SendOps

\* A step that leaves the answers alone keeps or ends the phase.
LEMMA Stays ==
    ASSUME ConnInv, NEW c \in Conns, StepOK(c), Quiet(c), life[c] = "started",
           life'[c] \notin {"none", "accepting"},
           Outstanding(c, ReadOps)' <=> Outstanding(c, ReadOps),
           Outstanding(c, SendOps)' <=> Outstanding(c, SendOps),
           Answering(c)' <=> Answering(c)
    PROVE  AbstractStep
<1>1. Phase(c)' = Phase(c)
  BY DEF Phase, Answering
<1> QED
  BY <1>1, StaysOrCloses

LEMMA Ends ==
    ASSUME ConnInv, NEW c \in Conns, StepOK(c), Quiet(c),
           life'[c] \notin {"none", "accepting"},
           None(pend'[c]), ~Answering(c)'
    PROVE  AbstractStep
<1>1. Phase(c)' = "over"
  BY NoneAfter, PhaseAfter
<1> QED
  BY <1>1, StaysOrCloses

\* The last conjunct that both need, for a step on a started connection.
LEMMA StaysStarted ==
    ASSUME ConnInv, NEW c \in Conns, life[c] = "started",
           UNCHANGED life \/ \E end \in {"destroyed", "destructing"} : ReleaseTo(c, end)
    PROVE  life'[c] \notin {"none", "accepting"}
<1>1. life \in [Conns -> LifeStates]
  BY DEF ConnInv, ConnTypeOK, ObjectTypeOK
<1> QED
  BY <1>1 DEF ReleaseTo

\* Nobody answers while something is read or sent.
LEMMA NotAnswering ==
    ASSUME ConnInv, NEW c \in Conns, NEW op \in SessionOps, pend[c][op] > 0
    PROVE  /\ ~Answering(c) /\ life[c] = "started"
           /\ UNCHANGED <<writes, hrc>> => ~Answering(c)'
           /\ op \in ReadOps => Outstanding(c, ReadOps) /\ Phase(c) = "receiving"
           /\ op \in SendOps => Outstanding(c, SendOps) /\ Phase(c) = "sending"
<1>1. Outstanding(c, ReadOps) \/ Outstanding(c, SendOps)
  BY DEF Outstanding, SessionOps
<1>2. ~Answering(c) /\ life[c] = "started"
  BY <1>1, OnePhase
<1>3. UNCHANGED <<writes, hrc>> => ~Answering(c)'
  BY <1>2 DEF Answering, Replying, Unanswered
<1>4. /\ op \in ReadOps => Outstanding(c, ReadOps)
      /\ op \in SendOps => Outstanding(c, SendOps)
  BY DEF Outstanding
<1> QED
  BY <1>2, <1>3, <1>4, PhaseLemma

-----------------------------------------------------------------------------
(* One lemma per action: the step of Session that it is.                   *)

LEMMA CreateSession ==
    ASSUME ConnInv, NEW c \in Conns, Create(c)
    PROVE  AbstractStep
<1>1. StepOK(c)
  BY CreateStep
<1>2. Quiet(c) /\ Phase(c) = "new" /\ Phase(c)' = "new"
  BY DEF Create, Quiet, sessionVars, Phase, ConnInv, ConnTypeOK, ObjectTypeOK
<1> QED
  BY <1>1, <1>2, StaysOrCloses

LEMMA DiscardSession ==
    ASSUME ConnInv, NEW c \in Conns, Discard(c)
    PROVE  AbstractStep
<1>1. StepOK(c)
  BY DiscardStep
<1>2. Quiet(c) /\ life'[c] = "destroyed"
  BY DEF Discard, Quiet, sessionVars, ConnInv, ConnTypeOK, ObjectTypeOK
<1>3. ~Outstanding(c, ReadOps) /\ ~Outstanding(c, SendOps) /\ ~Answering(c)
  BY OnePhase DEF Discard
<1>4. ~Outstanding(c, ReadOps)' /\ ~Outstanding(c, SendOps)' /\ ~Answering(c)'
  BY <1>3 DEF Discard, Outstanding, Answering, Replying, Unanswered
<1> QED
  BY <1>1, <1>2, <1>4, PhaseAfter, StaysOrCloses

LEMMA StartSession ==
    ASSUME ConnInv, NEW c \in Conns, NEW s \in {"open", "closed"}, Start(c, s)
    PROVE  AbstractStep
<1>1. StepOK(c)
  BY StartStep
<1>2. Quiet(c) /\ Phase(c) = "new"
  BY DEF Start, Quiet, sessionVars, Phase
<1>3. Outstanding(c, ReadOps)'
  <2>1. \A o \in Ops : pend[c][o] = 0
    BY DEF ConnInv, SessionInv, LifeInv, Unreferenced, Start
  <2> DEFINE q == SetTimeoutTimer(c, Begin(pend[c], "accepted"))
  <2>2. q \in [Ops -> Nat] /\ None(q)
    BY <2>1, AcceptedLemma
  <2>3. \E op \in ReadOps : Only(pend'[c], op)
    BY <2>2, DoReadLemma DEF Start, SetPend, ConnInv, ConnTypeOK, ObjectTypeOK
  <2> QED
    BY <2>3, OnlyAfter DEF SessionOps
<1>4. Phase(c)' = "receiving"
  BY <1>1, <1>3, PhaseAfter
<1>5. Abstract!Open(c)
  BY <1>1, <1>2, <1>4, QuietLemma, OneSession DEF Abstract!Open, Abstract!Enter
<1> QED
  BY <1>5 DEF AbstractStep, Abstract!SessionNext, Abstract!SessionStep

LEMMA ReadCompletesSession ==
    ASSUME ConnInv, NEW c \in Conns, ReadCompletes(c)
    PROVE  AbstractStep
<1>1. StepOK(c)
  BY ReadCompletesStep
<1>2. PICK r \in {"read_ok", "read_err"} : SetPend(c, Complete(pend[c], "read", r))
  BY DEF ReadCompletes
<1>3. Only(pend'[c], r)
  BY <1>2, SingleLemma, CompleteLemma
     DEF ReadCompletes, SetPend, SessionOps, ReadOps, ConnInv, ConnTypeOK, ObjectTypeOK
<1>4. Phase(c)' = "receiving"
  BY <1>1, <1>3, OnlyAfter, PhaseAfter DEF SessionOps, ReadOps
<1>5. Phase(c) = "receiving"
  BY NotAnswering DEF ReadCompletes, SessionOps, ReadOps
<1>6. Quiet(c)
  BY DEF ReadCompletes, Quiet, sessionVars
<1> QED
  BY <1>1, <1>4, <1>5, <1>6, StaysOrCloses

LEMMA OnReadProgressSession ==
    ASSUME ConnInv, NEW c \in Conns, OnReadProgress(c)
    PROVE  AbstractStep
<1>1. StepOK(c)
  BY OnReadProgressStep
<1>2. None(Finish(pend[c], "read_ok")) /\ Finish(pend[c], "read_ok") \in [Ops -> Nat]
  BY SingleLemma, FinishLast DEF OnReadProgress, SessionOps, ReadOps
<1>3. PICK op \in ReadOps : Only(pend'[c], op)
  BY <1>2, DoReadLemma DEF OnReadProgress, SetPend, ConnInv, ConnTypeOK, ObjectTypeOK
<1>4. Phase(c)' = "receiving"
  BY <1>1, <1>3, OnlyAfter, PhaseAfter DEF SessionOps
<1>5. Phase(c) = "receiving"
  BY NotAnswering DEF OnReadProgress, SessionOps, ReadOps
<1>6. Quiet(c)
  BY DEF OnReadProgress, Quiet, sessionVars
<1> QED
  BY <1>1, <1>4, <1>5, <1>6, StaysOrCloses

LEMMA OnContinueSession ==
    ASSUME ConnInv, NEW c \in Conns, OnContinue(c)
    PROVE  AbstractStep
<1>1. StepOK(c)
  BY OnContinueStep
<1>2. None(Finish(pend[c], "continue")) /\ Finish(pend[c], "continue") \in [Ops -> Nat]
  BY SingleLemma, FinishLast DEF OnContinue, SessionOps, ReadOps
<1>3. PICK op \in ReadOps : Only(pend'[c], op)
  BY <1>2, DoReadLemma DEF OnContinue, SetPend, ConnInv, ConnTypeOK, ObjectTypeOK
<1>4. Phase(c)' = "receiving"
  BY <1>1, <1>3, OnlyAfter, PhaseAfter DEF SessionOps
<1>5. Phase(c) = "receiving"
  BY NotAnswering DEF OnContinue, SessionOps, ReadOps
<1>6. Quiet(c)
  BY DEF OnContinue, Quiet
<1> QED
  BY <1>1, <1>4, <1>5, <1>6, StaysOrCloses

LEMMA OnReadErrorSession ==
    ASSUME ConnInv, NEW c \in Conns, OnReadError(c)
    PROVE  AbstractStep
<1>1. StepOK(c) /\ Quiet(c)
  BY OnReadErrorStep DEF OnReadError, Quiet, sessionVars
<1>2. None(Finish(pend[c], "read_err")) /\ Finish(pend[c], "read_err") \in [Ops -> Nat]
  BY SingleLemma, FinishLast DEF OnReadError, SessionOps, ReadOps
<1>3. None(pend'[c])
  BY <1>2, CancelLemma DEF OnReadError, SetPend, ConnInv, ConnTypeOK, ObjectTypeOK
<1>4. ~Answering(c)' /\ life[c] = "started"
  BY NotAnswering DEF OnReadError, SessionOps, ReadOps
<1> QED
  BY <1>1, <1>3, <1>4, StaysStarted, Ends DEF OnReadError, Release

LEMMA OnSendErrorSession ==
    ASSUME ConnInv, NEW c \in Conns, OnSendError(c)
    PROVE  AbstractStep
<1>1. StepOK(c) /\ Quiet(c)
  BY OnSendErrorStep DEF OnSendError, Quiet, sessionVars
<1>2. None(Finish(pend[c], "send_err")) /\ Finish(pend[c], "send_err") \in [Ops -> Nat]
  BY SingleLemma, FinishLast DEF OnSendError, SessionOps, SendOps
<1>3. None(pend'[c])
  BY <1>2, CancelLemma DEF OnSendError, SetPend, ConnInv, ConnTypeOK, ObjectTypeOK
<1>4. ~Answering(c)' /\ life[c] = "started"
  BY NotAnswering DEF OnSendError, SessionOps, SendOps
<1> QED
  BY <1>1, <1>3, <1>4, StaysStarted, Ends DEF OnSendError, Release

LEMMA SendCompletesSession ==
    ASSUME ConnInv, NEW c \in Conns, SendCompletes(c)
    PROVE  AbstractStep
<1>1. StepOK(c) /\ Quiet(c)
  BY SendCompletesStep DEF SendCompletes, Quiet, sessionVars
<1>2. PICK r \in {"send_ok", "send_part", "send_err"} : SetPend(c, Complete(pend[c], "send", r))
  BY DEF SendCompletes
<1>3. Only(pend'[c], r)
  BY <1>2, SingleLemma, CompleteLemma
     DEF SendCompletes, SetPend, SessionOps, SendOps, ConnInv, ConnTypeOK, ObjectTypeOK
<1>4. Phase(c)' = "sending"
  BY <1>1, <1>3, OnlyAfter, PhaseAfter DEF SessionOps, SendOps
<1>5. Phase(c) = "sending"
  BY NotAnswering DEF SendCompletes, SessionOps, SendOps
<1> QED
  BY <1>1, <1>4, <1>5, StaysOrCloses

\* The end of a response: of the session, unless the request is kept alive.
LEMMA OnSentSession ==
    ASSUME ConnInv, NEW c \in Conns, NEW result \in {"send_ok", "send_part"}, OnSent(c, result)
    PROVE  AbstractStep
<1> DEFINE f == Finish(pend[c], result)
<1>1. StepOK(c) /\ Quiet(c)
  BY OnSentStep DEF OnSent, Quiet, sessionVars
<1>2. f \in [Ops -> Nat] /\ None(f)
  BY SingleLemma, FinishLast DEF OnSent, SessionOps, SendOps
<1>3. /\ ~Answering(c)' /\ life[c] = "started" /\ Outstanding(c, SendOps)
      /\ Phase(c) = "sending"
  BY NotAnswering DEF OnSent, SessionOps, SendOps
<1>4. response[c] = parsed[c] /\ parsed[c] \in Requests
  BY <1>3, SendingLemma
<1>5. CASE keep[c][response[c]]
  <2>1. pend'[c] = Begin(f, "continue")
    BY <1>5 DEF OnSent, SetPend, ConnInv, ConnTypeOK, ObjectTypeOK
  <2>2. Only(pend'[c], "continue")
    BY <1>2, <2>1, BeginFirst DEF SessionOps, ReadOps
  <2>3. Phase(c)' = "receiving"
    BY <1>1, <2>2, OnlyAfter, PhaseAfter DEF SessionOps, ReadOps
  <2>4. ~finalOf[c]
    BY <1>4, <1>5 DEF finalOf, Requests
  <2>5. Abstract!KeepAlive(c)
    BY <1>1, <1>3, <2>3, <2>4, QuietLemma, OneSession DEF Abstract!KeepAlive, Abstract!Enter
  <2> QED
    BY <2>5 DEF AbstractStep, Abstract!SessionNext, Abstract!SessionStep
<1>6. CASE ~keep[c][response[c]]
  <2>1. pend'[c] = CancelTimeoutTimer(f)
    BY <1>6 DEF OnSent, SetPend, ConnInv, ConnTypeOK, ObjectTypeOK
  <2>2. None(pend'[c])
    BY <1>2, <2>1, CancelLemma
  <2> QED
    BY <1>1, <1>3, <2>2, StaysStarted, Ends DEF OnSent, Release
<1> QED
  BY <1>5, <1>6

\* A step of the timer changes no operation of the session.
LEMMA TimerSession ==
    ASSUME ConnInv, NEW c \in Conns, StepOK(c), life[c] = "started",
           UNCHANGED <<writes, sessionVars, hrc>>, UNCHANGED life \/ Release(c),
           Outstanding(c, ReadOps)' <=> Outstanding(c, ReadOps),
           Outstanding(c, SendOps)' <=> Outstanding(c, SendOps)
    PROVE  AbstractStep
<1>1. Quiet(c)
  BY DEF Quiet, sessionVars
<1>2. Answering(c)' <=> Answering(c)
  BY DEF Answering, Replying, Unanswered
<1>3. life'[c] \notin {"none", "accepting"}
  BY StaysStarted DEF Release
<1> QED
  BY <1>1, <1>2, <1>3, Stays

LEMMA TimerExpiresSession ==
    ASSUME ConnInv, NEW c \in Conns, TimerExpires(c)
    PROVE  AbstractStep
<1>1. \A o \in SessionOps : pend'[c][o] = pend[c][o]
  BY DEF TimerExpires, SetPend, Complete, ConnInv, ConnTypeOK, ObjectTypeOK, Ops, SessionOps,
         ReadOps, SendOps, WaitOps
<1>2. /\ Outstanding(c, ReadOps)' <=> Outstanding(c, ReadOps)
      /\ Outstanding(c, SendOps)' <=> Outstanding(c, SendOps)
  BY <1>1 DEF Outstanding, SessionOps
<1>3. life[c] = "started"
  BY StartedLemma DEF TimerExpires, Ops, WaitOps
<1> QED
  BY <1>2, <1>3, TimerExpiresStep, TimerSession DEF TimerExpires

LEMMA OnTimerAbortedSession ==
    ASSUME ConnInv, NEW c \in Conns, OnTimerAborted(c)
    PROVE  AbstractStep
<1>1. \A o \in SessionOps : pend'[c][o] = pend[c][o]
  BY DEF OnTimerAborted, SetPend, Finish, ConnInv, ConnTypeOK, ObjectTypeOK, Ops, SessionOps,
         ReadOps, SendOps, WaitOps
<1>2. /\ Outstanding(c, ReadOps)' <=> Outstanding(c, ReadOps)
      /\ Outstanding(c, SendOps)' <=> Outstanding(c, SendOps)
  BY <1>1 DEF Outstanding, SessionOps
<1>3. life[c] = "started"
  BY StartedLemma DEF OnTimerAborted, Ops, WaitOps
<1> QED
  BY <1>2, <1>3, OnTimerAbortedStep, TimerSession DEF OnTimerAborted

LEMMA AcceptReturnsSession ==
    ASSUME ConnInv, NEW c \in Conns, AcceptReturns(c)
    PROVE  AbstractStep
<1>1. \A o \in SessionOps : pend'[c][o] = pend[c][o]
  BY DEF AcceptReturns, SetPend, Finish, ConnInv, ConnTypeOK, ObjectTypeOK, Ops, SessionOps,
         ReadOps, SendOps, WaitOps
<1>2. /\ Outstanding(c, ReadOps)' <=> Outstanding(c, ReadOps)
      /\ Outstanding(c, SendOps)' <=> Outstanding(c, SendOps)
  BY <1>1 DEF Outstanding, SessionOps
<1>3. life[c] = "started"
  BY StartedLemma DEF AcceptReturns, Ops
<1> QED
  BY <1>2, <1>3, AcceptReturnsStep, TimerSession DEF AcceptReturns

\* Closing the socket fails an operation, which stays outstanding as a handler.
LEMMA OnTimeoutSession ==
    ASSUME ConnInv, NEW c \in Conns, OnTimeout(c)
    PROVE  AbstractStep
<1> DEFINE f == Finish(pend[c], "wait_ok")
<1>1. /\ f \in [Ops -> Nat]
      /\ \A o \in SessionOps : f[o] = pend[c][o]
  BY SingleLemma, FinishLemma DEF OnTimeout, Ops, SessionOps, ReadOps, SendOps, WaitOps
<1>2. Single(f)
  BY <1>1, SingleLemma DEF Single
<1>3. pend'[c] = CloseSocket(f)
  BY DEF OnTimeout, SetPend, ConnInv, ConnTypeOK, ObjectTypeOK
<1>4. /\ (\E o \in ReadOps : pend'[c][o] > 0) <=> (\E o \in ReadOps : f[o] > 0)
      /\ (\E o \in SendOps : pend'[c][o] > 0) <=> (\E o \in SendOps : f[o] > 0)
  BY <1>1, <1>2, <1>3, CloseLemma
<1>5. /\ Outstanding(c, ReadOps)' <=> Outstanding(c, ReadOps)
      /\ Outstanding(c, SendOps)' <=> Outstanding(c, SendOps)
  BY <1>1, <1>4 DEF Outstanding, SessionOps
<1>6. life[c] = "started"
  BY StartedLemma DEF OnTimeout, Ops, WaitOps
<1> QED
  BY <1>5, <1>6, OnTimeoutStep, TimerSession DEF OnTimeout

-----------------------------------------------------------------------------
(* The application.                                                        *)

\* A thread of the application changes no operation of the session.
LEMMA AppSession ==
    ASSUME ConnInv, NEW c \in Conns, StepOK(c), life[c] = "started",
           UNCHANGED <<pend, sessionVars>>,
           UNCHANGED life \/ ReleaseTo(c, "destructing"),
           Answering(c)' => Answering(c)
    PROVE  AbstractStep
<1>1. Quiet(c)
  BY DEF Quiet, sessionVars
<1>2. life'[c] \notin {"none", "accepting"}
  BY StaysStarted
<1>3. /\ Outstanding(c, ReadOps)' <=> Outstanding(c, ReadOps)
      /\ Outstanding(c, SendOps)' <=> Outstanding(c, SendOps)
  BY DEF Outstanding
<1>4. CASE Answering(c)' <=> Answering(c)
  BY <1>1, <1>2, <1>3, <1>4, Stays
<1>5. CASE Answering(c) /\ ~Answering(c)'
  <2>1. ~Outstanding(c, ReadOps)' /\ ~Outstanding(c, SendOps)'
    BY <1>3, <1>5, OnePhase
  <2> QED
    BY <1>1, <1>2, <1>5, <2>1, PhaseAfter, StaysOrCloses
<1> QED
  BY <1>4, <1>5

LEMMA AppSendSession ==
    ASSUME ConnInv, NEW c \in Conns, NEW k \in Requests, AppSend(c, k)
    PROVE  AbstractStep
<1>1. Answering(c) /\ life[c] = "started"
  BY OnePhase DEF AppSend, Answering, Replying, Unanswered
<1> QED
  BY <1>1, AppSendStep, AppSession DEF AppSend, sharedVars

LEMMA AppDestroySession ==
    ASSUME ConnInv, NEW c \in Conns, NEW k \in Requests, AppDestroy(c, k)
    PROVE  AbstractStep
<1>1. life[c] = "started"
  BY DEF AppDestroy, ConnInv, SessionInv, LifeInv, Unreferenced
<1>2. Answering(c)' => Answering(c)
  <2>1. ASSUME NEW j \in Requests, Replying(c, j)' PROVE Replying(c, j)
    <3>1. CASE j = k
      BY <2>1, <3>1 DEF AppDestroy, SetHrc, Replying, Unanswered, ConnInv, ConnTypeOK,
                        ObjectTypeOK
    <3>2. CASE j # k
      BY <2>1, <3>2 DEF AppDestroy, SetHrc, Replying, Unanswered, ConnInv, ConnTypeOK,
                        ObjectTypeOK
    <3> QED
      BY <3>1, <3>2
  <2> QED
    BY <2>1 DEF Answering
<1> QED
  BY <1>1, <1>2, AppDestroyStep, AppSession DEF AppDestroy

LEMMA AppPostSession ==
    ASSUME ConnInv, NEW c \in Conns, NEW k \in Requests, AppPost(c, k)
    PROVE  AbstractStep
<1>1. Answering(c) /\ life[c] = "started"
  BY OnePhase DEF AppPost, Answering, Replying, Unanswered
<1> QED
  BY <1>1, AppPostStep, AppSession DEF AppPost, sharedVars

LEMMA AppDestructedSession ==
    ASSUME ConnInv, NEW c \in Conns, AppDestructed(c)
    PROVE  AbstractStep
<1>1. Quiet(c) /\ Phase(c)' = Phase(c)
  BY DEF AppDestructed, Quiet, sessionVars, Phase, Outstanding, Replying, Unanswered, ConnInv,
         ConnTypeOK, ObjectTypeOK
<1> QED
  BY <1>1, AppDestructedStep, StaysOrCloses

-----------------------------------------------------------------------------
(* Requests and responses.                                                 *)

\* The phase is over or that of the response that DoWrite has begun to send.
LEMMA DoWritePhase ==
    ASSUME ConnInv, NEW c \in Conns, StepOK(c), NEW k \in Requests, NEW writable,
           NEW p \in [Ops -> Nat], None(p), DoWrite(c, k, p, writable),
           ~Answering(c)', life'[c] \notin {"none", "accepting"}
    PROVE  \/ /\ Phase(c)' = "sending" /\ answered'[c][k] = answered[c][k] + 1
              /\ \A j \in Requests \ {k} : answered'[c][j] = answered[c][j]
           \/ Phase(c)' = "over" /\ answered'[c] = answered[c]
<1>1. /\ \A j \in Requests \ {k} : answered'[c][j] = answered[c][j]
      /\ \/ /\ \E op \in SendOps : Only(pend'[c], op)
            /\ response'[c] = k
            /\ answered'[c][k] = answered[c][k] + 1
         \/ None(pend'[c]) /\ answered'[c][k] = answered[c][k]
  BY DoWriteLemma
<1>2. CASE \E op \in SendOps : Only(pend'[c], op) /\ answered'[c][k] = answered[c][k] + 1
  <2>1. Phase(c)' = "sending"
    BY <1>2, OnlyAfter, PhaseAfter DEF SessionOps
  <2> QED
    BY <1>1, <1>2, <2>1
<1>3. CASE None(pend'[c]) /\ answered'[c][k] = answered[c][k]
  <2>1. Phase(c)' = "over"
    BY <1>3, NoneAfter, PhaseAfter
  <2>2. answered[c] \in [Requests -> Nat] /\ answered'[c] \in [Requests -> Nat]
    BY DEF StepOK, ObjectTypeOK, ConnInv, ConnTypeOK
  <2>3. answered'[c] = answered[c]
    BY <1>1, <1>3, <2>2
  <2> QED
    BY <2>1, <2>3
<1> QED
  BY <1>1, <1>2, <1>3

LEMMA OnPostedWriteSession ==
    ASSUME ConnInv, NEW c \in Conns, NEW k \in Requests, OnPostedWrite(c, k)
    PROVE  AbstractStep
<1>1. StepOK(c)
  BY OnPostedWriteStep
<1>2. /\ k = parsed[c] /\ can_write[c] /\ writes[c][k] = 1 /\ answered[c][k] = 0
      /\ \A j \in Requests : ~Unanswered(c, j) /\ (j # k => writes[c][j] = 0)
  <2>1. k = parsed[c] /\ can_write[c] /\ writes[c][k] = 1 /\ answered[c][k] = 0
    BY DEF OnPostedWrite, ConnInv, SessionInv, RequestInv, TokenHeld
  <2>2. ASSUME NEW j \in Requests PROVE ~Unanswered(c, j) /\ (j # k => writes[c][j] = 0)
    BY <2>1 DEF ConnInv, SessionInv, RequestInv, TokenHeld, ConnTypeOK, ObjectTypeOK
  <2> QED
    BY <2>1, <2>2
<1>3. pend[c] \in [Ops -> Nat] /\ None(pend[c])
  BY <1>2, TokenLemma
<1>4. Answering(c) /\ life[c] = "started" /\ Phase(c) = "answering"
  <2>1. Answering(c)
    BY <1>2 DEF Answering, Replying
  <2> QED
    BY <2>1, OnePhase, PhaseLemma
<1>5. life'[c] \notin {"none", "accepting"}
  BY <1>4, StaysStarted DEF OnPostedWrite, Release
<1>6. ~Answering(c)'
  <2>1. writes'[c][k] = 0 /\ \A j \in Requests \ {k} : writes'[c][j] = writes[c][j]
    BY <1>2 DEF OnPostedWrite, ConnInv, ConnTypeOK, ObjectTypeOK
  <2>2. hrc' = hrc
    BY DEF OnPostedWrite
  <2> QED
    BY <1>2, <2>1, <2>2 DEF Answering, Replying, Unanswered
<1>7. parsed' = parsed /\ keep' = keep
  BY DEF OnPostedWrite
<1>8. \/ /\ Phase(c)' = "sending" /\ answered'[c][k] = answered[c][k] + 1
        /\ \A j \in Requests \ {k} : answered'[c][j] = answered[c][j]
      \/ Phase(c)' = "over" /\ answered'[c] = answered[c]
  BY <1>1, <1>3, <1>5, <1>6, DoWritePhase DEF OnPostedWrite
<1>9. CASE Phase(c)' = "over" /\ answered'[c] = answered[c]
  BY <1>1, <1>7, <1>9, StaysOrCloses DEF Quiet
<1>10. CASE /\ Phase(c)' = "sending" /\ answered'[c][k] = answered[c][k] + 1
            /\ \A j \in Requests \ {k} : answered'[c][j] = answered[c][j]
  <2>1. repliedOf[c] = {j \in Requests : answered[c][j] > 0}
    BY DEF repliedOf
  <2>2. repliedOf'[c] = {j \in Requests : answered'[c][j] > 0}
    BY DEF repliedOf
  <2>3. k \notin repliedOf[c] /\ repliedOf'[c] = repliedOf[c] \cup {k}
    BY <1>2, <1>10, <2>1, <2>2
  <2>4. phaseOf' = [phaseOf EXCEPT ![c] = "sending"] /\ phaseOf[c] = "answering"
    BY <1>1, <1>4, <1>10, OneSession
  <2>5. finalOf' = finalOf
    BY <1>7 DEF finalOf
  <2>6. repliedOf' = [repliedOf EXCEPT ![c] = @ \cup {parsed[c]}]
    BY <1>1, <1>2, <2>3, OneSession
  <2>7. Abstract!Reply(c)
    BY <1>2, <1>7, <2>3, <2>4, <2>5, <2>6 DEF Abstract!Reply, Abstract!Enter
  <2> QED
    BY <2>7 DEF AbstractStep, Abstract!SessionNext, Abstract!SessionStep
<1> QED
  BY <1>8, <1>9, <1>10

\* The parts of Receive and Reject that both handlers of a read share.
LEMMA ParsedOne ==
    ASSUME ConnInv, NEW c \in Conns, StepOK(c), pend[c]["read_ok"] > 0,
           parsed[c] < MaxRequests, parsed' = [parsed EXCEPT ![c] = @ + 1]
    PROVE  /\ parsed[c] + 1 \in Requests
           /\ \E last \in BOOLEAN : finalOf' = [finalOf EXCEPT ![c] = last]
           /\ phaseOf[c] = "receiving"
           /\ phaseOf' = [phaseOf EXCEPT ![c] = Phase(c)']
           /\ finalOf'[c] = ~keep'[c][parsed[c] + 1]
           /\ finalOf' = [finalOf EXCEPT ![c] = finalOf'[c]]
           /\ repliedOf' = [repliedOf EXCEPT ![c] = repliedOf'[c]]
<1>1. parsed[c] + 1 \in Requests
  BY NewRequestLemma
<1>2. parsed'[c] = parsed[c] + 1 /\ parsed'[c] # 0
  BY <1>1 DEF ConnInv, ConnTypeOK, ObjectTypeOK, Requests
<1>3. finalOf'[c] = ~keep'[c][parsed[c] + 1]
  BY <1>2 DEF finalOf
<1>4. finalOf'[c] \in BOOLEAN
  BY <1>3
<1>5. phaseOf[c] = "receiving"
  BY OneSession, NotAnswering DEF SessionOps, ReadOps
<1> QED
  BY <1>1, <1>3, <1>4, <1>5, OneSession

LEMMA OnReadRequestSession ==
    ASSUME ConnInv, NEW c \in Conns, NEW mode \in HandlerModes, NEW keep_alive \in BOOLEAN,
           OnReadRequest(c, mode, keep_alive)
    PROVE  AbstractStep
<1>1. /\ StepOK(c) /\ pend[c]["read_ok"] > 0 /\ parsed[c] < MaxRequests
      /\ parsed' = [parsed EXCEPT ![c] = @ + 1]
  BY OnReadRequestStep DEF OnReadRequest
<1>2. life[c] = "started" /\ None(Finish(pend[c], "read_ok"))
  BY <1>1, NewRequestLemma
<1>3. pend'[c] = Finish(pend[c], "read_ok")
  BY DEF OnReadRequest, SetPend, ConnInv, ConnTypeOK, ObjectTypeOK
<1>4. life'[c] \notin {"none", "accepting"}
  BY <1>2, StaysStarted DEF OnReadRequest, Release
<1>5. Phase(c)' \in {"answering", "over"}
  BY <1>1, <1>2, <1>3, <1>4, NoneAfter, PhaseAfter
<1>6. repliedOf' = repliedOf
  BY DEF OnReadRequest, repliedOf
<1>7. Abstract!Receive(c, Phase(c)')
  BY <1>1, <1>6, ParsedOne DEF Abstract!Receive, Abstract!Enter
<1> QED
  BY <1>5, <1>7 DEF AbstractStep, Abstract!SessionNext, Abstract!SessionStep

\* A malformed request is answered at once, unless the server was stopped.
LEMMA OnReadMalformedSession ==
    ASSUME ConnInv, NEW c \in Conns, OnReadMalformed(c)
    PROVE  AbstractStep
<1> DEFINE k == parsed[c] + 1
           f == Finish(pend[c], "read_ok")
<1>1. /\ StepOK(c) /\ pend[c]["read_ok"] > 0 /\ parsed[c] < MaxRequests
      /\ parsed' = [parsed EXCEPT ![c] = @ + 1] /\ keep' = keep
  BY OnReadMalformedStep DEF OnReadMalformed
<1>2. /\ life[c] = "started" /\ f \in [Ops -> Nat] /\ None(f) /\ k \in Requests
      /\ ~keep[c][k] /\ answered[c][k] = 0
  <2>1. k > parsed[c] /\ k \in Requests
    BY <1>1, NewRequestLemma DEF ConnInv, ConnTypeOK, ObjectTypeOK
  <2> QED
    BY <1>1, <2>1, NewRequestLemma
<1>3. life'[c] \notin {"none", "accepting"}
  BY <1>2, StaysStarted DEF OnReadMalformed, Release
<1>4. ~Answering(c)'
  BY <1>1, NotAnswering DEF OnReadMalformed, SessionOps, ReadOps
<1>5. DoWrite(c, k, f, TRUE)
  BY DEF OnReadMalformed
<1> HIDE DEF f, k
<1>6. \/ /\ Phase(c)' = "sending" /\ answered'[c][k] = answered[c][k] + 1
        /\ \A j \in Requests \ {k} : answered'[c][j] = answered[c][j]
      \/ Phase(c)' = "over" /\ answered'[c] = answered[c]
  BY <1>1, <1>2, <1>3, <1>4, <1>5, DoWritePhase
<1>7. /\ phaseOf[c] = "receiving" /\ phaseOf' = [phaseOf EXCEPT ![c] = Phase(c)']
      /\ finalOf' = [finalOf EXCEPT ![c] = TRUE]
      /\ repliedOf' = [repliedOf EXCEPT ![c] = repliedOf'[c]]
  BY <1>1, <1>2, ParsedOne DEF k
<1>8. /\ repliedOf[c] = {j \in Requests : answered[c][j] > 0}
      /\ repliedOf'[c] = {j \in Requests : answered'[c][j] > 0}
  BY DEF repliedOf
<1>9. CASE Phase(c)' = "over" /\ answered'[c] = answered[c]
  <2>1. repliedOf' = repliedOf
    BY <1>7, <1>8, <1>9 DEF repliedOf
  <2>2. Abstract!Receive(c, "over")
    BY <1>1, <1>7, <1>9, <2>1 DEF Abstract!Receive, Abstract!Enter
  <2> QED
    BY <2>2 DEF AbstractStep, Abstract!SessionNext, Abstract!SessionStep
<1>10. CASE /\ Phase(c)' = "sending" /\ answered'[c][k] = answered[c][k] + 1
            /\ \A j \in Requests \ {k} : answered'[c][j] = answered[c][j]
  <2>1. repliedOf'[c] = repliedOf[c] \cup {k}
    BY <1>2, <1>8, <1>10
  <2>2. repliedOf' = [repliedOf EXCEPT ![c] = @ \cup {parsed[c] + 1}]
    BY <1>7, <2>1 DEF k
  <2>3. Abstract!Reject(c)
    BY <1>1, <1>7, <1>10, <2>2 DEF Abstract!Reject, Abstract!Enter
  <2> QED
    BY <2>3 DEF AbstractStep, Abstract!SessionNext, Abstract!SessionStep
<1> QED
  BY <1>6, <1>9, <1>10

-----------------------------------------------------------------------------
(* The refinement.                                                         *)

LEMMA SessionInitLemma == ConnInit => Abstract!SessionInit
<1> SUFFICES ASSUME ConnInit PROVE Abstract!SessionInit
  OBVIOUS
<1>1. \A c \in Conns : Phase(c) = "new"
  BY DEF ConnInit, Phase
<1>2. \A c \in Conns : repliedOf[c] = {}
  BY DEF ConnInit, repliedOf
<1>3. phaseOf = [c \in Conns |-> "new"]
  BY <1>1 DEF phaseOf
<1>4. finalOf = [c \in Conns |-> FALSE]
  BY DEF finalOf, ConnInit
<1>5. repliedOf = [c \in Conns |-> {}]
  BY <1>2 DEF repliedOf
<1> QED
  BY <1>3, <1>4, <1>5 DEF Abstract!SessionInit, ConnInit

LEMMA SessionNextLemma == ConnInv /\ [ConnNext]_connVars => AbstractStep
<1> SUFFICES ASSUME ConnInv, [ConnNext]_connVars PROVE AbstractStep
  OBVIOUS
<1>1. ASSUME NEW c \in Conns, Handler(c) PROVE AbstractStep
  <2>1. CASE OnRead(c)
    BY <2>1, OnReadErrorSession, OnReadProgressSession, OnReadMalformedSession,
       OnReadRequestSession DEF OnRead
  <2>2. CASE \E k \in Requests : OnPostedWrite(c, k)
    BY <2>2, OnPostedWriteSession
  <2>3. CASE OnSend(c)
    BY <2>3, OnSentSession, OnSendErrorSession DEF OnSend
  <2>4. CASE OnContinue(c)
    BY <2>4, OnContinueSession
  <2>5. CASE OnTimer(c)
    BY <2>5, OnTimeoutSession, OnTimerAbortedSession DEF OnTimer
  <2> QED
    BY <1>1, <2>1, <2>2, <2>3, <2>4, <2>5 DEF Handler
<1>2. ASSUME NEW c \in Conns, Completion(c) PROVE AbstractStep
  BY <1>2, ReadCompletesSession, SendCompletesSession, TimerExpiresSession DEF Completion
<1>3. ASSUME NEW c \in Conns, Application(c) PROVE AbstractStep
  BY <1>3, AppSendSession, AppDestroySession, AppPostSession, AppDestructedSession
     DEF Application
<1>4. ASSUME NEW c \in Conns,
             Create(c) \/ Discard(c) \/ AcceptReturns(c) \/ \E s \in {"open", "closed"} : Start(c, s)
      PROVE  AbstractStep
  BY <1>4, CreateSession, DiscardSession, AcceptReturnsSession, StartSession
<1>5. CASE UNCHANGED <<life, pend, writes, hrc, parsed, keep, answered>>
  <2>1. phaseOf' = phaseOf
    BY <1>5 DEF phaseOf, Phase, Outstanding, Replying, Unanswered
  <2>2. finalOf' = finalOf /\ repliedOf' = repliedOf
    BY <1>5 DEF finalOf, repliedOf
  <2> QED
    BY <1>5, <2>1, <2>2 DEF AbstractStep
<1>6. CASE ServerAround
  BY <1>4, <1>5, <1>6 DEF ServerAround, sessionVars
<1>7. CASE UNCHANGED connVars
  BY <1>5, <1>7 DEF connVars
<1> QED
  BY <1>1, <1>2, <1>3, <1>6, <1>7 DEF ConnNext

\* Connections implement Session: whatever the server, the peers, the timers and
\* the threads of the application do, requests are answered one at a time, in
\* order, each at most once, and none is received after the final response.
THEOREM SessionImplemented == ConnSpec => ImplementsSession
<1>1. ConnInv /\ [ConnNext]_connVars => [Abstract!SessionNext]_(Abstract!sessionVars)
  BY SessionNextLemma DEF AbstractStep, Abstract!sessionVars
<1> QED
  BY <1>1, SessionInitLemma, Invariance, PTL DEF ConnSpec, ImplementsSession, Abstract!SessionSpec

-----------------------------------------------------------------------------
(* What a step may never do.                                               *)

Action(c) ==
    \/ Handler(c) \/ Completion(c) \/ Application(c)
    \/ Create(c) \/ Discard(c) \/ AcceptReturns(c) \/ \E s \in {"open", "closed"} : Start(c, s)

\* A step changes one connection, or none: then it is Stop or a stutter.
LEMMA NextCases ==
    ASSUME [ConnNext]_connVars
    PROVE  \/ \E c \in Conns : Action(c)
           \/ /\ UNCHANGED <<life, pend, writes, can_write, response, parsed, keep, hrc,
                            answered, canceled>>
              /\ stopped => stopped'
<1>1. CASE ServerAround
  BY <1>1 DEF ServerAround, Action, Stop, sessionVars
<1>2. CASE UNCHANGED connVars
  BY <1>2 DEF connVars
<1> QED
  BY <1>1, <1>2 DEF ConnNext, Action

LEMMA ActionStep ==
    ASSUME ConnInv, NEW c \in Conns, Action(c)
    PROVE  StepOK(c)
<1>1. CASE Handler(c)
  BY <1>1, OnReadErrorStep, OnReadProgressStep, OnReadMalformedStep, OnReadRequestStep,
     OnPostedWriteStep, OnSentStep, OnSendErrorStep, OnContinueStep, OnTimeoutStep,
     OnTimerAbortedStep DEF Handler, OnRead, OnSend, OnTimer
<1>2. CASE Completion(c)
  BY <1>2, ReadCompletesStep, SendCompletesStep, TimerExpiresStep DEF Completion
<1>3. CASE Application(c)
  BY <1>3, AppSendStep, AppDestroyStep, AppPostStep, AppDestructedStep DEF Application
<1>4. CASE Create(c) \/ Discard(c) \/ AcceptReturns(c) \/ \E s \in {"open", "closed"} : Start(c, s)
  BY <1>4, CreateStep, DiscardStep, AcceptReturnsStep, StartStep
<1> QED
  BY <1>1, <1>2, <1>3, <1>4 DEF Action

\* response_ is assigned where nothing is being sent.
LEMMA ResponseKept ==
    ASSUME ConnInv, NEW c \in Conns, Action(c), pend[c]["send"] > 0
    PROVE  response'[c] = response[c]
<1>1. /\ \A op \in ReadOps : pend[c][op] = 0
      /\ ~can_write[c] /\ \A k \in Requests : ~(writes[c][k] > 0)
  <2>1. "send" \in SessionOps /\ "send" \notin ReadOps /\ ReadOps \subseteq SessionOps
    BY DEF SessionOps, ReadOps, SendOps
  <2>2. \A op \in SessionOps \ {"send"} : pend[c][op] = 0
    BY <2>1, SingleLemma DEF Single
  <2>3. ~Answering(c)
    BY <2>1, NotAnswering
  <2>4. ~can_write[c]
    BY <2>1 DEF ConnInv, SessionInv, OneOperation
  <2> QED
    BY <2>1, <2>2, <2>3, <2>4 DEF Answering, Replying
<1>2. CASE Handler(c)
  <2>1. CASE OnRead(c)
    <3>1. ~(pend[c]["read_ok"] > 0) /\ ~(pend[c]["read_err"] > 0)
      BY <1>1 DEF ReadOps
    <3> QED
      BY <2>1, <3>1 DEF OnRead, OnReadError, OnReadProgress, OnReadMalformed, OnReadRequest
  <2>2. CASE \E k \in Requests : OnPostedWrite(c, k)
    BY <1>1, <2>2 DEF OnPostedWrite
  <2>3. CASE OnSend(c)
    BY <2>3 DEF OnSend, OnSent, OnSendError, sessionVars
  <2>4. CASE OnContinue(c)
    BY <1>1, <2>4 DEF OnContinue, ReadOps
  <2>5. CASE OnTimer(c)
    BY <2>5 DEF OnTimer, OnTimeout, OnTimerAborted, sessionVars
  <2> QED
    BY <1>2, <2>1, <2>2, <2>3, <2>4, <2>5 DEF Handler
<1>3. CASE Completion(c)
  BY <1>3 DEF Completion, ReadCompletes, SendCompletes, TimerExpires, sessionVars
<1>4. CASE Application(c)
  BY <1>4 DEF Application, AppSend, AppDestroy, AppPost, AppDestructed, sessionVars
<1>5. CASE Create(c) \/ Discard(c) \/ AcceptReturns(c) \/ \E s \in {"open", "closed"} : Start(c, s)
  BY <1>5 DEF Create, Discard, AcceptReturns, Start, sessionVars
<1> QED
  BY <1>2, <1>3, <1>4, <1>5 DEF Action

\* response_ stays as it is while async_send reads it.
THEOREM BufferStableCorrect == ConnSpec => BufferStable
<1>1. ASSUME ConnInv, [ConnNext]_connVars, NEW c \in Conns, pend[c]["send"] > 0
      PROVE  response'[c] = response[c]
  <2>1. ASSUME NEW d \in Conns, Action(d) PROVE response'[c] = response[c]
    <3>1. CASE d = c
      BY <1>1, <2>1, <3>1, ResponseKept
    <3>2. CASE d # c
      BY <1>1, <2>1, <3>2, ActionStep DEF StepOK, Same
    <3> QED
      BY <3>1, <3>2
  <2> QED
    BY <1>1, <2>1, NextCases
<1>2. ConnInv /\ [ConnNext]_connVars =>
          [\A c \in Conns : pend[c]["send"] > 0 => response'[c] = response[c]]_connVars
  BY <1>1
<1> QED
  BY <1>2, Invariance, PTL DEF ConnSpec, BufferStable

\* async_send is called for a response in DoWrite only, once.
LEMMA AnswersOnce ==
    ASSUME ConnInv, NEW c \in Conns, Action(c), NEW k \in Requests,
           answered'[c][k] # answered[c][k]
    PROVE  k = parsed'[c] /\ answered[c][k] = 0 /\ answered'[c][k] = 1
<1>1. ASSUME NEW j \in Requests, NEW writable, NEW p \in [Ops -> Nat], None(p),
             DoWrite(c, j, p, writable), answered[c][j] = 0, j = parsed'[c]
      PROVE  k = parsed'[c] /\ answered[c][k] = 0 /\ answered'[c][k] = 1
  BY <1>1, DoWriteLemma
<1>2. CASE Handler(c)
  <2>1. CASE OnReadMalformed(c)
    <3>1. pend[c]["read_ok"] > 0 /\ parsed[c] < MaxRequests
      BY <2>1 DEF OnReadMalformed
    <3>a. /\ parsed' = [parsed EXCEPT ![c] = @ + 1]
          /\ DoWrite(c, parsed[c] + 1, Finish(pend[c], "read_ok"), TRUE)
      BY <2>1 DEF OnReadMalformed
    <3>b. parsed \in [Conns -> 0..MaxRequests] /\ parsed[c] \in Nat
      BY ConnectionAssumption DEF ConnInv, ConnTypeOK, ObjectTypeOK
    <3>2. parsed'[c] = parsed[c] + 1 /\ parsed[c] + 1 > parsed[c]
      BY <3>a, <3>b
    <3>3. /\ parsed[c] + 1 \in Requests /\ answered[c][parsed[c] + 1] = 0
          /\ Finish(pend[c], "read_ok") \in [Ops -> Nat] /\ None(Finish(pend[c], "read_ok"))
      BY <3>1, <3>2, NewRequestLemma
    <3> QED
      BY <1>1, <3>a, <3>2, <3>3
  <2>2. ASSUME NEW j \in Requests, OnPostedWrite(c, j)
        PROVE  k = parsed'[c] /\ answered[c][k] = 0 /\ answered'[c][k] = 1
    <3>1. j = parsed[c] /\ can_write[c] /\ answered[c][j] = 0 /\ parsed' = parsed
      BY <2>2 DEF OnPostedWrite, ConnInv, SessionInv, RequestInv, TokenHeld
    <3>2. pend[c] \in [Ops -> Nat] /\ None(pend[c])
      BY <3>1, TokenLemma
    <3> QED
      BY <1>1, <2>2, <3>1, <3>2 DEF OnPostedWrite
  <2>3. ~(OnReadError(c) \/ OnReadProgress(c) \/ OnSend(c) \/ OnContinue(c) \/ OnTimer(c))
    BY DEF OnReadError, OnReadProgress, OnSend, OnSent, OnSendError, OnContinue, OnTimer,
           OnTimeout, OnTimerAborted, sessionVars
  <2>4. ~\E mode \in HandlerModes, keep_alive \in BOOLEAN : OnReadRequest(c, mode, keep_alive)
    BY DEF OnReadRequest
  <2> QED
    BY <1>2, <2>1, <2>2, <2>3, <2>4 DEF Handler, OnRead
<1>3. ~Completion(c)
  BY DEF Completion, ReadCompletes, SendCompletes, TimerExpires, sessionVars
<1>4. ~Application(c)
  BY DEF Application, AppSend, AppDestroy, AppPost, AppDestructed, sessionVars
<1>5. ~(Create(c) \/ Discard(c) \/ AcceptReturns(c) \/ \E s \in {"open", "closed"} : Start(c, s))
  BY DEF Create, Discard, AcceptReturns, Start, sessionVars
<1> QED
  BY <1>2, <1>3, <1>4, <1>5 DEF Action

\* Every response sent answers the latest request, which had none before.
THEOREM AnswersLatestCorrect == ConnSpec => AnswersLatestRequest
<1>1. ASSUME ConnInv, [ConnNext]_connVars, NEW c \in Conns, NEW k \in Requests,
             answered'[c][k] # answered[c][k]
      PROVE  k = parsed'[c] /\ answered[c][k] = 0 /\ answered'[c][k] = 1
  <2>1. ASSUME NEW d \in Conns, Action(d)
        PROVE  k = parsed'[c] /\ answered[c][k] = 0 /\ answered'[c][k] = 1
    <3>1. CASE d = c
      BY <1>1, <2>1, <3>1, AnswersOnce
    <3>2. CASE d # c
      BY <1>1, <2>1, <3>2, ActionStep DEF StepOK, Same
    <3> QED
      BY <3>1, <3>2
  <2> QED
    BY <1>1, <2>1, NextCases
<1>2. ConnInv /\ [ConnNext]_connVars =>
          [\A c \in Conns, k \in Requests :
               answered'[c][k] # answered[c][k] =>
                   k = parsed'[c] /\ answered[c][k] = 0 /\ answered'[c][k] = 1]_connVars
  BY <1>1
<1> QED
  BY <1>2, Invariance, PTL DEF ConnSpec, AnswersLatestRequest

\* While the connection is available, a request that waits for its answer waits
\* until Write has accepted one.
LEMMA ReplyAccepted ==
    ASSUME ConnInv, NEW c \in Conns, Action(c), NEW k \in Requests,
           Unanswered(c, k), ~Unanswered(c, k)', ConnectionIsAvailable(c)
    PROVE  writes'[c][k] = writes[c][k] + 1
<1>1. k = parsed[c] /\ can_write[c] /\ writes[c][k] = 0
  BY DEF ConnInv, SessionInv, RequestInv, TokenHeld
<1>2. /\ hrc' # hrc /\ hrc \in [Conns -> [Requests -> HrcStates]]
      /\ writes \in [Conns -> [Requests -> Nat]]
  BY DEF Unanswered, ConnInv, ConnTypeOK, ObjectTypeOK
<1>3. \A op \in SessionOps : pend[c][op] = 0
  BY <1>1, TokenLemma DEF None
<1>4. ~Handler(c)
  <2>1. ~(pend[c]["read_ok"] > 0)
    BY <1>3 DEF SessionOps, ReadOps
  <2>2. ~OnRead(c)
    BY <1>2, <2>1 DEF OnRead, OnReadError, OnReadProgress, OnReadMalformed, OnReadRequest
  <2>3. ~(OnSend(c) \/ OnContinue(c) \/ OnTimer(c) \/ \E j \in Requests : OnPostedWrite(c, j))
    BY <1>2 DEF OnSend, OnSent, OnSendError, OnContinue, OnTimer, OnTimeout, OnTimerAborted,
           OnPostedWrite
  <2> QED
    BY <2>2, <2>3 DEF Handler
<1>5. ~Completion(c) /\ ~AppDestructed(c)
  BY <1>2 DEF Completion, ReadCompletes, SendCompletes, TimerExpires, AppDestructed
<1>6. ~(Create(c) \/ Discard(c) \/ AcceptReturns(c) \/ \E s \in {"open", "closed"} : Start(c, s))
  BY <1>2 DEF Create, Discard, AcceptReturns, Start
<1>7. PICK j \in Requests : AppSend(c, j) \/ AppDestroy(c, j) \/ AppPost(c, j)
  BY <1>4, <1>5, <1>6 DEF Action, Application
<1>8. j = k
  <2>1. \E h : hrc' = [hrc EXCEPT ![c][j] = h]
    BY <1>7 DEF AppSend, AppDestroy, AppPost, SetHrc
  <2> QED
    BY <1>2, <2>1 DEF Unanswered
<1>9. Writable(c)
  BY <1>1 DEF Writable
<1>10. ~AppSend(c, k)
  BY <1>2, <1>9 DEF AppSend, SetHrc, Unanswered
<1>11. ~AppDestroy(c, k)
  BY <1>2, <1>9 DEF AppDestroy, SetHrc, Unanswered
<1> QED
  BY <1>2, <1>7, <1>8, <1>10, <1>11 DEF AppPost, PostWrite

\* A posted DoWrite ends in async_send, unless the server was stopped.
LEMMA ReplySent ==
    ASSUME ConnInv, NEW c \in Conns, Action(c), NEW k \in Requests,
           writes'[c][k] < writes[c][k], ~stopped
    PROVE  answered'[c][k] = answered[c][k] + 1
<1>1. /\ writes \in [Conns -> [Requests -> Nat]]
      /\ answered \in [Conns -> [Requests -> Nat]]
      /\ writes' # writes
  BY DEF ConnInv, ConnTypeOK, ObjectTypeOK
<1>2. ASSUME NEW j \in Requests, PostWrite(c, j) PROVE FALSE
  <2>1. writes'[c][k] \in {writes[c][k], writes[c][k] + 1} /\ writes[c][k] \in Nat
    BY <1>1, <1>2 DEF PostWrite
  <2> QED
    BY <2>1
<1>3. ~OnRead(c)
  <2>1. ~OnReadError(c) /\ ~OnReadProgress(c) /\ ~OnReadMalformed(c)
    BY <1>1 DEF OnReadError, OnReadProgress, OnReadMalformed
  <2>2. ASSUME NEW mode \in HandlerModes, NEW keep_alive \in BOOLEAN,
               OnReadRequest(c, mode, keep_alive)
        PROVE  FALSE
    <3>1. parsed[c] + 1 \in Requests
      BY <2>2, NewRequestLemma DEF OnReadRequest
    <3>2. PostWrite(c, parsed[c] + 1)
      BY <1>1, <2>2 DEF OnReadRequest
    <3> QED
      BY <1>2, <3>1, <3>2
  <2> QED
    BY <2>1, <2>2 DEF OnRead
<1>4. ~(OnSend(c) \/ OnContinue(c) \/ OnTimer(c))
  BY <1>1 DEF OnSend, OnSent, OnSendError, OnContinue, OnTimer, OnTimeout, OnTimerAborted
<1>5. ~Completion(c)
  BY <1>1 DEF Completion, ReadCompletes, SendCompletes, TimerExpires
<1>6. ~Application(c)
  BY <1>1, <1>2 DEF Application, AppSend, AppDestroy, AppPost, AppDestructed
<1>7. ~(Create(c) \/ Discard(c) \/ AcceptReturns(c) \/ \E s \in {"open", "closed"} : Start(c, s))
  BY <1>1 DEF Create, Discard, AcceptReturns, Start
<1>8. PICK j \in Requests : OnPostedWrite(c, j)
  BY <1>3, <1>4, <1>5, <1>6, <1>7 DEF Action, Handler
<1>9. j = k
  <2>1. writes' = [writes EXCEPT ![c][j] = @ - 1]
    BY <1>8 DEF OnPostedWrite
  <2>2. j # k => writes'[c][k] = writes[c][k]
    BY <1>1, <2>1
  <2> QED
    BY <1>1, <2>2
<1>10. can_write[c]
  BY <1>8 DEF OnPostedWrite, ConnInv, SessionInv, RequestInv, TokenHeld
<1>11. answered' = [answered EXCEPT ![c][k] = @ + 1]
  BY <1>8, <1>9, <1>10 DEF OnPostedWrite, DoWrite, IsStopped
<1> QED
  BY <1>1, <1>11

\* A reply is lost to a stop or to the timeout only.
THEOREM NoReplyLostCorrect == ConnSpec => NoReplyLost
<1> DEFINE Kept(c, k) ==
      /\ Unanswered(c, k) /\ ~Unanswered(c, k)' /\ ConnectionIsAvailable(c)
         => writes'[c][k] = writes[c][k] + 1
      /\ writes'[c][k] < writes[c][k] /\ ~stopped
         => answered'[c][k] = answered[c][k] + 1
<1>1. ASSUME ConnInv, [ConnNext]_connVars, NEW c \in Conns, NEW k \in Requests
      PROVE  Kept(c, k)
  <2>1. ASSUME NEW d \in Conns, Action(d) PROVE Kept(c, k)
    <3>1. CASE d = c
      BY <1>1, <2>1, <3>1, ReplyAccepted, ReplySent
    <3>2. CASE d # c
      <4>1. hrc'[c] = hrc[c] /\ writes'[c] = writes[c]
        BY <1>1, <2>1, <3>2, ActionStep DEF StepOK, Same
      <4>2. writes[c][k] \in Nat
        BY <1>1 DEF ConnInv, ConnTypeOK, ObjectTypeOK
      <4> QED
        BY <4>1, <4>2 DEF Unanswered
    <3> QED
      BY <3>1, <3>2
  <2>2. CASE UNCHANGED <<hrc, writes>>
    <3>1. writes[c][k] \in Nat
      BY <1>1 DEF ConnInv, ConnTypeOK, ObjectTypeOK
    <3> QED
      BY <2>2, <3>1 DEF Unanswered
  <2> QED
    BY <1>1, <2>1, <2>2, NextCases
<1>2. ConnInv /\ [ConnNext]_connVars =>
          [\A c \in Conns, k \in Requests : Kept(c, k)]_connVars
  BY <1>1
<1> QED
  BY <1>2, Invariance, PTL DEF ConnSpec, NoReplyLost

-----------------------------------------------------------------------------
(* The timer.  A connection has at most one wait, and none after the        *)
(* timeout: whatever ends the session later need not cancel it.             *)

NoWait(c) == \A op \in WaitOps : pend[c][op] = 0

OneWait(c) ==
    \A op \in WaitOps : pend[c][op] > 0 =>
        pend[c][op] = 1 /\ \A o \in WaitOps \ {op} : pend[c][o] = 0

Unstarted(c) == life[c] \in {"none", "accepting"}

TimerInv(c) ==
    /\ OneWait(c)
    /\ canceled[c] => NoWait(c) /\ ~Unstarted(c)
    /\ SessionOver(c) => pend[c]["wait"] = 0 \/ stopped

\* What no action but OnTimeout changes, and no action at all.
LEMMA TimerFrame ==
    ASSUME ConnInv, NEW c \in Conns, Action(c)
    PROVE  /\ stopped' = stopped
           /\ Unstarted(c)' => Unstarted(c)
           /\ canceled' = canceled \/ OnTimeout(c)
<1>1. life \in [Conns -> LifeStates]
  BY DEF ConnInv, ConnTypeOK, ObjectTypeOK
<1>2. ASSUME NEW end \in {"destroyed", "destructing"}, ReleaseTo(c, end)
      PROVE  Unstarted(c)' => Unstarted(c)
  BY <1>1, <1>2 DEF ReleaseTo, Unstarted
<1>3. ASSUME life' = life PROVE Unstarted(c)' => Unstarted(c)
  BY <1>3 DEF Unstarted
<1>4. CASE OnRead(c)
  BY <1>2, <1>3, <1>4 DEF OnRead, OnReadError, OnReadProgress, OnReadMalformed, OnReadRequest,
         Release, sharedVars
<1>5. CASE OnSend(c) \/ OnContinue(c) \/ \E k \in Requests : OnPostedWrite(c, k)
  BY <1>2, <1>3, <1>5 DEF OnSend, OnSent, OnSendError, OnContinue, OnPostedWrite, Release,
         sharedVars
<1>6. CASE OnTimer(c)
  BY <1>2, <1>6 DEF OnTimer, OnTimeout, OnTimerAborted, Release
<1>7. CASE Completion(c)
  BY <1>3, <1>7 DEF Completion, ReadCompletes, SendCompletes, TimerExpires, sharedVars
<1>8. CASE Application(c)
  <2>1. CASE AppDestructed(c)
    BY <1>1, <2>1 DEF AppDestructed, Unstarted, sharedVars
  <2>2. CASE \E k \in Requests : AppSend(c, k) \/ AppDestroy(c, k) \/ AppPost(c, k)
    BY <1>2, <1>3, <2>2 DEF AppSend, AppDestroy, AppPost, sharedVars
  <2> QED
    BY <1>8, <2>1, <2>2 DEF Application
<1>9. CASE Create(c) \/ Discard(c) \/ AcceptReturns(c) \/ \E s \in {"open", "closed"} : Start(c, s)
  BY <1>1, <1>2, <1>9 DEF Create, Discard, AcceptReturns, Release, Start, Unstarted, sharedVars
<1> QED
  BY <1>4, <1>5, <1>6, <1>7, <1>8, <1>9 DEF Action, Handler

WaitsSame(c) == \A op \in WaitOps : pend'[c][op] = pend[c][op]

\* A step that leaves the timer alone must not end the session, unless the
\* server was stopped or the timeout is over.
LEMMA TimerAlone ==
    ASSUME ConnInv, NEW c \in Conns, Action(c), ~OnTimeout(c), TimerInv(c), WaitsSame(c),
           SessionOver(c)' => SessionOver(c) \/ stopped \/ canceled[c]
    PROVE  TimerInv(c)'
<1>1. /\ stopped' = stopped /\ canceled' = canceled
      /\ Unstarted(c)' => Unstarted(c)
  BY TimerFrame
<1>2. OneWait(c)'
  BY DEF TimerInv, OneWait, WaitsSame
<1>3. NoWait(c)' <=> NoWait(c)
  BY DEF NoWait, WaitsSame
<1>4. pend'[c]["wait"] = pend[c]["wait"] /\ (NoWait(c) => pend[c]["wait"] = 0)
  BY DEF WaitsSame, NoWait, WaitOps
<1> QED
  BY <1>1, <1>2, <1>3, <1>4 DEF TimerInv

\* A step that leaves something of the session outstanding does not end it.
LEMMA TimerGoesOn ==
    ASSUME ConnInv, NEW c \in Conns, Action(c), ~OnTimeout(c), TimerInv(c), WaitsSame(c),
           Outstanding(c, SessionOps)'
    PROVE  TimerInv(c)'
BY TimerAlone DEF SessionOver

\* CancelTimeoutTimer at the end of the session.
LEMMA TimerIsCanceled ==
    ASSUME ConnInv, NEW c \in Conns, Action(c), ~OnTimeout(c), TimerInv(c),
           NEW p \in [Ops -> Nat], \A op \in WaitOps : p[op] = pend[c][op],
           pend'[c] = CancelTimeoutTimer(p)
    PROVE  TimerInv(c)'
<1>1. canceled' = canceled /\ (Unstarted(c)' => Unstarted(c))
  BY TimerFrame
<1>2. /\ pend'[c]["wait"] = 0 /\ pend'[c]["wait_ok"] = p["wait_ok"]
      /\ pend'[c]["wait_aborted"] = p["wait_aborted"] + p["wait"]
  BY DEF CancelTimeoutTimer, Ops, WaitOps
<1>3. /\ p["wait"] \in Nat /\ p["wait_ok"] \in Nat /\ p["wait_aborted"] \in Nat
      /\ p["wait"] = pend[c]["wait"] /\ p["wait_ok"] = pend[c]["wait_ok"]
      /\ p["wait_aborted"] = pend[c]["wait_aborted"]
  BY DEF Ops, WaitOps
<1>4. OneWait(c)'
  BY <1>2, <1>3, SMTT(30) DEF OneWait, WaitOps, TimerInv
<1>5. NoWait(c) => NoWait(c)'
  BY <1>2, <1>3 DEF NoWait, WaitOps
<1> QED
  BY <1>1, <1>2, <1>4, <1>5 DEF TimerInv

LEMMA TimerInvStart ==
    ASSUME ConnInv, NEW c \in Conns, NEW s \in {"open", "closed"}, Start(c, s), TimerInv(c)
    PROVE  TimerInv(c)'
<1>1. Action(c) /\ ~OnTimeout(c)
  <2>1. \A o \in Ops : pend[c][o] = 0
    BY DEF ConnInv, SessionInv, LifeInv, Unreferenced, Start
  <2> QED
    BY <2>1 DEF Action, OnTimeout, Ops, WaitOps
<1>2. canceled' = canceled /\ ~canceled[c]
  BY DEF Start, TimerInv, Unstarted
<1>3. \A o \in Ops : pend[c][o] = 0
  BY DEF ConnInv, SessionInv, LifeInv, Unreferenced, Start
<1> DEFINE q == SetTimeoutTimer(c, Begin(pend[c], "accepted"))
<1>4. /\ q \in [Ops -> Nat] /\ None(q)
      /\ q["wait"] \in {0, 1} /\ q["wait_ok"] = 0 /\ q["wait_aborted"] = 0
  BY <1>3, AcceptedLemma
<1>5. pend'[c] = DoRead(q, s)
  BY DEF Start, SetPend, ConnInv, ConnTypeOK, ObjectTypeOK
<1> HIDE DEF q
<1>6. \A o \in WaitOps : pend'[c][o] = q[o]
  BY <1>4, <1>5 DEF DoRead, Begin, Ops, SessionOps, ReadOps, SendOps, WaitOps
<1>7. OneWait(c)'
  BY <1>4, <1>6 DEF OneWait, WaitOps
<1>8. Outstanding(c, SessionOps)'
  <2>1. \E op \in ReadOps : Only(pend'[c], op)
    BY <1>4, <1>5, DoReadLemma
  <2> QED
    BY <2>1 DEF Outstanding, Only, SessionOps
<1> QED
  BY <1>2, <1>7, <1>8 DEF TimerInv, SessionOver

\* The session goes on with an operation of its own.
LEMMA TimerInvGoesOn ==
    ASSUME ConnInv, NEW c \in Conns, TimerInv(c), ~OnTimeout(c),
           \/ ReadCompletes(c) \/ SendCompletes(c) \/ OnReadProgress(c) \/ OnContinue(c)
    PROVE  TimerInv(c)'
<1>1. Action(c)
  BY DEF Action, Handler, Completion, OnRead
<1>2. CASE ReadCompletes(c)
  <2>1. PICK r \in {"read_ok", "read_err"} : SetPend(c, Complete(pend[c], "read", r))
    BY <1>2 DEF ReadCompletes
  <2>2. pend'[c] = Complete(pend[c], "read", r) /\ pend[c] \in [Ops -> Nat]
    BY <2>1 DEF SetPend, ConnInv, ConnTypeOK, ObjectTypeOK
  <2>3. WaitsSame(c)
    BY <2>2 DEF WaitsSame, Complete, Ops, SessionOps, ReadOps, SendOps, WaitOps
  <2>4. Only(pend'[c], r)
    BY <1>2, <2>2, SingleLemma, CompleteLemma DEF ReadCompletes, SessionOps, ReadOps
  <2> QED
    BY <1>1, <2>3, <2>4, TimerGoesOn DEF Outstanding, Only, SessionOps, ReadOps
<1>3. CASE SendCompletes(c)
  <2>1. PICK r \in {"send_ok", "send_part", "send_err"} :
            SetPend(c, Complete(pend[c], "send", r))
    BY <1>3 DEF SendCompletes
  <2>2. pend'[c] = Complete(pend[c], "send", r) /\ pend[c] \in [Ops -> Nat]
    BY <2>1 DEF SetPend, ConnInv, ConnTypeOK, ObjectTypeOK
  <2>3. WaitsSame(c)
    BY <2>2 DEF WaitsSame, Complete, Ops, SessionOps, ReadOps, SendOps, WaitOps
  <2>4. Only(pend'[c], r)
    BY <1>3, <2>2, SingleLemma, CompleteLemma DEF SendCompletes, SessionOps, SendOps
  <2> QED
    BY <1>1, <2>3, <2>4, TimerGoesOn DEF Outstanding, Only, SessionOps, SendOps
<1>4. ASSUME NEW op \in {"read_ok", "continue"}, pend[c][op] > 0,
             SetPend(c, DoRead(Finish(pend[c], op), socket[c]))
      PROVE  TimerInv(c)'
  <2> DEFINE f == Finish(pend[c], op)
  <2>1. f \in [Ops -> Nat] /\ None(f) /\ \A o \in WaitOps : f[o] = pend[c][o]
    BY <1>4, SingleLemma, FinishLast DEF SessionOps, ReadOps
  <2>2. pend'[c] = DoRead(f, socket[c])
    BY <1>4 DEF SetPend, ConnInv, ConnTypeOK, ObjectTypeOK
  <2> HIDE DEF f
  <2>3. WaitsSame(c)
    BY <2>1, <2>2 DEF WaitsSame, DoRead, Begin, Ops, SessionOps, ReadOps, SendOps, WaitOps
  <2>4. \E o \in ReadOps : Only(pend'[c], o)
    BY <2>1, <2>2, DoReadLemma
  <2> QED
    BY <1>1, <2>3, <2>4, TimerGoesOn DEF Outstanding, Only, SessionOps
<1> QED
  BY <1>2, <1>3, <1>4 DEF OnReadProgress, OnContinue

\* The handlers that cancel the timer, and OnSent when the request is kept alive.
LEMMA TimerInvEnds ==
    ASSUME ConnInv, NEW c \in Conns, TimerInv(c), ~OnTimeout(c),
           \/ OnReadError(c) \/ OnSendError(c)
           \/ \E result \in {"send_ok", "send_part"} : OnSent(c, result)
    PROVE  TimerInv(c)'
<1>1. Action(c)
  BY DEF Action, Handler, OnRead, OnSend
<1>2. ASSUME NEW op \in SessionOps, pend[c][op] > 0
      PROVE  LET f == Finish(pend[c], op)
             IN  f \in [Ops -> Nat] /\ None(f) /\ \A o \in WaitOps : f[o] = pend[c][o]
  BY <1>2, SingleLemma, FinishLast
<1>3. ASSUME NEW op \in SessionOps, pend[c][op] > 0,
             SetPend(c, CancelTimeoutTimer(Finish(pend[c], op)))
      PROVE  TimerInv(c)'
  <2>1. pend'[c] = CancelTimeoutTimer(Finish(pend[c], op))
    BY <1>3 DEF SetPend, ConnInv, ConnTypeOK, ObjectTypeOK
  <2> QED
    BY <1>1, <1>2, <1>3, <2>1, TimerIsCanceled
<1>4. CASE OnReadError(c) \/ OnSendError(c)
  BY <1>3, <1>4 DEF OnReadError, OnSendError, SessionOps, ReadOps, SendOps
<1>5. ASSUME NEW result \in {"send_ok", "send_part"}, OnSent(c, result)
      PROVE  TimerInv(c)'
  <2>1. result \in SessionOps /\ pend[c][result] > 0
    BY <1>5 DEF OnSent, SessionOps, SendOps
  <2>2. CASE ~keep[c][response[c]]
    BY <1>3, <1>5, <2>1, <2>2 DEF OnSent
  <2>3. CASE keep[c][response[c]]
    <3> DEFINE f == Finish(pend[c], result)
    <3>1. f \in [Ops -> Nat] /\ None(f) /\ \A o \in WaitOps : f[o] = pend[c][o]
      BY <1>2, <2>1
    <3>2. pend'[c] = Begin(f, "continue")
      BY <1>5, <2>3 DEF OnSent, SetPend, ConnInv, ConnTypeOK, ObjectTypeOK
    <3> HIDE DEF f
    <3>3. WaitsSame(c)
      BY <3>1, <3>2 DEF WaitsSame, Begin, Ops, SessionOps, ReadOps, SendOps, WaitOps
    <3>4. Only(pend'[c], "continue")
      BY <3>1, <3>2, BeginFirst DEF SessionOps, ReadOps
    <3> QED
      BY <1>1, <3>3, <3>4, TimerGoesOn DEF Outstanding, Only, SessionOps, ReadOps
  <2> QED
    BY <2>2, <2>3
<1> QED
  BY <1>4, <1>5

\* The handlers of the timer, and its expiry.
LEMMA TimerInvTimer ==
    ASSUME ConnInv, NEW c \in Conns, TimerInv(c),
           TimerExpires(c) \/ OnTimerAborted(c) \/ OnTimeout(c)
    PROVE  TimerInv(c)'
<1>1. pend[c] \in [Ops -> Nat] /\ canceled \in [Conns -> BOOLEAN]
  BY DEF ConnInv, ConnTypeOK, ObjectTypeOK
<1>2. /\ pend[c]["wait"] \in Nat /\ pend[c]["wait_ok"] \in Nat
      /\ pend[c]["wait_aborted"] \in Nat
  BY <1>1 DEF Ops, WaitOps
<1>3. ~Unstarted(c)'
  <2>1. life[c] = "started"
    BY StartedLemma DEF TimerExpires, OnTimerAborted, OnTimeout, Ops, WaitOps
  <2> QED
    BY <2>1, StaysStarted DEF Unstarted, TimerExpires, OnTimerAborted, OnTimeout, Release
<1>4. CASE TimerExpires(c)
  <2>1. pend'[c] = Complete(pend[c], "wait", "wait_ok") /\ pend[c]["wait"] > 0
    BY <1>4 DEF TimerExpires, SetPend, ConnInv, ConnTypeOK, ObjectTypeOK
  <2>2. pend[c]["wait"] = 1 /\ pend[c]["wait_ok"] = 0 /\ pend[c]["wait_aborted"] = 0
    BY <2>1 DEF TimerInv, OneWait, WaitOps
  <2>3. pend'[c]["wait"] = 0 /\ pend'[c]["wait_ok"] = 1 /\ pend'[c]["wait_aborted"] = 0
    BY <1>1, <2>1, <2>2 DEF Complete, Ops, WaitOps
  <2>4. ~canceled'[c]
    BY <1>4, <2>2 DEF TimerExpires, TimerInv, NoWait, WaitOps
  <2> QED
    BY <2>3, <2>4 DEF TimerInv, OneWait, WaitOps
<1>5. ASSUME NoWait(c)' PROVE TimerInv(c)'
  BY <1>3, <1>5 DEF TimerInv, OneWait, NoWait, WaitOps
<1>6. CASE OnTimerAborted(c)
  <2>1. pend'[c] = Finish(pend[c], "wait_aborted") /\ pend[c]["wait_aborted"] > 0
    BY <1>6 DEF OnTimerAborted, SetPend, ConnInv, ConnTypeOK, ObjectTypeOK
  <2>2. pend[c]["wait_aborted"] = 1 /\ pend[c]["wait"] = 0 /\ pend[c]["wait_ok"] = 0
    BY <2>1 DEF TimerInv, OneWait, WaitOps
  <2>3. NoWait(c)'
    BY <1>1, <2>1, <2>2 DEF Finish, NoWait, Ops, WaitOps
  <2> QED
    BY <1>5, <2>3
<1>7. CASE OnTimeout(c)
  <2> DEFINE f == Finish(pend[c], "wait_ok")
  <2>1. pend'[c] = CloseSocket(f) /\ pend[c]["wait_ok"] > 0
    BY <1>7 DEF OnTimeout, SetPend, ConnInv, ConnTypeOK, ObjectTypeOK
  <2>2. pend[c]["wait_ok"] = 1 /\ pend[c]["wait"] = 0 /\ pend[c]["wait_aborted"] = 0
    BY <2>1 DEF TimerInv, OneWait, WaitOps
  <2>3. f \in [Ops -> Nat] /\ f["wait_ok"] = 0 /\ f["wait"] = 0 /\ f["wait_aborted"] = 0
    BY <1>1, <2>2 DEF Finish, Ops, WaitOps
  <2> HIDE DEF f
  <2>4. NoWait(c)'
    BY <2>1, <2>3 DEF CloseSocket, NoWait, Ops, SessionOps, ReadOps, SendOps, WaitOps
  <2> QED
    BY <1>5, <2>4
<1> QED
  BY <1>4, <1>6, <1>7

\* DoWrite sends, unless the server was stopped.
LEMMA TimerInvWrite ==
    ASSUME ConnInv, NEW c \in Conns, TimerInv(c), Action(c), ~OnTimeout(c),
           NEW k \in Requests, NEW p \in [Ops -> Nat], None(p),
           \A o \in WaitOps : p[o] = pend[c][o], DoWrite(c, k, p, TRUE)
    PROVE  TimerInv(c)'
<1>1. CASE stopped
  <2>1. pend'[c] = p
    BY <1>1 DEF DoWrite, IsStopped, SetPend, ConnInv, ConnTypeOK, ObjectTypeOK
  <2> QED
    BY <1>1, <2>1, TimerAlone DEF WaitsSame
<1>2. CASE ~stopped
  <2>1. pend'[c] = StartSend(p, socket[c])
    BY <1>2 DEF DoWrite, IsStopped, SetPend, ConnInv, ConnTypeOK, ObjectTypeOK
  <2>2. WaitsSame(c)
    BY <2>1 DEF WaitsSame, StartSend, Begin, Ops, SessionOps, ReadOps, SendOps, WaitOps
  <2>3. \E op \in SendOps : Only(pend'[c], op)
    BY <2>1, StartSendLemma
  <2> QED
    BY <2>2, <2>3, TimerGoesOn DEF Outstanding, Only, SessionOps
<1> QED
  BY <1>1, <1>2

LEMMA TimerInvPostedWrite ==
    ASSUME ConnInv, NEW c \in Conns, TimerInv(c), ~OnTimeout(c),
           NEW k \in Requests, OnPostedWrite(c, k)
    PROVE  TimerInv(c)'
<1>1. can_write[c]
  BY DEF OnPostedWrite, ConnInv, SessionInv, RequestInv, TokenHeld
<1>2. pend[c] \in [Ops -> Nat] /\ None(pend[c])
  BY <1>1, TokenLemma
<1>3. DoWrite(c, k, pend[c], TRUE)
  BY <1>1 DEF OnPostedWrite, ConnInv, ConnTypeOK, ObjectTypeOK
<1>4. Action(c)
  BY DEF Action, Handler
<1> QED
  BY <1>2, <1>3, <1>4, TimerInvWrite

LEMMA TimerInvMalformed ==
    ASSUME ConnInv, NEW c \in Conns, TimerInv(c), ~OnTimeout(c), OnReadMalformed(c)
    PROVE  TimerInv(c)'
<1> DEFINE f == Finish(pend[c], "read_ok")
<1>1. f \in [Ops -> Nat] /\ None(f) /\ \A o \in WaitOps : f[o] = pend[c][o]
  BY SingleLemma, FinishLast DEF OnReadMalformed, SessionOps, ReadOps
<1>2. parsed[c] + 1 \in Requests /\ DoWrite(c, parsed[c] + 1, f, TRUE)
  BY NewRequestLemma DEF OnReadMalformed
<1>3. Action(c)
  BY DEF Action, Handler, OnRead
<1> HIDE DEF f
<1> QED
  BY <1>1, <1>2, <1>3, TimerInvWrite

\* The callback replies or keeps the request, unless the server was stopped or
\* the timeout is over.
LEMMA TimerInvRequest ==
    ASSUME ConnInv, NEW c \in Conns, TimerInv(c), ~OnTimeout(c), NEW mode \in HandlerModes,
           NEW keep_alive \in BOOLEAN, OnReadRequest(c, mode, keep_alive)
    PROVE  TimerInv(c)'
<1> DEFINE f == Finish(pend[c], "read_ok")
           k == parsed[c] + 1
<1>1. f \in [Ops -> Nat] /\ None(f) /\ \A o \in WaitOps : f[o] = pend[c][o]
  BY SingleLemma, FinishLast DEF OnReadRequest, SessionOps, ReadOps
<1>2. pend'[c] = f
  BY DEF OnReadRequest, SetPend, ConnInv, ConnTypeOK, ObjectTypeOK
<1>3. k \in Requests /\ writes[c][k] = 0
  BY NewRequestLemma DEF OnReadRequest
<1>4. SessionOver(c)' => stopped \/ canceled[c]
  <2>1. CASE mode = "retain"
    <3>1. hrc'[c][k] = "held"
      BY <1>3, <2>1 DEF OnReadRequest, ConnInv, ConnTypeOK, ObjectTypeOK
    <3> QED
      BY <1>3, <3>1 DEF SessionOver, Replying, Unanswered
  <2>2. CASE mode = "reply" /\ ConnectionIsAvailable(c)
    <3>1. writes'[c][k] = 1
      BY <1>3, <2>2 DEF OnReadRequest, PostWrite, ConnInv, ConnTypeOK, ObjectTypeOK
    <3> QED
      BY <1>3, <3>1 DEF SessionOver, Replying
  <2>3. CASE mode = "reply" /\ ~ConnectionIsAvailable(c)
    BY <2>3 DEF ConnectionIsAvailable, IsStopped
  <2> QED
    BY <2>1, <2>2, <2>3, ConnectionAssumption
<1>5. Action(c)
  BY DEF Action, Handler, OnRead
<1> QED
  BY <1>1, <1>2, <1>4, <1>5, TimerAlone DEF WaitsSame

\* A thread of the application drops a request that is not answered only when
\* the server was stopped or the timeout is over.
LEMMA TimerInvApplication ==
    ASSUME ConnInv, NEW c \in Conns, TimerInv(c), ~OnTimeout(c), Application(c)
    PROVE  TimerInv(c)'
<1>0. Action(c)
  BY DEF Action
<1>1. /\ hrc \in [Conns -> [Requests -> HrcStates]]
      /\ writes \in [Conns -> [Requests -> Nat]]
  BY DEF ConnInv, ConnTypeOK, ObjectTypeOK
<1>2. pend' = pend
  BY DEF Application, AppSend, AppDestroy, AppPost, AppDestructed
<1>3. ASSUME NEW k \in Requests, hrc[c][k] = "held", ~Writable(c)
      PROVE  stopped \/ canceled[c]
  <2>1. can_write[c]
    BY <1>3 DEF ConnInv, SessionInv, RequestInv, TokenHeld, Unanswered
  <2> QED
    BY <1>3, <2>1 DEF Writable, ConnectionIsAvailable, IsStopped
<1>4. SessionOver(c)' => SessionOver(c) \/ stopped \/ canceled[c]
  <2>1. ASSUME NEW k \in Requests, AppSend(c, k)
        PROVE  SessionOver(c)' => stopped \/ canceled[c]
    <3>1. CASE Writable(c)
      <4>1. hrc'[c][k] = "posting"
        BY <1>1, <2>1, <3>1 DEF AppSend, SetHrc
      <4> QED
        BY <4>1 DEF SessionOver, Replying, Unanswered
    <3> QED
      BY <1>3, <2>1, <3>1 DEF AppSend
  <2>2. ASSUME NEW k \in Requests, AppDestroy(c, k)
        PROVE  SessionOver(c)' => SessionOver(c) \/ stopped \/ canceled[c]
    <3>1. CASE hrc[c][k] = "held" /\ Writable(c)
      <4>1. hrc'[c][k] = "dying"
        BY <1>1, <2>2, <3>1 DEF AppDestroy, SetHrc
      <4> QED
        BY <4>1 DEF SessionOver, Replying, Unanswered
    <3>2. CASE hrc[c][k] = "sent"
      <4>1. /\ hrc[c][k] = "sent" /\ writes' = writes
            /\ \A j \in Requests \ {k} : hrc'[c][j] = hrc[c][j]
        BY <1>1, <2>2, <3>2 DEF AppDestroy, SetHrc
      <4>2. \A j \in Requests : ~Replying(c, j)' => ~Replying(c, j)
        BY <4>1 DEF Replying, Unanswered
      <4> QED
        BY <1>2, <4>2 DEF SessionOver, Outstanding
    <3> QED
      BY <1>3, <2>2, <3>1, <3>2 DEF AppDestroy
  <2>3. ASSUME NEW k \in Requests, AppPost(c, k)
        PROVE  ~SessionOver(c)'
    <3>1. writes'[c][k] > 0
      BY <1>1, <2>3 DEF AppPost, PostWrite
    <3> QED
      BY <3>1 DEF SessionOver, Replying
  <2>4. CASE AppDestructed(c)
    BY <1>2, <2>4 DEF AppDestructed, SessionOver, Outstanding, Replying, Unanswered
  <2> QED
    BY <2>1, <2>2, <2>3, <2>4 DEF Application
<1> QED
  BY <1>0, <1>2, <1>4, TimerAlone DEF WaitsSame

\* The accept handler leaves the session and its timer alone.
LEMMA TimerInvAccept ==
    ASSUME ConnInv, NEW c \in Conns, TimerInv(c), AcceptReturns(c), ~OnTimeout(c)
    PROVE  TimerInv(c)'
<1>1. \A o \in SessionOps \cup WaitOps : pend'[c][o] = pend[c][o]
  BY DEF AcceptReturns, SetPend, Finish, ConnInv, ConnTypeOK, ObjectTypeOK, Ops, SessionOps,
         ReadOps, SendOps, WaitOps
<1>2. SessionOver(c)' => SessionOver(c)
  BY <1>1 DEF AcceptReturns, SessionOver, Outstanding, Replying, Unanswered
<1>3. Action(c) /\ WaitsSame(c)
  BY <1>1 DEF Action, WaitsSame
<1> QED
  BY <1>2, <1>3, TimerAlone

LEMMA TimerInvAction ==
    ASSUME ConnInv, NEW c \in Conns, TimerInv(c), Action(c)
    PROVE  TimerInv(c)'
<1>1. CASE OnTimeout(c)
  BY <1>1, TimerInvTimer
<1>2. CASE ~OnTimeout(c)
  <2>1. CASE Handler(c)
    BY <1>2, <2>1, TimerInvTimer, TimerInvGoesOn, TimerInvEnds, TimerInvPostedWrite,
       TimerInvMalformed, TimerInvRequest DEF Handler, OnRead, OnSend, OnTimer
  <2>2. CASE Completion(c)
    BY <1>2, <2>2, TimerInvTimer, TimerInvGoesOn DEF Completion
  <2>3. CASE Application(c)
    BY <1>2, <2>3, TimerInvApplication
  <2>4. CASE \E s \in {"open", "closed"} : Start(c, s)
    BY <2>4, TimerInvStart
  <2>5. CASE Create(c) \/ Discard(c)
    <3>1. UNCHANGED <<pend, writes, hrc>>
      BY <2>5 DEF Create, Discard
    <3> QED
      BY <1>2, <2>5, <3>1, TimerAlone
         DEF Action, WaitsSame, SessionOver, Outstanding, Replying, Unanswered
  <2>6. CASE AcceptReturns(c)
    BY <1>2, <2>6, TimerInvAccept
  <2> QED
    BY <2>1, <2>2, <2>3, <2>4, <2>5, <2>6 DEF Action
<1> QED
  BY <1>1, <1>2

\* A step of one connection leaves the timers of the others alone.
LEMMA TimerInvSame ==
    ASSUME ConnInv, NEW c \in Conns, NEW d \in Conns \ {c}, TimerInv(d), Action(c)
    PROVE  TimerInv(d)'
<1>1. Same(d) /\ stopped' = stopped
  BY ActionStep, TimerFrame DEF StepOK
<1>2. canceled'[d] = canceled[d]
  <2>1. canceled' = canceled \/ canceled' = [canceled EXCEPT ![c] = TRUE]
    BY TimerFrame DEF OnTimeout
  <2>2. canceled \in [Conns -> BOOLEAN] /\ d # c
    BY DEF ConnInv, ConnTypeOK, ObjectTypeOK
  <2> QED
    BY <2>1, <2>2
<1> QED
  BY <1>1, <1>2 DEF TimerInv, OneWait, NoWait, Unstarted, SessionOver, Outstanding, Replying,
       Unanswered, Same

TimersInv == \A c \in Conns : TimerInv(c)

\* When a session ends its timer is canceled, whatever ended it.
THEOREM TimerEndsCorrect == ConnSpec => []TimerEndsWithSession
<1>1. ConnInit => TimersInv
  BY DEF ConnInit, TimersInv, TimerInv, OneWait, NoWait, Ops, WaitOps
<1>2. TimersInv /\ ConnInv /\ [ConnNext]_connVars => TimersInv'
  <2> SUFFICES ASSUME TimersInv, ConnInv, [ConnNext]_connVars, NEW d \in Conns
               PROVE  TimerInv(d)'
    BY DEF TimersInv
  <2>1. ASSUME NEW c \in Conns, Action(c) PROVE TimerInv(d)'
    BY <2>1, TimerInvAction, TimerInvSame DEF TimersInv
  <2>2. CASE /\ UNCHANGED <<life, pend, writes, hrc, canceled>>
             /\ stopped => stopped'
    <3>1. TimerInv(d)
      BY DEF TimersInv
    <3> QED
      BY <2>2, <3>1 DEF TimerInv, OneWait, NoWait, Unstarted, SessionOver, Outstanding,
             Replying, Unanswered
  <2> QED
    BY <2>1, <2>2, NextCases
<1>3. TimersInv => TimerEndsWithSession
  BY DEF TimersInv, TimerInv, TimerEndsWithSession
<1> QED
  BY <1>1, <1>2, <1>3, Invariance, PTL DEF ConnSpec
=============================================================================
