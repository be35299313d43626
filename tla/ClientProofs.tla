---------------------------- MODULE ClientProofs ----------------------------
(***************************************************************************)
(* ClientInv is an invariant of ClientSpec, for any number of requests,    *)
(* with and without a timeout.  OneStepAtATime, CalledOnce,                *)
(* RequestLifetime and AllReported follow.                                 *)
(***************************************************************************)
EXTENDS RequestSender, TLAPS

-----------------------------------------------------------------------------
(* The helpers on outstanding operations.                                  *)

None(p) == \A o \in StepOps : p[o] = 0

Single(p) ==
    \A o \in StepOps : p[o] > 0 => p[o] = 1 /\ \A q \in StepOps \ {o} : p[q] = 0

LEMMA OpsFacts ==
    /\ StepOps \subseteq Ops
    /\ \A op \in Steps, result \in Results : <<op, result>> \in StepOps
    /\ \A result \in Results : <<"wait", result>> \in Ops \ StepOps
BY DEF StepOps, Ops, Steps, Results

LEMMA BeginLemma ==
    ASSUME NEW p \in [Ops -> Nat], NEW op \in Steps, None(p), NEW s
    PROVE  /\ Begin(p, op) \in [Ops -> Nat] /\ Single(Begin(p, op))
           /\ BeginOn(p, op, s) \in [Ops -> Nat] /\ Single(BeginOn(p, op, s))
           /\ \E o \in Ops : Begin(p, op)[o] # 0
           /\ \E o \in Ops : BeginOn(p, op, s)[o] # 0
<1>1. \A result \in Results :
         /\ [p EXCEPT ![<<op, result>>] = @ + 1] \in [Ops -> Nat]
         /\ Single([p EXCEPT ![<<op, result>>] = @ + 1])
         /\ \E o \in Ops : [p EXCEPT ![<<op, result>>] = @ + 1][o] # 0
  <2> SUFFICES ASSUME NEW result \in Results
               PROVE  /\ [p EXCEPT ![<<op, result>>] = @ + 1] \in [Ops -> Nat]
                      /\ Single([p EXCEPT ![<<op, result>>] = @ + 1])
                      /\ \E o \in Ops : [p EXCEPT ![<<op, result>>] = @ + 1][o] # 0
    OBVIOUS
  <2> DEFINE t == <<op, result>>
             q == [p EXCEPT ![t] = @ + 1]
  <2>1. t \in StepOps /\ t \in Ops
    BY OpsFacts
  <2> HIDE DEF t
  <2>2. q \in [Ops -> Nat] /\ q[t] = 1 /\ \A o \in StepOps \ {t} : q[o] = 0
    BY <2>1, OpsFacts DEF None
  <2>3. Single(q) /\ \E o \in Ops : q[o] # 0
    BY <2>1, <2>2 DEF Single
  <2> QED
    BY <2>2, <2>3 DEF t
<1> QED
  BY <1>1 DEF Begin, BeginOn, Results

LEMMA FinishLemma ==
    ASSUME NEW p \in [Ops -> Nat], NEW op \in Steps, NEW result \in Results,
           Single(p), p[<<op, result>>] > 0
    PROVE  Finish(p, op, result) \in [Ops -> Nat] /\ None(Finish(p, op, result))
<1> DEFINE t == <<op, result>>
<1>1. t \in StepOps /\ t \in Ops
  BY OpsFacts
<1>2. Finish(p, op, result) = [p EXCEPT ![t] = @ - 1] /\ p[t] > 0
  BY DEF Finish
<1> HIDE DEF t
<1>3. p[t] = 1 /\ \A o \in StepOps \ {t} : p[o] = 0
  BY <1>1, <1>2 DEF Single
<1> QED
  BY <1>1, <1>2, <1>3, OpsFacts DEF None

LEMMA FinishWaitLemma ==
    ASSUME NEW p \in [Ops -> Nat], NEW result \in Results, p[<<"wait", result>>] > 0
    PROVE  /\ Finish(p, "wait", result) \in [Ops -> Nat]
           /\ \A o \in StepOps : Finish(p, "wait", result)[o] = p[o]
<1> DEFINE t == <<"wait", result>>
<1>1. t \notin StepOps /\ t \in Ops
  BY OpsFacts
<1>2. Finish(p, "wait", result) = [p EXCEPT ![t] = @ - 1] /\ p[t] > 0
  BY DEF Finish
<1> HIDE DEF t
<1> QED
  BY <1>1, <1>2, OpsFacts

LEMMA CompleteLemma ==
    ASSUME NEW p \in [Ops -> Nat], NEW op \in Steps, NEW result \in {"ok", "err"},
           Single(p), p[<<op, "begun">>] > 0
    PROVE  /\ Complete(p, op, result) \in [Ops -> Nat]
           /\ Single(Complete(p, op, result))
           /\ \E o \in Ops : Complete(p, op, result)[o] # 0
<1> DEFINE t == <<op, "begun">>
           u == <<op, result>>
<1>1. t \in StepOps /\ t \in Ops /\ u \in StepOps /\ u \in Ops /\ t # u
  BY OpsFacts DEF Results
<1>2. Complete(p, op, result) = [p EXCEPT ![t] = @ - 1, ![u] = @ + 1] /\ p[t] > 0
  BY DEF Complete
<1> HIDE DEF t, u
<1>3. p[t] = 1 /\ \A o \in StepOps \ {t} : p[o] = 0
  BY <1>1, <1>2 DEF Single
<1>4. /\ Complete(p, op, result) \in [Ops -> Nat]
      /\ Complete(p, op, result)[u] = 1
      /\ \A o \in StepOps \ {u} : Complete(p, op, result)[o] = 0
  BY <1>1, <1>2, <1>3, OpsFacts
<1> QED
  BY <1>1, <1>4 DEF Single

LEMMA CompleteWaitLemma ==
    ASSUME NEW p \in [Ops -> Nat], p[<<"wait", "begun">>] > 0
    PROVE  /\ Complete(p, "wait", "ok") \in [Ops -> Nat]
           /\ \A o \in StepOps : Complete(p, "wait", "ok")[o] = p[o]
           /\ \E o \in Ops : Complete(p, "wait", "ok")[o] # 0
<1> DEFINE t == <<"wait", "begun">>
           u == <<"wait", "ok">>
<1>1. t \notin StepOps /\ t \in Ops /\ u \notin StepOps /\ u \in Ops /\ t # u
  BY OpsFacts DEF Results
<1>2. Complete(p, "wait", "ok") = [p EXCEPT ![t] = @ - 1, ![u] = @ + 1] /\ p[t] > 0
  BY DEF Complete
<1> HIDE DEF t, u
<1>3. /\ Complete(p, "wait", "ok") \in [Ops -> Nat]
      /\ Complete(p, "wait", "ok")[u] > 0
      /\ \A o \in Ops \ {t, u} : Complete(p, "wait", "ok")[o] = p[o]
  BY <1>1, <1>2
<1> QED
  BY <1>1, <1>3, OpsFacts

LEMMA AbortTypeLemma ==
    ASSUME NEW p \in [Ops -> Nat], NEW ops
    PROVE  Abort(p, ops) \in [Ops -> Nat]
BY DEF Abort, Ops, Results, Steps

\* Abort fails what is begun, so it keeps an operation that is outstanding, as
\* its handler, and adds none.
LEMMA AbortLemma ==
    ASSUME NEW p \in [Ops -> Nat], NEW ops, Single(p)
    PROVE  /\ Abort(p, ops) \in [Ops -> Nat]
           /\ Single(Abort(p, ops))
           /\ None(p) => None(Abort(p, ops))
           /\ ~None(p) => ~None(Abort(p, ops))
<1> DEFINE q == Abort(p, ops)
           Failed(o) == <<o[1], "begun">>
<1>1. \A o \in StepOps : /\ o \in Ops /\ Failed(o) \in StepOps
                         /\ o[2] \in Results
                         /\ o[2] = "begun" <=> o = Failed(o)
  BY DEF StepOps, Results, Ops
<1>2. q \in [Ops -> Nat]
  BY DEF Abort, Ops, Results, Steps
<1>3. \A o \in StepOps :
         q[o] = IF o[1] \notin ops THEN p[o]
                ELSE IF o[2] = "begun" THEN 0
                ELSE IF o[2] = "err" THEN p[o] + p[Failed(o)]
                ELSE p[o]
  BY <1>1 DEF Abort
<1>4. CASE None(p)
  <2> HIDE DEF q, Failed
  <2>1. None(q)
    BY <1>1, <1>3, <1>4 DEF None
  <2> QED
    BY <1>2, <1>4, <2>1 DEF None, Single, q
<1>5. CASE ~None(p)
  <2>0. PICK t \in StepOps : p[t] # 0
    BY <1>5 DEF None
  <2>1. p[t] = 1 /\ \A o \in StepOps \ {t} : p[o] = 0
    <3>1. p[t] > 0
      BY <2>0, OpsFacts
    <3> QED
      BY <3>1 DEF Single
  <2>2. CASE t[1] \in ops /\ t[2] = "begun"
    <3> DEFINE u == <<t[1], "err">>
    <3>1. /\ u \in StepOps /\ u[1] = t[1] /\ u[2] = "err" /\ Failed(u) = t /\ u # t
          /\ \A o \in StepOps : Failed(o) = t /\ o[2] = "err" => o = u
      BY <2>2 DEF StepOps, Results
    <3> HIDE DEF q, u, Failed
    <3>2. q[u] = 1
      BY <1>3, <2>1, <2>2, <3>1
    <3>3. \A o \in StepOps \ {u} : q[o] = 0
      BY <1>1, <1>3, <2>1, <2>2, <3>1
    <3> QED
      BY <1>2, <1>5, <3>1, <3>2, <3>3 DEF None, Single, q
  <2>3. CASE ~(t[1] \in ops /\ t[2] = "begun")
    <3> HIDE DEF q
    <3>1. \A o \in StepOps : Failed(o) = t => t[1] = o[1] /\ t[2] = "begun"
      OBVIOUS
    <3> HIDE DEF Failed
    <3>2. \A o \in StepOps : o[1] \in ops => p[Failed(o)] = 0
      BY <1>1, <2>1, <2>3, <3>1
    <3>3. \A o \in StepOps : q[o] = p[o]
      BY <1>1, <1>3, <2>1, <2>3, <3>2
    <3> QED
      BY <1>2, <1>5, <2>1, <3>3 DEF None, Single, q
  <2> QED
    BY <2>2, <2>3
<1> QED
  BY <1>4, <1>5

\* Abort leaves the operations it is not told about as they are.
LEMMA AbortWaitLemma ==
    ASSUME NEW p \in [Ops -> Nat]
    PROVE  /\ CancelTimeoutTimer(p) \in [Ops -> Nat]
           /\ None(p) => None(CancelTimeoutTimer(p))
           /\ CloseSocket(p) \in [Ops -> Nat]
<1>1. \A o \in StepOps : o \in Ops /\ o[1] # "wait"
  BY DEF StepOps, Ops, Steps
<1>2. \A o \in StepOps : CancelTimeoutTimer(p)[o] = p[o]
  BY <1>1 DEF CancelTimeoutTimer, Abort
<1> QED
  BY <1>2, AbortTypeLemma DEF CancelTimeoutTimer, CloseSocket, None

-----------------------------------------------------------------------------
(* What one step does: it leaves the other requests alone and               *)
(* reestablishes the invariant of its own.                                 *)

Same(d) ==
    /\ call'[d] = call[d]
    /\ pend'[d] = pend[d]
    /\ handler'[d] = handler[d]
    /\ alive'[d] = alive[d]
    /\ calls'[d] = calls[d]

StepOK(r) ==
    /\ RequestTypeOK'
    /\ RequestInv(r)'
    /\ \A d \in Reqs \ {r} : Same(d)

LEMMA SameLemma ==
    ASSUME NEW d \in Reqs, Same(d), RequestInv(d)
    PROVE  RequestInv(d)'
BY DEF Same, RequestInv, StepInv, CallsInv, Created, Unreferenced

LEMMA StepLemma ==
    ASSUME ClientInv, NEW r \in Reqs, StepOK(r), UNCHANGED senderVars, worker # "destroyed"
    PROVE  ClientInv'
BY SameLemma DEF ClientInv, ClientTypeOK, StepOK, senderVars, DestroyedInv

\* The handler of a request that was never called is called once.
LEMMA OneCall ==
    ASSUME NEW n \in [Answers -> 0..1], n["response"] + n["nothing"] = 0, NEW answer \in Answers
    PROVE  /\ [n EXCEPT ![answer] = @ + 1] \in [Answers -> 0..1]
           /\ [n EXCEPT ![answer] = @ + 1]["response"] + [n EXCEPT ![answer] = @ + 1]["nothing"] = 1
<1>1. n["response"] = 0 /\ n["nothing"] = 0
  BY DEF Answers
<1>2. CASE answer = "response"
  BY <1>1, <1>2 DEF Answers
<1>3. CASE answer = "nothing"
  BY <1>1, <1>3 DEF Answers
<1> QED
  BY <1>2, <1>3 DEF Answers

\* The facts about a request that its steps start from.
LEMMA RequestFacts ==
    ASSUME ClientInv, NEW r \in Reqs
    PROVE  /\ RequestTypeOK
           /\ pend[r] \in [Ops -> Nat]
           /\ Single(pend[r])
           /\ RequestInv(r)
BY DEF ClientInv, ClientTypeOK, RequestTypeOK, RequestInv, StepInv, Single

\* A queued handler of the exchange.
LEMMA RunsFacts ==
    ASSUME ClientInv, NEW r \in Reqs, NEW op \in Steps, NEW result \in Results,
           Runs(r, op, result)
    PROVE  /\ pend[r][<<op, result>>] > 0
           /\ handler[r] /\ alive[r] /\ Created(r)
           /\ call[r] \in {"sent", "returned"}
           /\ calls[r]["response"] + calls[r]["nothing"] = 0
<1> DEFINE t == <<op, result>>
<1>1. t \in StepOps /\ pend[r][t] > 0
  BY OpsFacts DEF Runs
<1> HIDE DEF t
<1>2. handler[r] /\ call[r] \in {"sent", "returned"}
  BY <1>1, RequestFacts DEF RequestInv, StepInv
<1> QED
  BY <1>1, <1>2, RequestFacts DEF RequestInv, CallsInv, Created, t

\* Anything that is outstanding keeps the object.
LEMMA AliveFacts ==
    ASSUME ClientInv, NEW r \in Reqs, NEW o \in Ops, pend[r][o] > 0
    PROVE  alive[r] /\ Created(r)
BY RequestFacts DEF RequestInv, CallsInv, Unreferenced, RequestTypeOK

\* A step that leaves something outstanding and calls nothing.
LEMMA KeepLemma ==
    ASSUME ClientInv, NEW r \in Reqs, NEW p \in [Ops -> Nat], SetPend(r, p), Single(p),
           ~None(p) => handler[r] /\ call[r] \in {"sent", "returned"},
           \E o \in Ops : p[o] # 0,
           alive[r], Created(r), RequestTypeOK',
           UNCHANGED <<call, handler, alive, calls>>
    PROVE  StepOK(r)
<1>1. pend'[r] = p /\ \A d \in Reqs \ {r} : pend'[d] = pend[d]
  BY RequestFacts DEF SetPend, RequestTypeOK
<1>2. StepInv(r)'
  BY <1>1, OpsFacts DEF StepInv, Single, None
<1>3. CallsInv(r)'
  BY RequestFacts DEF RequestInv, CallsInv, Created
<1>4. alive'[r] <=> ~Unreferenced(r)'
  BY <1>1 DEF Unreferenced
<1> QED
  BY <1>1, <1>2, <1>3, <1>4 DEF StepOK, RequestInv, Same

\* A step that ends in ReleaseTo.
LEMMA ReleaseLemma ==
    ASSUME ClientInv, NEW r \in Reqs, NEW p \in [Ops -> Nat], ReleaseTo(r, p), Single(p),
           ~None(p) => handler[r] /\ call'[r] \in {"sent", "returned"},
           alive[r], Created(r), Created(r)', call'[r] # "created" \/ call'[r] = call[r],
           call' \in [Reqs -> CallStates], \A d \in Reqs \ {r} : call'[d] = call[d],
           socket' \in [Reqs -> {"closed", "open"}],
           timed_out' \in [Reqs -> {"no", "early", "open"}]
    PROVE  StepOK(r)
<1>1. pend' \in [Reqs -> [Ops -> Nat]] /\ pend'[r] = p /\ \A d \in Reqs \ {r} : pend'[d] = pend[d]
  BY RequestFacts DEF ReleaseTo, SetPend, RequestTypeOK
<1>2. CASE ~Unreferenced(r)'
  <2>1. UNCHANGED <<alive, handler, calls>>
    BY <1>2 DEF ReleaseTo
  <2>2. StepInv(r)'
    BY <1>1, <2>1, OpsFacts DEF StepInv, Single, None
  <2>3. CallsInv(r)'
    BY <1>2, <2>1, RequestFacts DEF RequestInv, CallsInv, Created
  <2> QED
    BY <1>1, <1>2, <2>1, <2>2, <2>3, RequestFacts DEF StepOK, RequestInv, Same, RequestTypeOK
<1>3. CASE Unreferenced(r)'
  <2>1. /\ alive' = [alive EXCEPT ![r] = FALSE]
        /\ handler' = [handler EXCEPT ![r] = FALSE]
        /\ IF handler[r] THEN Called(r, "nothing") ELSE UNCHANGED calls
    BY <1>3 DEF ReleaseTo
  <2>2. /\ calls' \in [Reqs -> [Answers -> 0..1]]
        /\ calls'[r]["response"] + calls'[r]["nothing"] = 1
        /\ \A d \in Reqs \ {r} : calls'[d] = calls[d]
    <3>1. CASE handler[r]
      <4>1. calls[r]["response"] + calls[r]["nothing"] = 0
        BY <3>1, RequestFacts DEF RequestInv, CallsInv
      <4>2. calls[r] \in [Answers -> 0..1] /\ calls' = [calls EXCEPT ![r] = [calls[r] EXCEPT !["nothing"] = @ + 1]]
        BY <2>1, <3>1, RequestFacts DEF Called, RequestTypeOK
      <4>3. PICK n : n = [calls[r] EXCEPT !["nothing"] = @ + 1]
        OBVIOUS
      <4>4. n \in [Answers -> 0..1] /\ n["response"] + n["nothing"] = 1
        BY <4>1, <4>2, <4>3, OneCall DEF Answers
      <4> QED
        BY <4>2, <4>3, <4>4, RequestFacts DEF RequestTypeOK
    <3>2. CASE ~handler[r]
      BY <2>1, <3>2, RequestFacts DEF RequestTypeOK, RequestInv, CallsInv
    <3> QED
      BY <3>1, <3>2
  <2>3. ~alive'[r] /\ ~handler'[r]
    BY <2>1, RequestFacts DEF RequestTypeOK
  <2>4. StepInv(r)'
    BY <1>3, OpsFacts DEF StepInv, Unreferenced
  <2>5. CallsInv(r)'
    BY <1>3, <2>2, <2>3 DEF CallsInv, Unreferenced
  <2>6. RequestTypeOK'
    BY <1>1, <2>1, <2>2, RequestFacts DEF RequestTypeOK
  <2> QED
    BY <1>1, <1>3, <2>1, <2>2, <2>3, <2>4, <2>5, <2>6, RequestFacts
    DEF StepOK, RequestInv, Same, RequestTypeOK
<1> QED
  BY <1>2, <1>3

\* What the outstanding operations of the exchange say of its request.
LEMMA ExchangeFacts ==
    ASSUME ClientInv, NEW r \in Reqs, ~None(pend[r])
    PROVE  handler[r] /\ call[r] \in {"sent", "returned"}
<1>1. PICK o \in StepOps : pend[r][o] # 0
  BY DEF None
<1>2. pend[r][o] > 0
  BY <1>1, RequestFacts, OpsFacts
<1> QED
  BY <1>2, RequestFacts DEF RequestInv, StepInv

-----------------------------------------------------------------------------
(* The calls of SendRequest.                                               *)

LEMMA SendRequestStep ==
    ASSUME ClientInv, NEW r \in Reqs, SendRequest(r)
    PROVE  StepOK(r)
<1>1. RequestTypeOK'
  BY RequestFacts DEF SendRequest, RequestTypeOK, CallStates
<1>2. /\ call[r] = "none" /\ call'[r] \in {"refused", "checked"}
      /\ \A d \in Reqs \ {r} : call'[d] = call[d]
      /\ UNCHANGED <<pend, handler, alive, calls>>
  BY RequestFacts DEF SendRequest, RequestTypeOK
<1>3. StepInv(r)'
  BY <1>2, RequestFacts DEF RequestInv, StepInv
<1>4. CallsInv(r)' /\ (alive'[r] <=> ~Unreferenced(r)')
  BY <1>2, RequestFacts DEF RequestInv, CallsInv, Created, Unreferenced
<1> QED
  BY <1>1, <1>2, <1>3, <1>4 DEF StepOK, RequestInv, Same

LEMMA CreateStep ==
    ASSUME ClientInv, NEW r \in Reqs, Create(r)
    PROVE  StepOK(r)
<1>1. /\ call[r] = "checked" /\ call' = [call EXCEPT ![r] = "created"]
      /\ alive' = [alive EXCEPT ![r] = TRUE]
      /\ handler' = [handler EXCEPT ![r] = TRUE]
      /\ UNCHANGED <<socket, timed_out, calls>>
  BY DEF Create
<1>2. ~alive[r] /\ None(pend[r])
  BY <1>1, RequestFacts, OpsFacts DEF RequestInv, CallsInv, Created, Unreferenced, None
<1> DEFINE p == SetTimeoutTimer(pend[r])
<1>3. p \in [Ops -> Nat] /\ None(p)
  <2> DEFINE t == <<"wait", "begun">>
  <2>1. t \notin StepOps /\ t \in Ops
    BY OpsFacts DEF Results
  <2>2. p = pend[r] \/ p = [pend[r] EXCEPT ![t] = @ + 1]
    BY DEF SetTimeoutTimer, Begin
  <2> HIDE DEF p, t
  <2> QED
    BY <1>2, <2>1, <2>2, RequestFacts, OpsFacts DEF None
<1>4. pend' = [pend EXCEPT ![r] = p]
  BY DEF Create, SetPend
<1> HIDE DEF p
<1>5. RequestTypeOK'
  BY <1>1, <1>3, <1>4, RequestFacts DEF RequestTypeOK, CallStates
<1>6. /\ pend'[r] = p /\ call'[r] = "created" /\ alive'[r] /\ handler'[r]
      /\ \A d \in Reqs \ {r} : Same(d)
  BY <1>1, <1>4, RequestFacts DEF RequestTypeOK, Same
<1>7. StepInv(r)'
  BY <1>3, <1>6 DEF StepInv, None
<1>8. CallsInv(r)' /\ (alive'[r] <=> ~Unreferenced(r)')
  BY <1>1, <1>6, RequestFacts DEF RequestInv, CallsInv, Created, Unreferenced
<1> QED
  BY <1>5, <1>6, <1>7, <1>8 DEF StepOK, RequestInv

LEMMA SendStep ==
    ASSUME ClientInv, NEW r \in Reqs, Send(r)
    PROVE  StepOK(r)
<1>1. /\ call[r] = "created" /\ call' = [call EXCEPT ![r] = "sent"]
      /\ SetPend(r, Begin(pend[r], "resolve"))
      /\ UNCHANGED <<socket, handler, alive, timed_out, calls>>
  BY DEF Send
<1>2. None(pend[r])
  BY <1>1, ExchangeFacts
<1>3. handler[r] /\ alive[r]
  BY <1>1, RequestFacts DEF RequestInv, CallsInv
<1> DEFINE p == Begin(pend[r], "resolve")
<1>4. p \in [Ops -> Nat] /\ Single(p)
  BY <1>2, BeginLemma, RequestFacts DEF Steps
<1>5. pend' = [pend EXCEPT ![r] = p]
  BY <1>1 DEF SetPend
<1> HIDE DEF p
<1>6. RequestTypeOK'
  BY <1>1, <1>4, <1>5, RequestFacts DEF RequestTypeOK, CallStates
<1>7. /\ pend'[r] = p /\ call'[r] = "sent" /\ \A d \in Reqs \ {r} : Same(d)
  BY <1>1, <1>5, RequestFacts DEF RequestTypeOK, Same
<1>8. StepInv(r)'
  BY <1>1, <1>3, <1>4, <1>7 DEF StepInv, Single
<1>9. CallsInv(r)' /\ (alive'[r] <=> ~Unreferenced(r)')
  BY <1>1, <1>3, <1>7, RequestFacts DEF RequestInv, CallsInv, Created, Unreferenced
<1> QED
  BY <1>6, <1>7, <1>8, <1>9 DEF StepOK, RequestInv

LEMMA ReturnStep ==
    ASSUME ClientInv, NEW r \in Reqs, Return(r)
    PROVE  StepOK(r)
<1>1. /\ call[r] = "sent" /\ call' = [call EXCEPT ![r] = "returned"]
      /\ UNCHANGED <<socket, timed_out>> /\ ReleaseTo(r, pend[r])
  BY DEF Return
<1>2. alive[r] /\ Created(r)
  BY <1>1, RequestFacts DEF RequestInv, Unreferenced, Created
<1>3. /\ call' \in [Reqs -> CallStates] /\ call'[r] = "returned"
      /\ \A d \in Reqs \ {r} : call'[d] = call[d]
  BY <1>1, RequestFacts DEF RequestTypeOK, CallStates
<1>4. Created(r)'
  BY <1>3 DEF Created
<1> QED
  BY <1>1, <1>2, <1>3, <1>4, ExchangeFacts, RequestFacts, ReleaseLemma DEF RequestTypeOK

-----------------------------------------------------------------------------
(* Completions and handlers.                                               *)

LEMMA StepCompletesStep ==
    ASSUME ClientInv, NEW r \in Reqs, NEW op \in Steps, StepCompletes(r, op)
    PROVE  StepOK(r)
<1>1. PICK result \in {"ok", "err"} : SetPend(r, Complete(pend[r], op, result))
  BY DEF StepCompletes
<1>2. Runs(r, op, "begun") /\ UNCHANGED <<call, socket, handler, alive, timed_out, calls>>
  BY DEF StepCompletes, Runs
<1> DEFINE p == Complete(pend[r], op, result)
<1>3. p \in [Ops -> Nat] /\ Single(p) /\ \E o \in Ops : p[o] # 0
  BY <1>2, CompleteLemma, RequestFacts DEF Runs
<1>4. handler[r] /\ alive[r] /\ Created(r) /\ call[r] \in {"sent", "returned"}
  BY <1>2, RunsFacts DEF Results
<1> HIDE DEF p
<1>5. RequestTypeOK'
  BY <1>1, <1>2, <1>3, RequestFacts DEF RequestTypeOK, SetPend, p
<1> QED
  BY <1>1, <1>2, <1>3, <1>4, <1>5, KeepLemma DEF p

LEMMA TimerExpiresStep ==
    ASSUME ClientInv, NEW r \in Reqs, TimerExpires(r)
    PROVE  StepOK(r)
<1>1. /\ pend[r][<<"wait", "begun">>] > 0
      /\ SetPend(r, Complete(pend[r], "wait", "ok"))
      /\ UNCHANGED <<call, socket, handler, alive, timed_out, calls>>
  BY DEF TimerExpires
<1> DEFINE p == Complete(pend[r], "wait", "ok")
<1>2. p \in [Ops -> Nat] /\ (\E o \in Ops : p[o] # 0) /\ \A o \in StepOps : p[o] = pend[r][o]
  BY <1>1, CompleteWaitLemma, RequestFacts
<1>3. alive[r] /\ Created(r)
  BY <1>1, AliveFacts, OpsFacts DEF Results
<1> HIDE DEF p
<1>4. Single(p) /\ (~None(p) => ~None(pend[r]))
  BY <1>2, RequestFacts DEF Single, None
<1>5. RequestTypeOK'
  BY <1>1, <1>2, RequestFacts DEF RequestTypeOK, SetPend, p
<1> QED
  BY <1>1, <1>2, <1>3, <1>4, <1>5, ExchangeFacts, KeepLemma DEF p

\* OnResolved, OnConnected, OnWritten and OnReadProgress begin the next step.
LEMMA NextOpStep ==
    ASSUME ClientInv, NEW r \in Reqs, NEW op \in Steps, Runs(r, op, "ok"), NEW next \in Steps, NEW s,
           \/ SetPend(r, Begin(Finish(pend[r], op, "ok"), next))
           \/ SetPend(r, BeginOn(Finish(pend[r], op, "ok"), next, s)),
           socket' \in [Reqs -> {"closed", "open"}],
           UNCHANGED <<call, handler, alive, timed_out, calls>>
    PROVE  StepOK(r)
<1> DEFINE q == Finish(pend[r], op, "ok")
<1>1. q \in [Ops -> Nat] /\ None(q)
  BY FinishLemma, RunsFacts, RequestFacts DEF Results
<1>2. handler[r] /\ alive[r] /\ Created(r) /\ call[r] \in {"sent", "returned"}
  BY RunsFacts DEF Results
<1>3. SetPend(r, Begin(q, next)) \/ SetPend(r, BeginOn(q, next, s))
  OBVIOUS
<1> HIDE DEF q
<1>4. PICK p \in [Ops -> Nat] : SetPend(r, p) /\ Single(p) /\ \E o \in Ops : p[o] # 0
  BY <1>1, <1>3, BeginLemma
<1>5. RequestTypeOK'
  BY <1>4, RequestFacts DEF RequestTypeOK, SetPend
<1> QED
  BY <1>2, <1>4, <1>5, KeepLemma

LEMMA FailStep ==
    ASSUME ClientInv, NEW r \in Reqs, NEW op \in Steps, NEW result \in Results,
           Runs(r, op, result),
           ReleaseTo(r, CancelTimeoutTimer(Finish(pend[r], op, result))),
           UNCHANGED <<call, socket, timed_out>>
    PROVE  StepOK(r)
<1> DEFINE q == Finish(pend[r], op, result)
           p == CancelTimeoutTimer(q)
<1>1. q \in [Ops -> Nat] /\ None(q)
  BY FinishLemma, RunsFacts, RequestFacts
<1> HIDE DEF q
<1>2. p \in [Ops -> Nat] /\ None(p)
  BY <1>1, AbortWaitLemma
<1>3. ReleaseTo(r, p)
  BY DEF q
<1> HIDE DEF p
<1>4. Single(p)
  BY <1>2 DEF Single, None
<1>5. alive[r] /\ Created(r) /\ Created(r)'
  BY RunsFacts DEF Created
<1> QED
  BY <1>2, <1>3, <1>4, <1>5, ReleaseLemma, RequestFacts DEF RequestTypeOK

LEMMA OnReadResponseStep ==
    ASSUME ClientInv, NEW r \in Reqs, OnReadResponse(r)
    PROVE  StepOK(r)
<1> DEFINE q == Finish(pend[r], "read", "ok")
           p == CloseSocket(CancelTimeoutTimer(q))
<1>1. q \in [Ops -> Nat] /\ None(q) /\ Runs(r, "read", "ok")
  BY FinishLemma, RunsFacts, RequestFacts DEF Results, Steps, OnReadResponse
<1> HIDE DEF q
<1>2. p \in [Ops -> Nat] /\ None(p)
  <2>1. CancelTimeoutTimer(q) \in [Ops -> Nat] /\ None(CancelTimeoutTimer(q))
    BY <1>1, AbortWaitLemma
  <2>2. Single(CancelTimeoutTimer(q))
    BY <2>1 DEF Single, None
  <2> QED
    BY <2>1, <2>2, AbortLemma DEF CloseSocket
<1>3. /\ pend' = [pend EXCEPT ![r] = p]
      /\ Called(r, "response")
      /\ handler' = [handler EXCEPT ![r] = FALSE]
      /\ socket' = [socket EXCEPT ![r] = "closed"]
      /\ UNCHANGED <<call, timed_out>>
      /\ alive' = [alive EXCEPT ![r] = ~Unreferenced(r)']
  BY DEF OnReadResponse, SetPend, q
<1> HIDE DEF p
<1>4. /\ Created(r) /\ call[r] \in {"sent", "returned"}
      /\ calls[r]["response"] + calls[r]["nothing"] = 0
  BY <1>1, RunsFacts DEF Results, Steps
<1>5. /\ calls' \in [Reqs -> [Answers -> 0..1]]
      /\ calls'[r]["response"] + calls'[r]["nothing"] = 1
      /\ \A d \in Reqs \ {r} : calls'[d] = calls[d]
  <2>1. calls[r] \in [Answers -> 0..1] /\ calls' = [calls EXCEPT ![r] = [calls[r] EXCEPT !["response"] = @ + 1]]
    BY <1>3, RequestFacts DEF Called, RequestTypeOK
  <2>2. PICK n : n = [calls[r] EXCEPT !["response"] = @ + 1]
    OBVIOUS
  <2>3. n \in [Answers -> 0..1] /\ n["response"] + n["nothing"] = 1
    BY <1>4, <2>1, <2>2, OneCall DEF Answers
  <2> QED
    BY <2>1, <2>2, <2>3, RequestFacts DEF RequestTypeOK
<1>6. RequestTypeOK'
  BY <1>2, <1>3, <1>5, RequestFacts DEF RequestTypeOK
<1>7. /\ pend'[r] = p /\ ~handler'[r] /\ (alive'[r] <=> ~Unreferenced(r)')
      /\ call'[r] = call[r] /\ \A d \in Reqs \ {r} : Same(d)
  BY <1>3, <1>5, RequestFacts DEF RequestTypeOK, Same
<1>8. StepInv(r)'
  BY <1>2, <1>7 DEF StepInv, None
<1>9. CallsInv(r)'
  BY <1>4, <1>5, <1>7 DEF CallsInv, Created
<1> QED
  BY <1>6, <1>7, <1>8, <1>9 DEF StepOK, RequestInv

\* The timer's handler, which may find the exchange at any point.
LEMMA OnTimerStep ==
    ASSUME ClientInv, NEW r \in Reqs, OnTimer(r)
    PROVE  StepOK(r)
<1>1. PICK result \in {"ok", "err"} :
        /\ Runs(r, "wait", result)
        /\ \/ ReleaseTo(r, CloseSocket(Finish(pend[r], "wait", result)))
           \/ ReleaseTo(r, Finish(pend[r], "wait", result))
  BY DEF OnTimer, OnTimeout, OnTimerAborted
<1>2. /\ UNCHANGED call
      /\ socket' \in [Reqs -> {"closed", "open"}]
      /\ timed_out' \in [Reqs -> {"no", "early", "open"}]
  BY RequestFacts DEF OnTimer, OnTimeout, OnTimerAborted, RequestTypeOK
<1> DEFINE q == Finish(pend[r], "wait", result)
<1>3. q \in [Ops -> Nat] /\ \A o \in StepOps : q[o] = pend[r][o]
  BY <1>1, FinishWaitLemma, RequestFacts DEF Runs, Results
<1>4. alive[r] /\ Created(r)
  BY <1>1, AliveFacts, OpsFacts DEF Runs, Results
<1>5. ReleaseTo(r, CloseSocket(q)) \/ ReleaseTo(r, q)
  BY <1>1
<1> HIDE DEF q
<1>6. Single(q) /\ (~None(q) => ~None(pend[r]))
  BY <1>3, RequestFacts DEF Single, None
<1>7. PICK p \in [Ops -> Nat] : ReleaseTo(r, p) /\ Single(p) /\ (~None(p) => ~None(pend[r]))
  BY <1>3, <1>5, <1>6, AbortLemma DEF CloseSocket
<1>8. Created(r)' /\ call' \in [Reqs -> CallStates]
  BY <1>2, <1>4, RequestFacts DEF Created, RequestTypeOK
<1> QED
  BY <1>2, <1>4, <1>7, <1>8, ExchangeFacts, ReleaseLemma

LEMMA OnStepStep ==
    ASSUME ClientInv, NEW r \in Reqs, OnStep(r)
    PROVE  StepOK(r)
<1> USE DEF Steps, Results
<1>1. CASE OnResolved(r)
  <2>1. socket' \in [Reqs -> {"closed", "open"}]
    BY <1>1, RequestFacts DEF OnResolved, RequestTypeOK
  <2> QED
    BY <1>1, <2>1, NextOpStep DEF OnResolved
<1>2. CASE OnConnected(r)
  BY <1>2, NextOpStep, RequestFacts DEF OnConnected, RequestTypeOK
<1>3. CASE OnWritten(r)
  BY <1>3, NextOpStep, RequestFacts DEF OnWritten, RequestTypeOK
<1>4. CASE OnReadProgress(r)
  BY <1>4, NextOpStep, RequestFacts DEF OnReadProgress, RequestTypeOK
<1>5. CASE OnReadBad(r)
  BY <1>5, FailStep DEF OnReadBad
<1>6. CASE OnReadResponse(r)
  BY <1>6, OnReadResponseStep
<1>7. ASSUME NEW op \in Steps, OnError(r, op) PROVE StepOK(r)
  BY <1>7, FailStep DEF OnError
<1> QED
  BY <1>1, <1>2, <1>3, <1>4, <1>5, <1>6, <1>7 DEF OnStep

-----------------------------------------------------------------------------
(* The sender.                                                             *)

LEMMA DestroyStep ==
    ASSUME ClientInv, Destroy
    PROVE  ClientInv'
<1>1. /\ \A r \in Reqs : ~InSendRequest(r)
      /\ worker' = "destroyed"
      /\ pend' = [r \in Reqs |-> [op \in Ops |-> 0]]
      /\ alive' = [r \in Reqs |-> FALSE]
      /\ handler' = [r \in Reqs |-> FALSE]
      /\ UNCHANGED <<call, socket, timed_out, stopped>>
  BY DEF Destroy
<1>2. ASSUME NEW r \in Reqs
      PROVE  /\ calls'[r] \in [Answers -> 0..1]
             /\ calls'[r]["response"] + calls'[r]["nothing"] = IF Created(r) THEN 1 ELSE 0
  <2>1. calls[r] \in [Answers -> 0..1] /\ CallsInv(r)
    BY RequestFacts DEF RequestTypeOK, RequestInv
  <2>2. calls'[r] = IF handler[r] THEN [calls[r] EXCEPT !["nothing"] = @ + 1] ELSE calls[r]
    BY DEF Destroy
  <2>3. CASE handler[r]
    <3>1. calls[r]["response"] + calls[r]["nothing"] = 0 /\ Created(r)
      BY <2>1, <2>3 DEF CallsInv
    <3>2. PICK n : n = [calls[r] EXCEPT !["nothing"] = @ + 1]
      OBVIOUS
    <3>3. n \in [Answers -> 0..1] /\ n["response"] + n["nothing"] = 1
      BY <2>1, <3>1, <3>2, OneCall DEF Answers
    <3> QED
      BY <2>2, <2>3, <3>1, <3>2, <3>3
  <2>4. CASE ~handler[r]
    BY <2>1, <2>2, <2>4 DEF CallsInv
  <2> QED
    BY <2>3, <2>4
<1>3. RequestTypeOK'
  <2>1. calls' = [r \in Reqs |-> calls'[r]]
    BY DEF Destroy
  <2> QED
    BY <1>1, <1>2, <2>1 DEF ClientInv, ClientTypeOK, RequestTypeOK
<1>4. ASSUME NEW r \in Reqs PROVE RequestInv(r)'
  <2>1. pend'[r] = [op \in Ops |-> 0] /\ ~alive'[r] /\ ~handler'[r] /\ call'[r] = call[r]
    BY <1>1
  <2>2. StepInv(r)'
    BY <2>1, OpsFacts DEF StepInv
  <2>3. CallsInv(r)' /\ (alive'[r] <=> ~Unreferenced(r)')
    BY <1>1, <1>2, <2>1 DEF CallsInv, Created, Unreferenced, InSendRequest
  <2> QED
    BY <2>2, <2>3 DEF RequestInv
<1> QED
  BY <1>1, <1>3, <1>4 DEF ClientInv, ClientTypeOK, DestroyedInv, InSendRequest, WorkerStates

LEMMA ClientInitLemma == ClientInit => ClientInv
<1> SUFFICES ASSUME ClientInit PROVE ClientInv
  OBVIOUS
<1>1. ClientTypeOK
  <2>1. [answer \in Answers |-> 0] \in [Answers -> 0..1]
    OBVIOUS
  <2>2. calls \in [Reqs -> [Answers -> 0..1]]
    BY <2>1 DEF ClientInit, RequestInit
  <2> QED
    BY <2>2 DEF ClientInit, RequestInit, ClientTypeOK, RequestTypeOK, CallStates, WorkerStates
<1>2. ASSUME NEW r \in Reqs PROVE RequestInv(r)
  BY OpsFacts DEF ClientInit, RequestInit, RequestInv, StepInv, CallsInv, Created,
                  Unreferenced, Answers
<1> QED
  BY <1>1, <1>2 DEF ClientInv, DestroyedInv, ClientInit

LEMMA ClientStepLemma == ClientInv /\ [ClientNext]_clientVars => ClientInv'
<1> SUFFICES ASSUME ClientInv, [ClientNext]_clientVars PROVE ClientInv'
  OBVIOUS
<1>1. ASSUME NEW r \in Reqs, SendRequest(r) PROVE ClientInv'
  BY <1>1, SendRequestStep, StepLemma DEF SendRequest
<1>2. ASSUME NEW r \in Reqs, Caller(r) PROVE ClientInv'
  <2>1. worker # "destroyed"
    BY <1>2 DEF Caller, Create, Send, Return, ClientInv, DestroyedInv, InSendRequest
  <2> QED
    BY <1>2, <2>1, CreateStep, SendStep, ReturnStep, StepLemma DEF Caller
<1>3. ASSUME NEW r \in Reqs, Completion(r) PROVE ClientInv'
  BY <1>3, StepCompletesStep, TimerExpiresStep, StepLemma DEF Completion
<1>4. ASSUME NEW r \in Reqs, RunHandler(OnStep(r)) \/ RunHandler(OnTimer(r)) PROVE ClientInv'
  BY <1>4, OnStepStep, OnTimerStep, StepLemma DEF RunHandler
<1>5. ASSUME Stop \/ Join \/ UNCHANGED clientVars PROVE ClientInv'
  <2>1. UNCHANGED requestVars /\ ClientTypeOK' /\ (worker' = "destroyed" => worker = "destroyed")
    BY <1>5 DEF Stop, Join, clientVars, senderVars, requestVars, ClientInv, ClientTypeOK,
                RequestTypeOK, WorkerStates
  <2>2. \A r \in Reqs : Same(r)
    BY <2>1 DEF requestVars, Same
  <2> QED
    BY <2>1, <2>2, SameLemma DEF ClientInv, DestroyedInv, requestVars, InSendRequest
<1> QED
  BY <1>1, <1>2, <1>3, <1>4, <1>5, DestroyStep DEF ClientNext

\* Whatever callers, servers, timers and the stop do, and in whatever order, the
\* requests of a RequestSender keep ClientInv.
THEOREM ClientInvariance == ClientSpec => []ClientInv
BY ClientInitLemma, ClientStepLemma, PTL DEF ClientSpec

\* The types of the client's state.
THEOREM ClientTypeCorrect == ClientSpec => []ClientTypeOK
<1>1. ClientInv => ClientTypeOK
  BY DEF ClientInv
<1> QED
  BY <1>1, ClientInvariance, PTL

\* A Request never has two operations outstanding, so its socket, buffer and
\* parser need no strand, although Send runs on another thread.
THEOREM OneStepAtATimeCorrect == ClientSpec => []OneStepAtATime
<1>1. ClientInv => OneStepAtATime
  BY OpsFacts DEF ClientInv, RequestInv, StepInv, OneStepAtATime
<1> QED
  BY <1>1, ClientInvariance, PTL

\* Every Request that is created calls its response handler once, with the
\* response or, from the destructor, with nothing.
THEOREM CalledOnceCorrect == ClientSpec => []CalledOnce
<1>1. ASSUME ClientInv PROVE CalledOnce
  <2> SUFFICES ASSUME NEW r \in Reqs
               PROVE  LET n == calls[r]["response"] + calls[r]["nothing"] IN
                      IF call[r] \in {"none", "checked", "refused"}
                      THEN n = 0 /\ ~alive[r]
                      ELSE n = IF handler[r] THEN 0 ELSE 1
    BY DEF CalledOnce
  <2>1. CallsInv(r) /\ call[r] \in CallStates
    BY <1>1, RequestFacts DEF RequestInv, RequestTypeOK
  <2> QED
    BY <2>1 DEF CallsInv, Created, CallStates
<1> QED
  BY <1>1, ClientInvariance, PTL

\* A Request exists exactly as long as a call of SendRequest or an operation
\* holds it.
THEOREM RequestLifetimeCorrect == ClientSpec => []RequestLifetime
<1>1. ClientInv => RequestLifetime
  BY DEF ClientInv, RequestInv, RequestLifetime
<1> QED
  BY <1>1, ClientInvariance, PTL

\* When the RequestSender is gone, every request it did not refuse has been
\* reported, also those that were half done when it was stopped.
THEOREM AllReportedCorrect == ClientSpec => []AllReported
<1>1. ASSUME ClientInv PROVE AllReported
  <2> SUFFICES ASSUME worker = "destroyed", NEW r \in Reqs, call[r] \notin {"refused", "none"}
               PROVE  calls[r]["response"] + calls[r]["nothing"] = 1
    BY DEF AllReported
  <2>1. CallsInv(r) /\ call[r] \in CallStates /\ ~InSendRequest(r) /\ ~handler[r]
    BY <1>1, RequestFacts DEF RequestInv, RequestTypeOK, ClientInv, DestroyedInv
  <2> QED
    BY <2>1 DEF CallsInv, Created, CallStates, InSendRequest
<1> QED
  BY <1>1, ClientInvariance, PTL

-----------------------------------------------------------------------------
(* The timer.                                                              *)

Timer == <<"wait", "begun">>

TimerInv(r) ==
    call[r] \in {"sent", "returned"} /\ None(pend[r]) => pend[r][Timer] = 0

LEMMA TimerOp == Timer \in Ops /\ Timer \notin StepOps
BY OpsFacts DEF Timer, Results

\* A step after which an operation of the exchange is outstanding, or the timer
\* is not, or that changes neither.
LEMMA TimerLemma ==
    ASSUME ClientInv, NEW r \in Reqs, NEW p, pend' = [pend EXCEPT ![r] = p],
           ~None(p) \/ p[Timer] = 0
    PROVE  TimerInv(r)'
BY RequestFacts DEF RequestTypeOK, TimerInv

\* Canceling the timer and closing the socket afterwards.
LEMMA CancelTimer ==
    ASSUME NEW p
    PROVE  /\ CancelTimeoutTimer(p)[Timer] = 0
           /\ CloseSocket(CancelTimeoutTimer(p))[Timer] = 0
<1>1. Timer[1] = "wait" /\ Timer[2] = "begun" /\ Timer \in Ops
  BY TimerOp DEF Timer
<1>2. CancelTimeoutTimer(p)[Timer] = 0
  BY <1>1 DEF CancelTimeoutTimer, Abort
<1> QED
  BY <1>1, <1>2 DEF CloseSocket, Abort, Steps

LEMMA BegunLemma ==
    ASSUME NEW p \in [Ops -> Nat], NEW op \in Steps, None(p), NEW s
    PROVE  ~None(Begin(p, op)) /\ ~None(BeginOn(p, op, s))
<1>1. \A result \in Results : ~None([p EXCEPT ![<<op, result>>] = @ + 1])
  <2> SUFFICES ASSUME NEW result \in Results
               PROVE  ~None([p EXCEPT ![<<op, result>>] = @ + 1])
    OBVIOUS
  <2> DEFINE t == <<op, result>>
  <2>1. t \in StepOps /\ t \in Ops
    BY OpsFacts
  <2> HIDE DEF t
  <2>2. [p EXCEPT ![t] = @ + 1][t] # 0
    BY <2>1
  <2> QED
    BY <2>1, <2>2 DEF None, t
<1> QED
  BY <1>1 DEF Begin, BeginOn, Results

\* The steps of an exchange leave an operation outstanding or cancel the timer.
LEMMA OnStepTimer ==
    ASSUME ClientInv, NEW r \in Reqs, OnStep(r)
    PROVE  TimerInv(r)'
<1> USE DEF SetPend, Results
<1>1. ASSUME NEW op \in Steps, Runs(r, op, "ok"), NEW next \in Steps, NEW s,
             \/ SetPend(r, Begin(Finish(pend[r], op, "ok"), next))
             \/ SetPend(r, BeginOn(Finish(pend[r], op, "ok"), next, s))
      PROVE  TimerInv(r)'
  <2>1. Finish(pend[r], op, "ok") \in [Ops -> Nat] /\ None(Finish(pend[r], op, "ok"))
    BY <1>1, FinishLemma, RunsFacts, RequestFacts
  <2> QED
    BY <1>1, <2>1, BegunLemma, TimerLemma
<1>2. CASE OnResolved(r) \/ OnConnected(r) \/ OnWritten(r) \/ OnReadProgress(r)
  BY <1>1, <1>2 DEF OnResolved, OnConnected, OnWritten, OnReadProgress, Steps
<1>3. CASE OnReadBad(r) \/ OnReadResponse(r)
  BY <1>3, CancelTimer, TimerLemma DEF OnReadBad, OnReadResponse, ReleaseTo
<1>4. ASSUME NEW op \in Steps, OnError(r, op) PROVE TimerInv(r)'
  BY <1>4, CancelTimer, TimerLemma DEF OnError, ReleaseTo
<1> QED
  BY <1>2, <1>3, <1>4 DEF OnStep

\* The timer's handler disturbs neither.
LEMMA OnTimerTimer ==
    ASSUME ClientInv, NEW r \in Reqs, TimerInv(r), OnTimer(r)
    PROVE  TimerInv(r)'
<1>1. PICK result \in {"ok", "err"} :
        /\ Runs(r, "wait", result)
        /\ \/ pend' = [pend EXCEPT ![r] = CloseSocket(Finish(pend[r], "wait", result))]
           \/ pend' = [pend EXCEPT ![r] = Finish(pend[r], "wait", result)]
  BY DEF OnTimer, OnTimeout, OnTimerAborted, ReleaseTo, SetPend
<1>2. UNCHANGED call
  BY DEF OnTimer, OnTimeout, OnTimerAborted
<1> DEFINE q == Finish(pend[r], "wait", result)
<1>3. q \in [Ops -> Nat] /\ \A o \in StepOps : q[o] = pend[r][o]
  BY <1>1, FinishWaitLemma, RequestFacts DEF Runs, Results
<1>4. q[Timer] = pend[r][Timer]
  <2> DEFINE t == <<"wait", result>>
  <2>1. t # Timer
    BY DEF Timer
  <2>2. q = [pend[r] EXCEPT ![t] = @ - 1]
    BY DEF Finish
  <2> HIDE DEF q, t
  <2> QED
    BY <2>1, <2>2, TimerOp, RequestFacts
<1>5. pend' = [pend EXCEPT ![r] = CloseSocket(q)] \/ pend' = [pend EXCEPT ![r] = q]
  BY <1>1
<1> HIDE DEF q
<1>6. Single(q) /\ (None(q) <=> None(pend[r]))
  BY <1>3, RequestFacts DEF Single, None
<1>7. ~None(q) => ~None(CloseSocket(q))
  BY <1>3, <1>6, AbortLemma DEF CloseSocket
<1>8. CloseSocket(q)[Timer] = q[Timer]
  BY TimerOp DEF CloseSocket, Abort, Timer, Steps
<1>9. pend'[r] = CloseSocket(q) \/ pend'[r] = q
  BY <1>5, RequestFacts DEF RequestTypeOK
<1> QED
  BY <1>2, <1>4, <1>6, <1>7, <1>8, <1>9 DEF TimerInv

LEMMA CompletionTimer ==
    ASSUME ClientInv, NEW r \in Reqs, TimerInv(r), Completion(r)
    PROVE  TimerInv(r)'
<1>1. ASSUME NEW op \in Steps, StepCompletes(r, op) PROVE TimerInv(r)'
  <2>1. PICK result \in {"ok", "err"} : pend' = [pend EXCEPT ![r] = Complete(pend[r], op, result)]
    BY <1>1 DEF StepCompletes, SetPend
  <2>2. pend[r][<<op, "begun">>] > 0
    BY <1>1 DEF StepCompletes
  <2> DEFINE t == <<op, "begun">>
             u == <<op, result>>
             p == Complete(pend[r], op, result)
  <2>3. t \in Ops /\ u \in StepOps /\ u \in Ops /\ t # u
    BY OpsFacts DEF Results
  <2>4. p = [pend[r] EXCEPT ![t] = @ - 1, ![u] = @ + 1] /\ pend' = [pend EXCEPT ![r] = p]
    BY <2>1 DEF Complete
  <2> HIDE DEF p, t, u
  <2>5. p[u] # 0
    BY <2>3, <2>4, RequestFacts
  <2> QED
    BY <2>3, <2>4, <2>5, TimerLemma DEF None
<1>2. ASSUME TimerExpires(r) PROVE TimerInv(r)'
  <2>1. /\ pend[r][Timer] > 0 /\ UNCHANGED call
        /\ pend' = [pend EXCEPT ![r] = Complete(pend[r], "wait", "ok")]
    BY <1>2 DEF TimerExpires, SetPend, Timer
  <2>2. \A o \in StepOps : Complete(pend[r], "wait", "ok")[o] = pend[r][o]
    BY <2>1, CompleteWaitLemma, RequestFacts DEF Timer
  <2>3. pend'[r] = Complete(pend[r], "wait", "ok")
    BY <2>1, RequestFacts DEF RequestTypeOK
  <2> QED
    BY <2>1, <2>2, <2>3 DEF TimerInv, None
<1> QED
  BY <1>1, <1>2 DEF Completion

LEMMA CallerTimer ==
    ASSUME ClientInv, NEW r \in Reqs, TimerInv(r), Caller(r)
    PROVE  TimerInv(r)'
<1>1. CASE Create(r)
  BY <1>1, RequestFacts DEF Create, TimerInv, RequestTypeOK
<1>2. CASE Send(r)
  <2>1. None(pend[r])
    BY <1>2, ExchangeFacts DEF Send
  <2> QED
    BY <1>2, <2>1, BegunLemma, TimerLemma, RequestFacts DEF Send, SetPend, Steps
<1>3. CASE Return(r)
  BY <1>3, RequestFacts DEF Return, ReleaseTo, SetPend, TimerInv, RequestTypeOK
<1> QED
  BY <1>1, <1>2, <1>3 DEF Caller

TimersInv == \A r \in Reqs : TimerInv(r)

LEMMA TimerStepLemma == ClientInv /\ TimersInv /\ [ClientNext]_clientVars => TimersInv'
<1> SUFFICES ASSUME ClientInv, TimersInv, [ClientNext]_clientVars, NEW d \in Reqs
             PROVE  TimerInv(d)'
  BY DEF TimersInv
<1>1. TimerInv(d)
  BY DEF TimersInv
<1>2. ASSUME call'[d] = call[d], pend'[d] = pend[d] PROVE TimerInv(d)'
  BY <1>1, <1>2 DEF TimerInv
<1>3. ASSUME NEW r \in Reqs, StepOK(r), r # d PROVE TimerInv(d)'
  BY <1>2, <1>3 DEF StepOK, Same
<1>4. ASSUME NEW r \in Reqs, SendRequest(r) PROVE TimerInv(d)'
  BY <1>1, <1>4, RequestFacts DEF SendRequest, TimerInv, RequestTypeOK
<1>5. ASSUME NEW r \in Reqs, Caller(r) PROVE TimerInv(d)'
  BY <1>1, <1>3, <1>5, CallerTimer, CreateStep, SendStep, ReturnStep DEF Caller
<1>6. ASSUME NEW r \in Reqs, Completion(r) PROVE TimerInv(d)'
  BY <1>1, <1>3, <1>6, CompletionTimer, StepCompletesStep, TimerExpiresStep DEF Completion
<1>7. ASSUME NEW r \in Reqs, RunHandler(OnStep(r)) \/ RunHandler(OnTimer(r)) PROVE TimerInv(d)'
  BY <1>1, <1>3, <1>7, OnStepTimer, OnTimerTimer, OnStepStep, OnTimerStep DEF RunHandler
<1>8. CASE Destroy
  BY <1>8, TimerOp DEF Destroy, TimerInv
<1>9. CASE Stop \/ Join \/ UNCHANGED clientVars
  BY <1>2, <1>9 DEF Stop, Join, clientVars, requestVars
<1> QED
  BY <1>4, <1>5, <1>6, <1>7, <1>8, <1>9 DEF ClientNext

\* No Request whose exchange is over waits for its timer before it reports.
THEOREM TimerEndsCorrect == ClientSpec => []TimerEndsWithRequest
<1>1. ClientInit => TimersInv
  BY DEF ClientInit, RequestInit, TimersInv, TimerInv
<1>2. ASSUME ClientInv, TimersInv PROVE TimerEndsWithRequest
  <2> SUFFICES ASSUME NEW r \in Reqs, call[r] \in {"sent", "returned"}, ~Outstanding(r, Steps)
               PROVE  pend[r][Timer] = 0
    BY DEF TimerEndsWithRequest, Timer
  <2>1. \A o \in StepOps : \E op \in Steps, result \in Results : o = <<op, result>>
    BY DEF StepOps
  <2>2. None(pend[r])
    BY <1>2, <2>1, OpsFacts, RequestFacts DEF Outstanding, None
  <2> QED
    BY <1>2, <2>2 DEF TimersInv, TimerInv
<1> QED
  BY <1>1, <1>2, TimerStepLemma, ClientInvariance, PTL DEF ClientSpec
=============================================================================
