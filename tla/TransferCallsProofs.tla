-------------------------- MODULE TransferCallsProofs -------------------------
(***************************************************************************)
(* What every behaviour of TransferCalls keeps, for any calls, keys and    *)
(* number of resends, and that the calls implement CallOutcome.  Traffic   *)
(* is the inductive invariant: what may be on the wire, and may have been  *)
(* applied, at each point of a call.                                       *)
(***************************************************************************)
EXTENDS TransferCalls, TLAPS

USE TransferAssumption DEF TransferAssumption

\* A call that has not got its token, or must not, has sent nothing.
NothingSent(c) == conn[c] = Closed /\ stray[c] = 0 /\ effect[c] = 0

EarlyOK(c) ==
    /\ pc[c] \in {"idle", "token"} => NothingSent(c)
    /\ c \in elsewhere => c \in OwnPolicy /\ pc[c] \notin {"idle", "token"}
    /\ pc[c] # "waiting" => conn[c] = Closed

\* A request that is sent only once is on the connection, astray, applied, or
\* refused: never two of them.  Where a redirect has led it, any refusal may come.
SingleOK(c) ==
    /\ stray[c] <= 1
    /\ stray[c] = 1 => conn[c] = Closed /\ effect[c] = 0
    /\ conn[c] = Request => effect[c] = 0
    /\ conn[c].status \in Unread \cup Denied /\ c \notin elsewhere => effect[c] = 0

\* An answer of success of the service, on the connection or returned, tells of a
\* write that was applied.
SuccessOK(c) ==
    (conn[c].status = "200" \/ result[c] = Ok) /\ plan[c].op \in Writes /\ c \notin elsewhere =>
        \E d \in Repeats(c) : effect[d] > 0

RefusedOK(c) == Definite(c) => effect[c] = 0 /\ stray[c] = 0

CallOK(c) ==
    /\ EarlyOK(c)
    /\ ~Replayable(c) => SingleOK(c)
    /\ SuccessOK(c)
    /\ RefusedOK(c)

Traffic ==
    /\ TypeOK
    /\ KeyAppliesOnce
    /\ \A c \in Calls : CallOK(c)

-----------------------------------------------------------------------------
(* The operators *)

\* Keyed operations are the ones whose plans have a key, and they send it.
LEMMA PlanFacts ==
    ASSUME plan \in [Calls -> Plans], NEW c \in Calls
    PROVE  /\ plan[c].target \in Transfers
           /\ plan[c].op \in {"create", "list", "get", "ack", "cancel"}
           /\ plan[c].op = "ack" => plan[c].disposition \in Dispositions
           /\ plan[c].key \in Keys \cup {NoKey}
           /\ plan[c].key # NoKey <=> plan[c].op \in {"create", "ack"}
           /\ HeaderKey(c) = plan[c].key
           /\ Replayable(c) <=> plan[c].op # "cancel"
  <1>1. plan[c] \in Plans
    OBVIOUS
  <1>2. /\ plan[c].target \in Transfers
        /\ plan[c].op \in {"create", "list", "get", "ack", "cancel"}
        /\ plan[c].op = "ack" => plan[c].disposition \in Dispositions
        /\ plan[c].key \in Keys \cup {NoKey}
    BY <1>1 DEF Plans, Arguments
  <1>3. plan[c].key # NoKey <=> plan[c].op \in {"create", "ack"}
    BY <1>1 DEF Plans, Arguments
  <1>4. HeaderKey(c) = plan[c].key
    BY <1>3 DEF HeaderKey
  <1> QED
    BY <1>2, <1>3, <1>4 DEF Replayable

\* What a decoded answer can be, and what it tells of the answer.
LEMMA DecodeFacts ==
    ASSUME NEW a \in Answers, NEW c \in Calls
    PROVE  /\ Decode(c, a) \in Results \ {NoResult}
           /\ Decode(c, a) = Ok => a.status = "200"
           /\ Sentinel(Decode(c, a)) \notin NeverSent
           /\ Sentinel(Decode(c, a)) \in Refused => a.status \in Unread \cup Denied
  <1>1. CASE a.status # "200"
    <2>1. a.status \in Statuses /\ Decode(c, a) = Status(a.status)
      BY <1>1 DEF Decode, Answers
    <2>2. Status(a.status) \in Results
      BY <2>1 DEF Results
    <2>3. Status(a.status) # NoResult /\ Status(a.status) # Ok
      BY DEF Status, NoResult, Ok
    <2>4. /\ Sentinel(Status(a.status)) \notin NeverSent
          /\ Sentinel(Status(a.status)) \in Refused => a.status \in Unread \cup Denied
      BY <2>1 DEF Sentinel, Status, Statuses, Unread, Denied, Doubtful, NeverSent, Refused
    <2> QED
      BY <1>1, <2>1, <2>2, <2>3, <2>4
  <1>2. CASE a.status = "200"
    <2>1. Decode(c, a) \in {Ok, Local("ErrPayloadTooLarge"), Local("json"), Local("ErrIncompatibleContract")}
      BY <1>2 DEF Decode
    <2>2. Decode(c, a) \in Results
      BY <2>1 DEF Results, LocalErrors
    <2>3. Decode(c, a) # NoResult
      BY <2>1 DEF Local, NoResult, Ok
    <2>4. \A e \in LocalErrors : Sentinel(Local(e)) = e
      BY DEF Sentinel, Local
    <2>5. Sentinel(Ok) = "ErrUnexpectedStatus"
      BY DEF Sentinel, Ok
    <2>6. Sentinel(Decode(c, a)) \notin NeverSent \cup Refused
      BY <2>1, <2>4, <2>5 DEF LocalErrors, NeverSent, Refused
    <2> QED
      BY <1>2, <2>2, <2>3, <2>6
  <1> QED
    BY <1>1, <1>2

-----------------------------------------------------------------------------
(* The client's steps *)

\* A step of one call that applies nothing leaves the other calls as they were.
LEMMA ClientFrame ==
    ASSUME Traffic, TypeOK', plan' = plan, effect' = effect, NEW c \in Calls,
           \A d \in Calls \ {c} : /\ pc'[d] = pc[d] /\ conn'[d] = conn[d]
                                  /\ stray'[d] = stray[d] /\ result'[d] = result[d]
                                  /\ (d \in elsewhere' <=> d \in elsewhere),
           CallOK(c)'
    PROVE  Traffic'
  <1>1. KeyAppliesOnce'
    BY DEF Traffic, KeyAppliesOnce
  <1>2. ASSUME NEW d \in Calls, d # c
        PROVE  CallOK(d)'
    <2>1. CallOK(d)
      BY DEF Traffic
    <2>2. /\ pc'[d] = pc[d] /\ conn'[d] = conn[d] /\ stray'[d] = stray[d]
          /\ result'[d] = result[d] /\ (d \in elsewhere' <=> d \in elsewhere)
      BY <1>2
    <2>3. EarlyOK(d)'
      BY <2>1, <2>2 DEF CallOK, EarlyOK, NothingSent
    <2>4. Replayable(d)' <=> Replayable(d)
      BY DEF Replayable, HeaderKey
    <2>5. ~Replayable(d)' => SingleOK(d)'
      BY <2>1, <2>2, <2>4 DEF CallOK, SingleOK
    <2>6. Repeats(d)' = Repeats(d)
      BY DEF Repeats, SameWrite
    <2>7. SuccessOK(d)'
      BY <2>1, <2>2, <2>6 DEF CallOK, SuccessOK
    <2>8. RefusedOK(d)'
      BY <2>1, <2>2, <2>4 DEF CallOK, RefusedOK, Definite, LedAway
    <2> QED
      BY <2>3, <2>5, <2>7, <2>8 DEF CallOK
  <1> QED
    BY <1>1, <1>2 DEF Traffic

LEMMA CallStep ==
    ASSUME Traffic, NEW c \in Calls, Call(c)
    PROVE  Traffic'
  <1>1. TypeOK /\ CallOK(c)
    BY DEF Traffic
  <1>2. pc[c] = "idle" /\ NothingSent(c) /\ c \notin elsewhere
    BY <1>1 DEF Call, CallOK, EarlyOK
  <1>3. UNCHANGED <<plan, effect, conn, stray, elsewhere>>
    BY DEF Call, serviceVars
  <1>4. CASE Validates(c)
    <2>1. pc' = [pc EXCEPT ![c] = "token"] /\ result' = result
      BY <1>4 DEF Call
    <2>2. TypeOK'
      BY <1>1, <1>2, <2>1 DEF Call, TypeOK, serviceVars
    <2>3. pc'[c] = "token" /\ result'[c] = NoResult
      BY <1>1, <1>2, <2>1 DEF TypeOK
    <2>4. CallOK(c)'
      BY <1>2, <1>3, <1>4, <2>3
         DEF CallOK, EarlyOK, NothingSent, SingleOK, SuccessOK, RefusedOK, Validates,
             NoResult, Ok, Closed, Request, Unread, Denied
    <2> QED
      BY <1>1, <1>3, <2>1, <2>2, <2>4, ClientFrame DEF TypeOK
  <1>5. CASE ~Validates(c)
    <2>1. pc' = [pc EXCEPT ![c] = "done"] /\ result' = [result EXCEPT ![c] = Local("ErrInvalidRequest")]
      BY <1>5 DEF Call, Return
    <2>2. Local("ErrInvalidRequest") \in Results \ {NoResult, Ok}
      BY DEF Results, LocalErrors, Local, NoResult, Ok
    <2>3. TypeOK'
      BY <1>1, <1>2, <2>1, <2>2 DEF Call, TypeOK, serviceVars
    <2>4. pc'[c] = "done" /\ result'[c] # Ok
      BY <1>1, <2>1, <2>2 DEF TypeOK
    <2>5. CallOK(c)'
      BY <1>2, <1>3, <2>1, <2>4
         DEF CallOK, EarlyOK, NothingSent, SingleOK, SuccessOK, RefusedOK,
             Closed, Request, Unread, Denied
    <2> QED
      BY <1>1, <1>3, <2>1, <2>3, <2>5, ClientFrame DEF TypeOK
  <1> QED
    BY <1>4, <1>5

\* Results that fall short of any promise.
LEMMA LocalResult ==
    ASSUME NEW e \in LocalErrors
    PROVE  /\ Local(e) \in Results \ {NoResult, Ok}
           /\ Sentinel(Local(e)) = e
  <1>1. Local(e) \in Results
    BY DEF Results
  <1>2. Local(e) # NoResult /\ Local(e) # Ok /\ Sentinel(Local(e)) = e
    BY DEF Local, NoResult, Ok, Sentinel
  <1> QED
    BY <1>1, <1>2

LEMMA TokenAnswerStep ==
    ASSUME Traffic, NEW c \in Calls, TokenAnswer(c)
    PROVE  Traffic'
  <1>1. TypeOK /\ CallOK(c)
    BY DEF Traffic
  <1>2. pc[c] = "token" /\ NothingSent(c)
    BY <1>1 DEF TokenAnswer, CallOK, EarlyOK
  <1>3. plan' = plan /\ effect' = effect /\ stray' = stray /\ elsewhere' = elsewhere
    BY DEF TokenAnswer, serviceVars
  <1>4. CASE conn' = conn
    <2>1. /\ pc' = [pc EXCEPT ![c] = "done"]
          /\ \E r \in Results \ {NoResult, Ok} : result' = [result EXCEPT ![c] = r]
      <3>1. conn'[c] # Request
        BY <1>2, <1>4 DEF NothingSent, Request, Closed
      <3>2. PICK e \in {"token provider", "ErrUnauthorized"} : Return(c, Local(e))
        BY <1>1, <3>1 DEF TokenAnswer, TypeOK
      <3>3. Local(e) \in Results \ {NoResult, Ok}
        BY LocalResult DEF LocalErrors
      <3> QED
        BY <3>2, <3>3 DEF Return
    <2>2. TypeOK'
      BY <1>1, <1>2, <1>4, <2>1 DEF TokenAnswer, TypeOK, serviceVars
    <2>3. pc'[c] = "done" /\ result'[c] # Ok
      BY <1>1, <2>1 DEF TypeOK
    <2>4. CallOK(c)'
      BY <1>1, <1>2, <1>3, <1>4, <2>3
         DEF CallOK, EarlyOK, NothingSent, SingleOK, SuccessOK, RefusedOK,
             Closed, Request, Unread, Denied
    <2> QED
      BY <1>1, <1>3, <1>4, <2>1, <2>2, <2>4, ClientFrame DEF TypeOK
  <1>5. ASSUME pc' = [pc EXCEPT ![c] = "waiting"], conn' = [conn EXCEPT ![c] = Request],
               result' = result
        PROVE  Traffic'
    <2>1. TypeOK'
      BY <1>1, <1>2, <1>5 DEF TokenAnswer, TypeOK, serviceVars
    <2>2. pc'[c] = "waiting" /\ conn'[c] = Request /\ result'[c] = NoResult
      BY <1>1, <1>2, <1>5 DEF TypeOK
    <2>3. Sentinel(NoResult) \notin NeverSent \cup Refused
      BY DEF Sentinel, NoResult, NeverSent, Refused
    <2>4. CallOK(c)'
      BY <1>1, <1>2, <1>3, <2>2, <2>3
         DEF CallOK, EarlyOK, NothingSent, SingleOK, SuccessOK, RefusedOK, Definite, LedAway,
             NoResult, Ok, Closed, Request, Unread, Denied
    <2> QED
      BY <1>1, <1>3, <1>5, <2>1, <2>4, ClientFrame DEF TypeOK
  <1> QED
    BY <1>4, <1>5 DEF TokenAnswer

\* What a call that waits has done so far.
LEMMA Waiting ==
    ASSUME Traffic, NEW c \in Calls, pc[c] = "waiting"
    PROVE  result[c] = NoResult
  BY DEF Traffic, TypeOK, CallOK

\* A waiting call gives up, for either reason.
LEMMA GiveUpStep ==
    ASSUME Traffic, NEW c \in Calls, TimedOut(c) \/ Broken(c)
    PROVE  Traffic'
  <1>1. TypeOK /\ CallOK(c)
    BY DEF Traffic
  <1>2. /\ pc[c] = "waiting" /\ Abandon(c) /\ Return(c, Local("transport"))
        /\ conn' = [conn EXCEPT ![c] = Closed]
        /\ UNCHANGED <<plan, resends, elsewhere, state, effect>>
    BY DEF TimedOut, Broken, serviceVars
  <1>3. result[c] = NoResult
    BY <1>2, Waiting
  <1>4. Local("transport") \in Results \ {NoResult, Ok} /\ Sentinel(Local("transport")) = "transport"
    BY LocalResult DEF LocalErrors
  <1>5. stray' \in [Calls -> Nat]
    BY <1>1, <1>2 DEF TypeOK, Abandon
  <1>6. TypeOK'
    BY <1>1, <1>2, <1>4, <1>5 DEF TypeOK, Return
  <1>7. pc'[c] = "done" /\ conn'[c] = Closed /\ result'[c] = Local("transport")
    BY <1>1, <1>2 DEF TypeOK, Return
  <1>8. \/ stray'[c] = stray[c]
        \/ conn[c] = Request /\ stray'[c] = stray[c] + 1
    BY <1>1, <1>2 DEF Abandon, TypeOK
  <1>9. CallOK(c)'
    <2>1. EarlyOK(c)'
      BY <1>1, <1>2, <1>3, <1>7 DEF CallOK, EarlyOK
    <2>2. Replayable(c)' <=> Replayable(c)
      BY <1>2 DEF Replayable, HeaderKey
    <2>3. ~Replayable(c)' => SingleOK(c)'
      <3>1. SUFFICES ASSUME SingleOK(c)
                     PROVE  SingleOK(c)'
        BY <1>1, <2>2 DEF CallOK
      <3>2. stray[c] \in Nat /\ effect' = effect
        BY <1>1, <1>2 DEF TypeOK
      <3>3. Request # Closed /\ Closed.status \notin Unread \cup Denied
        BY DEF Request, Closed, Unread, Denied
      <3> QED
        BY <1>7, <1>8, <3>1, <3>2, <3>3 DEF SingleOK
    <2>4. SuccessOK(c)'
      BY <1>4, <1>7 DEF SuccessOK, Closed
    <2>5. RefusedOK(c)'
      BY <1>4, <1>7 DEF RefusedOK, Definite, LedAway, NeverSent, Refused
    <2> QED
      BY <2>1, <2>3, <2>4, <2>5 DEF CallOK
  <1> QED
    BY <1>1, <1>2, <1>6, <1>9, ClientFrame DEF TypeOK, Return, Abandon

LEMMA ResentStep ==
    ASSUME Traffic, NEW c \in Calls, Resent(c)
    PROVE  Traffic'
  <1>1. TypeOK /\ CallOK(c)
    BY DEF Traffic
  <1>2. /\ pc[c] = "waiting" /\ Replayable(c) /\ Abandon(c)
        /\ conn' = [conn EXCEPT ![c] = Request]
        /\ UNCHANGED <<plan, pc, result, elsewhere, state, effect>>
    BY DEF Resent, serviceVars
  <1>3. result[c] = NoResult
    BY <1>2, Waiting
  <1>4. stray' \in [Calls -> Nat] /\ resends' \in [Calls -> 0 .. MaxResends]
    BY <1>1, <1>2 DEF TypeOK, Abandon, Resent
  <1>5. TypeOK'
    BY <1>1, <1>2, <1>4 DEF TypeOK
  <1>6. conn'[c] = Request
    BY <1>1, <1>2 DEF TypeOK
  <1>7. CallOK(c)'
    <2>1. EarlyOK(c)'
      BY <1>1, <1>2, <1>3 DEF CallOK, EarlyOK
    <2>2. Replayable(c)'
      BY <1>2 DEF Replayable, HeaderKey
    <2>3. SuccessOK(c)'
      BY <1>2, <1>3, <1>6 DEF SuccessOK, Request, NoResult, Ok
    <2>4. RefusedOK(c)'
      BY <1>2, <1>3 DEF RefusedOK, Definite, LedAway, NeverSent, Refused, Sentinel, NoResult
    <2> QED
      BY <2>1, <2>2, <2>3, <2>4 DEF CallOK
  <1> QED
    BY <1>1, <1>2, <1>5, <1>7, ClientFrame DEF TypeOK, Abandon

\* A redirect is followed only where the host's own CheckRedirect lets it be.
LEMMA RedirectedStep ==
    ASSUME Traffic, NEW c \in Calls, Redirected(c)
    PROVE  Traffic'
  <1>1. TypeOK /\ CallOK(c)
    BY DEF Traffic
  <1>2. /\ pc[c] = "waiting" /\ conn[c].status \in {"303", "307"}
        /\ c \in OwnPolicy /\ c \notin elsewhere
        /\ UNCHANGED <<plan, pc, resends, result, stray, state, effect>>
    BY DEF Redirected, CheckRedirect, serviceVars
  <1>3. result[c] = NoResult
    BY <1>2, Waiting
  <1>4. PICK a \in Answers \cup {Request} :
            /\ conn' = [conn EXCEPT ![c] = a]
            /\ \/ a = Request /\ conn[c].status = "307" /\ elsewhere' = elsewhere
               \/ a \in Answers /\ elsewhere' = elsewhere \cup {c}
    BY DEF Redirected
  <1>5. TypeOK'
    BY <1>1, <1>2, <1>4 DEF TypeOK
  <1>6. conn'[c] = a
    BY <1>1, <1>4 DEF TypeOK
  <1>7. CallOK(c)'
    <2>1. EarlyOK(c)'
      BY <1>1, <1>2 DEF CallOK, EarlyOK
    <2>2. Replayable(c)' <=> Replayable(c)
      BY <1>2 DEF Replayable, HeaderKey
    <2>3. ~Replayable(c)' => SingleOK(c)'
      <3>1. SUFFICES ASSUME SingleOK(c)
                     PROVE  SingleOK(c)'
        BY <1>1, <2>2 DEF CallOK
      <3>2. stray[c] # 1 /\ stray[c] <= 1
        BY <1>2, <3>1 DEF SingleOK, Closed
      <3>3. conn[c].status = "307" => effect[c] = 0
        BY <1>2, <3>1 DEF SingleOK, Unread
      <3>4. CASE a = Request /\ conn[c].status = "307" /\ elsewhere' = elsewhere
        BY <1>2, <1>6, <3>2, <3>3, <3>4 DEF SingleOK
      <3>5. CASE a \in Answers /\ elsewhere' = elsewhere \cup {c}
        <4>1. a # Request
          BY <3>5 DEF Answers, Statuses, Request, Unread, Denied, Doubtful
        <4> QED
          BY <1>2, <1>6, <3>2, <3>5, <4>1 DEF SingleOK
      <3> QED
        BY <1>4, <3>4, <3>5
    <2>4. SuccessOK(c)'
      BY <1>2, <1>3, <1>4, <1>6 DEF SuccessOK, Request, NoResult, Ok
    <2>5. RefusedOK(c)'
      BY <1>2, <1>3 DEF RefusedOK, Definite, LedAway, NeverSent, Refused, Sentinel, NoResult
    <2> QED
      BY <2>1, <2>3, <2>4, <2>5 DEF CallOK
  <1> QED
    BY <1>1, <1>2, <1>4, <1>5, <1>7, ClientFrame DEF TypeOK

LEMMA AnsweredStep ==
    ASSUME Traffic, NEW c \in Calls, Answered(c)
    PROVE  Traffic'
  <1>1. TypeOK /\ CallOK(c)
    BY DEF Traffic
  <1>2. /\ pc[c] = "waiting" /\ conn[c] \in Answers /\ Return(c, Decode(c, conn[c]))
        /\ conn' = [conn EXCEPT ![c] = Closed]
        /\ UNCHANGED <<plan, resends, elsewhere, stray, state, effect>>
    BY DEF Answered, serviceVars
  <1>3. result[c] = NoResult
    BY <1>2, Waiting
  <1>4. /\ Decode(c, conn[c]) \in Results \ {NoResult}
        /\ Decode(c, conn[c]) = Ok => conn[c].status = "200"
        /\ Sentinel(Decode(c, conn[c])) \notin NeverSent
        /\ Sentinel(Decode(c, conn[c])) \in Refused => conn[c].status \in Unread \cup Denied
    BY <1>2, DecodeFacts
  <1>5. TypeOK'
    BY <1>1, <1>2, <1>4 DEF TypeOK, Return
  <1>6. pc'[c] = "done" /\ conn'[c] = Closed /\ result'[c] = Decode(c, conn[c])
    BY <1>1, <1>2 DEF TypeOK, Return
  <1>7. CallOK(c)'
    <2>1. EarlyOK(c)'
      BY <1>1, <1>2, <1>3, <1>6 DEF CallOK, EarlyOK
    <2>2. Replayable(c)' <=> Replayable(c)
      BY <1>2 DEF Replayable, HeaderKey
    <2>3. ~Replayable(c)' => SingleOK(c)'
      BY <1>1, <1>2, <1>6, <2>2 DEF CallOK, SingleOK, Request, Closed, Unread, Denied
    <2>4. Repeats(c)' = Repeats(c)
      BY <1>2 DEF Repeats, SameWrite
    <2>5. SuccessOK(c)'
      BY <1>1, <1>2, <1>4, <1>6, <2>4 DEF CallOK, SuccessOK, Closed
    <2>6. RefusedOK(c)'
      <3>1. SUFFICES ASSUME ~Replayable(c), c \notin elsewhere, conn[c].status \in Unread \cup Denied
                     PROVE  effect[c] = 0 /\ stray[c] = 0
        BY <1>1, <1>2, <1>4, <1>6, <2>2 DEF RefusedOK, Definite, LedAway, CallOK, EarlyOK
      <3>2. SingleOK(c) /\ stray[c] \in Nat
        BY <1>1, <3>1 DEF CallOK, TypeOK
      <3>3. conn[c] # Closed
        BY <1>2 DEF Answers, Closed, Statuses, Unread, Denied, Doubtful
      <3> QED
        BY <3>1, <3>2, <3>3 DEF SingleOK
    <2> QED
      BY <2>1, <2>3, <2>5, <2>6 DEF CallOK
  <1> QED
    BY <1>1, <1>2, <1>5, <1>7, ClientFrame DEF TypeOK, Return

-----------------------------------------------------------------------------
(* The service's steps *)

LEMMA RefuseStep ==
    ASSUME Traffic, NEW c \in Calls, Refuse(c)
    PROVE  Traffic'
  <1>1. TypeOK /\ CallOK(c)
    BY DEF Traffic
  <1>2. conn[c] = Request /\ UNCHANGED <<plan, pc, resends, result, elsewhere, stray, state, effect>>
    BY DEF Refuse, clientVars, serviceVars
  <1>3. PICK s \in Unread \cup Doubtful : conn' = [conn EXCEPT ![c] = [status |-> s, body |-> "error"]]
    BY DEF Refuse
  <1>4. pc[c] = "waiting"
    BY <1>1, <1>2 DEF CallOK, EarlyOK, Request, Closed
  <1>5. result[c] = NoResult
    BY <1>4, Waiting
  <1>6. [status |-> s, body |-> "error"] \in Answers
    BY DEF Answers, Statuses
  <1>7. TypeOK'
    BY <1>1, <1>2, <1>3, <1>6 DEF TypeOK
  <1>8. conn'[c] = [status |-> s, body |-> "error"]
    BY <1>1, <1>3 DEF TypeOK
  <1>9. CallOK(c)'
    <2>1. EarlyOK(c)'
      BY <1>1, <1>2, <1>4, <1>5 DEF CallOK, EarlyOK
    <2>2. ~Replayable(c)' => SingleOK(c)'
      <3>1. SUFFICES ASSUME SingleOK(c)
                     PROVE  SingleOK(c)'
        BY <1>1, <1>2 DEF CallOK, Replayable, HeaderKey
      <3>2. stray[c] # 1 /\ stray[c] <= 1 /\ effect[c] = 0
        BY <1>2, <3>1 DEF SingleOK, Request, Closed
      <3> QED
        BY <1>2, <3>2 DEF SingleOK
    <2>3. s # "200"
      BY DEF Unread, Doubtful
    <2>4. SuccessOK(c)'
      BY <1>2, <1>5, <1>8, <2>3 DEF SuccessOK, NoResult, Ok
    <2>5. RefusedOK(c)'
      BY <1>2, <1>5 DEF RefusedOK, Definite, LedAway, NeverSent, Refused, Sentinel, NoResult
    <2> QED
      BY <2>1, <2>2, <2>4, <2>5 DEF CallOK
  <1> QED
    BY <1>1, <1>2, <1>3, <1>7, <1>9, ClientFrame DEF TypeOK

\* The calls that repeat a write share its key, or are the same call.
LEMMA RepeatsShareKey ==
    ASSUME plan \in [Calls -> Plans], NEW c \in Calls, NEW d \in Repeats(c)
    PROVE  d = c \/ (plan[d].key = plan[c].key /\ plan[c].key # NoKey)
  BY DEF Repeats

\* What the handling of a request does, given that a call that is sent only
\* once has not been applied.
LEMMA HandleFacts ==
    ASSUME Traffic, NEW c \in Calls, Handle(c), plan' = plan, ~Replayable(c) => effect[c] = 0
    PROVE  /\ effect' \in [Calls -> Nat]
           /\ state' \in [Transfers -> {"absent", "pending", "expired", "cancelled"} \cup Dispositions]
           /\ KeyAppliesOnce'
           /\ \/ effect' = effect
              \/ /\ effect' = [effect EXCEPT ![c] = 1] /\ plan[c].op \in Writes
                 /\ \A d \in Repeats(c) : effect[d] = 0
           /\ \A d \in Calls : effect[d] > 0 => effect'[d] > 0
           /\ plan[c].op \in Writes /\ Verdict(c) \notin Denied => \E d \in Repeats(c) : effect'[d] > 0
  <1>1. TypeOK /\ KeyAppliesOnce
    BY DEF Traffic
  <1>2. \A d \in Calls : /\ HeaderKey(d) = plan[d].key
                         /\ plan[d].key # NoKey <=> plan[d].op \in {"create", "ack"}
                         /\ Replayable(d) <=> plan[d].op # "cancel"
    BY <1>1, PlanFacts DEF TypeOK
  <1>3. /\ plan[c].target \in Transfers
        /\ plan[c].op \in {"create", "list", "get", "ack", "cancel"}
        /\ plan[c].op = "ack" => plan[c].disposition \in Dispositions
    BY <1>1, PlanFacts DEF TypeOK
  <1>4. KeyHolders(c) = {d \in Calls : effect[d] > 0 /\ plan[c].key # NoKey /\ plan[d].key = plan[c].key}
    BY <1>2 DEF KeyHolders
  <1>5. CASE Verdict(c) = "apply" /\ plan[c].op \in Writes
    <2>1. effect' = [effect EXCEPT ![c] = @ + 1] /\ state' = [state EXCEPT ![plan[c].target] = StateAfter(c)]
      BY <1>5 DEF Handle
    <2>2. KeyHolders(c) = {}
      BY <1>5 DEF Verdict
    <2>3. \A d \in Calls : plan[c].key # NoKey /\ plan[d].key = plan[c].key => effect[d] = 0
      BY <1>1, <1>4, <2>2 DEF TypeOK
    <2>4. effect[c] = 0
      BY <1>2, <1>5, <2>3 DEF Writes
    <2>5. effect' = [effect EXCEPT ![c] = 1]
      BY <1>1, <2>1, <2>4 DEF TypeOK
    <2>6. \A d \in Repeats(c) : effect[d] = 0
      BY <1>1, <2>3, <2>4, RepeatsShareKey DEF TypeOK, Repeats
    <2>7. StateAfter(c) \in {"pending", "cancelled"} \cup Dispositions
      BY <1>3, <1>5 DEF StateAfter, Writes
    <2>8. state' \in [Transfers -> {"absent", "pending", "expired", "cancelled"} \cup Dispositions]
      BY <1>1, <1>3, <2>1, <2>7 DEF TypeOK
    <2>9. KeyAppliesOnce'
      BY <1>1, <2>3, <2>5 DEF KeyAppliesOnce, TypeOK
    <2>10. c \in Repeats(c) /\ effect'[c] = 1
      BY <1>1, <1>5, <2>5 DEF Repeats, TypeOK
    <2> QED
      BY <1>1, <1>5, <2>5, <2>6, <2>8, <2>9, <2>10 DEF TypeOK
  <1>6. CASE ~(Verdict(c) = "apply" /\ plan[c].op \in Writes)
    <2>1. UNCHANGED <<state, effect>>
      BY <1>6 DEF Handle, serviceVars
    <2>2. KeyAppliesOnce'
      BY <1>1, <2>1 DEF KeyAppliesOnce
    <2>3. ASSUME plan[c].op \in Writes, Verdict(c) \notin Denied
          PROVE  \E d \in Repeats(c) : effect[d] > 0
      <3>1. KeyHolders(c) # {} /\ \A d \in KeyHolders(c) : SameWrite(c, d)
        BY <1>3, <1>6, <2>3 DEF Verdict, Denied
      <3>2. PICK d \in KeyHolders(c) : SameWrite(c, d)
        BY <3>1
      <3>3. d \in Repeats(c) /\ effect[d] > 0
        BY <1>4, <2>3, <3>2 DEF Repeats
      <3> QED
        BY <3>3
    <2> QED
      BY <1>1, <2>1, <2>2, <2>3 DEF TypeOK
  <1> QED
    BY <1>5, <1>6

\* A step of the service on one request leaves the other calls as they were.
LEMMA ServiceFrame ==
    ASSUME Traffic, TypeOK', KeyAppliesOnce', UNCHANGED <<plan, pc, result, elsewhere>>, NEW c \in Calls,
           \A d \in Calls \ {c} : conn'[d] = conn[d] /\ stray'[d] = stray[d] /\ effect'[d] = effect[d],
           \A d \in Calls : effect[d] > 0 => effect'[d] > 0,
           CallOK(c)'
    PROVE  Traffic'
  <1>1. ASSUME NEW d \in Calls, d # c
        PROVE  CallOK(d)'
    <2>1. CallOK(d)
      BY DEF Traffic
    <2>2. conn'[d] = conn[d] /\ stray'[d] = stray[d] /\ effect'[d] = effect[d]
      BY <1>1
    <2>3. EarlyOK(d)'
      BY <2>1, <2>2 DEF CallOK, EarlyOK, NothingSent
    <2>4. Replayable(d)' <=> Replayable(d)
      BY DEF Replayable, HeaderKey
    <2>5. ~Replayable(d)' => SingleOK(d)'
      BY <2>1, <2>2, <2>4 DEF CallOK, SingleOK
    <2>6. Repeats(d)' = Repeats(d) /\ Repeats(d) \subseteq Calls
      BY DEF Repeats, SameWrite
    <2>7. SuccessOK(d)'
      BY <2>1, <2>2, <2>6 DEF CallOK, SuccessOK
    <2>8. RefusedOK(d)'
      BY <2>1, <2>2, <2>4 DEF CallOK, RefusedOK, Definite, LedAway
    <2> QED
      BY <2>3, <2>5, <2>7, <2>8 DEF CallOK
  <1> QED
    BY <1>1 DEF Traffic

LEMMA ServeStep ==
    ASSUME Traffic, NEW c \in Calls, Serve(c)
    PROVE  Traffic'
  <1>1. TypeOK /\ CallOK(c)
    BY DEF Traffic
  <1>2. conn[c] = Request /\ Handle(c) /\ UNCHANGED <<plan, pc, resends, result, elsewhere, stray>>
    BY DEF Serve, clientVars
  <1>3. PICK a \in Replies(Verdict(c)) : conn' = [conn EXCEPT ![c] = a]
    BY DEF Serve
  <1>4. pc[c] = "waiting"
    BY <1>1, <1>2 DEF CallOK, EarlyOK, Request, Closed
  <1>5. result[c] = NoResult
    BY <1>4, Waiting
  <1>6. ~Replayable(c) => effect[c] = 0
    BY <1>1, <1>2 DEF CallOK, SingleOK
  <1>7. /\ effect' \in [Calls -> Nat]
        /\ state' \in [Transfers -> {"absent", "pending", "expired", "cancelled"} \cup Dispositions]
        /\ KeyAppliesOnce'
        /\ \/ effect' = effect
           \/ effect' = [effect EXCEPT ![c] = 1] /\ plan[c].op \in Writes
        /\ \A d \in Calls : effect[d] > 0 => effect'[d] > 0
        /\ plan[c].op \in Writes /\ Verdict(c) \notin Denied => \E d \in Repeats(c) : effect'[d] > 0
    BY <1>2, <1>6, HandleFacts
  <1>8. /\ a \in Answers /\ a.status \notin Unread
        /\ a.status = "200" => Verdict(c) \notin Denied
        /\ a.status \in Denied => Verdict(c) \in Denied
    BY DEF Replies, Answers, Statuses, Unread, Denied, Doubtful
  <1>9. TypeOK'
    BY <1>1, <1>2, <1>3, <1>7, <1>8 DEF TypeOK
  <1>10. conn'[c] = a
    BY <1>1, <1>3 DEF TypeOK
  <1>11. Replayable(c)' <=> Replayable(c)
    BY <1>2 DEF Replayable, HeaderKey
  <1>12. Repeats(c)' = Repeats(c)
    BY <1>2 DEF Repeats, SameWrite
  <1>13. CallOK(c)'
    <2>1. EarlyOK(c)'
      BY <1>1, <1>2, <1>4, <1>5 DEF CallOK, EarlyOK
    <2>2. ~Replayable(c)' => SingleOK(c)'
      <3>1. SUFFICES ASSUME ~Replayable(c)
                     PROVE  SingleOK(c)'
        BY <1>11
      <3>2. stray[c] # 1 /\ stray[c] <= 1 /\ effect[c] = 0
        BY <1>1, <1>2, <3>1 DEF CallOK, SingleOK, Request, Closed
      <3>3. a # Request
        BY <1>8 DEF Answers, Statuses, Request, Unread, Denied, Doubtful
      <3>4. Verdict(c) \in Denied => effect' = effect
        BY <1>2 DEF Handle, Denied, serviceVars
      <3> QED
        BY <1>2, <1>8, <1>10, <3>2, <3>3, <3>4 DEF SingleOK
    <2>3. SuccessOK(c)'
      BY <1>2, <1>5, <1>7, <1>8, <1>10, <1>12 DEF SuccessOK, NoResult, Ok
    <2>4. RefusedOK(c)'
      BY <1>2, <1>5 DEF RefusedOK, Definite, LedAway, NeverSent, Refused, Sentinel, NoResult
    <2> QED
      BY <2>1, <2>2, <2>3, <2>4 DEF CallOK
  <1> QED
    BY <1>1, <1>2, <1>3, <1>7, <1>9, <1>13, ServiceFrame DEF TypeOK

LEMMA ServeStrayStep ==
    ASSUME Traffic, NEW c \in Calls, ServeStray(c)
    PROVE  Traffic'
  <1>1. TypeOK /\ CallOK(c)
    BY DEF Traffic
  <1>2. /\ stray[c] > 0 /\ stray' = [stray EXCEPT ![c] = @ - 1] /\ Handle(c)
        /\ UNCHANGED <<plan, pc, resends, result, elsewhere, conn>>
    BY DEF ServeStray, clientVars
  <1>3. pc[c] \in {"waiting", "done"}
    BY <1>1, <1>2 DEF CallOK, EarlyOK, NothingSent, TypeOK
  <1>4. ~Replayable(c) => stray[c] = 1 /\ effect[c] = 0 /\ conn[c] = Closed
    BY <1>1, <1>2 DEF CallOK, SingleOK, TypeOK
  <1>5. /\ effect' \in [Calls -> Nat]
        /\ state' \in [Transfers -> {"absent", "pending", "expired", "cancelled"} \cup Dispositions]
        /\ KeyAppliesOnce'
        /\ \/ effect' = effect
           \/ effect' = [effect EXCEPT ![c] = 1] /\ plan[c].op \in Writes
        /\ \A d \in Calls : effect[d] > 0 => effect'[d] > 0
    BY <1>2, <1>4, HandleFacts
  <1>6. stray' \in [Calls -> Nat] /\ stray'[c] = stray[c] - 1
    BY <1>1, <1>2 DEF TypeOK
  <1>7. TypeOK'
    BY <1>1, <1>2, <1>5, <1>6 DEF TypeOK
  <1>8. Replayable(c)' <=> Replayable(c)
    BY <1>2 DEF Replayable, HeaderKey
  <1>9. Repeats(c)' = Repeats(c) /\ Repeats(c) \subseteq Calls
    BY <1>2 DEF Repeats, SameWrite
  <1>10. CallOK(c)'
    <2>1. EarlyOK(c)'
      BY <1>1, <1>2, <1>3 DEF CallOK, EarlyOK
    <2>2. ~Replayable(c)' => SingleOK(c)'
      BY <1>2, <1>4, <1>6, <1>8 DEF SingleOK, Closed, Request, Unread, Denied
    <2>3. SuccessOK(c)'
      BY <1>1, <1>2, <1>5, <1>9 DEF CallOK, SuccessOK
    <2>4. RefusedOK(c)'
      BY <1>1, <1>2, <1>8 DEF CallOK, RefusedOK, Definite, LedAway
    <2> QED
      BY <2>1, <2>2, <2>3, <2>4 DEF CallOK
  <1> QED
    BY <1>1, <1>2, <1>5, <1>7, <1>10, ServiceFrame DEF TypeOK

LEMMA ExpireStep ==
    ASSUME Traffic, NEW t \in Transfers, Expire(t)
    PROVE  Traffic'
  <1>1. UNCHANGED <<plan, pc, resends, result, elsewhere, conn, stray, effect>>
    BY DEF Expire, clientVars
  <1>2. TypeOK'
    BY <1>1 DEF Traffic, TypeOK, Expire
  <1>3. ASSUME NEW c \in Calls
        PROVE  CallOK(c)'
    <2>1. CallOK(c) /\ Repeats(c)' = Repeats(c) /\ (Replayable(c)' <=> Replayable(c))
      BY <1>1 DEF Traffic, Repeats, SameWrite, Replayable, HeaderKey
    <2> QED
      BY <1>1, <2>1 DEF CallOK, EarlyOK, NothingSent, SingleOK, SuccessOK, RefusedOK, Definite, LedAway
  <1> QED
    BY <1>1, <1>2, <1>3 DEF Traffic, KeyAppliesOnce

-----------------------------------------------------------------------------
LEMMA TrafficInit == Init => Traffic
  <1> SUFFICES ASSUME Init
                 PROVE  Traffic
    OBVIOUS
  <1>1. TypeOK
    BY DEF Init, TypeOK, Results
  <1>2. KeyAppliesOnce
    BY DEF Init, KeyAppliesOnce
  <1>3. ASSUME NEW c \in Calls
        PROVE  CallOK(c)
    <2>1. pc[c] = "idle" /\ c \notin elsewhere /\ NothingSent(c) /\ result[c] = NoResult
      BY DEF Init, NothingSent
    <2>2. EarlyOK(c)
      BY <2>1 DEF EarlyOK, NothingSent
    <2>3. SingleOK(c)
      BY <2>1 DEF SingleOK, NothingSent, Closed, Request, Unread, Denied
    <2>4. SuccessOK(c) /\ RefusedOK(c)
      BY <2>1 DEF SuccessOK, RefusedOK, NothingSent, Closed, NoResult, Ok
    <2> QED
      BY <2>2, <2>3, <2>4 DEF CallOK
  <1> QED
    BY <1>1, <1>2, <1>3 DEF Traffic

LEMMA TrafficNext == Traffic /\ [Next]_vars => Traffic'
  <1> SUFFICES ASSUME Traffic, [Next]_vars
                 PROVE  Traffic'
    OBVIOUS
  <1>1. ASSUME NEW c \in Calls, Client(c)
        PROVE  Traffic'
    BY <1>1, CallStep, TokenAnswerStep, GiveUpStep, ResentStep, RedirectedStep, AnsweredStep DEF Client
  <1>2. ASSUME NEW c \in Calls, Service(c)
        PROVE  Traffic'
    BY <1>2, RefuseStep, ServeStep, ServeStrayStep DEF Service
  <1>3. ASSUME NEW t \in Transfers, Expire(t)
        PROVE  Traffic'
    BY <1>3, ExpireStep
  <1>4. CASE UNCHANGED vars
    <2>1. UNCHANGED <<plan, pc, resends, result, elsewhere, conn, stray, state, effect>>
      BY <1>4 DEF vars, clientVars, serviceVars
    <2>2. TypeOK' /\ KeyAppliesOnce'
      BY <2>1 DEF Traffic, TypeOK, KeyAppliesOnce
    <2>3. ASSUME NEW c \in Calls
          PROVE  CallOK(c)'
      <3>1. CallOK(c) /\ Repeats(c)' = Repeats(c) /\ (Replayable(c)' <=> Replayable(c))
        BY <2>1 DEF Traffic, Repeats, SameWrite, Replayable, HeaderKey
      <3> QED
        BY <2>1, <3>1 DEF CallOK, EarlyOK, NothingSent, SingleOK, SuccessOK, RefusedOK, Definite, LedAway
    <2> QED
      BY <2>2, <2>3 DEF Traffic
  <1> QED
    BY <1>1, <1>2, <1>3, <1>4 DEF Next

THEOREM TrafficAlways == Spec => []Traffic
  BY TrafficInit, TrafficNext, PTL DEF Spec

\* Every variable keeps its type, and exactly the finished calls have a result:
\* no answer leaves the host with neither a value nor an error.
THEOREM TypeCorrect == Spec => []TypeOK
  BY TrafficAlways, PTL DEF Traffic

\* A nil error of Create, Acknowledge or Cancel is the truth, whatever CheckRedirect
\* the clients came with, unless the host's own has led this call away.
THEOREM SuccessIsTrue == Spec => []SuccessIsApplied
  <1>1. Traffic => SuccessIsApplied
    BY DEF Traffic, CallOK, EarlyOK, SuccessOK, SuccessIsApplied, LedAway
  <1> QED
    BY <1>1, TrafficAlways, PTL

\* One key, one write: whatever is repeated by hosts or resent by net/http.
THEOREM KeysAreGoodForOneWrite == Spec => []KeyAppliesOnce
  BY TrafficAlways, PTL DEF Traffic

\* An error that counts as definite stays definite, also after a followed redirect.
THEOREM RefusalsAreTrue == Spec => []RefusedNeverApplied
  <1>1. Traffic => RefusedNeverApplied
    BY DEF Traffic, CallOK, RefusedOK, RefusedNeverApplied
  <1> QED
    BY <1>1, TrafficAlways, PTL

\* A repeated create or acknowledgement is never told of a conflict with itself.
THEOREM RepeatsAgree == Spec => RepeatNeverConflicts
  <1> DEFINE Agrees == \A c \in Calls :
                 conn'[c] # conn[c] /\ conn'[c].status \in Denied /\ ~LedAway(c)' /\ plan[c].key # NoKey =>
                     \A d \in Repeats(c) : effect[d] = 0
  <1>1. ASSUME Traffic, [Next]_vars
        PROVE  Agrees
    <2> SUFFICES ASSUME NEW c \in Calls, conn'[c] # conn[c], conn'[c].status \in Denied,
                        ~LedAway(c)', plan[c].key # NoKey, NEW d \in Repeats(c), effect[d] # 0
                 PROVE  FALSE
      OBVIOUS
    <2>1. TypeOK /\ KeyAppliesOnce
      BY <1>1 DEF Traffic
    <2>2. PICK b \in Calls : \/ Client(b) \/ Service(b)
      BY <1>1 DEF Next, vars, clientVars, Expire
    <2>3. Request.status \notin Denied /\ Closed.status \notin Denied
      BY DEF Request, Closed, Denied
    <2>4. ~Client(b)
      <3>1. ~Redirected(b)
        BY <2>1, <2>3 DEF TypeOK, Redirected, CheckRedirect, LedAway
      <3> QED
        BY <2>1, <2>3, <3>1 DEF TypeOK, Client, Call, TokenAnswer, TimedOut, Broken, Resent, Answered
    <2>5. ~ServeStray(b)
      BY DEF ServeStray
    <2>6. ~Refuse(b)
      BY <2>1 DEF TypeOK, Refuse, Unread, Denied, Doubtful
    <2>7. PICK a \in Replies(Verdict(b)) : conn' = [conn EXCEPT ![b] = a]
      BY <2>2, <2>4, <2>5, <2>6 DEF Service, Serve
    <2>8. b = c /\ a.status \in Denied
      BY <2>1, <2>7 DEF TypeOK
    <2>9. Verdict(c) \in Denied
      BY <2>7, <2>8 DEF Replies, Denied, Doubtful
    <2>10. d \in Calls /\ plan[d].key = plan[c].key /\ SameWrite(c, d) /\ effect[d] > 0
      BY <2>1 DEF Repeats, SameWrite, TypeOK
    <2>11. \A h \in Calls : HeaderKey(h) = plan[h].key
      BY <2>1, PlanFacts DEF TypeOK
    <2>12. d \in KeyHolders(c)
      BY <2>10, <2>11 DEF KeyHolders
    <2>13. PICK h \in KeyHolders(c) : ~SameWrite(c, h)
      BY <2>9, <2>12 DEF Verdict, Denied
    <2>14. h \in Calls /\ h # d /\ plan[h].key = plan[d].key /\ effect[h] > 0 /\ plan[h].key # NoKey
      BY <2>10, <2>11, <2>13 DEF KeyHolders
    <2> QED
      BY <2>1, <2>10, <2>14 DEF KeyAppliesOnce
  <1>2. Traffic /\ [Next]_vars => [Agrees]_vars
    BY <1>1
  <1> QED
    BY <1>2, TrafficAlways, PTL DEF Spec, RepeatNeverConflicts

-----------------------------------------------------------------------------
(* The calls implement CallOutcome. *)

\* The mapped variables, under names of their own.
MappedRepeats == [c \in Calls |-> Repeats(c)]
MappedAsked == {c \in Calls : pc[c] # "idle"}
MappedTold == [c \in Calls |-> Told(c)]

LEMMA OutcomeInit == Init => Outcome!Init
  <1> SUFFICES ASSUME Init
               PROVE  Outcome!Init
    OBVIOUS
  <1>1. MappedRepeats \in [Calls -> SUBSET Calls]
    BY DEF MappedRepeats, Repeats
  <1>2. MappedAsked = {}
    BY DEF Init, MappedAsked
  <1>3. effect = [c \in Calls |-> 0]
    BY DEF Init
  <1>4. MappedTold = [c \in Calls |-> "nothing"]
    BY DEF Init, MappedTold, Told
  <1> QED
    BY <1>1, <1>2, <1>3, <1>4 DEF Outcome!Init, MappedRepeats, MappedAsked, MappedTold

\* A step that leaves what the mapping sees is a stutter of CallOutcome.
LEMMA OutcomeStutter ==
    ASSUME UNCHANGED <<plan, pc, result, effect>>,
           \A c \in Calls : pc[c] = "done" => (c \in elsewhere' <=> c \in elsewhere)
    PROVE  UNCHANGED Outcome!vars
  <1>1. MappedRepeats' = MappedRepeats
    BY DEF MappedRepeats, Repeats, SameWrite
  <1>2. MappedAsked' = MappedAsked
    BY DEF MappedAsked
  <1>3. \A c \in Calls : Told(c)' = Told(c)
    BY DEF Told, Definite, Replayable, HeaderKey, LedAway
  <1>4. MappedTold' = MappedTold
    BY <1>3 DEF MappedTold
  <1> QED
    BY <1>1, <1>2, <1>4 DEF Outcome!vars, MappedRepeats, MappedAsked, MappedTold

\* A call returns: its host is told what the result is worth.
LEMMA OutcomeTell ==
    ASSUME Traffic, Traffic', NEW c \in Calls, pc[c] # "done", NEW r, Return(c, r),
           UNCHANGED <<plan, effect, elsewhere>>
    PROVE  Outcome!Next
  <1>1. TypeOK /\ pc' = [pc EXCEPT ![c] = "done"] /\ result' = [result EXCEPT ![c] = r]
    BY DEF Traffic, Return
  <1>2. pc'[c] = "done" /\ CallOK(c)'
    BY <1>1 DEF Traffic, TypeOK
  <1>3. PICK t \in {"done", "refused", "unknown"} : t = Told(c)'
    BY <1>2 DEF Told
  <1>4. Told(c) = "nothing"
    BY DEF Told
  <1>5. \A d \in Calls \ {c} : Told(d)' = Told(d)
    BY <1>1 DEF TypeOK, Told, Definite, Replayable, HeaderKey, LedAway
  <1>6. MappedTold' = [MappedTold EXCEPT ![c] = t]
    BY <1>3, <1>5 DEF MappedTold
  <1>7. MappedAsked' = MappedAsked \cup {c}
    BY <1>1 DEF MappedAsked, TypeOK
  <1>8. MappedRepeats' = MappedRepeats
    BY DEF MappedRepeats, Repeats, SameWrite
  <1>9. Repeats(c)' = Repeats(c)
    BY DEF Repeats, SameWrite
  <1>10. t = "done" => Repeats(c) = {} \/ \E d \in Repeats(c) : effect[d] > 0
    <2>1. SUFFICES ASSUME t = "done", Repeats(c) # {}
                   PROVE  \E d \in Repeats(c) : effect[d] > 0
      OBVIOUS
    <2>2. plan'[c].op \in Writes
      BY <2>1 DEF Repeats
    <2>3. result'[c] = Ok /\ ~LedAway(c)'
      BY <1>2, <1>3, <2>1, <2>2 DEF Told
    <2>4. c \notin elsewhere'
      BY <1>2, <2>3 DEF CallOK, EarlyOK, LedAway
    <2> QED
      BY <1>2, <1>9, <2>2, <2>3, <2>4 DEF CallOK, SuccessOK
  <1>11. t = "refused" => effect[c] = 0
    <2>1. SUFFICES ASSUME t = "refused"
                   PROVE  effect[c] = 0
      OBVIOUS
    <2>2. Definite(c)'
      BY <1>2, <1>3, <2>1 DEF Told
    <2> QED
      BY <1>2, <2>2 DEF CallOK, RefusedOK
  <1>12. MappedTold[c] = "nothing" /\ MappedRepeats[c] = Repeats(c)
    BY <1>4 DEF MappedTold, MappedRepeats
  <1>13. Outcome!MayTell(c, t)
    BY <1>3, <1>10, <1>11, <1>12 DEF Outcome!MayTell, MappedRepeats
  <1>14. Outcome!Tell(c, t)
    BY <1>4, <1>6, <1>7, <1>8, <1>12, <1>13
       DEF Outcome!Tell, MappedTold, MappedAsked, MappedRepeats
  <1>15. t \in Outcome!Tellings
    BY <1>3 DEF Outcome!Tellings
  <1> QED
    BY <1>14, <1>15 DEF Outcome!Next

\* The service handles a request, on the connection or astray.
LEMMA OutcomeEffect ==
    ASSUME Traffic, NEW c \in Calls, Handle(c), conn[c] = Request \/ stray[c] > 0,
           UNCHANGED <<plan, pc, result, elsewhere>>
    PROVE  Outcome!Next \/ UNCHANGED Outcome!vars
  <1>1. TypeOK /\ CallOK(c)
    BY DEF Traffic
  <1>2. ~Replayable(c) => effect[c] = 0
    BY <1>1 DEF CallOK, SingleOK, TypeOK
  <1>3. \/ effect' = effect
        \/ /\ effect' = [effect EXCEPT ![c] = 1] /\ plan[c].op \in Writes
           /\ \A d \in Repeats(c) : effect[d] = 0
    BY <1>2, HandleFacts
  <1>4. CASE effect' = effect
    BY <1>4, OutcomeStutter
  <1>5. CASE /\ effect' = [effect EXCEPT ![c] = 1] /\ plan[c].op \in Writes
             /\ \A d \in Repeats(c) : effect[d] = 0
    <2>1. pc[c] \in {"waiting", "done"} /\ (conn[c] = Request => pc[c] = "waiting")
      BY <1>1 DEF CallOK, EarlyOK, NothingSent, Closed, Request, TypeOK
    <2>2. Told(c) # "refused"
      BY <1>1, <2>1 DEF Told, CallOK, RefusedOK, TypeOK
    <2>3. MappedTold[c] = Told(c) /\ MappedRepeats[c] = Repeats(c)
      BY DEF MappedTold, MappedRepeats
    <2>4. c \in MappedAsked /\ c \in Repeats(c)
      BY <1>5, <2>1 DEF MappedAsked, Repeats
    <2>5. effect[c] = 0
      BY <1>5, <2>4
    <2>6. MappedRepeats' = MappedRepeats
      BY DEF MappedRepeats, Repeats, SameWrite
    <2>7. MappedAsked' = MappedAsked
      BY DEF MappedAsked
    <2>8. MappedTold' = MappedTold
      BY DEF MappedTold, Told, Definite, Replayable, HeaderKey, LedAway
    <2>9. effect' = [effect EXCEPT ![c] = @ + 1]
      BY <1>5, <2>5
    <2>10. Outcome!TakeEffect(c)
      BY <1>5, <2>2, <2>3, <2>4, <2>6, <2>7, <2>8, <2>9
         DEF Outcome!TakeEffect, MappedTold, MappedAsked, MappedRepeats
    <2> QED
      BY <2>10 DEF Outcome!Next
  <1> QED
    BY <1>3, <1>4, <1>5

LEMMA OutcomeClient ==
    ASSUME Traffic, Traffic', NEW c \in Calls, Client(c)
    PROVE  Outcome!Next \/ UNCHANGED Outcome!vars
  <1>1. CASE Redirected(c)
    <2>1. UNCHANGED <<plan, pc, result, effect>> /\ pc[c] = "waiting"
      BY <1>1 DEF Redirected, serviceVars
    <2>2. \A d \in Calls \ {c} : d \in elsewhere' <=> d \in elsewhere
      BY <1>1 DEF Redirected
    <2> QED
      BY <2>1, <2>2, OutcomeStutter
  <1> SUFFICES ASSUME ~Redirected(c)
               PROVE  Outcome!Next \/ UNCHANGED Outcome!vars
    BY <1>1
  <1>0. UNCHANGED <<plan, effect, elsewhere>>
    BY DEF Client, Call, TokenAnswer, TimedOut, Broken, Resent, Answered, serviceVars
  <1>2. CASE Call(c) /\ Validates(c)
    <2>1. TypeOK /\ pc[c] = "idle" /\ pc' = [pc EXCEPT ![c] = "token"] /\ result' = result
      BY <1>2 DEF Call, Traffic
    <2>2. MappedRepeats' = MappedRepeats
      BY <1>0 DEF MappedRepeats, Repeats, SameWrite
    <2>3. MappedAsked' = MappedAsked \cup {c} /\ c \notin MappedAsked
      BY <2>1 DEF MappedAsked, TypeOK
    <2>4. \A d \in Calls : Told(d)' = Told(d)
      BY <1>0, <2>1 DEF TypeOK, Told, Definite, Replayable, HeaderKey, LedAway
    <2>5. MappedTold' = MappedTold
      BY <2>4 DEF MappedTold
    <2>6. Outcome!Ask(c)
      BY <1>0, <2>2, <2>3, <2>5 DEF Outcome!Ask, MappedTold, MappedAsked, MappedRepeats
    <2> QED
      BY <2>6 DEF Outcome!Next
  <1>3. CASE Call(c) /\ ~Validates(c)
    <2>1. pc[c] # "done" /\ Return(c, Local("ErrInvalidRequest"))
      BY <1>3 DEF Call
    <2> QED
      BY <1>0, <2>1, OutcomeTell
  <1>4. CASE TokenAnswer(c)
    <2>1. pc[c] = "token"
      BY <1>4 DEF TokenAnswer
    <2>2. CASE conn' = conn
      <3>1. TypeOK /\ conn[c] = Closed
        BY <2>1 DEF Traffic, CallOK, EarlyOK
      <3>2. conn' # [conn EXCEPT ![c] = Request]
        BY <2>2, <3>1 DEF TypeOK, Closed, Request
      <3>3. PICK e \in {"token provider", "ErrUnauthorized"} : Return(c, Local(e))
        BY <1>4, <3>2 DEF TokenAnswer
      <3> QED
        BY <1>0, <2>1, <3>3, OutcomeTell
    <2>3. CASE pc' = [pc EXCEPT ![c] = "waiting"] /\ result' = result
      <3>1. TypeOK
        BY DEF Traffic
      <3>2. MappedRepeats' = MappedRepeats
        BY <1>0 DEF MappedRepeats, Repeats, SameWrite
      <3>3. MappedAsked' = MappedAsked
        BY <2>1, <2>3, <3>1 DEF MappedAsked, TypeOK
      <3>4. \A d \in Calls : Told(d)' = Told(d)
        BY <1>0, <2>1, <2>3, <3>1 DEF TypeOK, Told, Definite, Replayable, HeaderKey, LedAway
      <3>5. MappedTold' = MappedTold
        BY <3>4 DEF MappedTold
      <3> QED
        BY <1>0, <3>2, <3>3, <3>5 DEF Outcome!vars, MappedTold, MappedAsked, MappedRepeats
    <2> QED
      BY <1>4, <2>2, <2>3 DEF TokenAnswer
  <1>5. CASE TimedOut(c) \/ Broken(c)
    <2>1. pc[c] # "done" /\ Return(c, Local("transport"))
      BY <1>5 DEF TimedOut, Broken
    <2> QED
      BY <1>0, <2>1, OutcomeTell
  <1>6. CASE Resent(c)
    BY <1>0, <1>6, OutcomeStutter DEF Resent
  <1>7. CASE Answered(c)
    <2>1. pc[c] # "done" /\ Return(c, Decode(c, conn[c]))
      BY <1>7 DEF Answered
    <2> QED
      BY <1>0, <2>1, OutcomeTell
  <1> QED
    BY <1>2, <1>3, <1>4, <1>5, <1>6, <1>7 DEF Client

LEMMA OutcomeNext == Traffic /\ Traffic' /\ [Next]_vars => [Outcome!Next]_Outcome!vars
  <1> SUFFICES ASSUME Traffic, Traffic', [Next]_vars
               PROVE  Outcome!Next \/ UNCHANGED Outcome!vars
    OBVIOUS
  <1>1. ASSUME NEW c \in Calls, Client(c)
        PROVE  Outcome!Next \/ UNCHANGED Outcome!vars
    BY <1>1, OutcomeClient
  <1>2. ASSUME NEW c \in Calls, Service(c)
        PROVE  Outcome!Next \/ UNCHANGED Outcome!vars
    <2>1. UNCHANGED <<plan, pc, result, elsewhere>>
      BY <1>2 DEF Service, Refuse, Serve, ServeStray, clientVars
    <2>2. CASE Refuse(c)
      BY <2>1, <2>2, OutcomeStutter DEF Refuse, serviceVars
    <2>3. CASE Serve(c)
      BY <2>1, <2>3, OutcomeEffect DEF Serve
    <2>4. CASE ServeStray(c)
      BY <2>1, <2>4, OutcomeEffect DEF ServeStray
    <2> QED
      BY <1>2, <2>2, <2>3, <2>4 DEF Service
  <1>3. ASSUME NEW t \in Transfers, Expire(t)
        PROVE  Outcome!Next \/ UNCHANGED Outcome!vars
    BY <1>3, OutcomeStutter DEF Expire, clientVars
  <1>4. CASE UNCHANGED vars
    BY <1>4, OutcomeStutter DEF vars, clientVars, serviceVars
  <1> QED
    BY <1>1, <1>2, <1>3, <1>4 DEF Next

\* The transfer calls implement CallOutcome: a write takes effect at most once
\* among the calls that repeat it, "done" and "refused" can be relied on, and
\* only after "unknown" may a write still happen.
THEOREM CallsImplementOutcome == Spec => OutcomeSpec
  <1>1. Traffic /\ Traffic' /\ [Next]_vars => [Outcome!Next]_Outcome!vars
    BY OutcomeNext
  <1> QED
    BY <1>1, OutcomeInit, TrafficAlways, PTL DEF Spec, OutcomeSpec, Outcome!Spec
=============================================================================
