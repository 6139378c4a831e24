--------------------------- MODULE ClientCallsProofs --------------------------
(***************************************************************************)
(* What every behaviour of ClientCalls keeps, for any calls of the three   *)
(* sync clients, keys, targets and number of resends, and that the calls   *)
(* implement CallOutcome.  Ledger is the inductive invariant: where the    *)
(* request of a call may be, what it may have done, and what its host may  *)
(* have been told by then.                                                 *)
(***************************************************************************)
EXTENDS ClientCalls, TLAPS

USE ClientAssumption DEF ClientAssumption

NothingSent(c) == conn[c] = Closed /\ stray[c] = 0 /\ effect[c] = 0

EarlyOK(c) ==
    /\ pc[c] \in {"idle", "token"} => NothingSent(c)
    /\ pc[c] = "idle" => c \notin asked
    /\ pc[c] # "waiting" => conn[c] = Closed

\* A call with an argument the client refuses ends before its request; only the
\* late check of a Dart put lets it ask for a token first.
FlawOK(c) ==
    /\ plan[c].flaw # NoFlaw => pc[c] # "waiting" /\ NothingSent(c)
    /\ RefusedEarly(c) => pc[c] # "token" /\ c \notin asked

AbortOK(c) ==
    /\ c \in aborted => pc[c] # "waiting" /\ plan[c].op = "pull"
    /\ result[c] = "aborted" => plan[c].op = "pull"

Settling == {"delete", "ack", "cancel"}

\* Only writes take effect, and one that settles its target has settled it.
EffectOK(c) ==
    /\ plan[c].op \notin Writes => effect[c] = 0
    /\ plan[c].op \in Settling /\ effect[c] > 0 => plan[c].target \in settled

Denied == {"401", "409"}
Granted == {"200", "204"}

\* A request that is sent only once is on the connection, astray, applied, or
\* refused: never two of them.  A client that follows redirects may be denied
\* by another page.
SingleOK(c) ==
    /\ stray[c] <= 1
    /\ stray[c] = 1 => conn[c] = Closed /\ effect[c] = 0
    /\ conn[c] = Request => effect[c] = 0
    /\ conn[c].status = "307" => effect[c] = 0
    /\ conn[c].status \in Denied /\ Believable(c) => effect[c] = 0

\* A success, on the connection or returned, tells of a write that was applied.
SuccessOK(c) ==
    (conn[c].status \in Granted \/ result[c] = "ok") /\ plan[c].op \in Writes /\ Believable(c) =>
        \E d \in Repeats(c) : effect[d] > 0

RefusedOK(c) == Definite(c) /\ plan[c].op \in Writes => effect[c] = 0 /\ stray[c] = 0

CallOK(c) ==
    /\ EarlyOK(c)
    /\ FlawOK(c)
    /\ AbortOK(c)
    /\ EffectOK(c)
    /\ ~Resendable(c) => SingleOK(c)
    /\ SuccessOK(c)
    /\ RefusedOK(c)

Ledger ==
    /\ TypeOK
    /\ WritesHappenOnce
    /\ \A c \in Calls : CallOK(c)

-----------------------------------------------------------------------------
(* The operators *)

\* The arguments of a call: which client, which operation, and that creates and
\* acknowledgements always have a key.
LEMMA PlanFacts ==
    ASSUME plan \in [Calls -> Plans], NEW c \in Calls
    PROVE  /\ plan[c].sdk \in {"typescript", "rust", "dart"}
           /\ plan[c].target \in Targets
           /\ plan[c].key \in Keys \cup {NoKey}
           /\ plan[c].op \in {"create", "ack"} => plan[c].key # NoKey
  <1>1. plan[c] \in TypeScriptPlans \/ plan[c] \in RustPlans \/ plan[c] \in DartPlans
    BY DEF Plans
  <1>2. CASE plan[c] \in TypeScriptPlans
    BY <1>2 DEF TypeScriptPlans, Arguments
  <1>3. CASE plan[c] \in RustPlans
    BY <1>3 DEF RustPlans, Arguments
  <1>4. CASE plan[c] \in DartPlans
    BY <1>4 DEF DartPlans, Arguments
  <1> QED
    BY <1>1, <1>2, <1>3, <1>4

\* Two calls send the same key only if the host gave both the same one: a fresh
\* key is nobody else's.
LEMMA KeyMatch ==
    ASSUME plan \in [Calls -> Plans], NEW c \in Calls, NEW d \in Calls,
           HeaderKey(c) # NoKey, HeaderKey(d) = HeaderKey(c)
    PROVE  d = c \/ (plan[d].key = plan[c].key /\ plan[c].key # NoKey)
  <1>1. plan[c].key \in Keys \cup {NoKey} /\ plan[d].key \in Keys \cup {NoKey}
    BY PlanFacts
  <1> QED
    BY <1>1 DEF HeaderKey

\* A client that follows a redirect is not believed.
LEMMA FollowersAreNotBelieved ==
    ASSUME NEW c \in Calls, NEW status, Believable(c)
    PROVE  ~Follows(c, status)
  BY DEF Believable, Follows

\* What a decoded answer can be, and what it tells of the answer.
LEMMA DecodeFacts ==
    ASSUME plan \in [Calls -> Plans], NEW c \in Calls, NEW a \in Answers
    PROVE  /\ Decode(c, a) \in Results \ {"none"}
           /\ Decode(c, a) \notin {"argument", "token", "aborted"}
           /\ Decode(c, a) = "ok" => a.status \in Granted
           /\ Decode(c, a) \in Denied => a.status \in Denied
  <1> DEFINE Read == {"ok", "contract", "transport", "value"}
  <1>1. a.status \in Statuses \cup Granted
    BY DEF Answers, Granted
  <1>2. \/ Decode(c, a) = a.status /\ a.status \in Statuses
        \/ Decode(c, a) \in Read \ {"ok"}
        \/ Decode(c, a) = "ok" /\ a.status \notin Statuses
    <2>1. CASE plan[c].sdk = "typescript"
      <3>1. Decode(c, a) = DecodeTypeScript(c, a)
        BY <2>1 DEF Decode
      <3> QED
        BY <3>1 DEF DecodeTypeScript
    <2>2. CASE plan[c].sdk = "rust"
      <3>1. Decode(c, a) = DecodeRust(c, a)
        BY <2>2 DEF Decode
      <3> QED
        BY <3>1 DEF DecodeRust
    <2>3. CASE plan[c].sdk = "dart"
      <3>1. Decode(c, a) = DecodeDart(c, a)
        BY <2>3 DEF Decode
      <3> QED
        BY <3>1 DEF DecodeDart
    <2> QED
      BY <2>1, <2>2, <2>3, PlanFacts
  <1> QED
    BY <1>1, <1>2 DEF Results, Errors, Statuses, Redirects, Granted, Denied

-----------------------------------------------------------------------------
(* The client's steps *)

\* A step on one call leaves the others as they were.
LEMMA OthersStayOK ==
    ASSUME Ledger, TypeOK', WritesHappenOnce', plan' = plan, settled \subseteq settled',
           NEW c \in Calls,
           \A d \in Calls \ {c} : /\ pc'[d] = pc[d] /\ conn'[d] = conn[d] /\ stray'[d] = stray[d]
                                  /\ result'[d] = result[d] /\ effect'[d] = effect[d]
                                  /\ d \in asked' <=> d \in asked
                                  /\ d \in aborted' <=> d \in aborted,
           \A d \in Calls : effect[d] > 0 => effect'[d] > 0,
           CallOK(c)'
    PROVE  Ledger'
  <1>1. ASSUME NEW d \in Calls, d # c
        PROVE  CallOK(d)'
    <2>1. CallOK(d)
      BY DEF Ledger
    <2>2. /\ pc'[d] = pc[d] /\ conn'[d] = conn[d] /\ stray'[d] = stray[d]
          /\ result'[d] = result[d] /\ effect'[d] = effect[d]
          /\ d \in asked' <=> d \in asked
          /\ d \in aborted' <=> d \in aborted
      BY <1>1
    <2>3. EarlyOK(d)' /\ FlawOK(d)' /\ AbortOK(d)'
      BY <2>1, <2>2 DEF CallOK, EarlyOK, FlawOK, AbortOK, NothingSent, RefusedEarly, ChecksKeyLate
    <2>4. EffectOK(d)'
      BY <2>1, <2>2 DEF CallOK, EffectOK
    <2>5. (Resendable(d)' <=> Resendable(d)) /\ (Believable(d)' <=> Believable(d))
      BY DEF Resendable, Believable
    <2>6. ~Resendable(d)' => SingleOK(d)'
      BY <2>1, <2>2, <2>5 DEF CallOK, SingleOK
    <2>7. Repeats(d)' = Repeats(d) /\ Repeats(d) \subseteq Calls
      BY DEF Repeats, SameWrite
    <2>8. SuccessOK(d)'
      BY <2>1, <2>2, <2>5, <2>7 DEF CallOK, SuccessOK
    <2>9. RefusedOK(d)'
      BY <2>1, <2>2, <2>5 DEF CallOK, RefusedOK, Definite
    <2> QED
      BY <2>3, <2>4, <2>6, <2>8, <2>9 DEF CallOK
  <1> QED
    BY <1>1 DEF Ledger

\* A call whose request was never sent ends with an error.
LEMMA EndsEarly ==
    ASSUME Ledger, NEW c \in Calls, pc[c] \in {"idle", "token"},
           NEW r \in Results \ {"none", "ok"}, r = "aborted" => plan[c].op = "pull", Return(c, r),
           UNCHANGED <<plan, resends, aborted, asked, conn, stray, settled, effect>>
    PROVE  Ledger'
  <1>1. TypeOK /\ CallOK(c) /\ NothingSent(c)
    BY DEF Ledger, CallOK, EarlyOK
  <1>2. TypeOK'
    BY <1>1 DEF TypeOK, Return
  <1>3. pc'[c] = "done" /\ result'[c] = r
    BY <1>1 DEF TypeOK, Return
  <1>4. WritesHappenOnce'
    BY DEF Ledger, WritesHappenOnce
  <1>5. CallOK(c)'
    <2>1. EarlyOK(c)' /\ FlawOK(c)' /\ AbortOK(c)' /\ EffectOK(c)'
      BY <1>1, <1>3 DEF CallOK, EarlyOK, FlawOK, AbortOK, EffectOK, NothingSent, RefusedEarly, ChecksKeyLate
    <2>2. SingleOK(c)' /\ SuccessOK(c)' /\ RefusedOK(c)'
      BY <1>1, <1>3 DEF SingleOK, SuccessOK, RefusedOK, NothingSent, Closed, Request, Denied, Granted
    <2> QED
      BY <2>1, <2>2 DEF CallOK
  <1> QED
    BY <1>1, <1>2, <1>3, <1>4, <1>5, OthersStayOK DEF TypeOK, Return

LEMMA ArgumentErrorIsError ==
    ASSUME NEW c \in Calls
    PROVE  ArgumentError(c) \in Results \ {"none", "ok", "aborted"}
  BY DEF ArgumentError, Results, Errors

LEMMA CallStep ==
    ASSUME Ledger, NEW c \in Calls, Call(c)
    PROVE  Ledger'
  <1>1. TypeOK /\ CallOK(c)
    BY DEF Ledger
  <1>2. pc[c] = "idle" /\ UNCHANGED <<plan, resends, aborted, conn, stray, settled, effect>>
    BY DEF Call, serviceVars
  <1>3. CASE RefusedEarly(c)
    <2>1. Return(c, ArgumentError(c)) /\ UNCHANGED asked
      BY <1>3 DEF Call
    <2> QED
      BY <1>2, <2>1, EndsEarly, ArgumentErrorIsError
  <1>4. CASE ~RefusedEarly(c)
    <2>1. pc' = [pc EXCEPT ![c] = "token"] /\ asked' = asked \cup {c} /\ result' = result
      BY <1>4 DEF Call
    <2>2. TypeOK'
      BY <1>1, <1>2, <2>1 DEF TypeOK
    <2>3. pc'[c] = "token" /\ result'[c] = "none" /\ NothingSent(c)
      BY <1>1, <1>2, <2>1 DEF TypeOK, CallOK, EarlyOK
    <2>4. WritesHappenOnce'
      BY <1>2 DEF Ledger, WritesHappenOnce
    <2>5. CallOK(c)'
      <3>1. EarlyOK(c)' /\ FlawOK(c)' /\ AbortOK(c)' /\ EffectOK(c)'
        BY <1>1, <1>2, <1>4, <2>3
           DEF CallOK, EarlyOK, FlawOK, AbortOK, EffectOK, NothingSent, RefusedEarly, ChecksKeyLate
      <3>2. SingleOK(c)' /\ SuccessOK(c)' /\ RefusedOK(c)'
        BY <1>2, <2>3 DEF SingleOK, SuccessOK, RefusedOK, NothingSent, Closed, Request, Denied, Granted
      <3> QED
        BY <3>1, <3>2 DEF CallOK
    <2> QED
      BY <1>1, <1>2, <2>1, <2>2, <2>4, <2>5, OthersStayOK DEF TypeOK
  <1> QED
    BY <1>3, <1>4

LEMMA SendStep ==
    ASSUME Ledger, NEW c \in Calls, Send(c)
    PROVE  Ledger'
  <1>1. TypeOK /\ CallOK(c)
    BY DEF Ledger
  <1>2. /\ pc[c] = "token" /\ plan[c].flaw = NoFlaw /\ NothingSent(c)
        /\ UNCHANGED <<plan, resends, aborted, asked, stray, settled, effect>>
    BY <1>1 DEF Send, serviceVars, CallOK, EarlyOK
  <1>3. CASE c \in aborted
    <2>1. Return(c, "aborted") /\ UNCHANGED conn /\ plan[c].op = "pull"
      BY <1>1, <1>3 DEF Send, CallOK, AbortOK
    <2>2. "aborted" \in Results \ {"none", "ok"}
      BY DEF Results, Errors
    <2> QED
      BY <1>2, <2>1, <2>2, EndsEarly
  <1>4. CASE c \notin aborted
    <2>1. pc' = [pc EXCEPT ![c] = "waiting"] /\ conn' = [conn EXCEPT ![c] = Request] /\ result' = result
      BY <1>4 DEF Send
    <2>2. TypeOK'
      BY <1>1, <1>2, <2>1 DEF TypeOK
    <2>3. pc'[c] = "waiting" /\ conn'[c] = Request /\ result'[c] = "none"
      BY <1>1, <1>2, <2>1 DEF TypeOK
    <2>4. WritesHappenOnce'
      BY <1>2 DEF Ledger, WritesHappenOnce
    <2>5. CallOK(c)'
      <3>1. EarlyOK(c)' /\ FlawOK(c)' /\ AbortOK(c)' /\ EffectOK(c)'
        BY <1>1, <1>2, <1>4, <2>3
           DEF CallOK, EarlyOK, FlawOK, AbortOK, EffectOK, NothingSent, RefusedEarly, ChecksKeyLate
      <3>2. SingleOK(c)' /\ SuccessOK(c)' /\ RefusedOK(c)'
        BY <1>2, <2>3
           DEF SingleOK, SuccessOK, RefusedOK, Definite, NothingSent, Closed, Request, Denied, Granted
      <3> QED
        BY <3>1, <3>2 DEF CallOK
    <2> QED
      BY <1>1, <1>2, <2>1, <2>2, <2>4, <2>5, OthersStayOK DEF TypeOK
  <1> QED
    BY <1>3, <1>4

LEMMA TokenAnswerStep ==
    ASSUME Ledger, NEW c \in Calls, TokenAnswer(c)
    PROVE  Ledger'
  <1>1. CASE TokenFails(c)
    <2>1. PICK r \in {"token", BearerError(c)} : Return(c, r)
      BY <1>1 DEF TokenFails
    <2>2. plan[c].sdk \in {"typescript", "rust", "dart"}
      BY PlanFacts DEF Ledger, TypeOK
    <2>3. r \in {"token", "contract", "transport", "value"}
      BY <2>2 DEF BearerError
    <2>4. r \in Results \ {"none", "ok"} /\ r # "aborted"
      BY <2>3 DEF Results, Errors
    <2> QED
      BY <1>1, <2>1, <2>4, EndsEarly DEF TokenFails, serviceVars
  <1>2. CASE KeyRefused(c)
    BY <1>2, EndsEarly, ArgumentErrorIsError DEF KeyRefused, serviceVars
  <1>3. CASE Send(c)
    BY <1>3, SendStep
  <1> QED
    BY <1>1, <1>2, <1>3 DEF TokenAnswer

\* A call on the wire has no result, no flaw, and has not been aborted.
LEMMA Waiting ==
    ASSUME Ledger, NEW c \in Calls, pc[c] = "waiting"
    PROVE  result[c] = "none" /\ plan[c].flaw = NoFlaw /\ c \notin aborted /\ ~RefusedEarly(c)
  BY DEF Ledger, TypeOK, CallOK, FlawOK, AbortOK, RefusedEarly

\* What depends on nothing but the stage of a call that is, or just was, waiting.
LEMMA StageStaysOK ==
    ASSUME Ledger, NEW c \in Calls, pc[c] = "waiting", plan' = plan, asked' = asked,
           settled' = settled, effect' = effect,
           \/ pc'[c] = "done" /\ conn'[c] = Closed /\ (c \in aborted' => plan[c].op = "pull")
           \/ pc'[c] = "waiting" /\ aborted' = aborted,
           result'[c] = "aborted" => plan[c].op = "pull"
    PROVE  EarlyOK(c)' /\ FlawOK(c)' /\ AbortOK(c)' /\ EffectOK(c)'
  <1>1. CallOK(c) /\ plan[c].flaw = NoFlaw /\ c \notin aborted /\ ~RefusedEarly(c)
    BY Waiting DEF Ledger
  <1>2. EarlyOK(c)' /\ AbortOK(c)' /\ EffectOK(c)'
    BY <1>1 DEF CallOK, EarlyOK, AbortOK, EffectOK
  <1>3. RefusedEarly(c)' <=> RefusedEarly(c)
    BY DEF RefusedEarly, ChecksKeyLate
  <1>4. FlawOK(c)'
    BY <1>1, <1>3 DEF FlawOK
  <1> QED
    BY <1>2, <1>4

\* A waiting call gives up: its request may still arrive.
LEMMA GiveUpStep ==
    ASSUME Ledger, NEW c \in Calls, NEW error \in Results \ {"none", "ok"}, GiveUp(c, error),
           \/ error = "transport" /\ aborted' = aborted
           \/ error = "aborted" /\ plan[c].op = "pull" /\ aborted' = aborted \cup {c}
    PROVE  Ledger'
  <1>1. TypeOK /\ CallOK(c)
    BY DEF Ledger
  <1>2. /\ pc[c] = "waiting" /\ Abandon(c) /\ Return(c, error)
        /\ conn' = [conn EXCEPT ![c] = Closed]
        /\ UNCHANGED <<plan, resends, asked, settled, effect>>
    BY DEF GiveUp, serviceVars
  <1>3. stray' \in [Calls -> Nat]
    BY <1>1, <1>2 DEF TypeOK, Abandon
  <1>4. TypeOK'
    BY <1>1, <1>2, <1>3 DEF TypeOK, Return
  <1>5. pc'[c] = "done" /\ conn'[c] = Closed /\ result'[c] = error
    BY <1>1, <1>2 DEF TypeOK, Return
  <1>6. \/ stray'[c] = stray[c]
        \/ conn[c] = Request /\ stray'[c] = stray[c] + 1
    BY <1>1, <1>2 DEF Abandon, TypeOK
  <1>7. WritesHappenOnce'
    BY <1>2 DEF Ledger, WritesHappenOnce
  <1>8. CallOK(c)'
    <2>1. EarlyOK(c)' /\ FlawOK(c)' /\ AbortOK(c)' /\ EffectOK(c)'
      BY <1>2, <1>5, Waiting, StageStaysOK
    <2>2. ~Resendable(c)' => SingleOK(c)'
      <3>1. SUFFICES ASSUME SingleOK(c)
                     PROVE  SingleOK(c)'
        BY <1>1, <1>2 DEF CallOK, Resendable
      <3>2. stray[c] \in Nat /\ effect' = effect
        BY <1>1, <1>2 DEF TypeOK
      <3>3. Request # Closed /\ Closed.status \notin Denied \cup {"307"}
        BY DEF Request, Closed, Denied
      <3> QED
        BY <1>5, <1>6, <3>1, <3>2, <3>3 DEF SingleOK
    <2>3. SuccessOK(c)'
      BY <1>5 DEF SuccessOK, Closed, Granted
    <2>4. RefusedOK(c)'
      BY <1>2, <1>5 DEF RefusedOK, Definite, Writes
    <2> QED
      BY <2>1, <2>2, <2>3, <2>4 DEF CallOK
  <1> QED
    BY <1>1, <1>2, <1>4, <1>7, <1>8, OthersStayOK DEF TypeOK, Return, Abandon

LEMMA BrokenStep ==
    ASSUME Ledger, NEW c \in Calls, Broken(c)
    PROVE  Ledger'
  <1>1. "transport" \in Results \ {"none", "ok"}
    BY DEF Results, Errors
  <1> QED
    BY <1>1, GiveUpStep DEF Broken

\* The signal of a pull is aborted, in time or not yet heard.
LEMMA AbortStep ==
    ASSUME Ledger, NEW c \in Calls, Abort(c)
    PROVE  Ledger'
  <1>1. plan[c].op = "pull" /\ aborted' = aborted \cup {c}
    BY DEF Abort
  <1>2. CASE GiveUp(c, "aborted")
    <2>1. "aborted" \in Results \ {"none", "ok"}
      BY DEF Results, Errors
    <2> QED
      BY <1>1, <1>2, <2>1, GiveUpStep
  <1>3. CASE ~GiveUp(c, "aborted")
    <2>1. /\ pc[c] \in {"idle", "token"}
          /\ UNCHANGED <<plan, pc, resends, result, asked, conn, stray, settled, effect>>
      BY <1>3 DEF Abort, serviceVars
    <2>2. TypeOK /\ CallOK(c)
      BY DEF Ledger
    <2>3. TypeOK'
      BY <1>1, <2>1, <2>2 DEF TypeOK
    <2>4. WritesHappenOnce'
      BY <2>1 DEF Ledger, WritesHappenOnce
    <2>5. (Resendable(c)' <=> Resendable(c)) /\ (Believable(c)' <=> Believable(c)) /\ Repeats(c)' = Repeats(c)
      BY <2>1 DEF Resendable, Believable, Repeats, SameWrite
    <2>6. EarlyOK(c)' /\ FlawOK(c)' /\ AbortOK(c)' /\ EffectOK(c)'
      BY <1>1, <2>1, <2>2
         DEF CallOK, EarlyOK, FlawOK, AbortOK, EffectOK, NothingSent, RefusedEarly, ChecksKeyLate
    <2>7. (~Resendable(c)' => SingleOK(c)') /\ SuccessOK(c)' /\ RefusedOK(c)'
      BY <2>1, <2>2, <2>5 DEF CallOK, SingleOK, SuccessOK, RefusedOK, Definite
    <2>8. CallOK(c)'
      BY <2>6, <2>7 DEF CallOK
    <2> QED
      BY <1>1, <2>1, <2>3, <2>4, <2>8, OthersStayOK
  <1> QED
    BY <1>2, <1>3

LEMMA ResentStep ==
    ASSUME Ledger, NEW c \in Calls, Resent(c)
    PROVE  Ledger'
  <1>1. TypeOK /\ CallOK(c)
    BY DEF Ledger
  <1>2. /\ pc[c] = "waiting" /\ Resendable(c) /\ Abandon(c)
        /\ conn' = [conn EXCEPT ![c] = Request]
        /\ UNCHANGED <<plan, pc, aborted, result, asked, settled, effect>>
    BY DEF Resent, serviceVars
  <1>3. result[c] = "none"
    BY <1>2, Waiting
  <1>4. stray' \in [Calls -> Nat] /\ resends' \in [Calls -> 0 .. MaxResends]
    BY <1>1, <1>2 DEF TypeOK, Abandon, Resent
  <1>5. TypeOK'
    BY <1>1, <1>2, <1>4 DEF TypeOK
  <1>6. conn'[c] = Request
    BY <1>1, <1>2 DEF TypeOK
  <1>7. WritesHappenOnce'
    BY <1>2 DEF Ledger, WritesHappenOnce
  <1>8. CallOK(c)'
    <2>1. EarlyOK(c)' /\ FlawOK(c)' /\ AbortOK(c)' /\ EffectOK(c)'
      BY <1>2, <1>3, StageStaysOK
    <2>2. Resendable(c)'
      BY <1>2 DEF Resendable
    <2>3. SuccessOK(c)' /\ RefusedOK(c)'
      BY <1>2, <1>3, <1>6 DEF SuccessOK, RefusedOK, Definite, Request, Granted
    <2> QED
      BY <2>1, <2>2, <2>3 DEF CallOK
  <1> QED
    BY <1>1, <1>2, <1>5, <1>7, <1>8, OthersStayOK DEF TypeOK, Abandon

\* The library goes where a redirect points: the answer is another page's.
LEMMA RedirectedStep ==
    ASSUME Ledger, NEW c \in Calls, Redirected(c)
    PROVE  Ledger'
  <1>1. TypeOK /\ CallOK(c)
    BY DEF Ledger
  <1>2. /\ pc[c] = "waiting" /\ conn[c].status \in Redirects /\ Follows(c, conn[c].status)
        /\ UNCHANGED <<plan, pc, resends, aborted, result, asked, stray, settled, effect>>
    BY DEF Redirected, clientVars, serviceVars
  <1>3. PICK a \in Answers \cup {Request} :
            /\ conn' = [conn EXCEPT ![c] = a] /\ a.status \notin Redirects
            /\ a = Request => conn[c].status = "307"
    <2>1. Request.status \notin Redirects
      BY DEF Request, Redirects
    <2>2. PICK a \in {b \in Answers : b.status \notin Redirects}
                         \cup (IF conn[c].status = "307" THEN {Request} ELSE {}) :
              conn' = [conn EXCEPT ![c] = a]
      BY DEF Redirected
    <2>3. Request \notin Answers
      BY DEF Answers, Request, Statuses, Redirects
    <2> QED
      BY <2>1, <2>2, <2>3
  <1>4. result[c] = "none"
    BY <1>2, Waiting
  <1>5. TypeOK'
    BY <1>1, <1>2, <1>3 DEF TypeOK
  <1>6. conn'[c] = a
    BY <1>1, <1>3 DEF TypeOK
  <1>7. WritesHappenOnce'
    BY <1>2 DEF Ledger, WritesHappenOnce
  <1>8. ~Believable(c)'
    BY <1>2, FollowersAreNotBelieved DEF Believable
  <1>9. CallOK(c)'
    <2>1. EarlyOK(c)' /\ FlawOK(c)' /\ AbortOK(c)' /\ EffectOK(c)'
      BY <1>2, <1>4, StageStaysOK
    <2>2. ~Resendable(c)' => SingleOK(c)'
      <3>1. SUFFICES ASSUME SingleOK(c)
                     PROVE  SingleOK(c)'
        BY <1>1, <1>2 DEF CallOK, Resendable
      <3>2. stray[c] # 1 /\ stray[c] <= 1
        BY <1>2, <3>1 DEF SingleOK, Closed, Redirects
      <3>3. a = Request => effect[c] = 0
        BY <1>3, <3>1 DEF SingleOK
      <3> QED
        BY <1>2, <1>3, <1>6, <1>8, <3>2, <3>3 DEF SingleOK, Redirects
    <2>3. SuccessOK(c)' /\ RefusedOK(c)'
      BY <1>2, <1>4, <1>8 DEF SuccessOK, RefusedOK, Definite
    <2> QED
      BY <2>1, <2>2, <2>3 DEF CallOK
  <1> QED
    BY <1>1, <1>2, <1>3, <1>5, <1>7, <1>9, OthersStayOK DEF TypeOK

LEMMA AnsweredStep ==
    ASSUME Ledger, NEW c \in Calls, Answered(c)
    PROVE  Ledger'
  <1>1. TypeOK /\ CallOK(c)
    BY DEF Ledger
  <1>2. /\ pc[c] = "waiting" /\ conn[c] \in Answers
        /\ conn' = [conn EXCEPT ![c] = Closed]
        /\ UNCHANGED <<plan, resends, aborted, asked, stray, settled, effect>>
    BY DEF Answered, serviceVars
  <1>3. PICK r \in {"transport", Decode(c, conn[c])} : Return(c, r)
    BY DEF Answered
  <1>4. /\ r \in Results \ {"none"} /\ r \notin {"argument", "token", "aborted"}
        /\ r = "ok" => conn[c].status \in Granted
        /\ r \in Denied => conn[c].status \in Denied
    <2>1. "transport" \in Results \ {"none"} /\ "transport" \notin Denied
      BY DEF Results, Errors, Denied
    <2> QED
      BY <1>1, <1>2, <1>3, <2>1, DecodeFacts DEF TypeOK
  <1>5. TypeOK'
    BY <1>1, <1>2, <1>3, <1>4 DEF TypeOK, Return
  <1>6. pc'[c] = "done" /\ conn'[c] = Closed /\ result'[c] = r
    BY <1>1, <1>2, <1>3 DEF TypeOK, Return
  <1>7. WritesHappenOnce'
    BY <1>2 DEF Ledger, WritesHappenOnce
  <1>8. (Resendable(c)' <=> Resendable(c)) /\ (Believable(c)' <=> Believable(c)) /\ Repeats(c)' = Repeats(c)
    BY <1>2 DEF Resendable, Believable, Repeats, SameWrite
  <1>9. CallOK(c)'
    <2>1. c \notin aborted
      BY <1>2, Waiting
    <2>2. EarlyOK(c)' /\ FlawOK(c)' /\ AbortOK(c)' /\ EffectOK(c)'
      BY <1>2, <1>4, <1>6, <2>1, StageStaysOK
    <2>3. conn[c] # Closed /\ Closed # Request /\ Closed.status \notin Denied \cup Granted \cup {"307"}
      BY <1>2 DEF Answers, Statuses, Redirects, Closed, Request, Denied, Granted
    <2>4. ~Resendable(c)' => SingleOK(c)'
      BY <1>1, <1>2, <1>6, <1>8, <2>3 DEF CallOK, SingleOK
    <2>5. SuccessOK(c)'
      BY <1>1, <1>2, <1>4, <1>6, <1>8, <2>3 DEF CallOK, SuccessOK
    <2>6. RefusedOK(c)'
      <3>1. SUFFICES ASSUME ~Resendable(c), Believable(c), conn[c].status \in Denied
                     PROVE  effect[c] = 0 /\ stray[c] = 0
        BY <1>2, <1>4, <1>6, <1>8 DEF RefusedOK, Definite, Denied
      <3>2. SingleOK(c) /\ stray[c] \in Nat
        BY <1>1, <3>1 DEF CallOK, TypeOK
      <3> QED
        BY <2>3, <3>1, <3>2 DEF SingleOK
    <2> QED
      BY <2>2, <2>4, <2>5, <2>6 DEF CallOK
  <1> QED
    BY <1>1, <1>2, <1>3, <1>5, <1>7, <1>9, OthersStayOK DEF TypeOK, Return

-----------------------------------------------------------------------------
(* The service's steps *)

\* What the handling of a request does, given that a call that is sent only
\* once has not been applied.
LEMMA HandleFacts ==
    ASSUME Ledger, NEW c \in Calls, Handle(c), plan' = plan, ~Resendable(c) => effect[c] = 0
    PROVE  /\ effect' \in [Calls -> Nat]
           /\ settled' \subseteq Targets /\ settled \subseteq settled'
           /\ WritesHappenOnce'
           /\ \/ effect' = effect
              \/ /\ effect' = [effect EXCEPT ![c] = 1] /\ plan[c].op \in Writes
                 /\ \A d \in Repeats(c) : effect[d] = 0
                 /\ plan[c].op \in Settling => plan[c].target \in settled'
           /\ Verdict(c) = "409" => effect' = effect
           /\ \A d \in Calls : effect[d] > 0 => effect'[d] > 0
           /\ plan[c].op \in Writes /\ Verdict(c) # "409" => \E d \in Repeats(c) : effect'[d] > 0
  <1>1. TypeOK /\ WritesHappenOnce /\ CallOK(c)
    BY DEF Ledger
  <1>2. \A d \in Calls : effect[d] \in Nat /\ plan[d].key \in Keys \cup {NoKey} /\ plan[d].target \in Targets
    BY <1>1, PlanFacts DEF TypeOK
  <1>3. plan[c].op \in {"create", "ack"} => plan[c].key # NoKey
    BY <1>1, PlanFacts DEF TypeOK
  <1>4. CASE Verdict(c) = "apply" /\ plan[c].op \in Writes
    <2>1. effect' = [effect EXCEPT ![c] = @ + 1]
      BY <1>4 DEF Handle
    <2>2. settled' = IF plan[c].op \in Settling THEN settled \cup {plan[c].target} ELSE settled
      BY <1>4 DEF Handle, Settling
    <2>3. KeyHolders(c) = {} /\ (plan[c].op \in {"delete", "cancel"} => plan[c].target \notin settled)
      BY <1>4 DEF Verdict
    <2>4. \A d \in Calls : HeaderKey(c) # NoKey /\ HeaderKey(d) = HeaderKey(c) => effect[d] = 0
      BY <1>2, <2>3 DEF KeyHolders
    <2>5. \A d \in Calls : plan[c].key # NoKey /\ plan[d].key = plan[c].key => effect[d] = 0
      BY <2>4 DEF HeaderKey
    <2>6. effect[c] = 0
      <3>1. CASE plan[c].op = "put"
        <4>1. HeaderKey(c) # NoKey
          BY <3>1 DEF HeaderKey
        <4> QED
          BY <2>4, <4>1
      <3>2. CASE plan[c].op \in {"create", "ack"}
        BY <1>3, <2>5, <3>2
      <3>3. CASE plan[c].op \in {"delete", "cancel"}
        BY <1>1, <1>2, <2>3, <3>3 DEF CallOK, EffectOK, Settling
      <3>4. CASE plan[c].op = "push"
        BY <3>4 DEF Resendable
      <3> QED
        BY <1>4, <3>1, <3>2, <3>3, <3>4 DEF Writes
    <2>7. effect' = [effect EXCEPT ![c] = 1]
      BY <1>1, <2>1, <2>6 DEF TypeOK
    <2>8. \A d \in Repeats(c) : effect[d] = 0
      BY <2>5, <2>6 DEF Repeats
    <2>9. WritesHappenOnce'
      <3>1. ASSUME NEW d \in Calls
            PROVE  effect'[d] <= 1
        BY <1>1, <1>2, <2>7 DEF WritesHappenOnce, TypeOK
      <3>2. ASSUME NEW d \in Calls, NEW e \in Calls, d # e, plan[d].key # NoKey, plan[d].key = plan[e].key
            PROVE  effect'[d] = 0 \/ effect'[e] = 0
        <4>1. CASE d # c /\ e # c
          BY <1>1, <2>7, <3>2, <4>1 DEF WritesHappenOnce, TypeOK
        <4>2. CASE d = c
          BY <1>1, <2>5, <2>7, <3>2, <4>2 DEF TypeOK
        <4>3. CASE e = c
          BY <1>1, <2>5, <2>7, <3>2, <4>3 DEF TypeOK
        <4> QED
          BY <4>1, <4>2, <4>3
      <3> QED
        BY <3>1, <3>2 DEF WritesHappenOnce
    <2>10. c \in Repeats(c) /\ effect'[c] = 1
      BY <1>1, <1>4, <2>7 DEF Repeats, TypeOK
    <2>11. /\ effect' \in [Calls -> Nat] /\ settled' \subseteq Targets /\ settled \subseteq settled'
           /\ plan[c].op \in Settling => plan[c].target \in settled'
      BY <1>1, <1>2, <2>2, <2>7 DEF TypeOK
    <2>12. \A d \in Calls : effect[d] > 0 => effect'[d] > 0
      BY <1>1, <2>7 DEF TypeOK
    <2>13. \E d \in Repeats(c) : effect'[d] > 0
      BY <2>10
    <2> QED
      BY <1>4, <2>7, <2>8, <2>9, <2>11, <2>12, <2>13
  <1>5. CASE ~(Verdict(c) = "apply" /\ plan[c].op \in Writes)
    <2>1. UNCHANGED <<settled, effect>>
      BY <1>5 DEF Handle, serviceVars
    <2>2. WritesHappenOnce'
      BY <1>1, <2>1 DEF WritesHappenOnce
    <2>3. ASSUME plan[c].op \in Writes, Verdict(c) # "409"
          PROVE  \E d \in Repeats(c) : effect[d] > 0
      <3>1. PICK d \in KeyHolders(c) : SameWrite(c, d)
        BY <1>5, <2>3 DEF Verdict
      <3>2. d \in Calls /\ effect[d] > 0 /\ HeaderKey(c) # NoKey /\ HeaderKey(d) = HeaderKey(c)
        BY DEF KeyHolders
      <3>3. d = c \/ (plan[d].key = plan[c].key /\ plan[c].key # NoKey)
        BY <1>1, <3>2, KeyMatch DEF TypeOK
      <3>4. d \in Repeats(c)
        BY <2>3, <3>1, <3>2, <3>3 DEF Repeats
      <3> QED
        BY <3>2, <3>4
    <2> QED
      BY <1>1, <2>1, <2>2, <2>3 DEF TypeOK
  <1> QED
    BY <1>4, <1>5

LEMMA RefuseStep ==
    ASSUME Ledger, NEW c \in Calls, Refuse(c)
    PROVE  Ledger'
  <1>1. TypeOK /\ CallOK(c)
    BY DEF Ledger
  <1>2. /\ conn[c] = Request
        /\ UNCHANGED <<plan, pc, resends, aborted, result, asked, stray, settled, effect>>
    BY DEF Refuse, clientVars, serviceVars
  <1>3. PICK a \in Answers : a.status \in Redirects \cup {"401", "500"} /\ conn' = [conn EXCEPT ![c] = a]
    BY DEF Refuse
  <1>4. pc[c] = "waiting"
    BY <1>1, <1>2 DEF CallOK, EarlyOK, Request, Closed
  <1>5. result[c] = "none"
    BY <1>4, Waiting
  <1>6. TypeOK'
    BY <1>1, <1>2, <1>3 DEF TypeOK
  <1>7. conn'[c] = a /\ a # Request
    BY <1>1, <1>3 DEF TypeOK, Request, Redirects
  <1>8. WritesHappenOnce'
    BY <1>2 DEF Ledger, WritesHappenOnce
  <1>9. CallOK(c)'
    <2>1. EarlyOK(c)' /\ FlawOK(c)' /\ AbortOK(c)' /\ EffectOK(c)'
      BY <1>2, <1>4, <1>5, StageStaysOK
    <2>2. ~Resendable(c)' => SingleOK(c)'
      <3>1. SUFFICES ASSUME SingleOK(c)
                     PROVE  SingleOK(c)'
        BY <1>1, <1>2 DEF CallOK, Resendable
      <3>2. stray[c] # 1 /\ stray[c] <= 1 /\ effect[c] = 0
        BY <1>2, <3>1 DEF SingleOK, Request, Closed
      <3> QED
        BY <1>2, <3>2 DEF SingleOK
    <2>3. SuccessOK(c)' /\ RefusedOK(c)'
      BY <1>2, <1>3, <1>5, <1>7 DEF SuccessOK, RefusedOK, Definite, Granted, Redirects
    <2> QED
      BY <2>1, <2>2, <2>3 DEF CallOK
  <1> QED
    BY <1>1, <1>2, <1>3, <1>6, <1>8, <1>9, OthersStayOK DEF TypeOK

LEMMA ServeStep ==
    ASSUME Ledger, NEW c \in Calls, Serve(c)
    PROVE  Ledger'
  <1>1. TypeOK /\ CallOK(c)
    BY DEF Ledger
  <1>2. conn[c] = Request /\ Handle(c) /\ UNCHANGED <<plan, pc, resends, aborted, result, asked, stray>>
    BY DEF Serve, clientVars
  <1>3. PICK a \in Replies(Verdict(c)) : conn' = [conn EXCEPT ![c] = a]
    BY DEF Serve
  <1>4. pc[c] = "waiting"
    BY <1>1, <1>2 DEF CallOK, EarlyOK, Request, Closed
  <1>5. plan[c].flaw = NoFlaw /\ result[c] = "none" /\ c \notin aborted /\ ~RefusedEarly(c)
    BY <1>4, Waiting
  <1>6. ~Resendable(c) => effect[c] = 0
    BY <1>1, <1>2 DEF CallOK, SingleOK
  <1>7. /\ effect' \in [Calls -> Nat] /\ settled' \subseteq Targets /\ settled \subseteq settled'
        /\ WritesHappenOnce'
        /\ \/ effect' = effect
           \/ /\ effect' = [effect EXCEPT ![c] = 1] /\ plan[c].op \in Writes
              /\ plan[c].op \in Settling => plan[c].target \in settled'
        /\ Verdict(c) = "409" => effect' = effect
        /\ \A d \in Calls : effect[d] > 0 => effect'[d] > 0
        /\ plan[c].op \in Writes /\ Verdict(c) # "409" => \E d \in Repeats(c) : effect'[d] > 0
    BY <1>2, <1>6, HandleFacts
  <1>8. /\ a \in Answers /\ a # Request /\ a.status # "307"
        /\ a.status \in Granted => Verdict(c) # "409"
        /\ a.status \in Denied => Verdict(c) = "409"
    BY DEF Replies, Answers, Statuses, Redirects, Granted, Denied, Request
  <1>9. TypeOK'
    BY <1>1, <1>2, <1>3, <1>7, <1>8 DEF TypeOK
  <1>10. conn'[c] = a /\ \A d \in Calls \ {c} : effect'[d] = effect[d] /\ conn'[d] = conn[d]
    BY <1>1, <1>3, <1>7 DEF TypeOK
  <1>11. /\ (Resendable(c)' <=> Resendable(c)) /\ (Believable(c)' <=> Believable(c))
         /\ (RefusedEarly(c)' <=> RefusedEarly(c)) /\ Repeats(c)' = Repeats(c)
    BY <1>2 DEF Resendable, Believable, RefusedEarly, ChecksKeyLate, Repeats, SameWrite
  <1>12. CallOK(c)'
    <2>1. EarlyOK(c)' /\ FlawOK(c)' /\ AbortOK(c)'
      BY <1>2, <1>4, <1>5, <1>11 DEF EarlyOK, FlawOK, AbortOK
    <2>2. EffectOK(c)'
      BY <1>1, <1>2, <1>7 DEF CallOK, EffectOK
    <2>3. ~Resendable(c)' => SingleOK(c)'
      <3>1. SUFFICES ASSUME ~Resendable(c)
                     PROVE  SingleOK(c)'
        BY <1>11
      <3>2. stray[c] # 1 /\ stray[c] <= 1 /\ effect[c] = 0
        BY <1>1, <1>2, <3>1 DEF CallOK, SingleOK, Request, Closed
      <3> QED
        BY <1>2, <1>7, <1>8, <1>10, <3>2 DEF SingleOK
    <2>4. SuccessOK(c)'
      BY <1>2, <1>5, <1>7, <1>8, <1>10, <1>11 DEF SuccessOK
    <2>5. RefusedOK(c)'
      BY <1>2, <1>5 DEF RefusedOK, Definite
    <2> QED
      BY <2>1, <2>2, <2>3, <2>4, <2>5 DEF CallOK
  <1> QED
    BY <1>2, <1>7, <1>9, <1>10, <1>12, OthersStayOK

LEMMA ServeStrayStep ==
    ASSUME Ledger, NEW c \in Calls, ServeStray(c)
    PROVE  Ledger'
  <1>1. TypeOK /\ CallOK(c)
    BY DEF Ledger
  <1>2. /\ stray[c] > 0 /\ stray' = [stray EXCEPT ![c] = @ - 1] /\ Handle(c)
        /\ UNCHANGED <<plan, pc, resends, aborted, result, asked, conn>>
    BY DEF ServeStray, clientVars
  <1>3. pc[c] \in {"waiting", "done"} /\ plan[c].flaw = NoFlaw
    BY <1>1, <1>2 DEF CallOK, EarlyOK, FlawOK, NothingSent, TypeOK
  <1>4. ~Resendable(c) => stray[c] = 1 /\ effect[c] = 0 /\ conn[c] = Closed
    BY <1>1, <1>2 DEF CallOK, SingleOK, TypeOK
  <1>5. /\ effect' \in [Calls -> Nat] /\ settled' \subseteq Targets /\ settled \subseteq settled'
        /\ WritesHappenOnce'
        /\ \/ effect' = effect
           \/ /\ effect' = [effect EXCEPT ![c] = 1] /\ plan[c].op \in Writes
              /\ plan[c].op \in Settling => plan[c].target \in settled'
        /\ \A d \in Calls : effect[d] > 0 => effect'[d] > 0
    BY <1>2, <1>4, HandleFacts
  <1>6. stray' \in [Calls -> Nat] /\ stray'[c] = stray[c] - 1
    BY <1>1, <1>2 DEF TypeOK
  <1>7. TypeOK'
    BY <1>1, <1>2, <1>5, <1>6 DEF TypeOK
  <1>8. /\ (Resendable(c)' <=> Resendable(c)) /\ (Believable(c)' <=> Believable(c))
        /\ (RefusedEarly(c)' <=> RefusedEarly(c))
        /\ Repeats(c)' = Repeats(c) /\ Repeats(c) \subseteq Calls
    BY <1>2 DEF Resendable, Believable, RefusedEarly, ChecksKeyLate, Repeats, SameWrite
  <1>9. \A d \in Calls \ {c} : effect'[d] = effect[d] /\ stray'[d] = stray[d]
    BY <1>1, <1>2, <1>5 DEF TypeOK
  <1>10. CallOK(c)'
    <2>1. EarlyOK(c)' /\ FlawOK(c)' /\ AbortOK(c)'
      BY <1>1, <1>2, <1>3, <1>8 DEF CallOK, EarlyOK, FlawOK, AbortOK
    <2>2. EffectOK(c)'
      BY <1>1, <1>2, <1>5 DEF CallOK, EffectOK
    <2>3. ~Resendable(c)' => SingleOK(c)'
      BY <1>2, <1>4, <1>6, <1>8 DEF SingleOK, Closed, Request, Denied
    <2>4. SuccessOK(c)'
      BY <1>1, <1>2, <1>5, <1>8 DEF CallOK, SuccessOK
    <2>5. RefusedOK(c)'
      BY <1>1, <1>2, <1>8 DEF CallOK, RefusedOK, Definite
    <2> QED
      BY <2>1, <2>2, <2>3, <2>4, <2>5 DEF CallOK
  <1> QED
    BY <1>2, <1>5, <1>7, <1>9, <1>10, OthersStayOK

-----------------------------------------------------------------------------
LEMMA LedgerInit == Init => Ledger
  <1> SUFFICES ASSUME Init
               PROVE  Ledger
    OBVIOUS
  <1>1. TypeOK
    BY DEF Init, TypeOK, Results
  <1>2. WritesHappenOnce
    BY DEF Init, WritesHappenOnce
  <1>3. ASSUME NEW c \in Calls
        PROVE  CallOK(c)
    <2>1. /\ pc[c] = "idle" /\ c \notin asked /\ c \notin aborted
          /\ NothingSent(c) /\ result[c] = "none"
      BY DEF Init, NothingSent
    <2>2. EarlyOK(c) /\ FlawOK(c) /\ AbortOK(c) /\ EffectOK(c)
      BY <2>1 DEF EarlyOK, FlawOK, AbortOK, EffectOK, NothingSent
    <2>3. SingleOK(c) /\ SuccessOK(c) /\ RefusedOK(c)
      BY <2>1 DEF SingleOK, SuccessOK, RefusedOK, NothingSent, Closed, Request, Denied, Granted
    <2> QED
      BY <2>2, <2>3 DEF CallOK
  <1> QED
    BY <1>1, <1>2, <1>3 DEF Ledger

LEMMA LedgerNext == Ledger /\ [Next]_vars => Ledger'
  <1> SUFFICES ASSUME Ledger, [Next]_vars
               PROVE  Ledger'
    OBVIOUS
  <1>1. ASSUME NEW c \in Calls, Client(c)
        PROVE  Ledger'
    BY <1>1, CallStep, TokenAnswerStep, AbortStep, BrokenStep, ResentStep, RedirectedStep, AnsweredStep
       DEF Client
  <1>2. ASSUME NEW c \in Calls, Service(c)
        PROVE  Ledger'
    BY <1>2, RefuseStep, ServeStep, ServeStrayStep DEF Service
  <1>3. CASE UNCHANGED vars
    <2>1. UNCHANGED <<plan, pc, resends, aborted, result, asked, conn, stray, settled, effect>>
      BY <1>3 DEF vars, clientVars, serviceVars
    <2>2. TypeOK' /\ WritesHappenOnce'
      BY <2>1 DEF Ledger, TypeOK, WritesHappenOnce
    <2>3. ASSUME NEW c \in Calls
          PROVE  CallOK(c)'
      <3>1. /\ CallOK(c) /\ Repeats(c)' = Repeats(c)
            /\ (Resendable(c)' <=> Resendable(c)) /\ (Believable(c)' <=> Believable(c))
            /\ (RefusedEarly(c)' <=> RefusedEarly(c))
        BY <2>1 DEF Ledger, Repeats, SameWrite, Resendable, Believable, RefusedEarly, ChecksKeyLate
      <3> QED
        BY <2>1, <3>1
           DEF CallOK, EarlyOK, FlawOK, AbortOK, EffectOK, NothingSent, SingleOK, SuccessOK,
               RefusedOK, Definite
    <2> QED
      BY <2>2, <2>3 DEF Ledger
  <1> QED
    BY <1>1, <1>2, <1>3 DEF Next

LEMMA LedgerAlways == Spec => []Ledger
  BY LedgerInit, LedgerNext, PTL DEF Spec

\* Every variable keeps its type, and exactly the finished calls have a result.
THEOREM TypeCorrect == Spec => []TypeOK
  BY LedgerAlways, PTL DEF Ledger

\* What a client refuses is never on the wire, and a pull that was aborted is on
\* no connection: the checks before #request, and the signal it hands to fetch.
THEOREM RefusedStayHome == Spec => []RefusedOrAbortedIsClosed
  <1>1. Ledger => RefusedOrAbortedIsClosed
    BY DEF Ledger, CallOK, EarlyOK, FlawOK, AbortOK, NothingSent, RefusedOrAbortedIsClosed
  <1> QED
    BY <1>1, LedgerAlways, PTL

\* No call and no key takes effect twice, given a service that keeps a key to the
\* write it was first used for and a target settled.
THEOREM WritesAreOnce == Spec => []WritesHappenOnce
  BY LedgerAlways, PTL DEF Ledger

-----------------------------------------------------------------------------
(* The calls implement CallOutcome. *)

\* The mapped variables, under names of their own.
MappedRepeats == [c \in Calls |-> Repeats(c)]
MappedAsked == {c \in Calls : pc[c] # "idle"}
MappedTold == [c \in Calls |-> Told(c)]

LEMMA OutcomeInit == Init => Outcome!Init
  <1> SUFFICES ASSUME Init
               PROVE  Outcome!Init
    OBVIOUS
  <1>1. MappedRepeats \in [Calls -> SUBSET Calls]
    BY DEF MappedRepeats, Repeats
  <1>2. MappedAsked = {}
    BY DEF Init, MappedAsked
  <1>3. effect = [c \in Calls |-> 0]
    BY DEF Init
  <1>4. MappedTold = [c \in Calls |-> "nothing"]
    BY DEF Init, MappedTold, Told
  <1> QED
    BY <1>1, <1>2, <1>3, <1>4 DEF Outcome!Init, MappedRepeats, MappedAsked, MappedTold

\* A step in which no call begins or returns, and none takes effect, is a stutter.
LEMMA OutcomeStutter ==
    ASSUME Ledger, plan' = plan, result' = result, effect' = effect,
           \A c \in Calls : /\ pc'[c] = "idle" <=> pc[c] = "idle"
                            /\ pc'[c] = "done" <=> pc[c] = "done"
    PROVE  UNCHANGED Outcome!vars
  <1>1. MappedRepeats' = MappedRepeats
    BY DEF MappedRepeats, Repeats, SameWrite
  <1>2. MappedAsked' = MappedAsked
    BY DEF MappedAsked
  <1>3. \A c \in Calls : Told(c)' = Told(c)
    BY DEF Told, Definite, Resendable, Believable
  <1>4. MappedTold' = MappedTold
    BY <1>3 DEF MappedTold
  <1> QED
    BY <1>1, <1>2, <1>4 DEF Outcome!vars, MappedRepeats, MappedAsked, MappedTold

\* A call returns: its host is told what the result is worth.
LEMMA OutcomeTell ==
    ASSUME Ledger, Ledger', NEW c \in Calls, pc[c] # "done", NEW r, Return(c, r),
           plan' = plan, effect' = effect
    PROVE  Outcome!Next
  <1>1. TypeOK /\ pc' = [pc EXCEPT ![c] = "done"] /\ result' = [result EXCEPT ![c] = r]
    BY DEF Ledger, Return
  <1>2. pc'[c] = "done" /\ CallOK(c)'
    BY <1>1 DEF Ledger, TypeOK
  <1>3. PICK t \in {"done", "refused", "unknown"} : t = Told(c)'
    BY <1>2 DEF Told
  <1>4. Told(c) = "nothing"
    BY DEF Told
  <1>5. \A d \in Calls \ {c} : Told(d)' = Told(d)
    BY <1>1 DEF TypeOK, Told, Definite, Resendable, Believable
  <1>6. MappedTold' = [MappedTold EXCEPT ![c] = t]
    BY <1>3, <1>5 DEF MappedTold
  <1>7. MappedAsked' = MappedAsked \cup {c}
    BY <1>1 DEF MappedAsked, TypeOK
  <1>8. MappedRepeats' = MappedRepeats /\ Repeats(c)' = Repeats(c)
    BY DEF MappedRepeats, Repeats, SameWrite
  <1>9. t = "done" => Repeats(c) = {} \/ \E d \in Repeats(c) : effect[d] > 0
    <2>1. SUFFICES ASSUME t = "done", Repeats(c) # {}
                   PROVE  \E d \in Repeats(c) : effect[d] > 0
      OBVIOUS
    <2>2. plan[c].op \in Writes
      BY <2>1 DEF Repeats
    <2>3. result'[c] = "ok" /\ Believable(c)'
      BY <1>2, <1>3, <2>1, <2>2 DEF Told
    <2> QED
      BY <1>2, <1>8, <2>2, <2>3 DEF CallOK, SuccessOK
  <1>10. t = "refused" => effect[c] = 0
    <2>1. SUFFICES ASSUME t = "refused"
                   PROVE  effect[c] = 0
      OBVIOUS
    <2>2. Definite(c)'
      BY <1>2, <1>3, <2>1 DEF Told
    <2> QED
      BY <1>2, <2>2 DEF CallOK, RefusedOK, EffectOK
  <1>11. MappedTold[c] = "nothing" /\ MappedRepeats[c] = Repeats(c)
    BY <1>4 DEF MappedTold, MappedRepeats
  <1>12. Outcome!MayTell(c, t)
    BY <1>3, <1>9, <1>10, <1>11 DEF Outcome!MayTell, MappedRepeats
  <1>13. Outcome!Tell(c, t)
    BY <1>4, <1>6, <1>7, <1>8, <1>11, <1>12
       DEF Outcome!Tell, MappedTold, MappedAsked, MappedRepeats
  <1>14. t \in Outcome!Tellings
    BY <1>3 DEF Outcome!Tellings
  <1> QED
    BY <1>13, <1>14 DEF Outcome!Next

\* The service handles a request, on the connection or astray.
LEMMA OutcomeEffect ==
    ASSUME Ledger, NEW c \in Calls, Handle(c), conn[c] = Request \/ stray[c] > 0,
           UNCHANGED <<plan, pc, result>>
    PROVE  Outcome!Next \/ UNCHANGED Outcome!vars
  <1>1. TypeOK /\ CallOK(c)
    BY DEF Ledger
  <1>2. ~Resendable(c) => effect[c] = 0
    BY <1>1 DEF CallOK, SingleOK, TypeOK
  <1>3. \/ effect' = effect
        \/ /\ effect' = [effect EXCEPT ![c] = 1] /\ plan[c].op \in Writes
           /\ \A d \in Repeats(c) : effect[d] = 0
    BY <1>2, HandleFacts
  <1>4. CASE effect' = effect
    BY <1>4, OutcomeStutter
  <1>5. CASE /\ effect' = [effect EXCEPT ![c] = 1] /\ plan[c].op \in Writes
             /\ \A d \in Repeats(c) : effect[d] = 0
    <2>1. pc[c] \in {"waiting", "done"} /\ (conn[c] = Request => pc[c] = "waiting")
      BY <1>1 DEF CallOK, EarlyOK, NothingSent, Closed, Request, TypeOK
    <2>2. Told(c) # "refused"
      BY <1>1, <1>5, <2>1 DEF Told, CallOK, RefusedOK, TypeOK
    <2>3. MappedTold[c] = Told(c) /\ MappedRepeats[c] = Repeats(c)
      BY DEF MappedTold, MappedRepeats
    <2>4. c \in MappedAsked /\ c \in Repeats(c)
      BY <1>5, <2>1 DEF MappedAsked, Repeats
    <2>5. effect[c] = 0
      BY <1>5, <2>4
    <2>6. MappedRepeats' = MappedRepeats
      BY DEF MappedRepeats, Repeats, SameWrite
    <2>7. MappedAsked' = MappedAsked
      BY DEF MappedAsked
    <2>8. MappedTold' = MappedTold
      BY DEF MappedTold, Told, Definite, Resendable, Believable
    <2>9. effect' = [effect EXCEPT ![c] = @ + 1]
      BY <1>5, <2>5
    <2>10. Outcome!TakeEffect(c)
      BY <1>5, <2>2, <2>3, <2>4, <2>6, <2>7, <2>8, <2>9
         DEF Outcome!TakeEffect, MappedTold, MappedAsked, MappedRepeats
    <2> QED
      BY <2>10 DEF Outcome!Next
  <1> QED
    BY <1>3, <1>4, <1>5

\* A call that is not refused at once is asked.
LEMMA OutcomeAsk ==
    ASSUME Ledger, NEW c \in Calls, Call(c), ~RefusedEarly(c)
    PROVE  Outcome!Next
  <1>1. TypeOK /\ pc[c] = "idle" /\ pc' = [pc EXCEPT ![c] = "token"]
        /\ UNCHANGED <<plan, result, effect>>
    BY DEF Ledger, Call, serviceVars
  <1>2. MappedRepeats' = MappedRepeats
    BY <1>1 DEF MappedRepeats, Repeats, SameWrite
  <1>3. MappedAsked' = MappedAsked \cup {c} /\ c \notin MappedAsked
    BY <1>1 DEF MappedAsked, TypeOK
  <1>4. \A d \in Calls : Told(d)' = Told(d)
    BY <1>1 DEF TypeOK, Told, Definite, Resendable, Believable
  <1>5. MappedTold' = MappedTold
    BY <1>4 DEF MappedTold
  <1>6. Outcome!Ask(c)
    BY <1>1, <1>2, <1>3, <1>5 DEF Outcome!Ask, MappedTold, MappedAsked, MappedRepeats
  <1> QED
    BY <1>6 DEF Outcome!Next

LEMMA OutcomeClient ==
    ASSUME Ledger, Ledger', NEW c \in Calls, Client(c)
    PROVE  Outcome!Next \/ UNCHANGED Outcome!vars
  <1>1. UNCHANGED <<plan, effect>>
    BY DEF Client, Call, TokenAnswer, TokenFails, KeyRefused, Send, Abort, Broken, GiveUp, Resent,
           Redirected, Answered, clientVars, serviceVars
  <1>2. CASE \E r : Return(c, r) /\ pc[c] # "done"
    BY <1>1, <1>2, OutcomeTell
  <1>3. CASE Call(c)
    BY <1>2, <1>3, OutcomeAsk DEF Call
  <1>4. CASE TokenAnswer(c)
    <2>1. CASE Send(c) /\ c \notin aborted
      <3>1. TypeOK /\ pc[c] = "token" /\ pc' = [pc EXCEPT ![c] = "waiting"] /\ result' = result
        BY <2>1 DEF Send, Ledger
      <3>2. \A d \in Calls : /\ pc'[d] = "idle" <=> pc[d] = "idle"
                             /\ pc'[d] = "done" <=> pc[d] = "done"
        BY <3>1 DEF TypeOK
      <3> QED
        BY <1>1, <3>1, <3>2, OutcomeStutter
    <2>2. CASE ~(Send(c) /\ c \notin aborted)
      BY <1>2, <1>4, <2>2 DEF TokenAnswer, TokenFails, KeyRefused, Send
    <2> QED
      BY <2>1, <2>2
  <1>5. CASE Broken(c)
    BY <1>2, <1>5 DEF Broken, GiveUp
  <1>6. CASE Abort(c)
    <2>1. CASE GiveUp(c, "aborted")
      BY <1>2, <2>1 DEF GiveUp
    <2>2. CASE ~GiveUp(c, "aborted")
      BY <1>1, <1>6, <2>2, OutcomeStutter DEF Abort
    <2> QED
      BY <2>1, <2>2
  <1>7. CASE Resent(c) \/ Redirected(c)
    BY <1>1, <1>7, OutcomeStutter DEF Resent, Redirected, clientVars
  <1>8. CASE Answered(c)
    BY <1>2, <1>8 DEF Answered
  <1> QED
    BY <1>3, <1>4, <1>5, <1>6, <1>7, <1>8 DEF Client

LEMMA OutcomeNext == Ledger /\ Ledger' /\ [Next]_vars => [Outcome!Next]_Outcome!vars
  <1> SUFFICES ASSUME Ledger, Ledger', [Next]_vars
               PROVE  Outcome!Next \/ UNCHANGED Outcome!vars
    OBVIOUS
  <1>1. ASSUME NEW c \in Calls, Client(c)
        PROVE  Outcome!Next \/ UNCHANGED Outcome!vars
    BY <1>1, OutcomeClient
  <1>2. ASSUME NEW c \in Calls, Service(c)
        PROVE  Outcome!Next \/ UNCHANGED Outcome!vars
    <2>1. UNCHANGED <<plan, pc, result>>
      BY <1>2 DEF Service, Refuse, Serve, ServeStray, clientVars
    <2>2. CASE Refuse(c)
      BY <2>1, <2>2, OutcomeStutter DEF Refuse, serviceVars
    <2>3. CASE Serve(c)
      BY <2>1, <2>3, OutcomeEffect DEF Serve
    <2>4. CASE ServeStray(c)
      BY <2>1, <2>4, OutcomeEffect DEF ServeStray
    <2> QED
      BY <1>2, <2>2, <2>3, <2>4 DEF Service
  <1>3. CASE UNCHANGED vars
    BY <1>3, OutcomeStutter DEF vars, clientVars, serviceVars
  <1> QED
    BY <1>1, <1>2, <1>3 DEF Next

\* The calls of all three clients implement CallOutcome: "done" and "refused" can
\* be relied on, and only after "unknown" may a write still happen.
THEOREM CallsImplementOutcome == Spec => OutcomeSpec
  <1>1. Ledger /\ Ledger' /\ [Next]_vars => [Outcome!Next]_Outcome!vars
    BY OutcomeNext
  <1> QED
    BY <1>1, OutcomeInit, LedgerAlways, PTL DEF Spec, OutcomeSpec, Outcome!Spec
=============================================================================
