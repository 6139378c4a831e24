----------------------------- MODULE TransferCalls ----------------------------
(***************************************************************************)
(* The MemeBank transfer calls of the Go SDK (clients/go/client.go): create*)
(* list, get, acknowledge and cancel, several at once and some repeating   *)
(* others, over a network that breaks connections and delivers late.       *)
(*                                                                         *)
(* A call checks its arguments, asks the host for a token, sends one       *)
(* request and decodes the answer; net/http may send the request again,    *)
(* follows a redirect if the host's own http.Client has it so, and gives up*)
(* at the client's timeout.  The service and net/http are not in the       *)
(* repository: they are modelled from how client.go uses them.             *)
(***************************************************************************)
EXTENDS Integers, FiniteSets

CONSTANTS
    Calls,         \* the calls the hosts make
    Operations,    \* the operations they use
    Transfers,     \* what is transferred
    Keys, NoKey,   \* idempotency keys the hosts choose, and none
    Dispositions,  \* what an acknowledgement may say
    Supplied,      \* the Timeout of the http.Client the host supplied, if it did
    OwnPolicy,     \* the calls whose http.Client came with a CheckRedirect of its own
    MaxResends     \* bound: how often net/http sends one request again

ASSUME TransferAssumption ==
    /\ Operations \subseteq {"create", "list", "get", "ack", "cancel"}
    /\ NoKey \notin Keys
    /\ Supplied \in {"none", "zero", "positive"}
    /\ OwnPolicy \subseteq Calls /\ (Supplied = "none" => OwnPolicy = {})
    /\ MaxResends \in Nat

VARIABLES
    plan,      \* the arguments of each call
    pc,        \* "idle", "token", "waiting" or "done"
    conn,      \* the connection of a waiting call: its request, or an answer
    resends,   \* how often net/http has sent a request again
    stray,     \* requests on the wire that no call waits for any more
    result,    \* what a call has returned
    elsewhere, \* history: the calls that a redirect has led away from the service
    state,     \* the service: the state of each transfer
    effect     \* the service: how often it applied each call's write

clientVars == <<plan, pc, resends, result, elsewhere>>
serviceVars == <<state, effect>>
vars == <<clientVars, conn, stray, serviceVars>>

-----------------------------------------------------------------------------
(* Arguments *)

NoFlaw == "none"

\* The arguments of each operation; "flaw" names one that is invalid.
Arguments(op, targets, keys, dispositions, flaws) ==
    [op : {op} \cap Operations, target : targets, key : keys,
     disposition : dispositions, flaw : flaws \cup {NoFlaw}]

Plans ==
    Arguments("create", Transfers, Keys, {"none"}, {"key", "body"})
    \cup Arguments("list", Transfers, {NoKey}, {"none"}, {"options"})
    \cup Arguments("get", Transfers, {NoKey}, {"none"}, {"id"})
    \cup Arguments("ack", Transfers, Keys, Dispositions, {"id", "key", "body"})
    \cup Arguments("cancel", Transfers, {NoKey}, {"none"}, {"id"})

\* What the operation validates before anything else.
Validates(c) == plan[c].flaw = NoFlaw

Writes == {"create", "ack", "cancel"}

\* Mutant: the creation is sent without its key.
HeaderKeyOfAcks(c) == IF plan[c].op = "ack" THEN plan[c].key ELSE NoKey

\* Mutant: the acknowledgement is sent without its key.
HeaderKeyOfCreates(c) == IF plan[c].op = "create" THEN plan[c].key ELSE NoKey

\* The Idempotency-Key header.  CancelMemeBankTransfer has none.
HeaderKey(c) == IF plan[c].op \in {"create", "ack"} THEN plan[c].key ELSE NoKey

-----------------------------------------------------------------------------
(* Results *)

NoResult == [from |-> "nowhere", error |-> "none"]
Ok == [from |-> "service", error |-> "none"]
Local(e) == [from |-> "client", error |-> e]   \* a bare sentinel, or another error
Status(s) == [from |-> s, error |-> "StatusError"]

LocalErrors == {"ErrInvalidRequest", "token provider", "ErrUnauthorized", "transport", "json",
                "ErrPayloadTooLarge", "ErrIncompatibleContract"}

\* Statuses that refuse a request unread; that refuse it for what it asks; and
\* that leave open what became of it.
Unread == {"307", "401", "403", "413", "422", "429"}
Denied == {"404", "409"}
Doubtful == {"303", "500", "503"}
Statuses == Unread \cup Denied \cup Doubtful

Results == {NoResult, Ok} \cup {Local(e) : e \in LocalErrors} \cup {Status(s) : s \in Statuses}

Bodies == {"good", "incompatible", "trailing", "malformed", "padded"}

Answers == [status : Statuses, body : {"error"}]
           \cup [status : {"200"}, body : Bodies]

Request == [status |-> "sent", body |-> "none"]
Closed == [status |-> "closed", body |-> "none"]

\* Mutant: a body that does not decode returns neither a value nor an error.
DecodeForgetsError(c, a) ==
    IF a.status # "200" THEN Status(a.status)
    ELSE IF a.body = "good" THEN Ok
    ELSE IF a.body = "malformed" THEN NoResult
    ELSE Local("ErrIncompatibleContract")

\* Mutant: a conflict means that the write was made before.
DecodeUnchecked(c, a) ==
    IF a.status \in {"200", "409"} THEN Ok ELSE Status(a.status)

\* doJSON and validateServerValue.  A cancel discards its body: only the size
\* counts.  A value that is cut off at the limit decodes as "malformed".
Decode(c, a) ==
    IF a.status # "200" THEN Status(a.status)
    ELSE IF a.body = "padded" THEN Local("ErrPayloadTooLarge")
    ELSE IF a.body = "good" \/ plan[c].op = "cancel" THEN Ok
    ELSE IF a.body = "malformed" THEN Local("json")
    ELSE Local("ErrIncompatibleContract")

\* Mutant: an unavailable service asks to come back later, like a limit does.
SentinelByAdvice(r) ==
    CASE r.from = "client" -> r.error
      [] r.from = "401"    -> "ErrUnauthorized"
      [] r.from = "403"    -> "ErrForbidden"
      [] r.from = "404"    -> "ErrNotFound"
      [] r.from = "409"    -> "ErrConflict"
      [] r.from = "413"    -> "ErrPayloadTooLarge"
      [] r.from = "422"    -> "ErrIncompatibleContract"
      [] r.from \in {"429", "503"} -> "ErrRateLimited"
      [] OTHER             -> "ErrUnexpectedStatus"

\* What errors.Is finds in an error: the status of a StatusError is unwrapped.
Sentinel(r) ==
    CASE r.from = "client" -> r.error
      [] r.from = "401"    -> "ErrUnauthorized"
      [] r.from = "403"    -> "ErrForbidden"
      [] r.from = "404"    -> "ErrNotFound"
      [] r.from = "409"    -> "ErrConflict"
      [] r.from = "413"    -> "ErrPayloadTooLarge"
      [] r.from = "422"    -> "ErrIncompatibleContract"
      [] r.from = "429"    -> "ErrRateLimited"
      [] r.from = "503"    -> "ErrUnavailable"
      [] OTHER             -> "ErrUnexpectedStatus"

-----------------------------------------------------------------------------
Init ==
    /\ plan \in [Calls -> Plans]
    /\ pc = [c \in Calls |-> "idle"]
    /\ conn = [c \in Calls |-> Closed]
    /\ resends = [c \in Calls |-> 0]
    /\ stray = [c \in Calls |-> 0]
    /\ result = [c \in Calls |-> NoResult]
    /\ elsewhere = {}
    /\ state \in [Transfers -> {"absent", "pending"}]
    /\ effect = [c \in Calls |-> 0]

Return(c, r) ==
    /\ pc' = [pc EXCEPT ![c] = "done"]
    /\ result' = [result EXCEPT ![c] = r]

(* The client. *)

\* An operation is called: it validates, then asks for a token.
Call(c) ==
    /\ pc[c] = "idle"
    /\ IF Validates(c)
       THEN pc' = [pc EXCEPT ![c] = "token"] /\ UNCHANGED result
       ELSE Return(c, Local("ErrInvalidRequest"))
    /\ UNCHANGED <<plan, resends, elsewhere, conn, stray, serviceVars>>

\* The token provider answers: an error, an invalid bearer, or a token with
\* which the request goes out.
TokenAnswer(c) ==
    /\ pc[c] = "token"
    /\ \/ /\ \E e \in {"token provider", "ErrUnauthorized"} : Return(c, Local(e))
          /\ UNCHANGED conn
       \/ /\ pc' = [pc EXCEPT ![c] = "waiting"]
          /\ conn' = [conn EXCEPT ![c] = Request]
          /\ UNCHANGED result
    /\ UNCHANGED <<plan, resends, elsewhere, stray, serviceVars>>

\* The connection is gone; a request that is not answered may still arrive.
Abandon(c) ==
    \/ UNCHANGED stray
    \/ conn[c] = Request /\ stray' = [stray EXCEPT ![c] = @ + 1]

\* Mutant: a supplied client keeps the timeout it came with.
TimeoutAsSupplied == IF Supplied = "none" THEN "default" ELSE Supplied

\* The timeout hardenedHTTPClient gives the client.
Timeout == IF Supplied = "positive" THEN "positive" ELSE "default"

\* Mutant: a supplied client keeps the CheckRedirect it came with, also when it has
\* none: net/http then follows.
PolicyAsSupplied(c) == IF c \in OwnPolicy THEN "own" ELSE "follow"

\* The CheckRedirect hardenedHTTPClient leaves the client with: one of the host's
\* own is kept, whatever it does.
CheckRedirect(c) == IF c \in OwnPolicy THEN "own" ELSE "refuse"

\* The client's timeout: Do, or the reading of the body, fails.
TimedOut(c) ==
    /\ pc[c] = "waiting"
    /\ Timeout # "zero"
    /\ Abandon(c)
    /\ Return(c, Local("transport"))
    /\ conn' = [conn EXCEPT ![c] = Closed]
    /\ UNCHANGED <<plan, resends, elsewhere, serviceVars>>

\* net/http sends a GET again, and a request with an Idempotency-Key.
Replayable(c) == plan[c].op \in {"list", "get"} \/ HeaderKey(c) # NoKey

\* The connection breaks before the answer, or inside its body.
Broken(c) ==
    /\ pc[c] = "waiting"
    /\ Abandon(c)
    /\ Return(c, Local("transport"))
    /\ conn' = [conn EXCEPT ![c] = Closed]
    /\ UNCHANGED <<plan, resends, elsewhere, serviceVars>>

Resent(c) ==
    /\ pc[c] = "waiting"
    /\ Replayable(c) /\ c \notin elsewhere
    /\ resends[c] < MaxResends
    /\ resends' = [resends EXCEPT ![c] = @ + 1]
    /\ Abandon(c)
    /\ conn' = [conn EXCEPT ![c] = Request]
    /\ UNCHANGED <<plan, pc, result, elsewhere, serviceVars>>

\* net/http follows a redirect: after a 307 it makes the same request again, after
\* a 303 a GET.  What does not reach the service as the request it was is elsewhere,
\* whatever that answers, and stays there: a chain of redirects counts as one.
Redirected(c) ==
    /\ pc[c] = "waiting"
    /\ conn[c].status \in {"303", "307"}
    /\ CheckRedirect(c) # "refuse" /\ c \notin elsewhere
    /\ \/ conn[c].status = "307" /\ conn' = [conn EXCEPT ![c] = Request] /\ UNCHANGED elsewhere
       \/ /\ \E a \in Answers : conn' = [conn EXCEPT ![c] = a]
          /\ elsewhere' = elsewhere \cup {c}
    /\ UNCHANGED <<plan, pc, resends, result, stray, serviceVars>>

\* An answer arrives and is decoded; a redirect that is not followed is one.
Answered(c) ==
    /\ pc[c] = "waiting"
    /\ conn[c] \in Answers
    /\ Return(c, Decode(c, conn[c]))
    /\ conn' = [conn EXCEPT ![c] = Closed]
    /\ UNCHANGED <<plan, resends, elsewhere, stray, serviceVars>>

-----------------------------------------------------------------------------
(* The service *)

SameWrite(c, d) ==
    /\ plan[c].op = plan[d].op
    /\ plan[c].target = plan[d].target
    /\ plan[c].disposition = plan[d].disposition

\* Calls whose applied write holds the key that call c sends.
KeyHolders(c) ==
    {d \in Calls : effect[d] > 0 /\ HeaderKey(c) # NoKey /\ HeaderKey(d) = HeaderKey(c)}

\* What the service makes of a request it has read: a key it knows stands for
\* the write it was first used for; only a pending transfer can be settled.
Verdict(c) ==
    LET op == plan[c].op
        current == state[plan[c].target]
    IN  CASE KeyHolders(c) # {} ->
                 IF \A d \in KeyHolders(c) : SameWrite(c, d) THEN "replay" ELSE "409"
          [] KeyHolders(c) = {} /\ op \in {"create", "list"} -> "apply"
          [] KeyHolders(c) = {} /\ op \in {"get", "ack", "cancel"} ->
                 IF current = "absent" THEN "404"
                 ELSE IF op # "get" /\ current # "pending" THEN "409" ELSE "apply"

StateAfter(c) ==
    CASE plan[c].op = "create" -> "pending"
      [] plan[c].op = "ack"    -> plan[c].disposition
      [] plan[c].op = "cancel" -> "cancelled"

\* Creating what exists makes a second transfer of it; one of them is followed.
Handle(c) ==
    IF Verdict(c) = "apply" /\ plan[c].op \in Writes
    THEN /\ effect' = [effect EXCEPT ![c] = @ + 1]
         /\ state' = [state EXCEPT ![plan[c].target] = StateAfter(c)]
    ELSE UNCHANGED serviceVars

Replies(verdict) ==
    IF verdict \in Denied
    THEN [status : {verdict}, body : {"error"}]
    ELSE [status : {"200"}, body : Bodies] \cup [status : Doubtful, body : {"error"}]

\* The service, or a proxy, refuses a request unread.
Refuse(c) ==
    /\ conn[c] = Request
    /\ \E s \in Unread \cup Doubtful : conn' = [conn EXCEPT ![c] = [status |-> s, body |-> "error"]]
    /\ UNCHANGED <<clientVars, stray, serviceVars>>

Serve(c) ==
    /\ conn[c] = Request
    /\ Handle(c)
    /\ \E a \in Replies(Verdict(c)) : conn' = [conn EXCEPT ![c] = a]
    /\ UNCHANGED <<clientVars, stray>>

ServeStray(c) ==
    /\ stray[c] > 0
    /\ stray' = [stray EXCEPT ![c] = @ - 1]
    /\ Handle(c)
    /\ UNCHANGED <<clientVars, conn>>

Expire(t) ==
    /\ state[t] = "pending"
    /\ state' = [state EXCEPT ![t] = "expired"]
    /\ UNCHANGED <<clientVars, conn, stray, effect>>

-----------------------------------------------------------------------------
Client(c) ==
    \/ Call(c) \/ TokenAnswer(c) \/ TimedOut(c) \/ Broken(c) \/ Resent(c)
    \/ Redirected(c) \/ Answered(c)

Service(c) == Refuse(c) \/ Serve(c) \/ ServeStray(c)

Next ==
    \/ \E c \in Calls : Client(c) \/ Service(c)
    \/ \E t \in Transfers : Expire(t)

Spec == Init /\ [][Next]_vars

\* The token provider answers and the clock runs.  Nothing is assumed of the
\* network or of the service.
FairSpec == Spec /\ \A c \in Calls : WF_vars(TokenAnswer(c)) /\ WF_vars(TimedOut(c))

-----------------------------------------------------------------------------
(* Properties *)

TypeOK ==
    /\ plan \in [Calls -> Plans]
    /\ pc \in [Calls -> {"idle", "token", "waiting", "done"}]
    /\ conn \in [Calls -> Answers \cup {Request, Closed}]
    /\ resends \in [Calls -> 0 .. MaxResends]
    /\ stray \in [Calls -> Nat]
    /\ result \in [Calls -> Results]
    /\ \A c \in Calls : pc[c] = "done" <=> result[c] # NoResult
    /\ elsewhere \subseteq Calls
    /\ state \in [Transfers -> {"absent", "pending", "expired", "cancelled"} \cup Dispositions]
    /\ effect \in [Calls -> Nat]

\* The calls that stand for the same write as c.
Repeats(c) ==
    {d \in Calls : /\ plan[c].op \in Writes
                   /\ c = d \/ (SameWrite(c, d) /\ plan[c].key = plan[d].key /\ plan[c].key # NoKey)}

\* A request that the host's own CheckRedirect has let go elsewhere: the host has
\* been asked, and knows it.
LedAway(c) == c \in OwnPolicy /\ c \in elsewhere

\* A write that reported success was applied, by this call or one it repeats:
\* through lost answers, late requests, resends, redirects and bodies of any kind.
\* Only the host's own CheckRedirect can have another page's success returned.
SuccessIsApplied ==
    \A c \in Calls : result[c] = Ok /\ plan[c].op \in Writes /\ ~LedAway(c) =>
        \E d \in Repeats(c) : effect[d] > 0

\* A call takes effect at most once, and so does an idempotency key: whatever
\* the hosts repeat and net/http resends, at most one request is applied.
KeyAppliesOnce ==
    /\ \A c \in Calls : effect[c] <= 1
    /\ \A c, d \in Calls : c # d /\ plan[c].key # NoKey /\ plan[c].key = plan[d].key =>
           effect[c] = 0 \/ effect[d] = 0

\* Errors after which a host may take it that its call does not, and never will,
\* take effect: nothing was sent, or the only request was refused.  A request
\* that net/http may send twice proves nothing by the answer to one copy, nor one
\* that was led away by another page's; and ErrPayloadTooLarge and
\* ErrIncompatibleContract also follow a success.
NeverSent == {"ErrInvalidRequest", "token provider"}
Refused == {"ErrUnauthorized", "ErrForbidden", "ErrNotFound", "ErrConflict", "ErrRateLimited"}

Definite(c) ==
    \/ Sentinel(result[c]) \in NeverSent
    \/ Sentinel(result[c]) \in Refused /\ ~Replayable(c) /\ ~LedAway(c)

\* A definite refusal stays true: no late copy of the request can be applied.
RefusedNeverApplied == \A c \in Calls : Definite(c) => effect[c] = 0 /\ stray[c] = 0

\* A repeated create or acknowledgement is answered with what it did the first
\* time, never with the conflict that its own first time caused.
RepeatNeverConflicts ==
    [][\A c \in Calls :
        conn'[c] # conn[c] /\ conn'[c].status \in Denied /\ ~LedAway(c)' /\ plan[c].key # NoKey =>
            \A d \in Repeats(c) : effect[d] = 0]_vars

\* "The Go client refuses plaintext remote HTTP and redirects carrying authorization"
RedirectsAreRefused == elsewhere = {}

\* Every call returns, even if the network and the service fall silent.
EveryCallReturns == \A c \in Calls : pc[c] # "idle" ~> pc[c] = "done"

-----------------------------------------------------------------------------
(* The calls implement what CallOutcome promises. *)

Told(c) ==
    CASE pc[c] # "done"                     -> "nothing"
      [] pc[c] = "done" /\ result[c] = Ok   ->
            IF plan[c].op \in Writes /\ LedAway(c) THEN "unknown" ELSE "done"
      [] pc[c] = "done" /\ result[c] # Ok /\ Definite(c)  -> "refused"
      [] pc[c] = "done" /\ result[c] # Ok /\ ~Definite(c) -> "unknown"

Outcome == INSTANCE CallOutcome
    WITH repeats <- [c \in Calls |-> Repeats(c)],
         asked <- {c \in Calls : pc[c] # "idle"},
         told <- [c \in Calls |-> Told(c)]

OutcomeSpec == Outcome!Spec
=============================================================================
