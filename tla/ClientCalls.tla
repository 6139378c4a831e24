------------------------------ MODULE ClientCalls ------------------------------
(***************************************************************************)
(* The calls of the three sync clients, clients/typescript/src/client.ts,  *)
(* clients/rust/src/client.rs and clients/dart/lib/src/client.dart: several*)
(* devices of one user at once, some repeating what others did.            *)
(*                                                                         *)
(* A call checks its arguments, asks the host for a token, sends one       *)
(* request and decodes the answer.  It has no timeout; only the pull of the*)
(* TypeScript client can be aborted.  The service and the HTTP libraries   *)
(* are not in the repository: they are modelled from what the clients use. *)
(***************************************************************************)
EXTENDS Integers, FiniteSets

CONSTANTS
    Calls,        \* the calls the devices make
    Sdks,         \* the clients they make them with
    Operations,   \* the operations they use
    Targets,      \* clips and transfers
    Keys, NoKey,  \* idempotency keys the hosts choose, and none
    MaxResends    \* bound: how often an HTTP library sends one request again

ASSUME ClientAssumption ==
    /\ Sdks \subseteq {"typescript", "rust", "dart"}
    /\ NoKey \notin Keys \cup Calls
    /\ Keys \cap Calls = {}
    /\ MaxResends \in Nat

VARIABLES
    plan,     \* the client, operation and arguments of each call
    pc,       \* "idle", "token", "waiting" or "done"
    conn,     \* the connection of a waiting call: its request, or an answer
    resends,  \* how often an HTTP library has sent a request again
    stray,    \* requests on the wire that no call waits for any more
    aborted,  \* calls whose signal is aborted
    result,   \* what a call has returned
    asked,    \* history: the calls that asked for a token
    settled,  \* the service: targets that are deleted, acknowledged or cancelled
    effect    \* the service: how often it applied each call's write

clientVars == <<plan, pc, resends, aborted, result, asked>>
serviceVars == <<settled, effect>>
vars == <<clientVars, conn, stray, serviceVars>>

-----------------------------------------------------------------------------
(* Operations and arguments *)

Writes == {"put", "delete", "push", "create", "ack", "cancel"}

NoFlaw == "none"

\* "flaw" names an argument the operation refuses: a limit, cursor or
\* identifier; the content of a clip, search or transfer; or the key.
Arguments(sdk, op, keys, flaws) ==
    [sdk : {sdk} \cap Sdks, op : {op} \cap Operations, target : Targets, key : keys,
     flaw : flaws \cup {NoFlaw}]

TypeScriptPlans ==
    LET Of(op, keys, flaws) == Arguments("typescript", op, keys, flaws)
    IN  UNION {Of("list", {NoKey}, {"limit"}),
               Of("put", Keys, {"content", "key"}),
               Of("put", {NoKey}, {"content"}),
               Of("delete", {NoKey}, {}),
               Of("search", {NoKey}, {"limit", "content"}),
               Of("push", {NoKey}, {"content"}),
               Of("pull", {NoKey}, {"limit"}),
               Of("create", Keys, {"content", "key"}),
               Of("transfers", {NoKey}, {"limit"}),
               Of("transfer", {NoKey}, {"limit"}),
               Of("ack", Keys, {"limit", "content", "key"}),
               Of("cancel", {NoKey}, {"limit"})}

\* The Rust client sends a search as it is.
RustPlans ==
    LET Of(op, keys, flaws) == Arguments("rust", op, keys, flaws)
    IN  UNION {Of("list", {NoKey}, {"limit"}),
               Of("put", Keys, {"content", "key"}),
               Of("put", {NoKey}, {"content"}),
               Of("delete", {NoKey}, {}),
               Of("search", {NoKey}, {}),
               Of("push", {NoKey}, {"content"}),
               Of("pull", {NoKey}, {"limit"})}

DartPlans ==
    LET Of(op, keys, flaws) == Arguments("dart", op, keys, flaws)
    IN  UNION {Of("list", {NoKey}, {"limit"}),
               Of("put", Keys, {"content", "key"}),
               Of("put", {NoKey}, {"content"}),
               Of("delete", {NoKey}, {}),
               Of("search", {NoKey}, {"limit", "content"}),
               Of("push", {NoKey}, {"content"}),
               Of("pull", {NoKey}, {"limit"})}

Plans == TypeScriptPlans \cup RustPlans \cup DartPlans

\* The Dart client looks at the key of a put after it has its token.
ChecksKeyLate(c) == plan[c].sdk = "dart" /\ plan[c].op = "put"

RefusedEarly(c) == plan[c].flaw # NoFlaw /\ ~(plan[c].flaw = "key" /\ ChecksKeyLate(c))

\* Mutant: a put is sent without its key.
HeaderKeyOfTransfers(c) == IF plan[c].op \in {"create", "ack"} THEN plan[c].key ELSE NoKey

\* The idempotency-key header.  A put without a key makes a fresh one, which
\* stands here as the name of the call; a delete, a push and a cancel send none.
HeaderKey(c) == IF plan[c].op = "put" /\ plan[c].key = NoKey THEN c ELSE plan[c].key

-----------------------------------------------------------------------------
(* Answers and results *)

\* A status stands for those that are treated alike: 401 for every refusal of a
\* request unread, 409 for a refusal for what it asks, 500 for what leaves open
\* what became of it, 307 for a redirect that keeps the method, 303 for any other.
Redirects == {"303", "307"}
Statuses == Redirects \cup {"401", "409", "500"}

\* What a success may carry: the value, other JSON, no JSON, nothing, too much.
Bodies == {"good", "foreign", "malformed", "empty", "oversized"}

Answers ==
    [status : Statuses, body : {"error", "oversized"}]
    \cup [status : {"200"}, body : Bodies]
    \cup [status : {"204"}, body : {"empty"}]

Request == [status |-> "sent", body |-> "none"]
Closed == [status |-> "closed", body |-> "none"]

\* "argument", "token" and "aborted" are errors of their own.  "contract" is a
\* CliptownContractError; "transport" what the HTTP library raised; "value" a
\* TypeError or FormatException; a status is in the error that reports it.
Errors == {"argument", "token", "aborted", "contract", "transport", "value"} \cup Statuses
Results == {"none", "ok"} \cup Errors

\* What the client raises for an argument it refuses.
ArgumentError(c) ==
    IF plan[c].sdk = "typescript"
       /\ ~(plan[c].op \in {"put", "search", "push"} /\ plan[c].flaw = "content")
    THEN "contract" ELSE "argument"

\* What becomes of a token that is no bearer: assertBearer refuses it; in the
\* other clients the HTTP library cannot put it into a header.
BearerError(c) ==
    CASE plan[c].sdk = "typescript" -> "contract"
      [] plan[c].sdk = "rust"       -> "transport"
      [] plan[c].sdk = "dart"       -> "value"

\* Operations whose result is checked against its contract.
Validated == {"create", "transfer", "ack"}

\* Mutant: the catch around JSON.parse swallows its error.
DecodeTypeScriptSwallows(c, a) ==
    IF a.body = "oversized" THEN "contract"
    ELSE IF a.status \in Statuses THEN a.status
    ELSE IF a.body = "empty" THEN "contract"
    ELSE IF a.body = "malformed" THEN "none" ELSE "ok"

\* Mutant: a conflict is taken to mean that the write was made before.
DecodeTypeScriptConflictIsDone(c, a) ==
    IF a.body = "oversized" THEN "contract"
    ELSE IF a.status = "409" THEN "ok"
    ELSE IF a.status \in Statuses THEN a.status
    ELSE IF a.body \in {"empty", "malformed"} THEN "contract" ELSE "ok"

\* #request and the assertions after it.
DecodeTypeScript(c, a) ==
    IF a.body = "oversized" THEN "contract"
    ELSE IF a.status \in Statuses THEN a.status
    ELSE IF plan[c].op \in Validated THEN (IF a.body = "good" THEN "ok" ELSE "contract")
    ELSE IF a.status = "204" THEN (IF plan[c].op = "transfers" THEN "value" ELSE "ok")
    ELSE IF a.body \in {"empty", "malformed"} THEN "contract"
    ELSE IF a.body = "foreign" /\ plan[c].op = "transfers" THEN "contract" ELSE "ok"

\* decode.  A delete reads no body; push and pull take any JSON.
DecodeRust(c, a) ==
    IF a.status \in Statuses THEN a.status
    ELSE IF \/ plan[c].op = "delete"
            \/ a.body \in {"good", "oversized"}
            \/ a.body = "foreign" /\ plan[c].op \in {"push", "pull"}
    THEN "ok" ELSE "transport"

\* _decode.  A delete allows no body, but reads the one it gets.
DecodeDart(c, a) ==
    IF a.status \in Statuses THEN a.status
    ELSE IF \/ a.body = "empty" /\ plan[c].op = "delete"
            \/ a.body \in {"good", "oversized"}
            \/ a.body = "foreign" /\ plan[c].op \in {"delete", "push", "pull"}
    THEN "ok" ELSE "value"

Decode(c, a) ==
    CASE plan[c].sdk = "typescript" -> DecodeTypeScript(c, a)
      [] plan[c].sdk = "rust"       -> DecodeRust(c, a)
      [] plan[c].sdk = "dart"       -> DecodeDart(c, a)

-----------------------------------------------------------------------------
Init ==
    /\ plan \in [Calls -> Plans]
    /\ pc = [c \in Calls |-> "idle"]
    /\ conn = [c \in Calls |-> Closed]
    /\ resends = [c \in Calls |-> 0]
    /\ stray = [c \in Calls |-> 0]
    /\ aborted = {}
    /\ result = [c \in Calls |-> "none"]
    /\ asked = {}
    /\ settled = {}
    /\ effect = [c \in Calls |-> 0]

Return(c, r) ==
    /\ pc' = [pc EXCEPT ![c] = "done"]
    /\ result' = [result EXCEPT ![c] = r]

(* The clients. *)

\* An operation is called: it checks its arguments, then asks for a token.
Call(c) ==
    /\ pc[c] = "idle"
    /\ IF RefusedEarly(c)
       THEN Return(c, ArgumentError(c)) /\ UNCHANGED asked
       ELSE /\ pc' = [pc EXCEPT ![c] = "token"]
            /\ asked' = asked \cup {c}
            /\ UNCHANGED result
    /\ UNCHANGED <<plan, resends, aborted, conn, stray, serviceVars>>

TokenFails(c) ==
    /\ pc[c] = "token"
    /\ Return(c, "token") \/ Return(c, BearerError(c))
    /\ UNCHANGED <<plan, resends, aborted, asked, conn, stray, serviceVars>>

\* A token has come; what is left to check makes the call end here.
KeyRefused(c) ==
    /\ pc[c] = "token"
    /\ plan[c].flaw # NoFlaw
    /\ Return(c, ArgumentError(c))
    /\ UNCHANGED <<plan, resends, aborted, asked, conn, stray, serviceVars>>

\* Mutant: the signal is not handed to fetch.
SendUnsignalled(c) ==
    /\ pc[c] = "token"
    /\ plan[c].flaw = NoFlaw
    /\ pc' = [pc EXCEPT ![c] = "waiting"]
    /\ conn' = [conn EXCEPT ![c] = Request]
    /\ UNCHANGED <<plan, resends, aborted, result, asked, stray, serviceVars>>

\* The request goes out, unless its signal is aborted already.
Send(c) ==
    /\ pc[c] = "token"
    /\ plan[c].flaw = NoFlaw
    /\ IF c \in aborted
       THEN Return(c, "aborted") /\ UNCHANGED conn
       ELSE /\ pc' = [pc EXCEPT ![c] = "waiting"]
            /\ conn' = [conn EXCEPT ![c] = Request]
            /\ UNCHANGED result
    /\ UNCHANGED <<plan, resends, aborted, asked, stray, serviceVars>>

TokenAnswer(c) == TokenFails(c) \/ KeyRefused(c) \/ Send(c)

\* The connection is gone; a request that is not answered may still arrive.
Abandon(c) ==
    \/ UNCHANGED stray
    \/ conn[c] = Request /\ stray' = [stray EXCEPT ![c] = @ + 1]

GiveUp(c, error) ==
    /\ pc[c] = "waiting"
    /\ Abandon(c)
    /\ Return(c, error)
    /\ conn' = [conn EXCEPT ![c] = Closed]
    /\ UNCHANGED <<plan, resends, asked, serviceVars>>

\* Mutant: an abort is noted, but a running request goes on.
AbortUnnoticed(c) ==
    /\ plan[c].sdk = "typescript"
    /\ plan[c].op = "pull"
    /\ pc[c] \in {"idle", "token", "waiting"}
    /\ c \notin aborted
    /\ aborted' = aborted \cup {c}
    /\ UNCHANGED <<plan, pc, resends, result, asked, conn, stray, serviceVars>>

\* The host aborts a pull.  Nothing hears it before the call has its token.
Abort(c) ==
    /\ plan[c].sdk = "typescript"
    /\ plan[c].op = "pull"
    /\ c \notin aborted
    /\ aborted' = aborted \cup {c}
    /\ \/ GiveUp(c, "aborted")
       \/ /\ pc[c] \in {"idle", "token"}
          /\ UNCHANGED <<plan, pc, resends, result, asked, conn, stray, serviceVars>>

\* The connection breaks before the answer, or inside its body.
Broken(c) == GiveUp(c, "transport") /\ UNCHANGED aborted

\* HTTP libraries send a request with an idempotent method again.
Resendable(c) == plan[c].op \notin {"search", "push", "pull", "create", "ack"}

Resent(c) ==
    /\ pc[c] = "waiting"
    /\ Resendable(c)
    /\ resends[c] < MaxResends
    /\ resends' = [resends EXCEPT ![c] = @ + 1]
    /\ Abandon(c)
    /\ conn' = [conn EXCEPT ![c] = Request]
    /\ UNCHANGED <<plan, pc, aborted, result, asked, serviceVars>>

\* The TypeScript client has fetch refuse redirects.  The library of the Rust
\* client follows them all, that of the Dart client (taken to be dart:io) all of a
\* GET, a 303 of a POST, and none of a PUT or DELETE.
Follows(c, status) ==
    \/ plan[c].sdk = "rust"
    \/ plan[c].sdk = "dart" /\ plan[c].op = "list"
    \/ plan[c].sdk = "dart" /\ plan[c].op \notin {"put", "delete"} /\ status = "303"

\* The request is made again, to the service or where the redirect points; but for
\* a 307 it has become a GET.  Another page answers what it will.
Redirected(c) ==
    /\ pc[c] = "waiting"
    /\ conn[c].status \in Redirects
    /\ Follows(c, conn[c].status)
    /\ \E a \in {b \in Answers : b.status \notin Redirects}
                \cup (IF conn[c].status = "307" THEN {Request} ELSE {}) :
           conn' = [conn EXCEPT ![c] = a]
    /\ UNCHANGED <<clientVars, stray, serviceVars>>

\* fetch rejects at a redirect; other answers are decoded.
Answered(c) ==
    /\ pc[c] = "waiting"
    /\ conn[c] \in Answers
    /\ ~(conn[c].status \in Redirects /\ Follows(c, conn[c].status))
    /\ Return(c, IF conn[c].status \in Redirects /\ plan[c].sdk = "typescript"
                 THEN "transport" ELSE Decode(c, conn[c]))
    /\ conn' = [conn EXCEPT ![c] = Closed]
    /\ UNCHANGED <<plan, resends, aborted, asked, stray, serviceVars>>

-----------------------------------------------------------------------------
(* The service *)

SameWrite(c, d) == plan[c].op = plan[d].op /\ plan[c].target = plan[d].target

\* Calls whose applied write holds the key that call c sends.
KeyHolders(c) ==
    {d \in Calls : effect[d] > 0 /\ HeaderKey(c) # NoKey /\ HeaderKey(d) = HeaderKey(c)}

\* A key the service knows stands for the write it was first used for; what is
\* deleted or settled stays so.
Verdict(c) ==
    IF KeyHolders(c) # {}
    THEN IF \A d \in KeyHolders(c) : SameWrite(c, d) THEN "replay" ELSE "409"
    ELSE IF plan[c].op \in {"put", "delete", "ack", "cancel"} /\ plan[c].target \in settled
    THEN "409"
    ELSE "apply"

Handle(c) ==
    IF Verdict(c) = "apply" /\ plan[c].op \in Writes
    THEN /\ effect' = [effect EXCEPT ![c] = @ + 1]
         /\ settled' = IF plan[c].op \in {"delete", "ack", "cancel"}
                       THEN settled \cup {plan[c].target} ELSE settled
    ELSE UNCHANGED serviceVars

Replies(verdict) ==
    {a \in Answers : IF verdict = "409" THEN a.status = "409" ELSE a.status \notin {"307", "401", "409"}}

\* The service, or a proxy, refuses a request unread or sends it elsewhere.
Refuse(c) ==
    /\ conn[c] = Request
    /\ \E a \in {b \in Answers : b.status \in Redirects \cup {"401", "500"}} : conn' = [conn EXCEPT ![c] = a]
    /\ UNCHANGED <<clientVars, stray, serviceVars>>

Serve(c) ==
    /\ conn[c] = Request
    /\ Handle(c)
    /\ \E a \in Replies(Verdict(c)) : conn' = [conn EXCEPT ![c] = a]
    /\ UNCHANGED <<clientVars, stray>>

ServeStray(c) ==
    /\ stray[c] > 0
    /\ stray' = [stray EXCEPT ![c] = @ - 1]
    /\ Handle(c)
    /\ UNCHANGED <<clientVars, conn>>

-----------------------------------------------------------------------------
Client(c) ==
    \/ Call(c) \/ TokenAnswer(c) \/ Abort(c) \/ Broken(c) \/ Resent(c)
    \/ Redirected(c) \/ Answered(c)

Service(c) == Refuse(c) \/ Serve(c) \/ ServeStray(c)

Next == \E c \in Calls : Client(c) \/ Service(c)

Spec == Init /\ [][Next]_vars

\* The token provider answers.  Nothing is assumed of the network or the service.
FairSpec == Spec /\ \A c \in Calls : WF_vars(TokenAnswer(c))

-----------------------------------------------------------------------------
(* Properties *)

TypeOK ==
    /\ plan \in [Calls -> Plans]
    /\ pc \in [Calls -> {"idle", "token", "waiting", "done"}]
    /\ conn \in [Calls -> Answers \cup {Request, Closed}]
    /\ resends \in [Calls -> 0 .. MaxResends]
    /\ stray \in [Calls -> Nat]
    /\ aborted \subseteq Calls
    /\ result \in [Calls -> Results]
    /\ \A c \in Calls : pc[c] = "done" <=> result[c] # "none"
    /\ asked \subseteq Calls
    /\ settled \subseteq Targets
    /\ effect \in [Calls -> Nat]

\* "Invalid requests fail before token lookup and network access": nothing that a
\* client refuses is ever on the wire, and but for the key of a Dart put it is
\* refused before the token provider is bothered.  A pull that was aborted is on no
\* connection, and one that still waits for its token is not opened when it comes.
RefusedOrAbortedIsClosed ==
    \A c \in Calls :
        /\ plan[c].flaw # NoFlaw => conn[c] = Closed /\ stray[c] = 0
        /\ RefusedEarly(c) => c \notin asked
        /\ c \in aborted => conn[c] = Closed

\* The calls that stand for the same write as c: a host repeats a write by using
\* its key again.
Repeats(c) ==
    {d \in Calls : /\ plan[c].op \in Writes
                   /\ c = d \/ (SameWrite(c, d) /\ plan[c].key = plan[d].key /\ plan[c].key # NoKey)}

\* Calls whose success is the service's word.  Elsewhere a client that follows a
\* redirect takes the answer of another page for that of its write.
Believable(c) ==
    plan[c].sdk = "typescript" \/ (plan[c].sdk = "dart" /\ plan[c].op \in {"put", "delete"})

\* No call takes effect twice, and no key does, whatever the hosts repeat and the
\* libraries resend.
WritesHappenOnce ==
    /\ \A c \in Calls : effect[c] <= 1
    /\ \A c, d \in Calls : c # d /\ plan[c].key # NoKey /\ plan[c].key = plan[d].key =>
           effect[c] = 0 \/ effect[d] = 0

\* Errors after which a host may take it that its call does not, and never will,
\* take effect.  A CliptownContractError is none of them: it also follows a write
\* that was applied.
Definite(c) ==
    \/ result[c] \in {"argument", "token", "aborted"}
    \/ result[c] \in {"401", "409"} /\ ~Resendable(c) /\ Believable(c)

\* A pull that was aborted returns, even if the network and the service fall silent.
AbortedPullReturns ==
    \A c \in Calls : c \in aborted /\ pc[c] # "idle" ~> pc[c] = "done"

-----------------------------------------------------------------------------
(* The calls implement what CallOutcome promises. *)

Told(c) ==
    CASE pc[c] # "done" -> "nothing"
      [] pc[c] = "done" /\ result[c] = "ok" ->
            IF plan[c].op \in Writes /\ ~Believable(c) THEN "unknown" ELSE "done"
      [] pc[c] = "done" /\ result[c] # "ok" ->
            IF Definite(c) THEN "refused" ELSE "unknown"

Outcome == INSTANCE CallOutcome
    WITH repeats <- [c \in Calls |-> Repeats(c)],
         asked <- {c \in Calls : pc[c] # "idle"},
         told <- [c \in Calls |-> Told(c)]

OutcomeSpec == Outcome!Spec
=============================================================================
