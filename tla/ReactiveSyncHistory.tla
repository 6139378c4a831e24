-------------------------- MODULE ReactiveSyncHistory --------------------------
(***************************************************************************)
(* TLAPS proofs about what a ReactiveSync execution has done: the pages it *)
(* accepted, the attempts it made, and what its consumers were handed.     *)
(***************************************************************************)
EXTENDS ReactiveSyncProofs

USE SyncAssumption DEF SyncAssumption

-----------------------------------------------------------------------------
(* The invariant *)

\* The first page has been asked for.
Started == connected /\ snapshot.phase # "idle" /\ todo # "firstPull"

\* The page being pulled has not been answered.
Waiting == connected /\ snapshot.phase = "pulling" /\ todo = "none"

Last == accepted[Len(accepted)]

\* Where the accepted pages end: the cursor of the page to pull next.
EndCursor == IF accepted = <<>> THEN InitialCursor ELSE Last.page.cursor

\* The accepted pages follow each other, and only the last one may say that there
\* is no more.
ChainOK ==
    /\ \A i \in 1 .. Len(accepted) :
        accepted[i].from = IF i = 1 THEN InitialCursor ELSE accepted[i-1].page.cursor
    /\ \A i \in 1 .. Len(accepted) : i < Len(accepted) => accepted[i].page.has_more
    /\ snapshot.cursor = EndCursor /\ snapshot.receivedPages = Len(accepted)
    /\ ~Started => accepted = <<>>
    /\ Waiting => position = EndCursor
    /\ Waiting \/ todo = "nextPull" => accepted = <<>> \/ Last.page.has_more
    /\ todo = "completed" \/ snapshot.phase = "completed" =>
        accepted # <<>> /\ ~Last.page.has_more

\* The history of cursors holds those of all pages and of the one to come, which
\* is new.
PagesOK ==
    /\ \A i, j \in 1 .. Len(accepted) : accepted[i].from = accepted[j].from => i = j
    /\ Started => \A i \in 1 .. Len(accepted) : accepted[i].from \in requestedCursors
    /\ Waiting \/ todo = "nextPull" =>
        /\ EndCursor \in requestedCursors
        /\ \A i \in 1 .. Len(accepted) : accepted[i].from # EndCursor

\* The requests made for a page are the failed attempts, and the one under way.
AttemptsOK ==
    /\ \A c \in AnyCursor : issued[c] <= MaxRetries + 1
    /\ ~Started => issued = NothingIssued
    /\ Started => \A c \in AnyCursor : issued[c] > 0 => c \in requestedCursors
    /\ Waiting => /\ position \in requestedCursors
                  /\ issued[position] = soFar + (IF timer THEN 0 ELSE 1)
    /\ todo = "nextPull" => issued[snapshot.cursor] = 0 /\ snapshot.cursor \in requestedCursors
    /\ Waiting => \A c \in requestedCursors : issued[c] > 0
    /\ todo = "nextPull" => \A c \in requestedCursors \ {snapshot.cursor} : issued[c] > 0
    /\ snapshot.phase = "failed" /\ snapshot.failure # "contract" =>
        issued[position] = MaxRetries + 1

Accounts == ChainOK /\ PagesOK /\ AttemptsOK
LEMMA AccountsInit == Init => Accounts
BY DEF Init, Accounts, ChainOK, PagesOK, AttemptsOK, Started, Waiting, EndCursor, Initial, NothingIssued

-----------------------------------------------------------------------------
(* Every action keeps the invariant. *)

\* What the invariant reads, apart from the connection and the rest of the task.
counted == <<snapshot, requestedCursors, position, soFar, timer, accepted, issued>>

LEMMA SameAccounts ==
    ASSUME Accounts, UNCHANGED <<counted, connected, todo>>
    PROVE  Accounts'
BY DEF counted, Accounts, ChainOK, PagesOK, AttemptsOK, Started, Waiting, EndCursor, Last

\* Nothing was accepted or asked for.
LEMMA FreshAccounts ==
    ASSUME snapshot' = Initial, accepted' = <<>>, issued' = NothingIssued,
           ~Started', ~Waiting', todo' \notin {"nextPull", "completed"}
    PROVE  Accounts'
<1>1. /\ snapshot'.phase = "idle" /\ snapshot'.cursor = InitialCursor
      /\ snapshot'.receivedPages = 0
  BY DEF Initial
<1>2. ChainOK' /\ PagesOK'
  BY <1>1 DEF ChainOK, PagesOK, EndCursor
<1>3. AttemptsOK'
  BY <1>1 DEF AttemptsOK, NothingIssued
<1> QED BY <1>2, <1>3 DEF Accounts

LEMMA FirstSubscribeAccounts ==
    ASSUME Control, Accounts, NEW s \in Subscribers, FirstSubscribe(s)
    PROVE  Accounts'
<1>1. ~connected /\ snapshot = Initial
  BY DEF FirstSubscribe, Control, ShareOK
<1>2. accepted = <<>> /\ issued = NothingIssued
  BY <1>1 DEF Accounts, ChainOK, AttemptsOK, Started
<1>3. /\ snapshot' = Initial /\ accepted' = <<>> /\ issued' = NothingIssued
      /\ todo' = "start"
  BY <1>1, <1>2 DEF FirstSubscribe, history
<1>4. ~Started' /\ ~Waiting'
  BY <1>3 DEF Started, Waiting, Initial
<1> QED BY <1>3, <1>4, FreshAccounts

LEMMA LateSubscribeAccounts ==
    ASSUME Accounts, NEW s \in Subscribers, LateSubscribe(s)
    PROVE  Accounts'
BY SameAccounts DEF LateSubscribe, counted, shareVars, pullVars, history

LEMMA UnsubscribeAccounts ==
    ASSUME Accounts, NEW s \in Subscribers, Unsubscribe(s)
    PROVE  Accounts'
<1>1. CASE ResetConnection
  BY <1>1, FreshAccounts DEF ResetConnection, Started, Waiting
<1>2. CASE UNCHANGED <<connected, snapshot, calls, timer, todo, orphans, history>>
  BY <1>2, SameAccounts DEF Unsubscribe, counted, history
<1> QED BY <1>1, <1>2 DEF Unsubscribe

LEMMA EmitStartedAccounts ==
    ASSUME Control, Accounts, EmitStarted
    PROVE  Accounts'
<1>1. /\ snapshot \in Snapshots /\ snapshot.phase = "idle" /\ todo = "start"
  BY DEF EmitStarted, Control, TodoOK, TypeOK
<1>2. /\ snapshot' = [snapshot EXCEPT !.phase = "pulling"]
      /\ todo' = "firstPull"
      /\ UNCHANGED <<connected, pullVars, history>>
  BY <1>1, StartedType DEF EmitStarted, Emit, shareVars
<1>3. /\ snapshot'.phase = "pulling" /\ snapshot'.cursor = snapshot.cursor
      /\ snapshot'.receivedPages = snapshot.receivedPages
  BY <1>1, <1>2 DEF Snapshots
<1>4. ~Started /\ ~Started' /\ ~Waiting'
  BY <1>1, <1>2 DEF Started, Waiting
<1>5. accepted' = <<>> /\ issued' = NothingIssued
  BY <1>2, <1>4 DEF Accounts, ChainOK, AttemptsOK, history
<1>6. ChainOK' /\ PagesOK'
  BY <1>2, <1>3, <1>4, <1>5 DEF Accounts, ChainOK, PagesOK, EndCursor, history
<1>7. AttemptsOK'
  BY <1>2, <1>3, <1>4, <1>5 DEF AttemptsOK, NothingIssued
<1> QED BY <1>6, <1>7 DEF Accounts

LEMMA FirstPullAccounts ==
    ASSUME Control, Accounts, FirstPull
    PROVE  Accounts'
<1>1. /\ todo = "firstPull" /\ connected /\ snapshot.phase = "pulling" /\ ~timer
      /\ InitialCursor \in AnyCursor
  BY DEF FirstPull, Control, TodoOK, TimerOK, AnyCursor
<1>2. accepted = <<>> /\ issued = NothingIssued
  BY <1>1 DEF Accounts, ChainOK, AttemptsOK, Started
<1>3. /\ requestedCursors' = {InitialCursor} /\ position' = InitialCursor /\ soFar' = 0
      /\ issued' = [issued EXCEPT ![InitialCursor] = @ + 1]
      /\ todo' = "none"
      /\ UNCHANGED <<connected, snapshot, timer, accepted>>
  BY DEF FirstPull, FreshHistory, IssuePull, shareVars
<1>4. Started' /\ Waiting'
  BY <1>1, <1>3 DEF Started, Waiting
<1>5. EndCursor' = InitialCursor /\ EndCursor = InitialCursor
  BY <1>2, <1>3 DEF EndCursor
<1>6. ChainOK' /\ PagesOK'
  BY <1>1, <1>2, <1>3, <1>4, <1>5 DEF Accounts, ChainOK, PagesOK
<1>7. \A c \in AnyCursor : issued'[c] = IF c = InitialCursor THEN 1 ELSE 0
  BY <1>1, <1>2, <1>3 DEF NothingIssued
<1>8. AttemptsOK'
  BY <1>1, <1>3, <1>4, <1>7 DEF AttemptsOK
<1> QED BY <1>6, <1>8 DEF Accounts

LEMMA NextPullAccounts ==
    ASSUME Control, Accounts, NextPull
    PROVE  Accounts'
<1>1. /\ todo = "nextPull" /\ connected /\ snapshot.phase = "pulling" /\ ~timer
      /\ snapshot.cursor \in AnyCursor /\ issued \in [AnyCursor -> Nat]
  BY DEF NextPull, Control, TodoOK, TimerOK, TypeOK, Snapshots
<1>2. /\ position' = snapshot.cursor /\ soFar' = 0
      /\ issued' = [issued EXCEPT ![snapshot.cursor] = @ + 1]
      /\ todo' = "none"
      /\ UNCHANGED <<connected, snapshot, requestedCursors, timer, accepted>>
  BY DEF NextPull, IssuePull, shareVars
<1>3. Started /\ Started' /\ Waiting'
  BY <1>1, <1>2 DEF Started, Waiting
<1>4. EndCursor' = EndCursor /\ Last' = Last
  BY <1>2 DEF EndCursor, Last
<1>5. ChainOK' /\ PagesOK'
  BY <1>1, <1>2, <1>3, <1>4 DEF Accounts, ChainOK, PagesOK
<1>6. issued[snapshot.cursor] = 0 /\ snapshot.cursor \in requestedCursors
  BY <1>1 DEF Accounts, AttemptsOK
<1>7. \A c \in AnyCursor : issued'[c] = IF c = snapshot.cursor THEN 1 ELSE issued[c]
  BY <1>1, <1>2, <1>6
<1>8. AttemptsOK'
  BY <1>1, <1>2, <1>3, <1>6, <1>7 DEF Accounts, AttemptsOK
<1> QED BY <1>5, <1>8 DEF Accounts

LEMMA RetryTimerAccounts ==
    ASSUME Control, Accounts, RetryTimer
    PROVE  Accounts'
<1>1. /\ todo = "none" /\ timer /\ connected /\ snapshot.phase = "pulling"
      /\ position \in AnyCursor /\ issued \in [AnyCursor -> Nat] /\ soFar \in 0 .. MaxRetries
  BY DEF RetryTimer, Quiet, Control, TimerOK, TypeOK
<1>2. /\ issued' = [issued EXCEPT ![position] = @ + 1]
      /\ timer' = FALSE
      /\ UNCHANGED <<connected, snapshot, requestedCursors, position, soFar, todo, accepted>>
  BY DEF RetryTimer, IssuePull, shareVars
<1>3. Started /\ Started' /\ Waiting /\ Waiting'
  BY <1>1, <1>2 DEF Started, Waiting
<1>4. EndCursor' = EndCursor /\ Last' = Last
  BY <1>2 DEF EndCursor, Last
<1>5. ChainOK' /\ PagesOK'
  BY <1>1, <1>2, <1>3, <1>4 DEF Accounts, ChainOK, PagesOK
<1>6. issued[position] = soFar /\ position \in requestedCursors
  BY <1>1, <1>3 DEF Accounts, AttemptsOK
<1>7. \A c \in AnyCursor : issued'[c] = IF c = position THEN soFar + 1 ELSE issued[c]
  BY <1>1, <1>2, <1>6
<1>8. AttemptsOK'
  BY <1>1, <1>2, <1>3, <1>6, <1>7 DEF Accounts, AttemptsOK
<1> QED BY <1>5, <1>8 DEF Accounts

LEMMA EmitCompletedAccounts ==
    ASSUME Control, Accounts, EmitCompleted
    PROVE  Accounts'
<1>1. /\ snapshot \in Snapshots /\ snapshot.phase = "pulling" /\ todo = "completed" /\ connected
  BY DEF EmitCompleted, Control, TodoOK, TypeOK
<1>2. /\ snapshot' = [snapshot EXCEPT !.phase = "completed"]
      /\ todo' = "complete"
      /\ UNCHANGED <<connected, pullVars, history>>
  BY <1>1, CompletedType DEF EmitCompleted, Emit, shareVars
<1>3. /\ snapshot'.phase = "completed" /\ snapshot'.cursor = snapshot.cursor
      /\ snapshot'.receivedPages = snapshot.receivedPages
  BY <1>1, <1>2 DEF Snapshots
<1>4. Started /\ Started' /\ ~Waiting'
  BY <1>1, <1>2, <1>3 DEF Started, Waiting
<1>5. EndCursor' = EndCursor /\ Last' = Last
  BY <1>2 DEF EndCursor, Last, history
<1>6. ChainOK' /\ PagesOK'
  BY <1>1, <1>2, <1>3, <1>4, <1>5 DEF Accounts, ChainOK, PagesOK, pullVars, history
<1>7. AttemptsOK'
  BY <1>1, <1>2, <1>3, <1>4 DEF Accounts, AttemptsOK, pullVars, history
<1> QED BY <1>6, <1>7 DEF Accounts

LEMMA CompleteAccounts ==
    ASSUME Control, Accounts, Complete
    PROVE  Accounts'
<1>1. /\ todo = "complete" /\ connected /\ snapshot.phase \in {"completed", "failed"}
  BY DEF Complete, Control, TodoOK, Finished
<1>2. /\ todo' = "none"
      /\ UNCHANGED <<counted, connected>>
  BY DEF Complete, counted, pullVars, history
<1>3. Started /\ Started' /\ ~Waiting' /\ EndCursor' = EndCursor /\ Last' = Last
  BY <1>1, <1>2 DEF Started, Waiting, EndCursor, Last, counted
<1>4. ChainOK' /\ PagesOK'
  BY <1>1, <1>2, <1>3 DEF Accounts, ChainOK, PagesOK, counted
<1>5. AttemptsOK'
  BY <1>1, <1>2, <1>3 DEF Accounts, AttemptsOK, counted
<1> QED BY <1>4, <1>5 DEF Accounts
LEMMA OrphanPullAccounts ==
    ASSUME Accounts, NEW call \in orphans, OrphanPull(call)
    PROVE  Accounts'
BY SameAccounts DEF OrphanPull, counted, shareVars, pullVars, history

LEMMA DropAnswerAccounts ==
    ASSUME Accounts, NEW call \in calls, DropAnswer(call)
    PROVE  Accounts'
BY SameAccounts DEF DropAnswer, counted, shareVars, pullVars, history

\* What the invariant says when an answer comes that is not dropped.
LEMMA AnsweredAccounts ==
    ASSUME Control, Accounts, NEW call \in calls, Answered(call)
    PROVE  /\ connected /\ snapshot.phase = "pulling" /\ timer = FALSE /\ todo = "none"
           /\ Started /\ Waiting
           /\ call.cursor = position /\ position = EndCursor /\ position \in AnyCursor
           /\ position \in requestedCursors /\ issued[position] = soFar + 1
<1>1. /\ connected /\ snapshot.phase = "pulling" /\ timer = FALSE /\ todo = "none"
      /\ call.cursor = position
  BY AnsweredFacts
<1>2. Started /\ Waiting
  BY <1>1 DEF Started, Waiting
<1>3. position = EndCursor /\ position \in requestedCursors /\ issued[position] = soFar + 1
  BY <1>1, <1>2 DEF Accounts, ChainOK, AttemptsOK
<1> QED BY <1>1, <1>2, <1>3 DEF Control, TypeOK

LEMMA AcceptPageAccounts ==
    ASSUME Control, Accounts, NEW call \in calls, NEW page \in Pages, AcceptPage(call, page)
    PROVE  Accounts'
<1> DEFINE n == Len(accepted)
           new == [from |-> call.cursor, page |-> page]
<1>1. /\ connected /\ snapshot.phase = "pulling" /\ timer = FALSE /\ todo = "none"
      /\ Started /\ Waiting
      /\ call.cursor = position /\ position = EndCursor
      /\ position \in requestedCursors /\ issued[position] = soFar + 1
  BY AnsweredAccounts DEF AcceptPage
<1>2. /\ snapshot \in Snapshots /\ accepted \in Seq([from : AnyCursor, page : Pages])
      /\ issued \in [AnyCursor -> Nat] /\ page.cursor \in AnyCursor /\ page.has_more \in BOOLEAN
  BY DEF Control, TypeOK, Pages
<1>3. /\ requestedCursors' = IF page.has_more THEN requestedCursors \cup {page.cursor}
                                             ELSE requestedCursors
      /\ page.has_more => page.cursor \notin requestedCursors
      /\ todo' = IF page.has_more THEN "nextPull" ELSE "completed"
      /\ UNCHANGED <<connected, position, soFar, timer, issued>>
  BY DEF AcceptPage, CursorStalls, shareVars
<1>4. /\ snapshot'.phase = "pulling" /\ snapshot'.cursor = page.cursor
      /\ snapshot'.receivedPages = snapshot.receivedPages + 1
  <2>1. snapshot' = [snapshot EXCEPT !.cursor = page.cursor,
                              !.receivedPages = snapshot.receivedPages + 1,
                              !.receivedMutations = snapshot.receivedMutations + page.mutations]
    BY <1>1, <1>2, PageReceivedType DEF AcceptPage, Emit
  <2> QED BY <1>1, <1>2, <2>1 DEF Snapshots
<1>5. /\ n \in Nat /\ Len(accepted') = n + 1 /\ accepted' # <<>>
      /\ \A i \in 1 .. n : accepted'[i] = accepted[i]
      /\ accepted'[n + 1] = new
  BY <1>2 DEF AcceptPage
<1>6. new.from = position /\ new.page = page
  BY <1>1
<1>7. Last' = new /\ EndCursor' = page.cursor
  BY <1>5, <1>6 DEF Last, EndCursor
<1>8. Started' /\ ~Waiting'
  BY <1>1, <1>3, <1>4 DEF Started, Waiting
<1>9. position = IF n = 0 THEN InitialCursor ELSE accepted[n].page.cursor
  BY <1>1, <1>2 DEF EndCursor, Last
<1>10. ChainOK'
  <2>1. ASSUME NEW i \in 1 .. n + 1
        PROVE  /\ accepted'[i].from = IF i = 1 THEN InitialCursor ELSE accepted'[i-1].page.cursor
               /\ i < n + 1 => accepted'[i].page.has_more
    <3>1. CASE i = n + 1
      BY <1>5, <1>6, <1>9, <3>1
    <3>2. CASE i \in 1 .. n
      <4>1. accepted'[i] = accepted[i] /\ (i # 1 => accepted'[i-1] = accepted[i-1])
        BY <1>5, <3>2
      <4>2. i < n => accepted[i].page.has_more
        BY <3>2 DEF Accounts, ChainOK
      <4>3. i = n => accepted[i].page.has_more
        BY <1>1, <1>5, <3>2 DEF Accounts, ChainOK, Last
      <4> QED BY <1>5, <3>2, <4>1, <4>2, <4>3 DEF Accounts, ChainOK
    <3> QED BY <1>5, <3>1, <3>2
  <2>2. snapshot'.receivedPages = n + 1
    BY <1>4 DEF Accounts, ChainOK
  <2> QED BY <1>3, <1>4, <1>5, <1>6, <1>7, <1>8, <2>1, <2>2 DEF ChainOK
<1>11. \A i \in 1 .. n : accepted[i].from \in requestedCursors /\ accepted[i].from # position
  BY <1>1 DEF Accounts, PagesOK
<1>12. PagesOK'
  <2>1. ASSUME NEW i \in 1 .. n + 1
        PROVE  /\ accepted'[i].from \in requestedCursors
               /\ i # n + 1 => accepted'[i].from # position
    BY <1>1, <1>5, <1>6, <1>11
  <2>2. ASSUME NEW i \in 1 .. n + 1, NEW j \in 1 .. n + 1, accepted'[i].from = accepted'[j].from
        PROVE  i = j
    <3>1. CASE i = n + 1 \/ j = n + 1
      BY <1>5, <1>6, <2>1, <2>2, <3>1
    <3>2. CASE i \in 1 .. n /\ j \in 1 .. n
      BY <1>5, <2>2, <3>2 DEF Accounts, PagesOK
    <3> QED BY <1>5, <3>1, <3>2
  <2> QED BY <1>3, <1>5, <1>7, <1>8, <2>1, <2>2 DEF PagesOK
<1>13. AttemptsOK'
  <2>1. page.has_more => issued[page.cursor] = 0
    BY <1>1, <1>2, <1>3 DEF Accounts, AttemptsOK
  <2>2. \A c \in AnyCursor : issued[c] > 0 => c \in requestedCursors'
    BY <1>1, <1>3 DEF Accounts, AttemptsOK
  <2>3. \A c \in requestedCursors : issued[c] > 0
    BY <1>1 DEF Accounts, AttemptsOK
  <2>4. requestedCursors' \ {snapshot'.cursor} \subseteq requestedCursors
    BY <1>3, <1>4
  <2> QED BY <1>3, <1>4, <1>8, <2>1, <2>2, <2>3, <2>4 DEF Accounts, AttemptsOK
<1> QED BY <1>10, <1>12, <1>13 DEF Accounts

\* Not a contract failure: the attempts at the page are used up.
LEMMA FailAccounts ==
    ASSUME Control, Accounts, NEW call \in calls, Answered(call),
           NEW error, Fail(error),
           ClassifySyncFailure(error) # "contract" => soFar = MaxRetries
    PROVE  Accounts'
<1>1. /\ connected /\ snapshot.phase = "pulling" /\ Started /\ Waiting
      /\ issued[position] = soFar + 1
  BY AnsweredAccounts
<1>2. snapshot \in Snapshots /\ ClassifySyncFailure(error) \in FailureKinds
  BY ClassifyType DEF Control, TypeOK
<1>3. /\ todo' = "complete"
      /\ UNCHANGED <<connected, requestedCursors, position, soFar, timer, accepted, issued>>
  BY DEF Fail, shareVars, pullVars, history
<1>4. /\ snapshot'.phase = "failed" /\ snapshot'.cursor = snapshot.cursor
      /\ snapshot'.receivedPages = snapshot.receivedPages
      /\ snapshot'.failure = ClassifySyncFailure(error)
  <2>1. snapshot' = [snapshot EXCEPT !.phase = "failed", !.failure = ClassifySyncFailure(error)]
    BY <1>1, <1>2, FailedType DEF Fail, Emit
  <2> QED BY <1>2, <2>1 DEF Snapshots
<1>5. Started' /\ ~Waiting' /\ EndCursor' = EndCursor /\ Last' = Last
  BY <1>1, <1>3, <1>4 DEF Started, Waiting, EndCursor, Last
<1>6. ChainOK' /\ PagesOK'
  BY <1>1, <1>3, <1>4, <1>5 DEF Accounts, ChainOK, PagesOK
<1>7. AttemptsOK'
  BY <1>1, <1>3, <1>4, <1>5 DEF Accounts, AttemptsOK
<1> QED BY <1>6, <1>7 DEF Accounts

LEMMA ScheduleRetryAccounts ==
    ASSUME Control, Accounts, NEW call \in calls, ScheduleRetry(call)
    PROVE  Accounts'
<1>1. /\ connected /\ snapshot.phase = "pulling" /\ todo = "none" /\ Started /\ Waiting
      /\ position \in requestedCursors /\ issued[position] = soFar + 1
  BY AnsweredAccounts DEF ScheduleRetry
<1>2. /\ soFar' = soFar + 1 /\ timer' = TRUE
      /\ UNCHANGED <<connected, snapshot, requestedCursors, position, todo, accepted, issued>>
  BY DEF ScheduleRetry, shareVars, history
<1>3. Started' /\ Waiting' /\ EndCursor' = EndCursor /\ Last' = Last
  BY <1>1, <1>2 DEF Started, Waiting, EndCursor, Last
<1>4. ChainOK' /\ PagesOK'
  BY <1>1, <1>2, <1>3 DEF Accounts, ChainOK, PagesOK
<1>5. AttemptsOK'
  <2>1. issued'[position'] = soFar' + (IF timer' THEN 0 ELSE 1)
    <3>1. soFar \in 0 .. MaxRetries
      BY DEF Control, TypeOK
    <3> QED BY <1>1, <1>2, <3>1
  <2> QED BY <1>1, <1>2, <1>3, <2>1 DEF Accounts, AttemptsOK
<1> QED BY <1>4, <1>5 DEF Accounts

LEMMA AnswerAccounts ==
    ASSUME Control, Accounts, NEW call \in calls, Answer(call)
    PROVE  Accounts'
<1>1. CASE DropAnswer(call)
  BY <1>1, DropAnswerAccounts
<1>2. ASSUME NEW page \in Pages, AcceptPage(call, page)
      PROVE  Accounts'
  BY <1>2, AcceptPageAccounts
<1>3. ASSUME NEW page \in Pages, RejectStall(call, page)
      PROVE  Accounts'
  <2>1. ClassifySyncFailure("ContractError") = "contract"
    BY DEF ClassifySyncFailure
  <2> QED BY <1>3, <2>1, FailAccounts DEF RejectStall
<1>4. ASSUME NEW error, GiveUp(call, error)
      PROVE  Accounts'
  <2>1. soFar = MaxRetries
    BY <1>4 DEF GiveUp, Control, TypeOK
  <2> QED BY <1>4, <2>1, FailAccounts DEF GiveUp
<1>5. CASE ScheduleRetry(call)
  BY <1>5, ScheduleRetryAccounts
<1> QED BY <1>1, <1>2, <1>3, <1>4, <1>5 DEF Answer, AttemptFails

LEMMA AccountsNext == Control /\ Accounts /\ [Next]_vars => Accounts'
<1> SUFFICES ASSUME Control, Accounts, [Next]_vars PROVE Accounts'
  OBVIOUS
<1>1. CASE UNCHANGED vars
  BY <1>1, SameAccounts DEF vars, counted, shareVars, pullVars, history
<1>2. ASSUME NEW s \in Subscribers, FirstSubscribe(s) \/ LateSubscribe(s) \/ Unsubscribe(s)
      PROVE  Accounts'
  BY <1>2, FirstSubscribeAccounts, LateSubscribeAccounts, UnsubscribeAccounts
<1>3. CASE Continue
  BY <1>3, EmitStartedAccounts, FirstPullAccounts, NextPullAccounts, EmitCompletedAccounts,
     CompleteAccounts, OrphanPullAccounts DEF Continue
<1>4. ASSUME NEW call \in calls, Answer(call)
      PROVE  Accounts'
  BY <1>4, AnswerAccounts
<1>5. CASE RetryTimer
  BY <1>5, RetryTimerAccounts
<1> QED BY <1>1, <1>2, <1>3, <1>4, <1>5 DEF Next

LEMMA AccountsAlways == Spec => []Accounts
<1>1. Init => Accounts
  BY AccountsInit
<1>2. Control /\ Accounts /\ [Next]_vars => Accounts'
  BY AccountsNext
<1> QED BY <1>1, <1>2, ControlAlways, PTL DEF Spec

-----------------------------------------------------------------------------
(* What follows *)

\* "Retry never replays accepted pages": the accepted pages form one chain from
\* the initial cursor, and no two of them answer the same cursor.
THEOREM PagesAreNotReplayed == Spec => []NoPageReplayed
<1>1. Accounts => NoPageReplayed
  BY DEF Accounts, ChainOK, PagesOK, NoPageReplayed
<1> QED BY <1>1, AccountsAlways, PTL

\* Every page has a retry budget of its own, which a failure that is not one of
\* the contract has used up.
THEOREM RetriesAreBounded == Spec => []RetriesArePerPage
<1>1. Accounts => RetriesArePerPage
  BY DEF Accounts, AttemptsOK, RetriesArePerPage
<1> QED BY <1>1, AccountsAlways, PTL

\* The cursor guard refuses the cursors that this execution has asked for, and no
\* others: none of an earlier execution, and all of its own.
THEOREM HistoryIsOfExecution == Spec => []HistoryIsOwn
<1>1. ASSUME Control, Accounts, Quiet, connected, ~hasCompleted
      PROVE  requestedCursors = {c \in AnyCursor : issued[c] > 0}
  <2>1. Started /\ Waiting
    BY <1>1 DEF Control, WaitOK, Quiet, Started, Waiting
  <2>2. requestedCursors \subseteq AnyCursor
    BY <1>1 DEF Control, TypeOK
  <2>3. \A c \in AnyCursor : issued[c] > 0 <=> c \in requestedCursors
    BY <1>1, <2>1, <2>2 DEF Accounts, AttemptsOK
  <2> QED BY <2>2, <2>3
<1>2. Control /\ Accounts => HistoryIsOwn
  BY <1>1 DEF HistoryIsOwn
<1> QED BY <1>2, ControlAlways, AccountsAlways, PTL

\* The stream completes exactly at the page that said there is no more.
THEOREM CompletionIsTrue == Spec => []CompletedIsComplete
<1>1. Accounts => CompletedIsComplete
  BY DEF Accounts, ChainOK, CompletedIsComplete, Last
<1> QED BY <1>1, AccountsAlways, PTL
-----------------------------------------------------------------------------
(* The count of mutations *)

\* A sum over the accepted pages is a function that is defined by recursion.  There
\* is one, and every one ends at the count of the snapshot: a page that is accepted
\* adds a value at the end, so the steps of the stream do what an induction over
\* the pages would.
IsSum(f, pages) ==
    f = [i \in 0 .. Len(pages) |->
            IF i = 0 THEN 0 ELSE f[i-1] + pages[i].page.mutations]

TotalsOK ==
    /\ \E f : IsSum(f, accepted)
    /\ \A f : IsSum(f, accepted) => f[Len(accepted)] = snapshot.receivedMutations

LEMMA FreshTotals ==
    ASSUME accepted' = <<>>, snapshot' = Initial
    PROVE  TotalsOK'
<1>1. snapshot'.receivedMutations = 0 /\ Len(accepted') = 0
  BY DEF Initial
<1>2. IsSum([i \in 0 .. 0 |-> 0], accepted')
  BY DEF IsSum
<1>3. \A f : IsSum(f, accepted') => f[0] = 0
  BY <1>1 DEF IsSum
<1> QED BY <1>1, <1>2, <1>3 DEF TotalsOK

LEMMA SameTotals ==
    ASSUME TotalsOK, accepted' = accepted,
           snapshot'.receivedMutations = snapshot.receivedMutations
    PROVE  TotalsOK'
BY DEF TotalsOK

LEMMA AcceptPageTotals ==
    ASSUME Control, Accounts, TotalsOK, NEW call \in calls, NEW page \in Pages,
           AcceptPage(call, page)
    PROVE  TotalsOK'
<1> DEFINE n == Len(accepted)
<1>1. /\ snapshot \in Snapshots /\ snapshot.phase = "pulling"
      /\ accepted \in Seq([from : AnyCursor, page : Pages])
  BY AnsweredAccounts DEF AcceptPage, Control, TypeOK
<1>2. snapshot'.receivedMutations = snapshot.receivedMutations + page.mutations
  <2>1. snapshot' = [snapshot EXCEPT !.cursor = page.cursor,
                              !.receivedPages = snapshot.receivedPages + 1,
                              !.receivedMutations = snapshot.receivedMutations + page.mutations]
    BY <1>1, PageReceivedType DEF AcceptPage, Emit
  <2> QED BY <1>1, <2>1 DEF Snapshots
<1>3. /\ n \in Nat /\ Len(accepted') = n + 1
      /\ \A i \in 1 .. n : accepted'[i] = accepted[i]
      /\ accepted'[n + 1].page = page
  BY <1>1 DEF AcceptPage
<1>4. ASSUME NEW f, IsSum(f, accepted)
      PROVE  \E g : IsSum(g, accepted')
  <2> DEFINE g == [i \in 0 .. n + 1 |-> IF i = n + 1 THEN f[n] + page.mutations ELSE f[i]]
  <2>1. ASSUME NEW i \in 0 .. n + 1
        PROVE  g[i] = IF i = 0 THEN 0 ELSE g[i-1] + accepted'[i].page.mutations
    <3>1. CASE i = n + 1
      BY <1>3, <3>1
    <3>2. CASE i \in 0 .. n
      <4>1. f[i] = IF i = 0 THEN 0 ELSE f[i-1] + accepted[i].page.mutations
        BY <1>4, <3>2 DEF IsSum
      <4>2. g[i] = f[i] /\ (i # 0 => g[i-1] = f[i-1] /\ accepted'[i] = accepted[i])
        BY <1>3, <3>2
      <4> QED BY <4>1, <4>2
    <3> QED BY <1>3, <3>1, <3>2
  <2>2. IsSum(g, accepted')
    BY <1>3, <2>1 DEF IsSum
  <2> QED BY <2>2
<1>5. ASSUME NEW g, IsSum(g, accepted')
      PROVE  g[n + 1] = snapshot'.receivedMutations
  <2> DEFINE f == [i \in 0 .. n |-> g[i]]
  <2>1. \A i \in 0 .. n + 1 : g[i] = IF i = 0 THEN 0 ELSE g[i-1] + accepted'[i].page.mutations
    BY <1>3, <1>5 DEF IsSum
  <2>2. ASSUME NEW i \in 0 .. n
        PROVE  f[i] = IF i = 0 THEN 0 ELSE f[i-1] + accepted[i].page.mutations
    BY <1>3, <2>1, <2>2
  <2>3. IsSum(f, accepted)
    BY <2>2 DEF IsSum
  <2>4. f[n] = snapshot.receivedMutations
    BY <2>3 DEF TotalsOK
  <2>5. g[n] = snapshot.receivedMutations
    BY <1>3, <2>4
  <2>6. n + 1 \in 0 .. n + 1 /\ n + 1 # 0 /\ (n + 1) - 1 = n
    BY <1>3
  <2>7. g[n + 1] = g[n] + accepted'[n + 1].page.mutations
    BY ONLY <2>1, <2>6
  <2> QED BY ONLY <1>2, <1>3, <2>5, <2>7
<1> QED BY <1>3, <1>4, <1>5 DEF TotalsOK

\* All other steps leave the pages and their count alone, or begin anew.
LEMMA TotalsNext == Control /\ Accounts /\ TotalsOK /\ [Next]_vars => TotalsOK'
<1> SUFFICES ASSUME Control, Accounts, TotalsOK, [Next]_vars PROVE TotalsOK'
  OBVIOUS
<1>1. snapshot \in Snapshots
  BY DEF Control, TypeOK
<1>2. CASE UNCHANGED vars
  BY <1>2, SameTotals DEF vars, history
<1>3. ASSUME NEW s \in Subscribers, FirstSubscribe(s) \/ LateSubscribe(s) \/ Unsubscribe(s)
      PROVE  TotalsOK'
  <2>1. CASE FirstSubscribe(s)
    <3>1. ~connected /\ snapshot = Initial
      BY <2>1 DEF FirstSubscribe, Control, ShareOK
    <3> QED BY <2>1, <3>1, SameTotals DEF FirstSubscribe, history
  <2>2. CASE LateSubscribe(s)
    BY <2>2, SameTotals DEF LateSubscribe, history
  <2>3. CASE ResetConnection
    BY <2>3, FreshTotals DEF ResetConnection
  <2>4. CASE UNCHANGED <<connected, snapshot, calls, timer, todo, orphans, history>>
    BY <2>4, SameTotals DEF history
  <2> QED BY <1>3, <2>1, <2>2, <2>3, <2>4 DEF Unsubscribe
<1>4. CASE EmitStarted
  <2>1. snapshot' = [snapshot EXCEPT !.phase = "pulling"] /\ UNCHANGED history
    BY <1>1, <1>4, StartedType DEF EmitStarted, Emit, Control, TodoOK
  <2> QED BY <1>1, <2>1, SameTotals DEF history, Snapshots
<1>5. CASE EmitCompleted
  <2>1. snapshot' = [snapshot EXCEPT !.phase = "completed"] /\ UNCHANGED history
    BY <1>1, <1>5, CompletedType DEF EmitCompleted, Emit, Control, TodoOK
  <2> QED BY <1>1, <2>1, SameTotals DEF history, Snapshots
<1>6. CASE FirstPull \/ NextPull \/ Complete \/ RetryTimer \/ \E call \in orphans : OrphanPull(call)
  BY <1>6, SameTotals DEF FirstPull, NextPull, Complete, RetryTimer, OrphanPull, IssuePull,
     history, pullVars
<1>7. ASSUME NEW call \in calls, Answer(call)
      PROVE  TotalsOK'
  <2>1. CASE DropAnswer(call) \/ ScheduleRetry(call)
    BY <2>1, SameTotals DEF DropAnswer, ScheduleRetry, history
  <2>2. ASSUME NEW page \in Pages, AcceptPage(call, page)
        PROVE  TotalsOK'
    BY <2>2, AcceptPageTotals
  <2>3. ASSUME NEW error, Answered(call), Fail(error)
        PROVE  TotalsOK'
    <3>1. snapshot.phase = "pulling" /\ ClassifySyncFailure(error) \in FailureKinds
      BY <2>3, AnsweredFacts, ClassifyType
    <3>2. /\ snapshot' = [snapshot EXCEPT !.phase = "failed", !.failure = ClassifySyncFailure(error)]
          /\ UNCHANGED history
      BY <1>1, <2>3, <3>1, FailedType DEF Fail, Emit
    <3> QED BY <1>1, <3>2, SameTotals DEF history, Snapshots
  <2> QED BY <1>7, <2>1, <2>2, <2>3 DEF Answer, AttemptFails, RejectStall, GiveUp
<1> QED BY <1>2, <1>3, <1>4, <1>5, <1>6, <1>7 DEF Next, Continue

\* Whatever is retried, the snapshot counts each accepted page and its mutations
\* once, and its cursor is where the last of them ended.
THEOREM CountsAreExact == Spec => []SnapshotCountsPages
<1>1. ASSUME Accounts, TotalsOK
      PROVE  SnapshotCountsPages
  <2> DEFINE n == Len(accepted)
             f == CHOOSE g : IsSum(g, accepted)
  <2>1. IsSum(f, accepted)
    BY <1>1 DEF TotalsOK
  <2>2. f[n] = snapshot.receivedMutations
    BY <1>1, <2>1 DEF TotalsOK
  <2>3. /\ snapshot.receivedPages = n
        /\ snapshot.cursor = IF n = 0 THEN InitialCursor ELSE accepted[n].page.cursor
    BY <1>1 DEF Accounts, ChainOK, EndCursor, Last
  <2> QED BY <2>2, <2>3 DEF SnapshotCountsPages, IsSum
<1>2. Init => TotalsOK
  <2> SUFFICES ASSUME Init PROVE TotalsOK
    OBVIOUS
  <2>1. accepted = <<>> /\ snapshot.receivedMutations = 0 /\ Len(accepted) = 0
    BY DEF Init, Initial
  <2>2. IsSum([i \in 0 .. 0 |-> 0], accepted)
    BY <2>1 DEF IsSum
  <2>3. \A f : IsSum(f, accepted) => f[0] = 0
    BY <2>1 DEF IsSum
  <2> QED BY <2>1, <2>2, <2>3 DEF TotalsOK
<1>3. Control /\ Accounts /\ TotalsOK /\ [Next]_vars => TotalsOK'
  BY TotalsNext
<1> QED BY <1>1, <1>2, <1>3, ControlAlways, AccountsAlways, PTL DEF Spec

-----------------------------------------------------------------------------
(* The end, and what comes too late *)

LEMMA EndIsQuiet ==
    ASSUME Control, hasCompleted
    PROVE  /\ connected /\ Attached = {} /\ ~timer /\ todo = "none"
           /\ \A c \in calls : c.closed /\ c.aborted
BY DEF Control, ShareOK, Finished, TodoOK, TimerOK, CallsOK

\* After the end nothing is requested and nothing changes any more.
THEOREM EndIsFinal == Spec => CompletionIsFinal
<1>1. ASSUME Control, hasCompleted, [Next]_vars
      PROVE  UNCHANGED <<hasCompleted, snapshot, timer>> /\ \A c \in calls' : c.aborted
  <2>1. /\ connected /\ Attached = {} /\ ~timer /\ todo = "none"
        /\ \A c \in calls : c.closed /\ c.aborted
    BY <1>1, EndIsQuiet
  <2>2. CASE UNCHANGED vars
    BY <2>1, <2>2 DEF vars, shareVars, pullVars
  <2>3. ASSUME NEW s \in Subscribers, FirstSubscribe(s) \/ LateSubscribe(s) \/ Unsubscribe(s)
        PROVE  UNCHANGED <<hasCompleted, snapshot, timer, calls>>
    BY <2>1, <2>3 DEF FirstSubscribe, LateSubscribe, Unsubscribe, Attached, shareVars, pullVars
  <2>4. CASE Continue
    <3>1. PICK call \in orphans : OrphanPull(call)
      BY <2>1, <2>4 DEF Continue, EmitStarted, FirstPull, NextPull, EmitCompleted, Complete
    <3>2. Teardown(call).aborted
      BY <1>1, TeardownType DEF Control, TypeOK
    <3> QED BY <2>1, <3>1, <3>2 DEF OrphanPull, shareVars, pullVars
  <2>5. ASSUME NEW call \in calls, Answer(call)
        PROVE  UNCHANGED <<hasCompleted, snapshot, timer>> /\ calls' \subseteq calls
    <3>1. ~Answered(call)
      BY <2>1 DEF Answered, Closed
    <3>2. DropAnswer(call)
      BY <2>5, <3>1 DEF Answer, AcceptPage, RejectStall, AttemptFails, ScheduleRetry, GiveUp
    <3> QED BY <3>2 DEF DropAnswer, shareVars, pullVars
  <2>6. ~RetryTimer
    BY <2>1 DEF RetryTimer
  <2> QED BY <1>1, <2>1, <2>2, <2>3, <2>4, <2>5, <2>6 DEF Next
<1>2. Control /\ [Next]_vars =>
        (hasCompleted => /\ UNCHANGED <<hasCompleted, snapshot, timer>>
                         /\ OpenCalls' = {})
  BY <1>1 DEF OpenCalls
<1> QED BY <1>2, ControlAlways, PTL DEF Spec, CompletionIsFinal

\* An answer to a request that was torn down is dropped.
THEOREM LateAnswersAreDropped == Spec => LateAnswersIgnored
<1>1. ASSUME Control, [Next]_vars, NEW late \in calls, late.aborted, calls' = calls \ {late}
      PROVE  UNCHANGED <<consumerVars, shareVars, snapshot, pullVars>>
  <2>1. late \notin calls' /\ late.closed
    BY <1>1 DEF Control, CallsOK
  <2>2. ~UNCHANGED vars
    BY <1>1, <2>1 DEF vars
  <2>3. ASSUME NEW s \in Subscribers, FirstSubscribe(s) \/ LateSubscribe(s) \/ Unsubscribe(s)
        PROVE  FALSE
    <3>1. CASE UNCHANGED calls
      BY <1>1, <2>1, <3>1
    <3>2. CASE ResetConnection
      <4>1. calls' = {IF c.execution = execution /\ ~c.closed THEN Teardown(c) ELSE c : c \in calls}
        BY <3>2 DEF ResetConnection
      <4> QED BY <1>1, <2>1, <4>1
    <3> QED BY <2>3, <3>1, <3>2 DEF FirstSubscribe, LateSubscribe, Unsubscribe
  <2>4. ~Continue
    BY <1>1, <2>1 DEF Continue, EmitStarted, FirstPull, NextPull, EmitCompleted, Complete,
                      OrphanPull, IssuePull
  <2>5. ~RetryTimer
    BY <1>1, <2>1 DEF RetryTimer, IssuePull
  <2>6. ASSUME NEW call \in calls, Answer(call)
        PROVE  UNCHANGED <<consumerVars, shareVars, snapshot, pullVars>>
    <3>1. CASE Answered(call)
      BY <1>1, <2>1, <3>1 DEF Answered, Closed
    <3>2. CASE DropAnswer(call)
      BY <3>2 DEF DropAnswer
    <3> QED
      BY <2>6, <3>1, <3>2 DEF Answer, AcceptPage, RejectStall, AttemptFails, ScheduleRetry, GiveUp
  <2> QED BY <1>1, <2>2, <2>3, <2>4, <2>5, <2>6 DEF Next
<1>2. Control /\ [Next]_vars =>
        \A c \in calls : c.aborted /\ calls' = calls \ {c}
            => UNCHANGED <<consumerVars, shareVars, snapshot, pullVars>>
  BY <1>1
<1> QED BY <1>2, ControlAlways, PTL DEF Spec, LateAnswersIgnored
-----------------------------------------------------------------------------
(* The stream implements SyncFeed. *)

LEMMA FeedInit == Init => Feed!Init
BY DEF Init, Initial, Feed!Init, Feed!Idle

LEMMA FeedStutters ==
    ASSUME UNCHANGED <<consumerVars, shareVars, snapshot>>
    PROVE  UNCHANGED Feed!vars
BY DEF Feed!vars, consumerVars, shareVars

LEMMA FirstSubscribeJoins ==
    ASSUME Control, NEW s \in Subscribers, FirstSubscribe(s)
    PROVE  Feed!Join(s)
<1>1. ~connected /\ snapshot = Initial /\ ~hasCompleted
  BY DEF FirstSubscribe, Control, ShareOK
<1> QED BY <1>1 DEF FirstSubscribe, Feed!Join

LEMMA LateSubscribeJoins ==
    ASSUME NEW s \in Subscribers, LateSubscribe(s)
    PROVE  Feed!Join(s)
BY DEF LateSubscribe, Feed!Join, shareVars

LEMMA UnsubscribeLeaves ==
    ASSUME Control, NEW s \in Subscribers, Unsubscribe(s)
    PROVE  Feed!Leave(s)
<1>1. s \in Attached
  BY DEF Unsubscribe, Attached
<1>2. connected = TRUE /\ ~hasCompleted
  BY <1>1 DEF Control, TypeOK, ShareOK
<1>3. Attached = {s} <=> \A t \in Subscribers \ {s} : status[t] # "in"
  BY <1>1 DEF Attached
<1>4. /\ connected' = (connected /\ ~(\A t \in Subscribers \ {s} : status[t] # "in"))
      /\ snapshot' = IF \A t \in Subscribers \ {s} : status[t] # "in" THEN Feed!Idle ELSE snapshot
  <2>1. CASE Attached = {s}
    BY <1>2, <1>3, <2>1 DEF Unsubscribe, ResetConnection, Initial, Feed!Idle
  <2>2. CASE Attached # {s}
    BY <1>2, <1>3, <2>2 DEF Unsubscribe
  <2> QED BY <2>1, <2>2
<1> QED BY <1>4 DEF Unsubscribe, Initial, Feed!Idle, Feed!Leave

\* An emission advances the feed.
LEMMA EmissionAdvances ==
    ASSUME connected, ~hasCompleted, NEW new, Emit(new), Feed!Follows(snapshot, new),
           UNCHANGED <<status, shareVars>>
    PROVE  Feed!Next
<1>1. /\ snapshot' = new
      /\ seen' = [s \in Subscribers |-> IF status[s] = "in" THEN snapshot' ELSE seen[s]]
  BY DEF Emit, Attached
<1>2. Feed!Advance
  BY <1>1 DEF Feed!Advance, shareVars
<1> QED BY <1>2 DEF Feed!Next

LEMMA ContinueAdvances ==
    ASSUME Control, Accounts, Continue
    PROVE  Feed!Next \/ UNCHANGED Feed!vars
<1>1. CASE EmitStarted
  <2>1. connected /\ ~hasCompleted /\ snapshot.phase = "idle" /\ snapshot \in Snapshots
    BY <1>1 DEF EmitStarted, Control, TodoOK, TypeOK
  <2>2. Feed!Follows(snapshot, ReduceStarted(snapshot))
    BY <2>1, StartedType DEF Feed!Follows, Feed!Starts
  <2> QED BY <1>1, <2>1, <2>2, EmissionAdvances DEF EmitStarted
<1>2. CASE EmitCompleted
  <2>1. connected /\ ~hasCompleted /\ snapshot.phase = "pulling" /\ snapshot \in Snapshots
    BY <1>2 DEF EmitCompleted, Control, TodoOK, TypeOK
  <2>2. snapshot.receivedPages > 0
    <3>1. accepted # <<>> /\ snapshot.receivedPages = Len(accepted)
      BY <1>2 DEF EmitCompleted, Accounts, ChainOK
    <3>2. accepted \in Seq([from : AnyCursor, page : Pages])
      BY DEF Control, TypeOK
    <3> QED BY <3>1, <3>2
  <2>3. Feed!Follows(snapshot, ReduceCompleted(snapshot))
    BY <2>1, <2>2, CompletedType DEF Feed!Follows, Feed!Finishes
  <2> QED BY <1>2, <2>1, <2>3, EmissionAdvances DEF EmitCompleted
<1>3. CASE Complete
  <2>1. connected /\ ~hasCompleted /\ Finished
    BY <1>3 DEF Complete, Control, TodoOK
  <2>2. status' = [s \in Subscribers |-> IF status[s] = "in" THEN "ended" ELSE status[s]]
    BY <1>3 DEF Complete, Attached
  <2>3. Feed!Close
    BY <1>3, <2>1, <2>2 DEF Complete, Finished, Feed!Close
  <2> QED BY <2>3 DEF Feed!Next
<1>4. CASE FirstPull \/ NextPull \/ \E call \in orphans : OrphanPull(call)
  BY <1>4, FeedStutters DEF FirstPull, NextPull, OrphanPull
<1> QED BY <1>1, <1>2, <1>3, <1>4 DEF Continue

LEMMA FailAdvances ==
    ASSUME Control, NEW call \in calls, Answered(call), NEW error, Fail(error)
    PROVE  Feed!Next
<1>1. connected /\ ~hasCompleted /\ snapshot.phase = "pulling" /\ snapshot \in Snapshots
  BY AnsweredFacts DEF Control, TypeOK
<1>2. Feed!Follows(snapshot, ReduceFailed(snapshot, ClassifySyncFailure(error)))
  BY <1>1, ClassifyType, FailedType DEF Feed!Follows, Feed!Finishes
<1> QED BY <1>1, <1>2, EmissionAdvances DEF Fail

LEMMA AcceptPageAdvances ==
    ASSUME Control, NEW call \in calls, NEW page \in Pages, AcceptPage(call, page)
    PROVE  Feed!Next
<1>1. connected /\ ~hasCompleted /\ snapshot.phase = "pulling" /\ snapshot \in Snapshots
  BY AnsweredFacts DEF AcceptPage, Control, TypeOK
<1>2. page.cursor \in Cursors \cup {NoCursor} /\ page.mutations \in 0 .. MaxMutations
  BY DEF Pages, AnyCursor, AcceptPage, Normalized
<1>3. Feed!Grows(snapshot, ReducePageReceived(snapshot, page))
  BY <1>1, <1>2, PageReceivedType DEF Feed!Grows
<1>4. Feed!Follows(snapshot, ReducePageReceived(snapshot, page))
  BY <1>3 DEF Feed!Follows
<1> QED BY <1>1, <1>4, EmissionAdvances DEF AcceptPage

LEMMA AnswerAdvances ==
    ASSUME Control, NEW call \in calls, Answer(call)
    PROVE  Feed!Next \/ UNCHANGED Feed!vars
<1>1. ASSUME NEW page \in Pages, AcceptPage(call, page)
      PROVE  Feed!Next
  BY <1>1, AcceptPageAdvances
<1>2. ASSUME NEW page \in Pages, RejectStall(call, page)
      PROVE  Feed!Next
  BY <1>2, FailAdvances DEF RejectStall
<1>3. ASSUME NEW error, GiveUp(call, error)
      PROVE  Feed!Next
  BY <1>3, FailAdvances DEF GiveUp
<1>4. CASE DropAnswer(call) \/ ScheduleRetry(call)
  BY <1>4, FeedStutters DEF DropAnswer, ScheduleRetry
<1> QED BY <1>1, <1>2, <1>3, <1>4 DEF Answer, AttemptFails

\* What the consumers see is a SyncFeed: every step is a step of it, or hidden.
THEOREM StreamImplementsFeed == Spec => FeedSpec
<1>1. Init => Feed!Init
  BY FeedInit
<1>2. Control /\ Accounts /\ [Next]_vars => [Feed!Next]_(Feed!vars)
  <2> SUFFICES ASSUME Control, Accounts, [Next]_vars
               PROVE  Feed!Next \/ UNCHANGED Feed!vars
    OBVIOUS
  <2>1. CASE UNCHANGED vars \/ RetryTimer
    BY <2>1, FeedStutters DEF vars, RetryTimer
  <2>2. ASSUME NEW s \in Subscribers, FirstSubscribe(s) \/ LateSubscribe(s) \/ Unsubscribe(s)
        PROVE  Feed!Next
    BY <2>2, FirstSubscribeJoins, LateSubscribeJoins, UnsubscribeLeaves DEF Feed!Next
  <2>3. CASE Continue
    BY <2>3, ContinueAdvances
  <2>4. ASSUME NEW call \in calls, Answer(call)
        PROVE  Feed!Next \/ UNCHANGED Feed!vars
    BY <2>4, AnswerAdvances
  <2> QED BY <2>1, <2>2, <2>3, <2>4 DEF Next
<1> QED BY <1>1, <1>2, ControlAlways, AccountsAlways, PTL DEF Spec, FeedSpec, Feed!Spec
=============================================================================
