# Formal models of the ClipTown clients

TLA+ models of the stateful parts of this repository, TLC configurations that
check them, and TLAPS proofs about them. Source paths are relative to the root
of the repository. `PROJECT.json` maps every definition to the lines it models
and lists the runs, the hazards and the findings.

    tlc -config ReactiveSync.cfg ReactiveSync     # one run
    tlapm ReactiveSyncProofs.tla                  # one set of proofs

Contents: [the system](#1-the-system) · [plan](#2-plan) ·
[the sync stream](#3-the-reactive-sync-stream) · [the clipboard](#4-the-clipboard) ·
[the transfer calls](#5-the-transfer-calls) · [the sync clients](#6-the-sync-clients) ·
[the contract scripts](#7-the-contract-scripts) · [the budget](#8-the-budget) ·
[proofs](#9-what-is-proved) · [findings](#10-findings) · [limits](#11-what-is-not-covered)

## 1. The system

The repository holds client libraries for a clipboard synchronisation service
and the tools that keep them alike. The service itself is not here.

| Component | State it keeps | Operations | Talks to |
|---|---|---|---|
| Reactive sync stream, `clients/typescript/src/reactive-sync.ts` | per execution: cursor history, page being pulled, failed attempts, running snapshot; per stream: the shared subject | subscribe, unsubscribe; page answers, retry timers | a `SyncPullPort` (the HTTP client's `pull`) by calls with an `AbortSignal`; its consumers by callbacks, in which they may come and go |
| HTTP client, `clients/typescript/src/client.ts` | none between calls; each call is a chain of awaits | 11 calls over one `#request` | the host's token provider, `fetch` |
| Clipboard service, `clients/typescript/src/clipboard.ts` | none of its own; a running copy holds a decoded bitmap and its place in the chain convert, write, record | `copyText`, `copyImage`, `paste`, capability queries | the browser's clipboard, the host's recorder and error handler |
| Transfer client, `clients/go/client.go` | the hardened `http.Client` and its timeout; each call is a chain | create, list, get, acknowledge, cancel | the host's token provider, `net/http` and through it the service |
| Sync clients, `clients/rust`, `clients/dart` | none between calls | list, put, delete, search, push, pull | token provider, HTTP library |
| Thin clients, 13 languages under `clients/` | none | build one request, or a constant | |
| Blind search index (TypeScript, Rust, Dart) | none | a keyed hash of words | |
| Contract hardener, `scripts/harden_client_contract.py` | the files of the tree it rewrites | choose directories, scaffold packages, write manifest, matrix, schema, surface, markers and register, verify | the file system, which developers change between runs; may be stopped at any write |
| Contract verifiers, `scripts/verify_client_contract.py`, `scripts/client_contract_boundary.py` and two smaller ones | none | pass or fail what the hardener left | the file system |
| Functional-programming budget, `tools/fp-conformance` | a recorded budget per rule | mask, scan, compare, record | the file system |
| Package dry run, lint toolkit, schemas and fixtures | none | | |

What each must get right, and what makes it hard:

- **Sync stream.** One pull however many consumers; nothing left running when
  the last one leaves; pages accepted once, counted once and in order through
  retries; a server that stops advancing is noticed; a bounded number of
  attempts; everybody who stays is told the end. It is hard because consumers
  come and go inside the callbacks of an emission, answers arrive after their
  request was torn down, and a retry must not disturb the pages before it.
- **Clipboard.** The history says what was on the clipboard; a history problem
  does not fail a copy; no bitmap is leaked. It is hard because copies overlap
  and each of four awaits may fail.
- **Transfer client.** What may the host conclude from a result? A timeout, a
  broken connection, an answer that does not decode and a resend inside
  `net/http` all leave the fate of a write open, and a repeat must be safe.
- **HTTP client and the Rust and Dart clients.** The same question without a
  timeout, and with writes that carry no idempotency key.
- **Hardener and verifiers.** What a write leaves passes the hardener's own verify
  and the separate verifier of CI, also after a run that was killed in the
  middle; another run changes nothing; no file that developers wrote is touched;
  every target has a directory of its own. It is hard because the directories are
  chosen twice, before and after they are made, from a manifest that the run
  rewrites; because product code may stand anywhere and under older names; and
  because a stop between two writes leaves a tree that no run was meant to make.
- **Budget.** A scan passes just what is within the recorded budget, and taking
  code out never makes it fail. It is hard because comments, strings and code are
  told apart line by line, and a file counts by where it is.

The hazards behind these, each with its line and the properties that would
catch it going wrong, are under `hazards` in `PROJECT.json`.

## 2. Plan

Done, in this order:

1. `ReactiveSync`, the detailed model of the stream, and `ReactiveSyncProofs`.
2. `SyncFeed`, the abstract specification of what consumers see, implemented
   by `ReactiveSync`.
3. `SyncService`, which composes the stream with a growing log of mutations.
4. `Clipboard`.
5. `CallOutcome`, the abstract promise of a client call; `TransferCalls`, the
   Go client, which implements it; `TransferCallsProofs`.
6. `ClientCalls`: the sync clients in TypeScript, Rust and Dart, which implement
   `CallOutcome` too.

7. `ReactiveSyncHistory`, `SyncServiceProofs`, `ClipboardProofs` and
   `ClientCallsProofs`: the remaining safety properties of the clients, and that
   the stream implements `SyncFeed` and the sync clients `CallOutcome`.
8. `ApiSurface`, `ClientTargets`, `ContractHardener` and `ContractVerifier`, which
   composes the hardener with the checks of CI; `ContractHardenerProofs`.
9. `FpRules`, `FpConformance` and `FpConformanceProofs`.

What the plan leaves is under [limits](#11-what-is-not-covered).

| Run | Module | Composes |
|---|---|---|
| `reactive_sync` | `ReactiveSync` | `ReactiveSync`, `SyncFeed` |
| `sync_service` | `MCSyncService` | `SyncService`, which extends `ReactiveSync` |
| `clipboard`, `clipboard_handler` | `Clipboard` | |
| `transfer_calls`, `transfer_redirects` | `TransferCalls` | `TransferCalls`, `CallOutcome` |
| `client_calls`, `client_calls_abort` | `MCClientCalls` | `ClientCalls`, `CallOutcome` |
| `contract_hardener`, `contract_templates`, `contract_extensions` | `MCContractHardener` | `ContractVerifier`, `ContractHardener`, `ApiSurface`, `ClientTargets` |
| `fp_conformance` | `MCFpConformance` | `FpConformance`, `FpRules` |

## 3. The reactive sync stream

`observeSyncPull` builds one cold pipeline (`concat`, `defer`, `expand`, `scan`,
`catchError`, `endWith`) and shares it with
`shareReplay({bufferSize: 1, refCount: true})`. `pullPage` wraps one call of the
port in an Observable with a `retry` of its own.

### State

| Variable | In the code |
|---|---|
| `status`, `seen` | each consumer's subscription and the last snapshot it was handed |
| `connected`, `hasCompleted`, `execution` | what `share` keeps: whether its connection exists and has completed, and which one it is |
| `snapshot` | the accumulator of `scan`, which is also the replay buffer |
| `requestedCursors` | the `Set` that each `defer` makes anew |
| `position`, `soFar`, `timer` | the page `expand` waits for, the failed attempts at it, the delay of `retry` |
| `calls` | calls of `port.pull` that have not settled, each closed or aborted or not |
| `todo`, `orphans` | what the running task has still to do when its callbacks return |
| `accepted`, `issued` | history, for the properties only: pages accepted, requests per cursor |

### Steps

JavaScript runs a task to its end, but an emission calls the consumers in the
middle of the pipeline. So a task is cut exactly there: an emission ends a step,
`todo` says how the pipeline goes on (`EmitStarted`, `FirstPull`, `NextPull`,
`EmitCompleted`, `Complete`), and between the two any consumer may subscribe
(`FirstSubscribe`, `LateSubscribe`) or leave (`Unsubscribe`). When the last one
leaves inside the callback of a page, `expand` still projects that page and asks
the port once more; the request finds its subscriber closed and is aborted on
the spot. That is `orphans` and `OrphanPull`. Answers and timers are tasks of
their own and wait until no callback is running (`Quiet`): `DropAnswer`,
`AcceptPage`, `RejectStall`, `ScheduleRetry`, `GiveUp`, `RetryTimer`.

The reducer is translated with its guards: an event in a phase that does not
take it leaves the value `Thrown`, which is no `Snapshot`, so `TypeOK` says that
this never happens.

Abstracted: how long a delay is (a timer fires some day), the contents of
mutations (a page has a number of them), and argument checks, which run before
there is a stream. `distinctUntilChanged` is left out: each event changes the
phase or counts a page, so no two successive snapshots are equal.

### Runs

- **`reactive_sync`** (`ReactiveSync.cfg`): two consumers, three cursors, two
  retries, pages of 0, 1 and, refused, 2 mutations, two kinds of error of the
  port. Two consumers are enough for one to be first, late, last or alone; three
  cursors make cycles longer than one; two retries tell "per page" from "in
  all". `Executions` has two names, which bounds the executions that have an
  unsettled call at the same time: an abandoned one and the current one. The set
  of calls per execution is not bounded. Checks that a live request is unique
  and the one waited for (`OneLiveRequest`), that nothing runs unobserved, that
  an open stream always waits for exactly one thing (`NeverStranded`), that no
  page is replayed, that snapshots count exactly, that attempts belong to a page,
  are bounded, and are exhausted before a failure (`RetriesArePerPage`), that the
  cursor guard refuses just what this execution has asked for, and nothing of an
  earlier one (`HistoryIsOwn`), that "completed" is complete, that the end is final,
  and that late answers change nothing.
  The same run shows that the stream implements `SyncFeed` under the mapping
  `live <- connected, feed <- snapshot, closed <- hasCompleted`, with requests,
  retries and tasks hidden, and, with fairness, that a consumer that stays attached
  is told the end (`EveryoneIsTold`). No symmetry is used, because a temporal check
  with it is not sound; the graph has 452,644 states.
- **`sync_service`** (`SyncService.cfg`): the stream against a log of up to
  three mutations that grows while it is pulled. A page is read at one moment
  and delivered at a later one, answers may be lost, and a retry may see another page
  for the same cursor. Every mutation is counted once, and a completed pull is at
  least as new as its start. Three mutations and pages of one or two give pulls
  of one to three pages.

Fairness of `FairSpec`: `Continue`, because a task runs to its end; `RetryTimer`,
because timers fire; and an answer to some call. The last is an assumption on
the port: the stream has no timeout of its own, and with a port that never
settles it waits for ever. `EveryoneIsTold` also needs the feed to be finite,
which the code gives itself: a cursor that was asked for before is refused.

## 4. The clipboard

`Clipboard` follows each call of `copyText` and `copyImage` through `pc`:
`decoding` and `encoding` (`convertToPng`, which holds a bitmap between them),
`writing` (the browser's promise), `recording` (the host's recorder), and
`resolved` or `rejected`. Capabilities and options are fixed when the service is
built, so `host` is chosen in `Init` from all of them. A PNG is written in the
task of the call; another image after two awaits. `OtherCopy` is the rest of the
world writing to the same clipboard. `paste` and the capability queries change
no state.

- **`clipboard`** (`Clipboard.cfg`): three copies of any kind at once, so that
  two can overlap while a third has failed or is done. The history holds only
  what was written, each copy once; a written copy does not reject; a resolved
  copy was written, and recorded or reported once, and bitmaps are closed on every
  path (`SettledIsAccountedFor`); every copy settles. Fairness is that the promises of the browser and of
  the recorder settle. Here the host's error handler does not throw.
- **`clipboard_handler`**: the same with a handler that may throw; a violation,
  see the findings.

Deadlock is not checked: each copy is made once, and then the system stops.

## 5. The transfer calls

`TransferCalls` models the five calls of the Go SDK, several at once, with any
argument valid or not. `Call` validates, and asks for a token; `TokenAnswer`
is the provider's error, a bearer the client refuses, or the request going out;
then the call waits for `Answered`, `TimedOut` or `Broken`. `Resent` is
`net/http`, which sends a GET or a request with an `Idempotency-Key` again when a
connection breaks. A request whose connection is gone may still arrive
(`stray`, `ServeStray`). `hardenedHTTPClient` lets `net/http` hand a redirect to the
caller as an answer, unless the host's own `http.Client` came with a `CheckRedirect`:
that one is kept (`OwnPolicy`, `CheckRedirect`), and then `Redirected` follows. A
307 sends the same request again, a 303 a GET, and what does not reach the service
is answered by another page with anything at all (`elsewhere`). `Decode` and
`Sentinel` are `doJSON`, the validation of the answer and what `errors.Is` finds in
an error.

The service and `net/http` are outside the repository and marked external. The
service is modelled from what the client relies on: a key it knows stands for the
write it was first used for, only a pending transfer can be settled, pending
transfers expire, and a service or proxy may refuse a request unread.

Which strings are valid, the construction of URLs and headers, and the errors of
`New` are abstracted: an argument is valid or has one named `flaw`.

`CallOutcome` is what remains for the host: a write takes effect at most once
over all its repeats; *done* is told of a write that took effect, *refused* of a
call that did not and never will; after *unknown* anything may have happened or
may happen yet. The mapping is `Told`, and `Definite` is the part worth reading:
which sentinels let a host conclude that nothing happened. `ErrInvalidRequest`
and a token error always do. The refusals do so only for a request that cannot
have been sent twice, which among the writes is the cancel, and that was not led
away. Neither a success nor a refusal says anything of a request that the host's own
`CheckRedirect` has let go elsewhere (`LedAway`): that is the limit of the promise,
and of the theorems. `ErrPayloadTooLarge` and
`ErrIncompatibleContract` never do, because they also follow a write that was
applied and whose answer was too large or of another version.

- **`transfer_calls`** (`TransferCalls.cfg`): two calls of the three writes with valid
  and invalid arguments, one transfer, one key, one resend per call, over supplied
  `http.Client`s with no timeout, of which the second has a `CheckRedirect` of its
  own. Two
  calls are enough for a repeat, for a key that is used for another write (a create
  and an acknowledgement) and for two hosts at one transfer; another key makes a
  write independent of the first, up to the state of the transfer, which a cancel
  without key meets in the same way. One resend makes two copies of a request, of
  which the older may arrive last. `list` and `get` are reads: they take the same
  path, change nothing at the service, and are part of the theorems.
  The network may fall silent, and every call returns (`EveryCallReturns`): fairness
  is on the client's own clock and on the token provider only. The provider is called
  outside the client's timeout, so that it answers is an assumption on the host.
- **`transfer_redirects`**: a client with a policy of its own does follow redirects;
  see the findings.

Deadlock is not checked: each call is made once.

## 6. The sync clients

`ClientCalls` models the calls of `client.ts` (eleven operations), `client.rs` and
`client.dart` (six each), by several devices at once. The parts are those of
section 5, the differences are what the module is about:

- there is no timeout; the only call that can be given up is a pull of the
  TypeScript client, by its signal (`Abort`). The signal goes to `fetch`, so it is
  not heard while the token provider is awaited (`Send`);
- a put without a key makes a fresh one (`HeaderKey`); a delete, a push and a
  cancel send none;
- the TypeScript client has `fetch` refuse redirects, the others leave it to
  their libraries (`Follows`, `Redirected`). That of Rust follows all of them, and
  makes the same request again after a 307; that of Dart is taken to be `dart:io`,
  which follows a redirect of a GET and a 303 of a POST;
- each client decodes in its own way (`DecodeTypeScript`, `DecodeRust`,
  `DecodeDart`): a 204 is a value for one and an error for another, a delete may
  or may not read its body, push and pull take any JSON, and a
  `CliptownContractError` is raised for a refused argument as well as for the
  bad answer to a write that was applied;
- the Dart client checks the key of a put after it has awaited the token.

External, from how the clients use it: HTTP libraries may resend requests whose
method is idempotent (GET, PUT, DELETE); the service knows a key by the write it was
first used for, and what is deleted or settled stays so. A status stands for
those that are treated alike.

The mapping to `CallOutcome` says what a host may believe. *Done* is told only by
calls that cannot be redirected (`Believable`): all of the TypeScript client,
and put and delete of the Dart client. *Refused* (`Definite`) needs an error that
comes before the request, or a status in answer to a request that is neither
resent nor redirected: a push, create or acknowledgement in TypeScript.

- **`client_calls`** (`ClientCalls.cfg`): that no refused or aborted call has a
  request on the wire (`RefusedOrAbortedIsClosed`), that no call and no key is
  applied twice, and that the calls implement `CallOutcome`. Two calls by any of the clients, of put,
  delete, push, pull and create, one target, one key beside the fresh ones, one
  resend. These operations have every combination of key, resend and abort;
  acknowledge and cancel behave like create and delete, and further reads like
  pull. Two calls give a repeat, a second device, and a delete against a put.
- **`client_calls_abort`** (`ClientCallsAbort.cfg`): an aborted pull returns next
  to any of the other TypeScript operations. Fairness is on the token provider
  only: no other part of the world is assumed to answer.

Deadlock is not checked: each call is made once.

## 7. The contract scripts

`harden_client_contract.py` is run over any clients repository of the fleet, by
hand or nightly. It reads and writes files and keeps nothing else, so its state
is the repository.

| Module | What it holds |
|---|---|
| `ClientTargets` | the twenty targets: directory, older directories, names in the manifest, and the files of the package that is written where there is no code |
| `ApiSurface` | the symbols of `api-surface.json`, merging and enriching them, what makes a surface invalid, and the boundary between public and private |
| `ContractHardener` | the repository, a run of the script, kills, and the changes of developers |
| `ContractVerifier` | what CI checks afterwards, with code of its own: `verify_client_contract.py` and the tests of `client_contract_boundary.py` |

### State and steps

`dirs` and `files` are the tree; a file's content is what the script wrote
(`baseline`), an old template (`legacy`), the developers' (`own`) or cut short
(`torn`). The generated files have variables of their own: `manifest`, `schema`,
`surface`, `fingerprint`, `marker`, `seal`, `register`, `matrix`. `chosen`,
`next`, `plan`, `work` and `entries` are the memory of the run.

A run is `Start`, one `Choose` per target (`choose_target_dirs`), then for a write
`OpenTarget` and `WriteScaffold` (`scaffold_target`), `EnsureManifest`,
`EnsureMatrix`, `WriteSchema`, `WriteSurface`, `WriteFingerprint`, `WriteMarker`,
`WriteSeal` and `WriteRegister` (`ensure_contract`), and the directories are chosen
again for `Verify`. Every file that is written is a step. An exception is `Raise`.
`Kill` stops a run before any write, or inside one (`TearFile`, `TearManifest`,
`TearSurface`); the other generated files are written whole again by the next run
without being read, so that a torn one is the same as an old one. Between runs
developers write or remove files, directories, manifest entries and symbols.

The tree has no symbolic links, so `resolve()` changes nothing of a directory but
its dots, and the two `ValueError`s that `choose_target_dirs` raises for a directory
outside `clients/` need a client with a link for a directory. `Kebabs` says which
directory name has which kebab form: `kebab` is a function of the name and nothing
else is assumed of it.

Digests are injective: the digest of a value stands for the value. The text of
the templates, the rest of the manifest (package metadata, adapters) and the JSON
Schema itself, for which a symbol is valid or not, are abstracted.

### Runs

- **`contract_hardener`** (`ContractHardener.cfg`): eight repositories, from an
  empty one to complete manifests, with older names, a shared TypeScript package,
  targets that claim each other's place or a place outside, and old templates.
  One change by developers and one kill, at any point; any number of runs. It
  checks that
  every target has a directory of its own and the collision the script raises for
  cannot happen (`OwnDirectory`);
  the single source of a package is never there, as the script wrote it, without
  the rest of the package (`BaselineIsWhole`);
  no step touches a file of developers (`ProductPreserved`);
  what a sound write leaves passes the hardener's own verify (`WriteEndsVerified`)
  and the separate code that CI runs (`CIAccepts`);
  and after it another run, even one that is killed, changes nothing
  (`SettledStays`).
- **`contract_templates`**: old templates are never migrated; see the findings.
- **`contract_extensions`**: two clients of other languages get one target; see the
  findings. Developers may add `clients/my_lang` or `clients/my-lang`, and one of the
  repositories has the other.

The fleet has seven of the twenty targets. They have each kind of target: with an
older name (golang), with a migrated template (zig), with several sources (c), in the shared
package published or not (the two runtimes), and plain. `MinimumTargets` is 5
where the code says 15, so that a manifest may be complete without naming all.
The assumptions on the constants are named: `HardenerAssumption`,
`NamesAssumption` and `FilesAssumption` say what is true of `TARGETS` and of the
files of a package, `PlacesAssumption` and `AdditionsAssumption` what CI and the
surface need of them, `RepositoriesAssumption` and `DevelopersAssumption` which
repositories and changes there are. TLC evaluates them for this fleet, and the one
on directories for all twenty targets (`FleetAssumption`). One change and one kill are enough to have a kill, a
repair and a change in any order, since runs are not bounded.

Four properties have conditions, which say what the script does not do:

- `WriteEndsVerified`, `SettledStays` and `CIAccepts` are about writes that are
  `sound`: evaluated when the directories are chosen, `Sound` says that there is
  nothing in the manifest that the script cannot put right. A manifest with
  thirteen safe client directories or more is left as it is
  (`harden_client_contract.py:776-785`), so two targets must not share a directory
  in it and the directories it names must exist. In any other one, names that are
  not of the fleet stay: they need directories of their own in the repository, and
  no chosen one. A published target must not be the whole repository. And a
  runtime that is not published loses its older names, so it must be where it would
  be without them. What is not sound is kept in the model: the runs go on from it,
  and the other properties hold there too.
- `BaselineIsWhole` speaks of packages with one source, which is written last. With
  the first of several sources there is product code, and nothing completes the
  package any more.
- `CIAccepts` asks for `Placed`: directories are under `clients/`, a target has a
  counted source file (which only the verifier of CI demands), and a shared
  package holds no marker of its own from before it was shared. The hardener would
  write the runtime's marker below it (`marker_dir`), and the verifier would read the
  old one (`marker_root`). It also asks for `NamesApart`: no two extensions have one
  kebab form, for they would have one target, which the verifier refuses. The size of the fleet is asserted where each target is in a
  place that `TARGETS` knows (`AtHome`), and the boundary where developers have not
  themselves broken it (`Leaks`). The canary must always be rejected.

No fairness is used: a run may stop anywhere. Deadlock is not checked, because
the bounds on changes and kills end the histories.

## 8. The budget

`FpConformance` models `tools/fp-conformance/fp_conformance.py`. A line of source
is a short sequence of tokens: constructs, comment marks (two slashes after a colon are
one of their own, which `strip_noise` leaves alone), quotes, braces.
`strip_noise` masks comments and strings the way the code does, one line after
the other with a flag for an open block; `Findings`, `god_file` and `long_fn`
are the rules; `FpRules` lists what each one looks for and in which places it is
soft. `Scan` is a run with one of the three `--fail-on` values, `WriteBudget` one
with `--write-budget`, `KillWrite` one that is stopped while it writes. Developers
insert and delete lines, move a file to a place with another language or another
leniency, and lose the budget.

- **`fp_conformance`** (`FpConformance.cfg`): one file at any of five places (an
  entry file, an effect boundary, a stateful domain, a plain file, an exempt one),
  three first contents, thirteen lines with every kind of token, two changes.
  Limits are 1 line for an entry, 2 for a module, 1 for a function body and 3 for
  what is read, so that every limit is met and passed.
  `ScanIsRight`: a scan passes just when the code, read as the language reads it
  (`Lexed`, which is written independently of `strip_noise`), is within the
  recorded budget; a torn budget never passes. In Rust and Dart `Lexed` lets a block
  comment hold another. `FixesNeverBlock`: after a passing
  scan, taking out any line of code still passes. [Both are proved](#9-what-is-proved) too.

`ScanIsRight` is restricted to sources (`Tame`) that keep comment marks and quotes
apart, have no slashes after a colon but in a string, no string of several lines and,
where comments nest, no comment in a comment; see the findings for the others. Two changes are enough to open and to
close a block comment around a line, to re-baseline between them, and to move a
file after a budget was recorded. Deadlock is not checked, for changes are bounded.

## 9. What is proved

The proofs hold for every value of the constants that meets the stated
assumptions: any set of consumers, cursors, executions, calls, keys and transfers,
any number of retries, mutations and resends, any fleet, repository and sources.

**`ReactiveSyncProofs`**, from `SyncAssumption` (null is no cursor, retry and
page limits are natural numbers, errors are of the four classes):

- `TypeCorrect`: the types hold, and so the reducer never throws.
- `RequestsAreShared`: `OneLiveRequest`.
- `DetachStopsEverything`: `NothingRunsUnobserved`.
- `PullIsDriven`: `NeverStranded`.

None of these is inductive. `Control` adds how the parts hang together: an open
call belongs to the connected execution and to the page it waits for (`CallsOK`);
the timer is armed only while connected, before the end and outside a task
(`TimerOK`); each value of `todo` goes with a phase of the snapshot (`TodoOK`);
consumers are attached just when the stream is connected and has not completed
(`ShareOK`); and an idle open stream waits for one thing (`WaitOK`). There is
one lemma per action; `IssueControl` serves the three actions that call the port.

**`ReactiveSyncHistory`**, on top of `Control`: `PagesAreNotReplayed`,
`RetriesAreBounded`, `HistoryIsOfExecution`, `CompletionIsTrue`, `EndIsFinal`, `LateAnswersAreDropped`,
`CountsAreExact`, and `StreamImplementsFeed`, the refinement of `SyncFeed`. The invariant `Accounts` says
what was pulled so far: the accepted pages form a chain that ends at the snapshot
(`ChainOK`); the history of cursors holds the cursor of each of them and of the one
to come, which is new (`PagesOK`); and the requests for a page are its failed attempts and
the one under way, so that each cursor of the history but one to come was asked for
(`AttemptsOK`). `CountsAreExact` compares the running total with a
sum over all pages. The sum is a recursive function; `TotalsOK` says that there
is a function with its recurrence that ends in the running total, and each accepted
page extends that function by one value, so no induction is needed.

**`SyncServiceProofs`**, from `PlacesAssumption` (cursors are the places 1 to n of
a log): `EveryMutationOnce` and `CompletionIsFresh`. Each step of the composition is
a step of the stream or leaves it alone (`ServiceStepsStream`), so `Control` and
`Accounts` carry over. `Service` adds the network: a reply is a page for a call
that has not settled, and the only one (`RepliesOK`); calls that were torn down
belong to past executions (`OwnCalls`); and a last page that the client will take
was read after the execution began (`FreshOK`). Without `OwnCalls` a page read
for an abandoned execution could complete a later one with old data.

**`ClipboardProofs`**: `HistoryIsTrue`, `SettledCopiesAreAccountedFor`, and
`HistoryNeverFailsTheCopy` under the assumption that the host's handler does not
throw. `CopyOK` ties the place of a copy in its chain to its bitmap, the write, the
history and the reports.

**`TransferCallsProofs`**, from `TransferAssumption`:

- `TypeCorrect`, `SuccessIsTrue`, `KeysAreGoodForOneWrite`, `RefusalsAreTrue`,
  `RepeatsAgree`: the properties of the runs, for any set of hosts with a
  `CheckRedirect` of their own.
- `CallsImplementOutcome`: the calls implement `CallOutcome`, initial states
  and steps.

The invariant is `Traffic`: types, `KeyAppliesOnce`, and for each call where its
request may be. `EarlyOK` (no request before a token), `SingleOK`
(a request that is not replayable and was not led away exists in one copy, on the
wire or applied, never both), `SuccessOK` (an answer of success on the connection was earned) and
`RefusedOK` (after a definite refusal no copy is left). Every action is framed
by `ClientFrame` or `ServiceFrame`, which say that the other calls keep these.

**`ClientCallsProofs`**, from `ClientAssumption`: `TypeCorrect`, `RefusedStayHome`,
`WritesAreOnce` and `CallsImplementOutcome`. `Ledger` is the counterpart of
`Traffic`; what differs is what the clients differ in: aborted pulls (`AbortOK`),
the late check of a Dart put (`FlawOK`), answers of another page after a redirect
(`Believable` in `SuccessOK` and `SingleOK`), and that a settled target stays so
(`EffectOK`).

The service's part in these two is an assumption about external code: the
theorems say what the clients make of a service that honours keys.

**`ContractHardenerProofs`**, from the named assumptions on the fleet, the
repositories and the changes of developers:

- `Types`: the types hold.
- `TargetsAreApart`: a chosen directory is no other target's place (`ChosenApart`). So
  where the next target would meet a directory that is taken, that directory is its
  own place, and the target that took it would hold the place of another
  (`NoCollision`); the `ValueError` of `choose_target_dirs` is unreachable.
- `ProductIsPreserved`: the only steps of a run that touch a file write a planned
  one (`RunWritesPlannedFiles`), and only where there is none or an old template.
- `PackagesAreWhole`: when the single source of a package is written, the plan
  shows that the other files of the package are there (`PlanOK`).
- `WritesEndVerified`, `RunsAreIdempotent` and `CIAcceptsSoundWrites`, which compare
  what one run writes with what the next one, or other code, makes of it.

`TypeInv` holds the types, the order of the phases (`ControlOK`), what is left
of a package (`PlanOK`) and that the targets that are done have a directory with
code (`DoneOK`). The last three theorems rest on `HardenerInv`:

- `ChoiceInv`: the directories chosen so far are those that `choose_target_dirs`
  would choose now; needed to compare a choice with a later one.
- `LastingInv`: while packages are written, directories appear and with them the
  choice could change. `Lasting` is what a sound write relies on meanwhile: a target
  that the manifest names keeps the directory named, another one its own place or the
  one it would have without a manifest. Once the manifest is rewritten the choice
  made before is the choice made from it (`MigratedStays`), or it was left alone
  and the choice is the old one (`CompleteStays`).
- `PhaseInv`: what each phase has brought up to date stays so until the run ends:
  the matrix records the choice, the surface is what `Prepared` makes of itself
  (`SurfaceReady`), every directory that was done carries its marker, seal and
  entry; all of it together is `Contracted`.
- `SettledInv`: after a sound write `Contracted` holds and the recorded choice would be
  made again, at every point of any later run.

`MarksApart` is the heart of the second and third: no two targets or extensions
write their marker to one place, so that no marker overwrites another. For
CI, `VerifierAccepts` shows that `marker_root` finds the marker that `marker_dir`
placed, and `Fleet` that there are as many names below `clients/` as CI asks for,
since targets in places of their own have names of their own.

**`FpConformanceProofs`**, from `LimitsAssumption` and `SourcesAssumption` (limits are
natural numbers; lines are sequences of tokens, of which there may be any): `ScansAreRight`
and `FixesPass`, for sources of any length with any lines, any places and limits, and any
number of changes.

The state is simple: `Scanning` says that the sources can be read, that a budget holds
numbers, and that an exit code is that of a scan of the sources as they are. The
work is in the loops. Each is a function over the positions of what it reads
(`BlocksRun`, `StringsRun`, `LexedRun`, `NoiseRun`, `ReadRun`, `BodiesRun`), and
what holds before the first position and is kept from each to the next holds at all of
them (`Rising`), since a set of positions has a least one.

- `ScansAreRight`: `Agree` relates what the two readers of a line have seen so far, the
  cutter of comments and strings and the lexer, and `AgreeStep` keeps it token by token
  while the line is tame. So a line is masked to what the language reads
  (`MaskIsRead`), a file too (`NoiseIsRead`), and the counts are those of the code.
- `FixesPass`: a line without marks leaves the flag for an open block alone, so
  `strip_noise` of what is left is what `strip_noise` left, without that line
  (`NoiseOfRest`). `long_fn` on the whole file and on what is left are in step from
  there, one line apart, with the same function open (`BodiesOfRest`). So each finding
  in what is left comes from another one in the whole (`FoundBefore`); the map is one to
  one, and no count rises (`FewerBroken`, `FewerCounted`).

Model-checked only: liveness (`EveryoneIsTold`, `EveryCopySettles`, `EveryCallReturns`,
`AbortedPullReturns`), which is out of reach of the prover. Every other property of the
passing runs has a theorem.

## 10. Findings

Four runs end in a violation on purpose: the property is what the repository
says, the trace is what the code does.

- `clipboard_handler`, `WrittenNeverRejects`: `#record` calls `onRecordError`
  unguarded in its catch block (`clipboard.ts:218`), so a handler that throws
  makes a copy reject that is already on the clipboard. The comment at
  `clipboard.ts:173-175` says a history failure never fails the copy. It also
  names an option, `onHistoryError`, that does not exist.
- `contract_templates`, `TemplatesMigrate`: `scaffold_target` returns at
  `harden_client_contract.py:870` when the package has product code, before the
  templates are looked at. The first run writes the source next to the template,
  so only a package whose source is missing is ever migrated. The comment at
  `harden_client_contract.py:172-174` promises a migration path for templates that
  earlier runs have written.
- `transfer_redirects`, `RedirectsAreRefused`: `hardenedHTTPClient` sets its refusing
  `CheckRedirect` only where the supplied `http.Client` has none
  (`clients/go/client.go:564`). With one of the host's own, a cancel that is answered
  303 becomes a GET, and the 200 of whatever page is reported as success.
  `README.md:26` says of the Go client that it refuses redirects.
- `contract_extensions`, `ContractTargetsAreUnique`: the target of an extension is
  the kebab form of its directory (`harden_client_contract.py:1283`), so `my_lang` and
  `my-lang` get one target. The hardener's verify accepts that, and
  `verify_client_contract.py:226-227` fails: "duplicate contract target".

Seen while modelling, from reading the code and without a run of their own:

- `writeImage` builds the `ClipboardItem` from a `Blob` (`clipboard.ts:95`); the
  comment at `clipboard.ts:50-52` says that image writes hand over an unresolved
  promise.
- `CancelMemeBankTransfer` (`clients/go/client.go:318`) sends no idempotency key;
  `README.md:13` says that all write methods accept one.
- `check-polyglot-matrix.py:35` asks for exactly the targets it lists, and the
  manifest of this repository has one more, `rust-wasm`, which the hardener adds
  to every manifest it writes. The check fails at this commit.
- A run that is killed between two sources of the c or python3 scaffold leaves the
  package incomplete for good, and a scaffold file that was cut short is never
  repaired. A template of an older version is kept the same way.
- A complete manifest in which two targets share a directory is reported by verify
  after every write and never repaired. One that names a directory which is not
  there makes the first write choose another than its verify.
- Neither the directories in the matrix nor `.api-surface.sha256` nor the digest
  in the register are looked at by the hardener's verify. The last two are checked
  by `verify_client_contract.py`, the first by nothing.
- `boundary_errors` does not follow `implements` or generic names.
- `strip_noise` ends a block comment at the first close mark (`fp_conformance.py:164`).
  Block comments of Rust and Dart nest, so that what follows an inner comment is
  counted as code; the comment at `fp_conformance.py:148` says "so rules see code, not
  prose".
- `strip_noise` takes `/*` inside a string, or after `//`, for the start of a
  block comment, does not know strings of several lines, takes `//` after a colon
  outside a string for code, and strings are blanked before TS007 looks for the imported name.
  A file of more than 20000 lines is left out without a word, and a budget that is
  missing turns the ratchet off. A line with two top-level `let` is excused from
  TS002 until it is fixed for TS003.

## 11. What is not covered

- **Blind search index**: a keyed hash of normalised words, with no state and
  nothing a model of this kind could tell apart.
- **Thin clients**: some thirty lines each, stateless.
- **`check-polyglot-matrix.py` and `check-validation-imports.py`**: a list of
  assertions on constants of this repository. The other two verifiers are modelled.
- **Runtimes and package surface, schemas, fixtures, matrices**: re-exports and
  data. **Package dry run**: a straight line of file reads and child processes.
  **Lint toolkit**: vendored.
- **Text-level behaviour** of the modelled parts: which strings are valid
  identifiers, keys and bearers, how URLs are built, how JSON and TOML are parsed,
  the text of the templates, and which regular expression matches a construct.
