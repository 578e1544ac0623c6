# superhuman-mail: a TLA+ verification project

`superhuman-mail` (`shm`) reads, drafts and, through a credential-isolated
authority, sends mail of a Superhuman account. This directory holds TLA+ models
of the parts whose correctness depends on what several processes do in what
order, the TLC runs that check them on small instances, and TLAPS proofs of
what matters most for every value of the parameters. `PROJECT.json` maps every
definition to its source lines.

## 1. The system

```
  agent / CLI ──create,poll,cancel──▶ Slack issuer ──approved decision──▶ approval signer
      │                                │   ▲ Socket Mode                  (Ed25519 key)
      │                                ▼   │
      │                               Slack: a human reads the presentation and decides
      │
      ├──prepare, execute, status, abort──▶ send executor daemon ──spawn──▶ send bridge ─▶ Python child
      │                                     executions journal              checks, POST, observes
      │                                     prepared store                       │
      └──website-inbound execute, status──▶ attempt journal ───── POST ──────────┤
                                                                                 ▼
                                     provider: send jobs, sent messages, userdata ◀── native UI
                                                          │ (lagging)
                                                          ▼
                                                     local cache
```

| Component (source) | State | Operations | What is hard | What makes it correct |
|---|---|---|---|---|
| Send executor daemon (`authority/send-executor/executor.mjs`, `daemon.mjs`) | `executions` table in SQLite; `#inflight` promises | `execute`, `status`, `abort`; crash; recovery at start | one worker per receipt interleaves with aborts, replays, the clock, a crash; a bridge that outlives it | one receipt, at most one POST; verdicts true for good; the whole grace is cancellable; every claim gets a verdict |
| Send bridge (`provider.mjs`, `send-bridge.mjs`, `superhuman_mail/executor.py`) | none beyond its process | re-check content and lifecycle, one POST, observe | killed on timeout while its child goes on; draft edited between checks | posts only what was approved; says "nothing was sent" only before the POST |
| Trusted prepared store (`prepared-store.mjs`) | marker, record, screenshot directories on disk | mark, sweep, remove | crash between two deletions; sweep against executions | evidence outlives the executions that need it, and nothing else does |
| Slack issuer (`authority/slack-issuer`) | `approval_requests`, dedupe of events, in-memory presentation | create, poll, cancel, Socket Mode message, completion, recovery | at-least-once delivery; decision against presentation, cancel, expiry and crash | one receipt per request, only of an authorised decision in time |
| Approval signer (`authority/approval-signer`, `common/receipt.mjs`) | key only | sign | may sign for a caller that gave up | never signs what is inactive |
| Attempt journal and unattended send (`superhuman_mail/attempts.py`, `send.py`) | `attempts` table shared by processes | create_or_get, claim, update, purge; `execute_qualified_website_inbound`, `status` | several processes, stale snapshots, kill at any step, purge | one POST per draft; sent is reported only of an existing message; a claim is never undone |
| Lifecycle classifier (`superhuman_mail/lifecycle.py`) | none; reads userdata and cache | observe, classify | sources that lag behind or contradict each other | provider confirmation only on linked evidence |
| Render attestation (`attestation.py`) | attestation records | create, verify, revalidate_for_send | two preflights around a render; draft, settings and page change in between | what is sealed is what the server stored; what is posted is what was sealed |
| Renderer probe (`renderer_probe.js`) | the page of the running application: interception, offline mode, overlay | one probe | the owner types; saves and refreshes; other probes on the page; killed half way | renders no unsaved text, lets no write out, pictures its own payload, never leaves the owner offline |
| Reader and scan (`reader.py`) | an anonymous copy of each account's cache | scan | the application writes while the copy is made; limits on limits | a coverage called complete is complete; a limit costs the oldest |
| Local cache copy (`_local.py`) | one copied database per account, shared by all processes | get_db_path, thread reads | non-atomic rewrite, freshness by time stamps | two readings of one command fit together |
| Drafts (`draft.py`) | remote drafts | create_reply, create_forward; compose, attach, discard | which message is answered, in mixed threads | the right people, the right thread, one message quoted |
| Comments (`comment.py`) | none | read_many, read; post, discard | lost, partial, reordered answers to a batch | nothing missing is reported as read |
| Authority client (`authority_client.py`) | none | one request over the execute socket | gives up before the executor does | never reports a send as not sent |
| Shares; auth; setup; CLI; launch scripts | remote documents, token cache, configuration | | | see "Not modelled" |

`PROJECT.json` lists all components with their status, and under `hazards` the
places where this code can go wrong and a test would hardly reach.

## 2. The modules

| Module | What it is |
|---|---|
| `OneShotSend` | the abstract promise made for each receipt: one decision, at most one send, what is called off is never sent |
| `SendExecutor` | executor daemon, its journal, its bridge processes, the provider, the clock |
| `SendExecutorProofs` | theorems about `SendExecutor`, with the refinement of `OneShotSend` |
| `AttemptJournal` | the attempts table and the shm processes that share it |
| `SlackIssuer` | issuer daemon, Slack's delivery, the signer |
| `PreparedStore` | the private evidence of prepared renders on disk, its sweep and removal |
| `PreparedStoreProofs` | theorems about `PreparedStore` |
| `AttestationProofs` | theorems about `Attestation` |
| `Lifecycle` | the proof of a provider message and the classification of a draft |
| `LifecycleProofs` | theorems about `Lifecycle` |
| `Attestation` | attestation runs and their probes on the page of the live application |
| `ReaderScan` | pure: what a scan makes of the copies of the caches, as sets in an order |
| `Replies` | pure: which message is answered, threaded to and forwarded, and who gets the reply |
| `CommentRead` | pure: what a batch of thread reads makes of an answer |
| `LocalReads` | extends the three: the scan's snapshot, the shared copy and the commands that read through it, while the application writes |
| `SlackIssuerProofs`, `AttemptJournalProofs`, `LocalReadsProofs` | theorems about the modules they name |
| `ReadsLemmas` | lemmas about the pure operators: least and greatest indices, the choice and the addressing of replies, batches of comments and their answers; cuts of ordered sets, and what a scan looks at, keeps and gives reasons for |
| `MC*` | model values, symmetry and constant functions for TLC |

### SendExecutor

`row` is the executions table (`state`, `not_before`, and the time at which the
audit trigger logged the insertion). `worker` says at which `await` the promise
in `#inflight` is suspended: JavaScript runs a worker without interruption
between two awaits, so each action is one such stretch, with the SQLite
transactions in it. `waiting` and `told` are the requests that await the
promise and the settled answers clients ever got. `bridge` is the bridge process
*and* its Python child: the daemon's 180 s timeout (`SendFails`) or a crash
takes the caller away, and the bridge actions go on. `payload` is the version
the last check read, which is the version that is posted. `wire`, `content` and
`life` are the provider's: what became of the POST, the draft's content, and the
lifecycle of the draft, which the native UI moves as well.

| Code | Actions |
|---|---|
| `SendExecutor.execute`, `#executeOnce` up to its first await | `JoinInflight`, `ReplayAnswer`, `ResumeExpired`, `ResumeGrace`, `FirstRequest` |
| first render, journal `start` | `RenderMatches`, `RenderFails` |
| the loop over the grace | `WakeSettled`, `WakeAfterGrace` |
| second render, journal `claim` and `failGrace` | `RerenderMatches`, `RerenderFails` |
| `NativeProvider.send`, journal `finish` | `LaunchSend`, `SendReturns`, `SendFails` |
| endpoints abort, status | `Abort`, `Status` |
| process death, `recoverInterruptedClaims` | `Crash`, `Restart` |
| `send_conditional`, `_post_exact_payload`, `_observe_result` | `BridgeChecks`, `BridgeRejects`, `BridgeDies`, `BridgePosts`, `BridgeAnswered`, `BridgeObserves` |

Abstractions: a receipt stands for its id, hashes, binding and signature; a
request carries the genuine receipt or one with the same `receipt_id` and other
hashes. Altered requests outside an execution in flight get an error and change
nothing, so they have no action. One daemon runs at a time (launchd). Whether an
edit makes the fingerprint differ is the inequality of version numbers. The
lifecycle states `send_requested` and `send_pending_undo` are `pending` here.
`scheduled` is a state of its own: `_observe_result` ends on it and calls the
send accepted, and the executor journals that. A scheduled job whose time has
come is `due`, which the code classifies as requested again, and one that was
called off or failed is `dropped`: an `accepted` row is no promise that the
message goes out, and `SentIsEvidenced` makes none.
`grace_incomplete` needs a wall clock that steps back; the clock is monotone, so
it is out of the model. The branch of `start` for a row that already exists is
never reached: `#executeOnce` calls `start` only without a row, and `#inflight`
keeps two of them apart.

### AttemptJournal

`row` is the row of one account and draft (statements of the journal touch no
other). `proc` is each process with the local variables it keeps between two
transactions: the snapshot `held`, what it `seen` in the mailbox, and the
fingerprint of its first check. A transaction, one observation of the mailbox
and the POST are one step each. `job` and `delivered` are what userdata says and
whether the immutable message exists; the local cache may lag behind both.

| Code | Actions |
|---|---|
| `AttemptJournal.__init__` with `purge_terminal`, at each command | `Begin` |
| `get`, the branch on an existing attempt | `LookUp`, `Resume` |
| `_preflight`, twice | `FirstCheck`, `FinalCheck` |
| `create_or_get_automation`, `claim_automation_post` | `Register`, `Claim` |
| `_post_exact_payload`, `update` after it | `Post`, `PostReturns`, `PostRaises` |
| `_reconcile` | `UseTombstone`, `Observe`, `Reconcile` |
| `status` without an attempt | `ReportUnattempted` |
| kill, exception, refusal | `Stop` |

Abstractions: `scheduled` and `pending_undo` block like `send_requested`,
`aborted` counts as `send_failed`; `response_class` and `accepted` are columns
nobody decides on. A job that has failed stays failed: the provider creates no
new job for that draft. The second "preserved" check of `_reconcile`
(`send.py:512-531`) is about the same snapshot as the first one
(`send.py:465-501`) and is not reached. `create_or_get` and `claim_post` have no
caller in the program but the tests; they are planned as `ReceiptJournal`.

### SlackIssuer

`making` and `expires` follow `create` through its awaits, `shown` says that the
nonce can be read in Slack, `row` and `order` are the `approval_requests` table
in insertion order. `said` and `delivery` are messages people write in the
threads and what Slack did with them: it delivers an unacknowledged one again
(and may deliver the same one to a handler after its request has moved on).
`call` and `late` separate the daemon's wait for the signer from the signer's
own work, so that a receipt may be signed for a caller that timed out or died.
`recovery` is what `recoverApproved` has still to complete, one after the other
in the order of insertion (`First`).
The receipts are a function of the committed row (`ReceiptOf`), Ed25519 is
deterministic and assumed ideal; the 30 s skew allowance of `issued_at` cannot
matter with one clock; nonce, thread and request id are fresh.

### PreparedStore

`shots`, `record` and `marker` are the attestations whose screenshot directory,
record and marker exist on disk. `child` and `awaited` separate the bridge's
Python process of a prepare call from the daemon's wait for it, so that a call
may be given up while the process goes on to save its record. `exec` is the
execution as far as the evidence is concerned. The daemon is one thread:
`Free` guards every callback, and `left`, `target` and `step` walk through
`sweep` and `remove` one deletion at a time only so that a crash can fall
between two (`Crash` clears them, `Restart` begins with the start-up sweep).

| Code | Actions |
|---|---|
| prepare server, `prepare_attestation`, `create`, `mark` | `PrepareStarts`, `BridgeShoots`, `BridgeSaves`, `PrepareReturns`, `PrepareFails` |
| execute server around `SendExecutor.execute` | `ExecutionStarts`, `ExecutionRendered`, `ExecutionRefused`, `ExecutionSettles`, `ExecutionErrs`, `ExecutionResumes` |
| `remove` | `Unlink`, `RemoveScreenshots`, `RemoveMarker` |
| `sweep` | `SweepStarts`, `SweepVisits` |

Not in it: the further screenshots of a send-time render, which go to a
directory below `attestations` and are never removed by this store; and an
unmarked record left by a prepare call that was given up, which no sweep visits
either (`MarkedIsRemoved` and `MarkedGoesAway` are about marked evidence only).

### Lifecycle

`Classify` and the operators under it translate `classify` and
`_provider_proof`; the loop over messages judges each message by itself, so it
is a quantifier here, and the order of messages matters only for which of
several proofs is reported. `Wrappers` is everything userdata can say while its
writers fill it in: any subset of the fields, a job of any attempt of the draft,
so a stale read and an early read are the same thing. A job that names a
message names the one its attempt created; a message may carry either identity,
both or none. The cache holds messages labelled SENT and from the account;
others are skipped by the code. `Observe` covers an unavailable cache and a
caller with or without a recorded attempt; `ObserveMisses` is the error of a
lookup that finds no userdata, no wrapper of the draft, or an empty one.

### Attestation

`versions` is what the server has stored of the draft, in order: the index is
the history id, so that a draft edited to and fro differs from one left alone.
`page` is the application: the draft model (what it believes to be saved), the
editor (what the owner sees), the settings, and the overlay lying on it;
`saving` is a save on its way. `run` is one process per run, which either
creates an attestation or revalidates one, with what its probe has taken from
the page; `offline` is the page's emulated network. The probe's expression is
synchronous up to `getDraftHtmlBody`, so `Clones` is one step and `Renders`
another, and every round trip of the DevTools protocol is a step.

| Code | Actions |
|---|---|
| `create`: preflight A; `_validate_probe`, preflight B, `_seal`, `save` | `CreateStarts`; `Seals` |
| `revalidate_for_send` likewise, `_fingerprint` against the record | `RevalidateStarts`; `Revalidates` |
| `send_conditional` | `Posts` |
| probe: `Fetch.enable`, offline | `Attaches` |
| `expressionFor`, before and after its first await | `Clones`, `Renders` |
| overlay, `outgoing.png`, removal and online | `Shows`, `Pictures`, `Restores` |
| `Fetch.disable`, result | `Detaches` |
| an exception, a refused comparison, the 60 s timeout, a kill | `Fails` |
| `requestDisposition` on a save of the page | `SaveBlocked` |

Abstractions: content stands for all fields of `source_fields` and the digests
of the attachments; a payload is a body with the settings it was rendered with;
the account, the draft id and the build of the renderer are guards that do not
change. Sealing and the stored evidence are ideal (their files are
`PreparedStore`'s matter, their expiry `SendExecutor`'s). That an application
refreshes only a clean model, and that the browser drops the interception and
the offline mode of a client that is gone, is external.

Limits. `OutgoingShown` is about a probe that was alone on the page
(`alone`): two overlapping probes remove or replace each other's overlay, and
TLC reaches states in which one is sealed with the picture of the bare page.
`compose.png`, taken before an old overlay is removed and after the check for
unsaved text, is not modelled. A second pane that shows the same draft is not
either: the search takes the first editor it finds.

### LocalReads

`file` is the cache of each account: a row per thread, an inode and a
modification time. The application puts messages in, takes them out, stores
undecodable JSON and replaces the file.

The scan (`scan`) goes through the accounts of the request, one at a time; a
request is a set here, so any order may be the one it named them in. It takes the
identity of a file (`SnapshotOpens`), copies a row at a time (`SnapshotCopies`; a
file replaced meanwhile is still read to its end under the old inode, which
`Freeze` keeps) and compares (`SnapshotTaken`, `SnapshotChanged`). `truth` keeps,
for the properties only, what each file held when it was opened. The answer is
`Scan` of `ReaderScan`.

`ReaderScan` states the loops, sorts and cuts of the code by what they leave.
Where the code sorts a list and takes its first n, the module has a set, the
order of its members (`ThreadOrder`, `PlaceOrder`, `RecordOrder`) and `Leading`:
the members with fewer than n others before them. Where the code hands out a
budget as it goes, the module counts what was used before: `Inspection` the
messages of sooner rows, `Kept` the data of newer records. Dropping records from
the end until the output is small enough leaves those up to which the output is
(`Fitting`). So no definition recurs or folds, and all can be reasoned about.

The shared copy (`copy`) is checked, read from the source, truncated and filled
(`CopyChecks`, `CopyReads`, `CopyTruncates`, `CopyFills`) by processes that do
not know of each other; while it is not `whole`, or was left so by a process
that died, a reading gives the thread or nothing. A reply reads once
(`CreateReply`), a forward reads the raw thread and then the rendered one
(`ForwardFinds`, `CreateForward`). The rendered body is not simply the message's
own: unless it has HTML, `get_messages` looks for a longer text in the thread's
searchable text, by the first words of the snippet, and may take that of another
message that holds the same words (`TextsOf`). `Sharing` says which messages do.
Which one is taken depends on order, beginnings and lengths; the model leaves it
open, and also what the searchable text has, a table of the application that a
second query reads: any selection of messages. That covers more than the code
can do. `ReadMany` is a whole call of
`comment.read_many` with every combination of answers of the backend: results in
any order with their paths, or without paths in the order of the request, some
left out, invalid or no objects at all (`BackendAnswers`). `ReadsAssumption` says what the
requests are: they name an account and a window of two dates, and the threads
whose comments are asked for are no backend placeholder. `ScanAssumption` takes
accounts and threads to be finitely many, as files and rows are.

Reductions, each for independence of what it separates: a scan runs only while
there is no shared copy and no draft command (they share no file but the cache,
which both only read); during draft commands the application writes only their
threads; comments, which are not in the cache, are read only while it is empty
and before anything else; whether a reply goes to all is chosen when the draft
is made. Participants, attachments and characters are cut by the same pattern
and are one amount.

Assumptions: each write changes the modification time (nanoseconds); the two
`stat` calls before and the two after a copy are atomic; the application keeps
the date of the newest message in the sort column. Limits: a forward is of one
message only if no message leaves the thread between its two readings
(`shrunk`), and then too its text, if it has no HTML, may be that of another
message with the same first words, which `ForwardOneMessage` allows and nothing
else; a comment result that is not an object passes for a thread without
comments (`comment.py:190`), and results without paths are given to the wrong
threads when some are left out (`comment.py:193`): `CommentsWhole` excepts both
(`Untold`), and answers that name some of their results and not others are not
modelled; a copy torn by a
crash, or made of a file written during the copying, keeps a fresh time stamp,
and what is read through it is old or missing.

| Code | Definitions |
|---|---|
| `validate_request` | `ValidRequest` |
| `_scan_account`, `_message` | `Selects`, `ThreadOrder`, `Inspect`, `Eligible`, `Record`, `ScanAccount` |
| `_apply_global_caps`, the loop over `MAX_OUTPUT_BYTES` | `ApplyGlobalCaps`, `Fitting` |
| `scan` | `Scan` |
| `_find_reply_message`, `_find_threading_message`, `_find_forward_message` | the same names |
| `_reply_targets`, `create_reply` | `ReplyTargets`, `Reply` |
| `get_messages`, `_forward_body_html` | `TextsOf`, `Bodies` |
| `read_many` | `Batches`, `ThreadOf`, `ByThread`, `ReadBatch`, `AllRead`, `ReadMany` |

## 3. What is checked

| Run | Instance | Properties | Shows |
|---|---|---|---|
| `executor_safety` | 2 receipts approving 2 versions of one draft, grace = margin = 1, clock to 4, 1 edit, 1 crash | `TypeOK`, `AtMostOnePost`, `NotSentIsTrue`, `GraceHonoured`, `PostedAsApproved`, `SentIsEvidenced`, `AnswersAgree`, `PartsAgree` | the executor is safe through aborts, replays, edits, native sends, killed bridges and a restart; the inductive invariant of the proofs holds |
| `executor_liveness` | 1 receipt, 2 crashes, fairness | `ClaimSettles`, `AwaitedSettles`, `KeepsOneShot` | every claim reaches a verdict and every awaited execution ends; the executor implements `OneShotSend` |
| `attempts_safety` | 2 processes, 3 commands, 1 reference, 1 edit, 1 ageing | `TypeOK`, `OnePost`, `SentExists`, `AttemptsAgree`, `ClaimIsForGood` | one POST per draft whatever processes race, die, reconcile or purge |
| `attempts_downgrade` | 2 commands | `ConfirmationKept` (violated) | finding 1 |
| `issuer_safety` | 2 requests of different lifetimes, 2 messages, 1 crash, 1 timeout | `TypeOK`, `OneReceipt`, `UndecidedUnsigned`, `ReceiptAuthorised`, `DecisionsStand` | receipts only of authorised decisions in time, one per request; no decision is undone, redated or reassigned |
| `issuer_liveness` | 1 request, 2 crashes, fairness | `ApprovalResolves` | a committed approval is signed or expires |
| `issuer_recovery` | 1 crash | `RecoveryResumes` (violated) | finding 2 |
| `prepared` | 2 attestations, lifetime 2, clock to 4 and past it for a record, 1 crash, fairness | `TypeOK`, `RecordHasScreenshots`, `LiveKeepsEvidence`, `MarkedGoesAway` | evidence outlives the executions that need it; marker and record go away whatever is swept, given up or interrupted, and the screenshots unless the daemon died |
| `prepared_removal` | 1 attestation, 1 crash, fairness | `MarkedIsRemoved` (violated) | finding 3 |
| `lifecycle` | 2 drafts, one of them sent twice; every combination of fields, linkage and cache | `TypeOK`, `ConfirmedIsThisSend`, `BackendIsTrue`, `LinkedIsNeverResent` | confirmation is of this send, and a readable message always blocks another |
| `render` | 2 runs, 2 contents, 2 settings, 3 versions, 1 edit typed | `TypeOK`, `SealedIsSaved`, `PostedAsSealed`, `OutgoingShown` | nothing but stored content is sealed and nothing but the sealed payload posted, whatever the owner, the application and other probes do; nobody is left offline |
| `reads` | 2 accounts, 3 threads, 4 messages, 5 requests, limits of 2 and 3, 2 writes, 2 draft processes, 3 threads of comments | `TypeOK`, `ScanTruthful`, `ScanKeepsNewest`, `ReplyRight`, `ForwardOneMessage`, `CommentsWhole` | a torn copy, a limit or a failed answer is never passed off as complete; replies are of what they say, forwards up to the search for their text |

Every property of a passing run has a mutant in `PROJECT.json`: a plausible bug
in one mapped definition that makes TLC find the property violated.

**Bounds.** Two receipts on one draft are the least at which executions meet
(each other's edits and sends), and two approved versions make an edit turn one
of them valid as the other becomes stale. A clock to 4 leaves room for grace,
margin and an expiry during each await. One crash in the safety run reaches
every suspended state of both workers; two in the liveness run make recovery
itself be interrupted. Two processes and three commands let a third command find
what two racing ones left behind, and one ageing suffices for a purge in
between. Two requests and two messages let messages repeat a nonce in the wrong
thread and recovery have a queue. `CHECK_DEADLOCK` is off because every model
can really end: all bounded inputs used up and every actor idle.

In `Attestation` two runs are a creation and its revalidation, or two probes
that overlap; two contents make every comparison able to fail and a draft go
there and back within three versions (stored, changed, restored). One typed
edit suffices, since an editor that holds unsaved text is what the probe has to
notice. In `LocalReads` the limits are 2 or 3 and the caches straddle them; two
writes can garble and shrink, or write and replace, during one copy; the four
messages are one of each kind a reply has to tell apart; three threads make two
batches.

In `PreparedStore` a lifetime of 2 lets a sweep fall before, at and after the
expiry, and two attestations let a sweep meet one that lives and one that does
not. In `Lifecycle` two attempts of one draft and one of another are what the
two proofs have to tell apart.

**Fairness.** The safety runs assume none. `SendExecutor!Fairness`: an await of a
worker is a sleep, or a call with a timeout (60 s for a render, 180 s for the
send), so its continuation runs eventually; launchd restarts the daemon; time
passes. Clients, the provider and the orphaned bridge owe nothing, and crashes
are bounded. `SlackIssuer!Fairness`: a call to the signer ends (5 s timeout),
the signer serves its socket, launchd restarts the daemon. People and Slack owe
nothing. `PreparedStore!Fairness`: the thread goes on with a removal and a sweep
it has begun, its timer gets a turn although other callbacks come first again
and again (strong fairness, since `Free` is not always true), launchd restarts
the daemon and time passes; clients and the bridge owe nothing. `ApprovalResolves` is checked with no transient signer failure
(`MaxTimeouts = 0`): nothing in the daemon retries a failed completion before
the next start, so such a failure strands an approval until then, or until it
expires.

**Findings.** Each is a run with `expect: violation`; the texts in
`PROJECT.json` quote both sides.

1. `AttemptJournal.update` overwrites a recorded provider confirmation with a
   verdict from an older snapshot, against the comment at `send.py:517-518`.
2. An approval that expired in the signing queue makes recovery stop before the
   unexpired ones behind it, against `authority/README.md:23`.
3. `remove` deletes the record, which alone names the screenshot directories,
   before the screenshots (`prepared-store.mjs:44-45`): a crash in between leaves
   them for ever, against `docs/send-safety.md:132`.

Two weaknesses are listed as hazards and have no run. A request whose hashes
differ joins an execution in flight before they are compared
(`executor.mjs:168-169`) and gets its outcome. A decision that arrives while the
presentation is still being posted finds no row, is acknowledged and lost
(`daemon.mjs:150`), although `authority/README.md:22` has every decision
committed before the acknowledgement; `SlackIssuer` has that step.

## 4. What is proved

`SendExecutorProofs` proves for all finite or infinite sets of receipts and
drafts, all expiries, graces and bounds, from `ExecutorAssumption` alone:

| Theorem | Statement |
|---|---|
| `TypeCorrect` | `Spec => []TypeOK` |
| `AlwaysAgree` | `Spec => []PartsAgree` |
| `OnePost`, `NotSentTrue`, `GraceRespected`, `PostApproved`, `SentEvidenced`, `AnswersConsistent` | `Spec => []` of the six safety invariants of `executor_safety` |
| `SettledIsFinal` | `Spec => [][RowsSettle]_vars`: a settled row never changes its state |
| `ImplementsOneShot` | `Spec => KeepsOneShot`: the executor implements `OneShotSend` |

The argument. None of the six invariants is inductive: "at most one POST" says
nothing about a bridge that is about to post while a restart retries its
receipt. `PartsAgree` adds what the code relies on, in four named parts.
`RowFitsBridge`: there is no bridge before the claim, and a verdict that rules
out a send has no bridge that could still post. `WorkerFitsRow`: a claimed row
has the one worker that claimed it, unless the daemon is down; recovery is what
keeps this through a restart. `BridgeFitsProvider`: what a bridge in each state
has posted, read and seen. `GraceFitsClock`: the grace of every claimed row is
over. With `TypeOK` it is inductive; the proof has one lemma per action and,
for the many actions that touch only one part, frame lemmas. `AnswersAgree`
is proved from the fact that a settled row never changes (`SettledIsFinal`). The
refinement maps each action to a step of `OneShotSend` for one receipt and a
rest for all others, and `Restart` to giving up or calling off all interrupted
receipts at once.

`AttemptJournalProofs` proves for any processes, references, commands, edits and
purges, from `JournalAssumption`:

| Theorem | Statement |
|---|---|
| `TypeCorrect` | `Spec => []TypeOK` |
| `OnePostEver` | `Spec => []OnePost` |
| `SentIsReal` | `Spec => []SentExists` |
| `AlwaysAgree` | `Spec => []AttemptsAgree` |
| `ClaimNeverUndone` | `Spec => ClaimIsForGood`, an action property |

"At most one POST" is not inductive: what protects it after a purge is not the
row, which is gone, but the mailbox. `SpentIsRemembered` says so (once a POST was
made there is a claimed row or the mailbox blocks the draft), `OnePoster` that no
two processes stand before the POST and none when it was made, and `RowTrue` that
a row is purged only when the mailbox blocks in its place. A process acts on
variables it read some transactions ago; `CommandTrue` says what stays true of
them: the attempt it holds is the one in the row or one that is gone
(`HeldTrue`, which needs that ids are fresh), its claim is in the row as long as
the row lives, a mailbox state it has seen that ends an attempt still holds. The
proof classifies what a step does to the journal (kept, purged, inserted,
updated), has a frame lemma for the processes that stand by, and a lemma for
each group of actions.

`SlackIssuerProofs` proves for any requests, messages, lifetimes, crashes and
timeouts, from `IssuerAssumption`:

| Theorem | Statement |
|---|---|
| `TypeCorrect` | `Spec => []TypeOK` |
| `OneReceiptEach` | `Spec => []OneReceipt` |
| `NoneUndecided` | `Spec => []UndecidedUnsigned` |
| `Authorised` | `Spec => []ReceiptAuthorised` |
| `DecisionsAreFinal` | `Spec => DecisionsStand`, an action property: no step undoes, redates or reassigns a decision, moves the row of a request that is over, or takes back a receipt |

The invariant is about one request at a time, and so is the frame lemma
(`Undisturbed`). `UndecidedIsIdle`: no call, no late signer and no recovery is at
an undecided request, which is what a cancelled one needs when its signer
outlives everybody. `DecidedIsFixed`: a decided row names the one message that
decided it, in time and by the approver, and all that was signed or stored is
`ReceiptOf` of that row; every receipt is then the same. `DatedOnce`: the expiry
is fixed before there is a row. That decisions are final follows from
the guards of each writer and from `DatedOnce`: `create` dates no request that
has a row.

`LocalReadsProofs` proves for any accounts, threads, messages, caches, requests,
limits and processes, from `ReadsAssumption`, `ScanAssumption` and
`CommentReadAssumption`:

| Theorem | Statement |
|---|---|
| `TypeCorrect` | `Spec => []TypeOK` |
| `EveryReplyRight` | `Spec => []ReplyRight` |
| `EveryForwardOneMessage` | `Spec => []ForwardOneMessage` |
| `EveryReadWhole` | `Spec => []CommentsWhole` |
| `ScanIsOfOneMoment` | `Spec => [][OneMoment]_vars`: a scan fails or answers what `Scan` makes of the files as each was when it was opened |
| `EveryScanTruthful` | `Spec => []ScanTruthful` |
| `EveryScanKeepsNewest` | `Spec => []ScanKeepsNewest` |
| `EveryScanWithinLimits` | `Spec => []ScanWithinLimits`: no answer exceeds the limits per message, per account and over all, of records, data and bytes |

The invariant has a part for each actor. `FileTrue`: no time stamp is ahead of
the clock. `CopyTrue` and `DraftTrue`: whatever the shared copy or a process's
hand holds is the beginning of what the file holds now, and a message found by
the first reading of a forward is still at its place, all of it while no message
left a thread; several processes may renew the copy, set it back or die over it,
and the second reading is of a copy older or younger than the first, but either
begins the file. So the message rendered is the one found, and only the search
for its text can leave it. `ScanTrue`: the copies of finished accounts are what their files
held when opened, and of the account at hand so far as `Stable` would still
accept it; a time stamp that is strictly above every older one is what makes
this an invariant. `EveryReplyRight` and `EveryReadWhole` hold for each answer by
itself and rest on `ReadsLemmas`: the reply chosen is the last message that
qualifies (`RepliesAreRight`), a batch gives each of its threads the value
that was stored whatever the order of the results (`ByThreadGives`,
`BackendAnswersSo`, `BatchRead`), and the batches cover the request
(`BatchesCover`).

The theorems on scans have two halves. The invariant gives that an answer is
`Scan` of rows that the files held at one moment each (`ScanAnswers`); the rest
is about `Scan` alone, for every request, cache and limit. `ScanTells`: without a
reason nothing was cut, so each of the five cuts leaves all of its set
(`LeadingIsAll`, `InspectionIsWhole`, `KeptIs`), and every message asked for is
in a thread that is looked at, since its sort column is no older than the message
(`SortIsNewest`, `WantedIsSelected`). `ScanKeeps`: each cut leaves, with a
record, all that are newer (`LeadingIsClosed`, `FittingIsClosed`), and the caps in
between change amounts but no order (`CappedAre`, `SameOrder`). `ScanIsLimited`:
the n-th cut leaves at most n because the records before each are counted
without a gap (`LeadingIsShort`); the data handed out stays under its limit by
the last record that got any (`CappedWeight`); what fits up to the last record
shown fits (`FittingFits`). The limits per message and per account survive the
later cuts, which only take away.

`PreparedStoreProofs` proves `TypeCorrect`, `RecordsComplete` and `EvidenceKept`
for any number of attestations and crashes, from `StoreAssumption`.
`LiveKeepsEvidence` alone is not inductive: the daemon may be in the middle of a
removal. `Ordered` says what must come before what (screenshots, record, return
to the issuer, then marker, execution and removal), `RecordFirst` that the
record is the first thing deleted, `RemovesUnneeded` that a removal's target is
over or expired.

`AttestationProofs` proves all four invariants of the run `render` for any
number of runs, contents, settings, versions and edits, from
`AttestationAssumption` and `RecordAssumption` (the absent value is no content,
run or record). `Steady` adds to them what the code relies on: `CleanIsSaved`
(a page without unsaved text shows its model, which is why `create` may refuse
only dirty drafts), `RunIsWhole` (the model, the editor HTML and the payload a
run holds are of one piece, and preflight A named a stored version),
`SealIsFinal` (a run seals once, and what a revalidation has accepted is the
record), `PictureFits` (a probe alone on the page finds its own overlay) and
`OfflineIsHeld` (who took the page offline has yet to put it back). The proof
has three frame lemmas, for the steps of the world, of one run and of those
that touch every run, and one lemma per action under them.

`LifecycleProofs` proves all four invariants of the run for any drafts, attempts
and userdata, from `LifecycleAssumption`. They are about one observation and
inductive together; the argument is in `ProofIsOurs` (a message that proves the
send is that of the job or of the recorded attempt) and in the fact that a
message that names the draft is either a proof or a conflict.

Only model-checked: liveness (`ClaimSettles`, `AwaitedSettles`,
`ApprovalResolves`, `MarkedGoesAway`: it needs fairness and `ENABLED`), and the
violations. Every invariant and every safety property of a step that a passing
run checks is also a theorem. `ScanWithinLimits`, `OneMoment` and
`RowsSettle` are proved and in no run. The pure operators are written
without folds, whose results for every input would be an induction over data,
beyond the prover: they are stated by the least, the greatest or the set of the
members that qualify; that a least number exists follows from the
well-foundedness of the numbers, and that a finite ordered set has a last member
from counting those before each.

## 5. Not modelled, and the plan

The modules were written in the order in which a mistake would cost most: the
executor that owns the one POST, the journal of the unattended route, the
issuer, then the evidence and the observation they rest on. Still to be done,
in this order:

1. `ReceiptJournal`: `create_or_get` and `claim_post`, two receipts on a draft.
2. `Authority`: issuer, executor and the authority client composed, with the
   client's timeout against the executor's 60 + 60 + 60 + 180 s.
3. `DraftWrites`: attach and discard under the history id read before them.
   Each is one unguarded remote write of one process, so little can be said of
   them beyond what the server does.

Left out for good: cryptography and canonical JSON (assumed ideal), argument
parsing and output, OAuth exchange, setup and packaging, shares, posting
of comments, searches and lists, the layout of a rendering and the contents of
the approval presentation: pure I/O or data no property depends on.
