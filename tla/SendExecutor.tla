---------------------------- MODULE SendExecutor ----------------------------
(***************************************************************************)
(* The credential-isolated send executor: the daemon that redeems one      *)
(* signed approval receipt for at most one provider POST                   *)
(* (authority/send-executor/executor.mjs, daemon.mjs, provider.mjs and the *)
(* conditional send of superhuman_mail/executor.py it drives).             *)
(*                                                                         *)
(* Actors that interleave here:                                            *)
(*   - the daemon, one asynchronous worker per receipt (the promise kept   *)
(*     in SendExecutor.#inflight); JavaScript runs a worker without        *)
(*     interruption between two awaits, so one action is one such stretch; *)
(*   - clients that submit, resubmit, poll and abort;                      *)
(*   - the send bridge, a process of its own: killing it on a timeout, or  *)
(*     the daemon with it, leaves its Python child running;                *)
(*   - the provider, which may process a POST long after the caller gave   *)
(*     up on it; and people editing or sending the draft in the native UI. *)
(*                                                                         *)
(* A receipt stands for its id, its hashes and the binding it signs: the   *)
(* draft, the approved content and the expiry.  Two receipts may approve   *)
(* the same draft.                                                         *)
(***************************************************************************)
EXTENDS Naturals, FiniteSets

CONSTANTS
  Receipt,      \* the receipt ids signed by the issuer
  Draft,        \* the drafts they approve
  DraftOf,      \* the draft each receipt binds
  Approved,     \* the content version of that draft each receipt approves
  Expiry,       \* the expires_at of each receipt, in ticks of the clock
  Grace,        \* MIN_GRACE_MS in ticks
  Margin,       \* CLAIM_MARGIN_MS in ticks
  MaxTime,      \* bound on the clock
  MaxEdits,     \* bound on the content versions of a draft
  MaxCrashes    \* bound on the crashes of the daemon

ASSUME ExecutorAssumption ==
  /\ DraftOf \in [Receipt -> Draft]
  /\ Approved \in [Receipt -> Nat]
  /\ Expiry \in [Receipt -> Nat]
  /\ Grace \in Nat
  /\ Margin \in Nat
  /\ MaxTime \in Nat
  /\ \A r \in Receipt : Expiry[r] <= MaxTime
  /\ MaxEdits \in Nat
  /\ MaxCrashes \in Nat

VARIABLES
  now,       \* the wall clock
  up,        \* whether the daemon runs
  crashes,   \* crashes so far
  row,       \* the executions table: state, not_before and time of insertion
  worker,    \* where the in-flight execution of each receipt awaits
  waiting,   \* the kinds of request that await the in-flight execution
  told,      \* every settled state reported to a client, with its request
  bridge,    \* the send bridge process of each receipt
  payload,   \* the content version the bridge read in its last check
  posts,     \* POSTs made for each receipt
  wire,      \* what became of the POST of each receipt at the provider
  content,   \* the content version of each draft in the provider's store
  life       \* the send lifecycle of each draft at the provider

daemonVars   == <<up, crashes, row, worker, waiting, told>>
bridgeVars   == <<bridge, payload, posts>>
providerVars == <<wire, content, life>>
vars == <<now, daemonVars, bridgeVars, providerVars>>

(***************************************************************************)
(* Values.                                                                 *)
(***************************************************************************)
SettledState == {"accepted", "provider_confirmed", "failed", "expired",
                 "unknown", "aborted"}

\* "none" is the absence of a row; the rest is the CHECK constraint STATES.
RowState == {"none", "grace", "claimed"} \cup SettledState

\* States that tell the client that its receipt caused no send.
NotSent == {"failed", "expired", "aborted"}

\* A request carries the receipt as issued, or the same receipt_id with bytes
\* whose hashes differ.
Request == {"genuine", "altered"}

WorkerState == {"idle", "rendering", "waiting", "rerendering", "claimed", "sending"}

BridgeState == {"none", "checking", "ready", "posting", "observing",
                "rejected", "errored", "inconclusive", "accepted", "confirmed"}

\* Bridge states in which the process has exited with its result.
Exited == {"rejected", "errored", "inconclusive", "accepted", "confirmed"}

WireState == {"none", "sent", "processed", "refused"}

\* A job is pending while nothing but the job itself shows it; it is scheduled
\* while its time is still to come, due once it has come, and dropped when it was
\* scheduled and then called off or failed.
LifeState == {"active", "pending", "scheduled", "due", "backend", "provider",
              "failed", "dropped"}

\* What the draft may have become once its send job was scheduled or confirmed.
Evidenced == {"scheduled", "due", "dropped", "backend", "provider"}

TypeOK ==
  /\ now \in Nat
  /\ up \in BOOLEAN
  /\ crashes \in Nat
  /\ row \in [Receipt -> [state : RowState, notBefore : Nat, recordedAt : Nat]]
  /\ worker \in [Receipt -> WorkerState]
  /\ waiting \in [Receipt -> SUBSET Request]
  /\ told \in [Receipt -> SUBSET [request : Request, state : SettledState]]
  /\ bridge \in [Receipt -> BridgeState]
  /\ payload \in [Receipt -> Nat]
  /\ posts \in [Receipt -> Nat]
  /\ wire \in [Receipt -> WireState]
  /\ content \in [Draft -> Nat]
  /\ life \in [Draft -> LifeState]

NoRow == [state |-> "none", notBefore |-> 0, recordedAt |-> 0]

Init ==
  /\ now = 0
  /\ up = TRUE
  /\ crashes = 0
  /\ row = [r \in Receipt |-> NoRow]
  /\ worker = [r \in Receipt |-> "idle"]
  /\ waiting = [r \in Receipt |-> {}]
  /\ told = [r \in Receipt |-> {}]
  /\ bridge = [r \in Receipt |-> "none"]
  /\ payload = [r \in Receipt |-> 0]
  /\ posts = [r \in Receipt |-> 0]
  /\ wire = [r \in Receipt |-> "none"]
  /\ content = [d \in Draft |-> 0]
  /\ life = [d \in Draft |-> "active"]

(***************************************************************************)
(* ExecutorJournal: what each transaction does to one row.                 *)
(***************************************************************************)
SetState(r, s) == row' = [row EXCEPT ![r].state = s]

\* Mutants: not_before forgets the grace; or is computed in the wrong direction.
Mutant_StartNoGrace(r) ==
  row' = [row EXCEPT ![r] = [state |-> "grace", notBefore |-> now, recordedAt |-> now]]
Mutant_StartBackwards(r) ==
  row' = [row EXCEPT ![r] = [state |-> "grace", notBefore |-> now - Grace, recordedAt |-> now]]

\* ExecutorJournal.start, when no row exists.  recordedAt is the time of the
\* audit_transitions entry its trigger writes.
Start(r) ==
  row' = [row EXCEPT ![r] = [state |-> "grace", notBefore |-> now + Grace, recordedAt |-> now]]

\* The condition under which ExecutorJournal.claim moves grace to claimed; the
\* other outcomes of claim are spelt out in RerenderMatches.
Claimable(r) ==
  /\ row[r].state = "grace"
  /\ now >= row[r].notBefore
  /\ now < Expiry[r]

Claim(r) == SetState(r, "claimed")

\* Mutant: the UPDATE of failGrace loses its AND state='grace'.
Mutant_FailAny(r, s) == SetState(r, s)

\* ExecutorJournal.failGrace and finish both give up when the row has left the
\* state they update from.
FailGrace(r, s) == row[r].state = "grace" /\ SetState(r, s)

Finish(r, s) == row[r].state = "claimed" /\ SetState(r, s)

(***************************************************************************)
(* Answers.  A settled answer is remembered; an error answer and the       *)
(* answer grace or claimed are not.                                        *)
(***************************************************************************)
Tell(r, requests, s) ==
  told' = [told EXCEPT ![r] = @ \cup [request : requests, state : {s} \cap SettledState]]

\* The in-flight promise settles with state s: every awaiting request gets it.
Resolve(r, s) ==
  /\ worker' = [worker EXCEPT ![r] = "idle"]
  /\ waiting' = [waiting EXCEPT ![r] = {}]
  /\ Tell(r, waiting[r], s)

\* The in-flight promise rejects: every awaiting request gets an error.
Reject(r) ==
  /\ worker' = [worker EXCEPT ![r] = "idle"]
  /\ waiting' = [waiting EXCEPT ![r] = {}]
  /\ UNCHANGED told

(***************************************************************************)
(* SendExecutor.execute.  Each of the next actions is the arrival of one   *)
(* POST /v1/execute and runs to the first await.                           *)
(***************************************************************************)
Arrives(r) == up /\ worker[r] = "idle"

\* #inflight holds a promise for this receipt_id: whatever the request carries,
\* it awaits that promise, before any of it is compared with anything.
JoinInflight(r, q) ==
  /\ up
  /\ worker[r] # "idle"
  /\ waiting' = [waiting EXCEPT ![r] = @ \cup {q}]
  /\ UNCHANGED <<now, up, crashes, row, worker, told, bridgeVars, providerVars>>

\* The row has settled: its state is the answer and nothing is sent again.
ReplayAnswer(r) ==
  /\ Arrives(r)
  /\ row[r].state \notin {"none", "grace"}
  /\ Tell(r, {"genuine"}, row[r].state)
  /\ UNCHANGED <<now, up, crashes, row, worker, waiting, bridgeVars, providerVars>>

\* A row in grace without a worker is one a restart interrupted.  An expired
\* receipt settles it; otherwise the wait resumes, without a first render.
ResumeExpired(r) ==
  /\ Arrives(r)
  /\ now >= Expiry[r]
  /\ FailGrace(r, "expired")
  /\ Tell(r, {"genuine"}, "expired")
  /\ UNCHANGED <<now, up, crashes, worker, waiting, bridgeVars, providerVars>>

ResumeGrace(r) ==
  /\ Arrives(r)
  /\ row[r].state = "grace"
  /\ now < Expiry[r]
  /\ worker' = [worker EXCEPT ![r] = "waiting"]
  /\ waiting' = [waiting EXCEPT ![r] = {"genuine"}]
  /\ UNCHANGED <<now, up, crashes, row, told, bridgeVars, providerVars>>

\* No row yet: the receipt must be unexpired and outlive grace and margin.
FirstRequest(r) ==
  /\ Arrives(r)
  /\ row[r].state = "none"
  /\ now < Expiry[r]
  /\ Expiry[r] >= now + Grace + Margin
  /\ worker' = [worker EXCEPT ![r] = "rendering"]
  /\ waiting' = [waiting EXCEPT ![r] = {"genuine"}]
  /\ UNCHANGED <<now, up, crashes, row, told, bridgeVars, providerVars>>

(***************************************************************************)
(* The worker between its awaits.                                          *)
(***************************************************************************)

\* Mutant: only the lifecycle is read again, not the content.
Mutant_UnchangedLifeOnly(r) == life[DraftOf[r]] = "active"

\* What a render compares: the bridge's second lifecycle and content read.
Unchanged(r) ==
  /\ life[DraftOf[r]] = "active"
  /\ content[DraftOf[r]] = Approved[r]

\* The first render returns the approved binding: the grace row is committed.
RenderMatches(r) ==
  /\ up
  /\ worker[r] = "rendering"
  /\ Unchanged(r)
  /\ Start(r)
  /\ worker' = [worker EXCEPT ![r] = "waiting"]
  /\ UNCHANGED <<now, up, crashes, waiting, told, bridgeVars, providerVars>>

\* It differs, or the render failed or timed out: nothing is recorded.
RenderFails(r) ==
  /\ up
  /\ worker[r] = "rendering"
  /\ Reject(r)
  /\ UNCHANGED <<now, up, crashes, row, bridgeVars, providerVars>>

\* Mutant: the loop does not read the row again, so an abort is not noticed.
Mutant_WakeBlind(r) ==
  /\ up
  /\ worker[r] = "waiting"
  /\ row[r].state \notin {"grace", "aborted"}
  /\ Resolve(r, row[r].state)
  /\ UNCHANGED <<now, up, crashes, row, bridgeVars, providerVars>>

\* A slice of the sleep ends and the row, read again, has left grace.
WakeSettled(r) ==
  /\ up
  /\ worker[r] = "waiting"
  /\ row[r].state # "grace"
  /\ Resolve(r, row[r].state)
  /\ UNCHANGED <<now, up, crashes, row, bridgeVars, providerVars>>

\* The last slice ends: the second render starts.
WakeAfterGrace(r) ==
  /\ up
  /\ worker[r] = "waiting"
  /\ row[r].state = "grace"
  /\ now >= row[r].notBefore
  /\ worker' = [worker EXCEPT ![r] = "rerendering"]
  /\ UNCHANGED <<now, up, crashes, row, waiting, told, bridgeVars, providerVars>>

\* The second render fails or differs.  failGrace throws when an abort won.
RerenderFails(r) ==
  /\ up
  /\ worker[r] = "rerendering"
  /\ \/ FailGrace(r, "failed") /\ Resolve(r, "failed")
     \/ row[r].state # "grace" /\ Reject(r) /\ UNCHANGED row
  /\ UNCHANGED <<now, up, crashes, bridgeVars, providerVars>>

\* The second render matches: claim commits, or reports an abort, or expires.
RerenderMatches(r) ==
  /\ up
  /\ worker[r] = "rerendering"
  /\ Unchanged(r)
  /\ \/ /\ Claimable(r)
        /\ Claim(r)
        /\ worker' = [worker EXCEPT ![r] = "claimed"]
        /\ UNCHANGED <<waiting, told>>
     \/ /\ row[r].state # "grace"
        /\ Resolve(r, row[r].state)
        /\ UNCHANGED row
     \/ /\ now >= Expiry[r]
        /\ FailGrace(r, "expired")
        /\ Resolve(r, "expired")
  /\ UNCHANGED <<now, up, crashes, bridgeVars, providerVars>>

\* runBridge has read and checked the bridge binary and spawns it.
LaunchSend(r) ==
  /\ up
  /\ worker[r] = "claimed"
  /\ worker' = [worker EXCEPT ![r] = "sending"]
  /\ bridge' = [bridge EXCEPT ![r] = "checking"]
  /\ UNCHANGED <<now, up, crashes, row, waiting, told, payload, posts, providerVars>>

\* Mutant: every unsuccessful exit of the bridge counts as a failed send.
Mutant_VerdictFailed(b) == CASE b = "confirmed" -> "provider_confirmed"
                             [] b = "accepted"  -> "accepted"
                             [] OTHER           -> "failed"

\* What the journal makes of the bridge's exit.
Verdict(b) == CASE b = "confirmed" -> "provider_confirmed"
                [] b = "accepted"  -> "accepted"
                [] b = "rejected"  -> "failed"
                [] OTHER           -> "unknown"

SendReturns(r) ==
  /\ up
  /\ worker[r] = "sending"
  /\ bridge[r] \in Exited
  /\ Finish(r, Verdict(bridge[r]))
  /\ Resolve(r, Verdict(bridge[r]))
  /\ UNCHANGED <<now, up, crashes, bridgeVars, providerVars>>

\* Mutant: the bridge call has no timeout.
Mutant_SendFailsNoTimeout(r) ==
  /\ up
  /\ worker[r] = "claimed"
  /\ Finish(r, "unknown")
  /\ Resolve(r, "unknown")
  /\ UNCHANGED <<now, up, crashes, bridgeVars, providerVars>>

\* No usable result: the binary check failed, or the 180 s timeout killed the
\* bridge, whose child may go on.
SendFails(r) ==
  /\ up
  /\ \/ worker[r] = "claimed"
     \/ worker[r] = "sending" /\ bridge[r] \notin Exited
  /\ Finish(r, "unknown")
  /\ Resolve(r, "unknown")
  /\ UNCHANGED <<now, up, crashes, bridgeVars, providerVars>>

(***************************************************************************)
(* The other endpoints of the execute socket.                              *)
(***************************************************************************)

\* Mutant: a claimed execution can still be aborted.
Mutant_AbortClaimed(r) ==
  /\ up
  /\ \/ row[r].state \in {"grace", "claimed"} /\ SetState(r, "aborted")
     \/ row[r].state = "aborted" /\ UNCHANGED row
  /\ Tell(r, {"genuine"}, "aborted")
  /\ UNCHANGED <<now, up, crashes, worker, waiting, bridgeVars, providerVars>>

\* POST /v1/abort: from grace, and again once aborted; otherwise an error.
Abort(r) ==
  /\ up
  /\ \/ row[r].state = "grace" /\ SetState(r, "aborted")
     \/ row[r].state = "aborted" /\ UNCHANGED row
  /\ Tell(r, {"genuine"}, "aborted")
  /\ UNCHANGED <<now, up, crashes, worker, waiting, bridgeVars, providerVars>>

\* GET /v1/status.
Status(r) ==
  /\ up
  /\ row[r].state # "none"
  /\ Tell(r, {"genuine"}, row[r].state)
  /\ UNCHANGED <<now, up, crashes, row, worker, waiting, bridgeVars, providerVars>>

(***************************************************************************)
(* The daemon dies at any point: connections, promises and the in-flight   *)
(* map are gone, the journal and the bridge processes are not.  Starting   *)
(* it runs recoverInterruptedClaims before it listens.                     *)
(***************************************************************************)
Crash ==
  /\ up
  /\ crashes < MaxCrashes
  /\ up' = FALSE
  /\ crashes' = crashes + 1
  /\ worker' = [r \in Receipt |-> "idle"]
  /\ waiting' = [r \in Receipt |-> {}]
  /\ UNCHANGED <<now, row, told, bridgeVars, providerVars>>

\* Mutants: a restart retries what it interrupted; or only looks at grace rows.
Mutant_RecoverRetry(r) ==
  IF row[r].state = "claimed" /\ now < Expiry[r] THEN "grace" ELSE row[r].state
Mutant_RecoverGraceOnly(r) ==
  IF row[r].state = "grace" /\ now >= Expiry[r] THEN "expired" ELSE row[r].state

Recovered(r) ==
  CASE row[r].state = "claimed"                      -> "unknown"
    [] row[r].state = "grace" /\ now >= Expiry[r]    -> "expired"
    [] OTHER                                         -> row[r].state

Restart ==
  /\ ~up
  /\ up' = TRUE
  /\ row' = [r \in Receipt |-> [row[r] EXCEPT !.state = Recovered(r)]]
  /\ UNCHANGED <<now, crashes, worker, waiting, told, bridgeVars, providerVars>>

(***************************************************************************)
(* The send bridge: executor.send_conditional in a process of its own.     *)
(***************************************************************************)

\* revalidate_for_send passes: the payload it returns is the live draft's.
BridgeChecks(r) ==
  /\ bridge[r] = "checking"
  /\ Unchanged(r)
  /\ bridge' = [bridge EXCEPT ![r] = "ready"]
  /\ payload' = [payload EXCEPT ![r] = content[DraftOf[r]]]
  /\ UNCHANGED <<now, daemonVars, posts, providerVars>>

\* An ExecutorContractError or AttestationError, raised before the POST only:
\* exit code 10, DefinitivePrePostRejection in the daemon.
BridgeRejects(r) ==
  /\ bridge[r] = "checking"
  /\ bridge' = [bridge EXCEPT ![r] = "rejected"]
  /\ UNCHANGED <<now, daemonVars, payload, posts, providerVars>>

\* Any other exception, or a signal, at any point.
BridgeDies(r) ==
  /\ bridge[r] \notin {"none"} \cup Exited
  /\ bridge' = [bridge EXCEPT ![r] = "errored"]
  /\ UNCHANGED <<now, daemonVars, payload, posts, providerVars>>

\* _post_exact_payload puts the one request on the wire.
BridgePosts(r) ==
  /\ bridge[r] = "ready"
  /\ bridge' = [bridge EXCEPT ![r] = "posting"]
  /\ posts' = [posts EXCEPT ![r] = @ + 1]
  /\ wire' = [wire EXCEPT ![r] = "sent"]
  /\ UNCHANGED <<now, daemonVars, payload, content, life>>

BridgeAnswered(r) ==
  /\ bridge[r] = "posting"
  /\ \/ wire[r] = "processed" /\ bridge' = [bridge EXCEPT ![r] = "observing"]
     \/ wire[r] = "refused" /\ bridge' = [bridge EXCEPT ![r] = "errored"]
  /\ UNCHANGED <<now, daemonVars, payload, posts, providerVars>>

\* Mutant: a job of which nothing else is known yet already counts as accepted.
Mutant_ObservePending(d) ==
  CASE life[d] = "provider"                            -> "confirmed"
    [] life[d] \in {"pending", "scheduled", "backend"} -> "accepted"
    [] OTHER                                           -> "inconclusive"

\* _observe_result: a decisive lifecycle state ends it at once, the deadline
\* ends it in any other.  A scheduled job is decisive and counts as accepted;
\* once it is due it is a request like any other.
Observation(d) == CASE life[d] = "provider"                 -> "confirmed"
                    [] life[d] \in {"scheduled", "backend"} -> "accepted"
                    [] OTHER                                -> "inconclusive"

BridgeObserves(r) ==
  /\ bridge[r] = "observing"
  /\ bridge' = [bridge EXCEPT ![r] = Observation(DraftOf[r])]
  /\ UNCHANGED <<now, daemonVars, payload, posts, providerVars>>

(***************************************************************************)
(* The provider and the native UI.                                         *)
(***************************************************************************)

\* The job of a draft with a scheduled time is a scheduled one.
ProviderProcesses(r) ==
  /\ wire[r] = "sent"
  /\ wire' = [wire EXCEPT ![r] = "processed"]
  /\ \/ /\ life[DraftOf[r]] = "active"
        /\ \E l \in {"pending", "scheduled"} : life' = [life EXCEPT ![DraftOf[r]] = l]
     \/ life[DraftOf[r]] # "active" /\ UNCHANGED life
  /\ UNCHANGED <<now, daemonVars, bridgeVars, content>>

ProviderRefuses(r) ==
  /\ wire[r] = "sent"
  /\ wire' = [wire EXCEPT ![r] = "refused"]
  /\ UNCHANGED <<now, daemonVars, bridgeVars, content, life>>

Successors(l) ==
  CASE l = "active"    -> {"pending", "scheduled"}   \* sent in the native UI
    [] l = "pending"   -> {"backend", "provider", "failed"}
    [] l = "scheduled" -> {"due", "dropped"}
    [] l = "due"       -> {"backend", "provider", "dropped"}
    [] l = "backend"   -> {"provider"}
    [] OTHER           -> {}

ProviderAdvances(d) ==
  /\ \E l \in Successors(life[d]) : life' = [life EXCEPT ![d] = l]
  /\ UNCHANGED <<now, daemonVars, bridgeVars, wire, content>>

Edit(d) ==
  /\ life[d] = "active"
  /\ content[d] < MaxEdits
  /\ content' = [content EXCEPT ![d] = @ + 1]
  /\ UNCHANGED <<now, daemonVars, bridgeVars, wire, life>>

\* The bounded clock still runs past MaxTime for an execution that sleeps.
Tick ==
  /\ \/ now < MaxTime
     \/ \E r \in Receipt : worker[r] = "waiting" /\ now < row[r].notBefore
  /\ now' = now + 1
  /\ UNCHANGED <<daemonVars, bridgeVars, providerVars>>

(***************************************************************************)
(* Specification.                                                          *)
(***************************************************************************)
Client(r) ==
  \/ \E q \in Request : JoinInflight(r, q)
  \/ ReplayAnswer(r)
  \/ ResumeExpired(r)
  \/ ResumeGrace(r)
  \/ FirstRequest(r)
  \/ Abort(r)
  \/ Status(r)

Worker(r) ==
  \/ RenderMatches(r)
  \/ RenderFails(r)
  \/ WakeSettled(r)
  \/ WakeAfterGrace(r)
  \/ RerenderFails(r)
  \/ RerenderMatches(r)
  \/ LaunchSend(r)
  \/ SendReturns(r)
  \/ SendFails(r)

Bridge(r) ==
  \/ BridgeChecks(r)
  \/ BridgeRejects(r)
  \/ BridgeDies(r)
  \/ BridgePosts(r)
  \/ BridgeAnswered(r)
  \/ BridgeObserves(r)

Provider ==
  \/ \E r \in Receipt : ProviderProcesses(r)
  \/ \E r \in Receipt : ProviderRefuses(r)
  \/ \E d \in Draft : ProviderAdvances(d)
  \/ \E d \in Draft : Edit(d)

Next ==
  \/ \E r \in Receipt : Client(r) \/ Worker(r) \/ Bridge(r)
  \/ Provider
  \/ Crash
  \/ Restart
  \/ Tick

Spec == Init /\ [][Next]_vars

\* The event loop runs a worker whose await is over (every await has a timeout
\* or is a sleep), launchd restarts the daemon and time passes.  Clients, the
\* provider and the children of the bridge owe nothing.
Fairness ==
  /\ \A r \in Receipt : WF_vars(Worker(r))
  /\ WF_vars(Restart)
  /\ WF_vars(Tick)

FairSpec == Spec /\ Fairness

(***************************************************************************)
(* Properties.                                                             *)
(***************************************************************************)

\* One receipt causes at most one POST, whatever is replayed, resumed, killed
\* or restarted (executor.mjs claim and recoverInterruptedClaims).
AtMostOnePost == \A r \in Receipt : posts[r] <= 1

\* A durable verdict that nothing was sent is true, and stays true: no POST was
\* made under a receipt whose row is failed, expired, aborted, in grace or
\* absent (abort wins only from grace; exit 10 is raised only before the POST).
NotSentIsTrue ==
  \A r \in Receipt :
    row[r].state \in NotSent \cup {"none", "grace"} => posts[r] = 0

\* A POST happens only once the receipt's whole cancellable grace has passed
\* since its execution was recorded (executor.mjs loop and claim).
GraceHonoured ==
  \A r \in Receipt : posts[r] > 0 => now >= row[r].recordedAt + Grace

\* What is posted is the content the receipt approves, even when the draft is
\* edited between the checks and the POST (send_conditional posts the payload
\* revalidate_for_send compared).
PostedAsApproved ==
  \A r \in Receipt : posts[r] > 0 => payload[r] = Approved[r]

\* A row says provider_confirmed only when this receipt's POST was processed and
\* the message has been sent, and accepted only when the POST was processed and
\* the provider has scheduled the job or confirmed it: a job known only as a
\* request never counts (_observe_result; docs/send-safety.md on accepted).  It
\* is not said that an accepted send goes out: a scheduled one may be called off.
SentIsEvidenced ==
  \A r \in Receipt :
    /\ row[r].state = "provider_confirmed" =>
         wire[r] = "processed" /\ life[DraftOf[r]] = "provider"
    /\ row[r].state = "accepted" =>
         wire[r] = "processed" /\ life[DraftOf[r]] \in Evidenced

\* All settled answers ever given for a receipt, to any client, through any
\* endpoint and across restarts, agree with each other and with the journal.
AnswersAgree ==
  \A r \in Receipt : \A a \in told[r] : a.state = row[r].state

(***************************************************************************)
(* The agreement of the journal, the worker and the bridge that makes the  *)
(* invariants above inductive.                                             *)
(***************************************************************************)
Posted == {"posting", "observing", "inconclusive", "accepted", "confirmed"}

\* No bridge before the claim, nor after a verdict that precedes it.
RowFitsBridge(r) ==
  /\ row[r].state \in {"none", "grace", "expired", "aborted"} => bridge[r] = "none"
  /\ row[r].state = "failed" => bridge[r] \in {"none", "rejected"}
  /\ row[r].state = "accepted" => bridge[r] = "accepted"
  /\ row[r].state = "provider_confirmed" => bridge[r] = "confirmed"

\* A worker renders before there is a row and has launched no bridge yet when it
\* has just claimed; a claimed row has such a worker, unless the daemon is down.
WorkerFitsRow(r) ==
  /\ worker[r] = "rendering" => row[r].state = "none"
  /\ worker[r] = "claimed" => bridge[r] = "none"
  /\ worker[r] \in {"claimed", "sending"} => row[r].state = "claimed"
  /\ up /\ row[r].state = "claimed" => worker[r] \in {"claimed", "sending"}
  /\ ~up => worker[r] = "idle"

\* What the bridge has read, sent and seen.
BridgeFitsProvider(r) ==
  /\ bridge[r] \in {"none", "checking", "ready", "rejected"} => posts[r] = 0
  /\ bridge[r] \in Posted => posts[r] = 1
  /\ posts[r] <= 1
  /\ bridge[r] \in {"ready"} \cup Posted \/ posts[r] = 1 => payload[r] = Approved[r]
  /\ bridge[r] \in Posted \ {"posting"} => wire[r] = "processed"
  /\ bridge[r] = "accepted" => life[DraftOf[r]] \in Evidenced
  /\ bridge[r] = "confirmed" => life[DraftOf[r]] = "provider"

\* The grace of a claimed row, hence of every bridge, is over.
GraceFitsClock(r) ==
  /\ row[r].state # "none" => row[r].notBefore = row[r].recordedAt + Grace
  /\ row[r].state = "claimed" \/ bridge[r] # "none" =>
       row[r].state # "none" /\ now >= row[r].recordedAt + Grace

\* Journal, worker, bridge, provider and clock agree about every receipt
\* (executor.mjs claim, finish and recoverInterruptedClaims rely on it).
PartsAgree ==
  \A r \in Receipt :
    /\ RowFitsBridge(r)
    /\ WorkerFitsRow(r)
    /\ BridgeFitsProvider(r)
    /\ GraceFitsClock(r)

\* Every claim reaches a verdict, through crashes and hung bridges.
ClaimSettles ==
  \A r \in Receipt : row[r].state = "claimed" ~> row[r].state \in SettledState

\* An execution a client awaits settles, unless the daemon dies under it.
AwaitedSettles ==
  \A r \in Receipt : worker[r] # "idle" ~> worker[r] = "idle"

\* The executor keeps the promise of OneShotSend for every receipt.
VerdictOf(s) == CASE s \in {"none", "grace"}                     -> "open"
                  [] s = "claimed"                              -> "committed"
                  [] s \in {"failed", "expired", "aborted"}      -> "called off"
                  [] s \in {"accepted", "provider_confirmed"}    -> "sent"
                  [] s = "unknown"                              -> "uncertain"

OneShot == INSTANCE OneShotSend
             WITH verdict <- [r \in Receipt |-> VerdictOf(row[r].state)], sends <- posts

KeepsOneShot == OneShot!Spec
=============================================================================
