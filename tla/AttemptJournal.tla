--------------------------- MODULE AttemptJournal ---------------------------
(***************************************************************************)
(* The attempt journal of the unattended website-inbound send: one row per *)
(* account and draft that lets cooperating shm processes make one POST     *)
(* (superhuman_mail/attempts.py, and execute_qualified_website_inbound,    *)
(* status and _reconcile of superhuman_mail/send.py).                      *)
(*                                                                         *)
(* Each process runs one command at a time.  A SQLite transaction, one     *)
(* observation of the mailbox and the POST are each one step; everything a *)
(* process keeps between them in local variables may be stale.  Processes  *)
(* may be killed at any step.  Statements of the journal name one row, so  *)
(* one draft of one account is modelled.                                   *)
(***************************************************************************)
EXTENDS Naturals

CONSTANTS
  Process,    \* the shm processes that share the state directory
  Ref,        \* the qualification references callers pass
  MaxRuns,    \* bound on the commands started
  MaxEdits,   \* bound on the content versions of the draft
  MaxAges     \* bound on the times the journal's row gets 30 days old

ASSUME JournalAssumption ==
  /\ MaxRuns \in Nat
  /\ MaxEdits \in Nat
  /\ MaxAges \in Nat

VARIABLES
  row,        \* the row of the attempts table, NoRow when there is none
  aged,       \* whether the row may be purged by its updated_at
  inserts,    \* rows inserted so far; each gets a fresh attempt_id
  ages,       \* times the row was left to age
  proc,       \* the command each process runs, with its local variables
  runs,       \* commands started so far; each execution draws a fresh superhuman_id
  made,       \* POSTs made by the processes
  posted,     \* attempt and bindings of the last of them
  wire,       \* what became of it at the provider
  content,    \* the content version of the draft
  job,        \* what userdata says of the draft and its send job
  delivered   \* whether the immutable sent message exists

journalVars == <<row, aged, inserts, ages>>
shmVars     == <<proc, runs>>
postVars    == <<made, posted, wire>>
mailVars    == <<content, job, delivered>>
vars == <<journalVars, shmVars, postVars, mailVars>>

(***************************************************************************)
(* Values.                                                                 *)
(***************************************************************************)

\* What lifecycle.classify reports.  Scheduled and send_pending_undo jobs, which
\* block a send likewise, count as send_requested, aborted ones as send_failed.
Observed == {"active_draft", "send_requested", "sent_backend_confirmed",
             "sent_provider_confirmed", "send_failed", "discarded", "inconsistent"}

AttemptState == {"prepared", "posting", "request_accepted", "unknown"}
                  \cup (Observed \ {"active_draft", "inconsistent"})

\* Mutant: attempts with an unknown outcome are forgotten as well.
Mutant_Purgeable == {"send_failed", "unknown"}

Purgeable == {"send_failed"}

\* msg: whether provider_message_id is set.
Row == [id : Nat, state : AttemptState, posts : {0, 1}, ref : Ref, sid : Nat,
        print : Nat, msg : BOOLEAN]

NoRow == [id |-> 0]

\* Steps of a command; "idle" before it starts and after it ends.
Step == {"idle", "opened", "resuming", "unchecked", "checked", "registered",
         "final", "posting", "waiting", "reconciling", "observed", "unattempted"}

Job == {"none", "requested", "backend", "failed", "conflict", "discarded"}

TypeOK ==
  /\ row \in Row \cup {NoRow}
  /\ aged \in BOOLEAN
  /\ inserts \in Nat
  /\ ages \in Nat
  /\ proc \in [Process -> [step : Step, cmd : {"execute", "status"}, ref : Ref,
                           sid : Nat, print : Nat, held : Row \cup {NoRow},
                           seen : Observed, sent : BOOLEAN]]
  /\ runs \in Nat
  /\ made \in Nat
  /\ posted \in [id : Nat, ref : Ref, sid : Nat, print : Nat]
  /\ wire \in {"none", "sent", "processed"}
  /\ content \in Nat
  /\ job \in Job
  /\ delivered \in BOOLEAN

\* A process between commands; sent is what the last one reported, FALSE also
\* when it failed.
Ended(q, sent) ==
  [step |-> "idle", cmd |-> "status", ref |-> q, sid |-> 0, print |-> 0,
   held |-> NoRow, seen |-> "active_draft", sent |-> sent]

Init ==
  /\ row = NoRow
  /\ aged = FALSE
  /\ inserts = 0
  /\ ages = 0
  /\ \E q \in Ref :
       /\ proc = [p \in Process |-> Ended(q, FALSE)]
       /\ posted = [id |-> 0, ref |-> q, sid |-> 0, print |-> 0]
  /\ runs = 0
  /\ made = 0
  /\ wire = "none"
  /\ content = 0
  /\ job = "none"
  /\ delivered = FALSE

(***************************************************************************)
(* Observation of the mailbox: userdata, and provider messages from a      *)
(* local cache that may lag behind the sent message.                       *)
(***************************************************************************)
OfJob == [none |-> "active_draft", requested |-> "send_requested",
          backend |-> "sent_backend_confirmed", failed |-> "send_failed",
          conflict |-> "inconsistent", discarded |-> "discarded"]

\* Mutant: a completed backend job already proves the message.
Mutant_ObservationsBackend == {OfJob[job]} \cup
  (IF delivered \/ job = "backend" THEN {"sent_provider_confirmed"} ELSE {})

Observations == {OfJob[job]} \cup (IF delivered THEN {"sent_provider_confirmed"} ELSE {})

(***************************************************************************)
(* The commands.                                                           *)
(***************************************************************************)
At(p, s) == proc[p].step = s

Goto(p, s) == proc' = [proc EXCEPT ![p].step = s]

\* _reconcile(held): of the caller's variables it reads only the attempt.
EnterReconcile(p, held) ==
  proc' = [proc EXCEPT ![p] = [@ EXCEPT !.step = "reconciling", !.held = held,
                                        !.sid = 0, !.print = 0, !.seen = "active_draft"]]

End(p, sent) == proc' = [proc EXCEPT ![p] = Ended(@.ref, sent)]

\* AttemptJournal() purges before anything is read.
Begin(p, cmd, q) ==
  /\ At(p, "idle")
  /\ runs < MaxRuns
  /\ runs' = runs + 1
  /\ proc' = [proc EXCEPT ![p] = [@ EXCEPT !.step = "opened", !.cmd = cmd, !.ref = q,
                                           !.sent = FALSE,
                                           !.sid = IF cmd = "execute" THEN runs + 1 ELSE 0]]
  /\ IF row # NoRow /\ row.state \in Purgeable /\ aged
     THEN row' = NoRow /\ aged' = FALSE
     ELSE UNCHANGED <<row, aged>>
  /\ UNCHANGED <<inserts, ages, postVars, mailVars>>

\* journal.get decides the way: reconcile or resume the attempt, else observe or
\* check the draft.
LookUp(p) ==
  /\ At(p, "opened")
  /\ proc' = [proc EXCEPT
       ![p].held = row,
       ![p].step = IF proc[p].cmd = "status"
                   THEN IF row = NoRow THEN "unattempted" ELSE "reconciling"
                   ELSE IF row = NoRow THEN "unchecked" ELSE "resuming"]
  /\ UNCHANGED <<runs, journalVars, postVars, mailVars>>

\* Mutant: the fingerprint is not among the compared bindings.
Mutant_SameBindings(r, q, sid, print) == r.ref = q /\ r.sid = sid

SameBindings(r, q, sid, print) == r.ref = q /\ r.sid = sid /\ r.print = print

NewRow(q, sid, print) ==
  [id |-> inserts + 1, state |-> "prepared", posts |-> 0, ref |-> q, sid |-> sid,
   print |-> print, msg |-> FALSE]

\* create_or_get_automation: insert, or return the row when all bindings match.
CreateOrGet(q, sid, print) ==
  \/ /\ row = NoRow
     /\ row' = NewRow(q, sid, print)
     /\ inserts' = inserts + 1
     /\ aged' = FALSE
  \/ /\ row # NoRow
     /\ SameBindings(row, q, sid, print)
     /\ UNCHANGED <<row, inserts, aged>>

\* AttemptConflict: a row with other bindings; the command fails.
Conflict(p, sid, print) ==
  /\ row # NoRow
  /\ ~SameBindings(row, proc[p].ref, sid, print)
  /\ End(p, FALSE)
  /\ UNCHANGED <<runs, journalVars, postVars, mailVars>>

\* execute found a row: it asks for it again under its own reference, and only a
\* prepared, unclaimed attempt goes on to the checks.
Resume(p) ==
  /\ At(p, "resuming")
  /\ LET held == proc[p].held IN
     \/ /\ CreateOrGet(proc[p].ref, held.sid, held.print)
        /\ IF row'.state = "prepared" /\ row'.posts = 0
           THEN proc' = [proc EXCEPT ![p].held = row', ![p].sid = row'.sid,
                                     ![p].step = "unchecked"]
           ELSE EnterReconcile(p, row')
        /\ UNCHANGED <<runs, ages, postVars, mailVars>>
     \/ Conflict(p, held.sid, held.print)

\* The first preflight accepts only an active draft and fixes the fingerprint.
FirstCheck(p) ==
  /\ At(p, "unchecked")
  /\ "active_draft" \in Observations
  /\ proc' = [proc EXCEPT ![p].step = "checked", ![p].print = content]
  /\ UNCHANGED <<runs, journalVars, postVars, mailVars>>

\* create_or_get_automation with the fingerprint just computed.
Register(p) ==
  /\ At(p, "checked")
  /\ \/ /\ CreateOrGet(proc[p].ref, proc[p].sid, proc[p].print)
        /\ proc' = [proc EXCEPT ![p].held = row', ![p].step = "registered"]
        /\ UNCHANGED <<runs, ages, postVars, mailVars>>
     \/ Conflict(p, proc[p].sid, proc[p].print)

\* The second preflight: still active, same fingerprint.
FinalCheck(p) ==
  /\ At(p, "registered")
  /\ "active_draft" \in Observations
  /\ content = proc[p].print
  /\ Goto(p, "final")
  /\ UNCHANGED <<runs, journalVars, postVars, mailVars>>

\* A preflight or policy check fails, an observation raises, or the process is
\* killed: the command ends without an answer.
Stop(p) ==
  /\ ~At(p, "idle")
  /\ End(p, FALSE)
  /\ UNCHANGED <<runs, journalVars, postVars, mailVars>>

\* Mutant: claiming an attempt whose outcome is unknown retries it.
Mutant_Claimable(p) ==
  /\ row # NoRow
  /\ row.id = proc[p].held.id
  /\ row.state \in {"prepared", "unknown"}

\* The condition of claim_automation_post; the bindings are those of the row
\* held, which have not changed under its attempt_id.
Claimable(p) ==
  /\ row # NoRow
  /\ row.id = proc[p].held.id
  /\ row.ref = proc[p].ref
  /\ row.state = "prepared"
  /\ row.posts = 0

Claim(p) ==
  /\ At(p, "final")
  /\ Claimable(p)
  /\ row' = [row EXCEPT !.state = "posting", !.posts = 1]
  /\ aged' = FALSE
  /\ proc' = [proc EXCEPT ![p].step = "posting", ![p].held = row']
  /\ UNCHANGED <<runs, inserts, ages, postVars, mailVars>>

\* Somebody else claimed it or reconciled it away from prepared.
ClaimLost(p) ==
  /\ At(p, "final")
  /\ row # NoRow
  /\ row.id = proc[p].held.id
  /\ row.ref = proc[p].ref
  /\ ~(row.state = "prepared" /\ row.posts = 0)
  /\ EnterReconcile(p, row)
  /\ UNCHANGED <<runs, journalVars, postVars, mailVars>>

\* _post_exact_payload with the payload of the second preflight.
Post(p) ==
  /\ At(p, "posting")
  /\ made' = made + 1
  /\ posted' = [id |-> proc[p].held.id, ref |-> proc[p].ref, sid |-> proc[p].sid,
                print |-> proc[p].print]
  /\ wire' = "sent"
  /\ Goto(p, "waiting")
  /\ UNCHANGED <<runs, journalVars, mailVars>>

\* AttemptJournal.update: whatever the row says now is overwritten; a purged
\* attempt_id raises KeyError, which Stop covers.
Update(p, s) ==
  /\ row # NoRow
  /\ row.id = proc[p].held.id
  /\ row' = [row EXCEPT !.state = s, !.msg = @ \/ s = "sent_provider_confirmed"]
  /\ aged' = FALSE
  /\ UNCHANGED <<inserts, ages>>

PostReturns(p) ==
  /\ At(p, "waiting")
  /\ wire = "processed"
  /\ Update(p, "request_accepted")
  /\ EnterReconcile(p, row')
  /\ UNCHANGED <<runs, postVars, mailVars>>

\* An exception before, during or after the request, also from the update that
\* should have recorded its success.
PostRaises(p) ==
  /\ proc[p].step \in {"posting", "waiting"}
  /\ Update(p, "unknown")
  /\ EnterReconcile(p, row')
  /\ UNCHANGED <<runs, postVars, mailVars>>

(***************************************************************************)
(* _reconcile.                                                             *)
(***************************************************************************)
Tombstone(r) == r.state = "sent_provider_confirmed" /\ r.msg

Reply(p, s) == End(p, s = "sent_provider_confirmed")

\* The attempt handed in is already confirmed: no observation is made.
UseTombstone(p) ==
  /\ At(p, "reconciling")
  /\ Tombstone(proc[p].held)
  /\ Reply(p, "sent_provider_confirmed")
  /\ UNCHANGED <<runs, journalVars, postVars, mailVars>>

Observe(p) ==
  /\ At(p, "reconciling")
  /\ ~Tombstone(proc[p].held)
  /\ \E s \in Observations :
       proc' = [proc EXCEPT ![p].step = "observed", ![p].seen = s]
  /\ UNCHANGED <<runs, journalVars, postVars, mailVars>>

\* The draft is active and the attempt handed in was not claimed.
Unclaimed(p) ==
  /\ proc[p].seen = "active_draft"
  /\ proc[p].held.posts = 0
  /\ proc[p].held.state = "prepared"

Unclear(p) == proc[p].seen \in {"active_draft", "inconsistent"}

\* Mutants: the lifecycle state is recorded as it is; or the state of the
\* snapshot is written back.
Mutant_ReconciledAsSeen(p) == proc[p].seen
Mutant_Reconciled(p) ==
  IF Unclaimed(p) THEN proc[p].held.state
  ELSE IF Unclear(p) THEN "unknown" ELSE proc[p].seen

\* The attempt state an observation leads to, judged by the attempt handed in,
\* which the loop never reads again.
Reconciled(p) ==
  IF Unclaimed(p) THEN row.state
  ELSE IF Unclear(p) THEN "unknown" ELSE proc[p].seen

\* Only these observations, and the unclaimed attempt's, end the polling before
\* its deadline.
Decisive(p) ==
  Unclaimed(p) \/ proc[p].seen \in {"sent_provider_confirmed", "send_failed", "inconsistent"}

Reconcile(p) ==
  /\ At(p, "observed")
  /\ Update(p, Reconciled(p))
  /\ \/ Reply(p, proc[p].seen)
     \/ ~Decisive(p) /\ EnterReconcile(p, proc[p].held)
  /\ UNCHANGED <<runs, postVars, mailVars>>

\* status without an attempt reports what it observes.
ReportUnattempted(p) ==
  /\ At(p, "unattempted")
  /\ \E s \in Observations : Reply(p, s)
  /\ UNCHANGED <<runs, journalVars, postVars, mailVars>>

(***************************************************************************)
(* The mailbox: the provider, the native UI, and time.                     *)
(***************************************************************************)

\* The job of a POST or of a native send shows in userdata some time later.
Requestable == wire = "processed" \/ job = "none"

JobSteps == [none |-> {"requested", "discarded"},
             requested |-> {"backend", "failed"},
             backend |-> {}, failed |-> {"conflict"}, conflict |-> {},
             discarded |-> {"requested"}]

ProviderProcesses ==
  /\ wire = "sent"
  /\ wire' = "processed"
  /\ UNCHANGED <<journalVars, shmVars, made, posted, mailVars>>

JobMoves ==
  /\ \E j \in JobSteps[job] :
       /\ j = "requested" => Requestable
       /\ job' = j
  /\ UNCHANGED <<journalVars, shmVars, postVars, content, delivered>>

\* The sent message exists before userdata knows, or after.
Deliver ==
  /\ job \in {"requested", "backend", "conflict"} \/ wire = "processed"
  /\ delivered' = TRUE
  /\ UNCHANGED <<journalVars, shmVars, postVars, content, job>>

Edit ==
  /\ job = "none"
  /\ content < MaxEdits
  /\ content' = content + 1
  /\ UNCHANGED <<journalVars, shmVars, postVars, job, delivered>>

\* Only the age of a row that purge_terminal looks at matters.
Age ==
  /\ row # NoRow
  /\ row.state \in Purgeable
  /\ ages < MaxAges
  /\ ages' = ages + 1
  /\ aged' = TRUE
  /\ UNCHANGED <<row, inserts, shmVars, postVars, mailVars>>

(***************************************************************************)
(* Specification.                                                          *)
(***************************************************************************)
Command(p) ==
  \/ \E cmd \in {"execute", "status"}, q \in Ref : Begin(p, cmd, q)
  \/ LookUp(p)
  \/ Resume(p)
  \/ FirstCheck(p)
  \/ Register(p)
  \/ FinalCheck(p)
  \/ Claim(p)
  \/ ClaimLost(p)
  \/ Post(p)
  \/ PostReturns(p)
  \/ PostRaises(p)
  \/ UseTombstone(p)
  \/ Observe(p)
  \/ Reconcile(p)
  \/ ReportUnattempted(p)
  \/ Stop(p)

Mailbox ==
  \/ ProviderProcesses
  \/ JobMoves
  \/ Deliver
  \/ Edit
  \/ Age

Next == (\E p \in Process : Command(p)) \/ Mailbox

Spec == Init /\ [][Next]_vars

(***************************************************************************)
(* Properties.                                                             *)
(***************************************************************************)

\* The cooperating processes make one POST for the draft, whatever runs twice,
\* is killed, retried after an unknown outcome or outlives the retention of the
\* journal (claim_automation_post, _reconcile, purge_terminal).
OnePost == made <= 1

\* What was posted is what its attempt records and what claimed it: reference,
\* superhuman_id and payload (the compared bindings of create_or_get_automation
\* and the fingerprint compared before the claim).
PostMatchesAttempt ==
  made > 0 /\ row # NoRow /\ row.id = posted.id =>
    /\ row.posts = 1
    /\ row.ref = posted.ref
    /\ row.sid = posted.sid
    /\ row.print = posted.print

\* A row or a command reports the message as sent only when it exists; an
\* accepted POST or a completed backend job is not enough (_reconcile).
SentExists ==
  /\ row # NoRow /\ row.state = "sent_provider_confirmed" => delivered
  /\ \A p \in Process : proc[p].sent => delivered

\* While an attempt has its id, its claim is never undone: no stale snapshot of
\* a reconciling process makes it prepared again (update against claim).
ClaimIsForGood ==
  [][row # NoRow /\ row' # NoRow /\ row'.id = row.id /\ row.posts = 1
       => row'.posts = 1 /\ row'.state # "prepared"]_vars

\* What the comment in _reconcile says: an attempt that has recorded its
\* provider message stays confirmed.
ConfirmationKept ==
  row # NoRow /\ row.msg => row.state = "sent_provider_confirmed"

(***************************************************************************)
(* Why one POST: the agreement of journal, processes and mailbox.          *)
(***************************************************************************)

\* No preflight passes any more.
Blocked == job \in {"failed", "conflict"}

\* The one POST was made or is about to be.
Spent == made > 0 \/ \E p \in Process : At(p, "posting")

\* Ids are given out once, and an id names one set of bindings.
IdsAgree ==
  /\ row # NoRow => row.id \in 1..inserts
  /\ posted.id <= inserts
  /\ \A p \in Process :
       LET held == proc[p].held IN
       /\ held.id <= inserts
       /\ row # NoRow /\ held.id = row.id =>
            row.ref = held.ref /\ row.sid = held.sid /\ row.print = held.print
       /\ proc[p].step \in {"registered", "final", "posting"} =>
            /\ held # NoRow
            /\ held.ref = proc[p].ref /\ held.sid = proc[p].sid /\ held.print = proc[p].print

\* At most one process holds the POST, and it holds the only one.
PosterAlone ==
  /\ made <= 1
  /\ \A p \in Process : At(p, "posting") =>
       /\ made = 0
       /\ row # NoRow /\ row.id = proc[p].held.id => row.posts = 1
       /\ \A o \in Process : At(o, "posting") => o = p

\* Once the POST is spent an unclaimed attempt exists only behind a failed job,
\* and nobody is about to claim it.
SpentIsRemembered ==
  Spent /\ (row = NoRow \/ row.posts = 0) =>
    /\ Blocked
    /\ \A p \in Process : At(p, "final") /\ row # NoRow => proc[p].held.id # row.id

\* Failure is recorded only of a job that failed for good.
FailureIsFinal ==
  /\ row # NoRow /\ row.state \in Purgeable => Blocked
  /\ \A p \in Process : At(p, "observed") /\ proc[p].seen \in Purgeable => Blocked

\* Confirmation is recorded only of a message that exists.
ConfirmationIsReal ==
  /\ row # NoRow /\ row.state = "sent_provider_confirmed" => delivered
  /\ \A p \in Process :
       /\ proc[p].held # NoRow /\ proc[p].held.state = "sent_provider_confirmed" => delivered
       /\ At(p, "observed") /\ proc[p].seen = "sent_provider_confirmed" => delivered
       /\ proc[p].sent => delivered

\* Journal, processes and mailbox agree about the attempt (the bindings of
\* create_or_get_automation, the claim, and purge_terminal rely on it).
AttemptsAgree ==
  /\ IdsAgree
  /\ PosterAlone
  /\ SpentIsRemembered
  /\ FailureIsFinal
  /\ ConfirmationIsReal
  /\ PostMatchesAttempt
=============================================================================
