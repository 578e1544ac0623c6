---------------------------- MODULE SlackIssuer -----------------------------
(***************************************************************************)
(* The Slack issuer and the approval signer: a request for approval is     *)
(* prepared, presented in Slack and stored; a human decision that arrives  *)
(* over Socket Mode is committed and acknowledged; the signer turns it     *)
(* into the receipt the send executor redeems                              *)
(* (authority/slack-issuer/issuer.mjs, daemon.mjs,                         *)
(* authority/approval-signer/signer.mjs, authority/common/receipt.mjs).    *)
(*                                                                         *)
(* The daemon's handlers run without interruption between two awaits.      *)
(* Slack delivers each message of a person at least once.  The signer is a *)
(* process of its own: it may sign a request whose caller gave up on it.   *)
(* A request stands for its id, its nonce, its binding and the thread of   *)
(* its presentation, all of them fresh.                                    *)
(***************************************************************************)
EXTENDS Naturals, Sequences

CONSTANTS
  Request,      \* the create requests, by the request_id each one draws
  Event,        \* the messages people write in the approval threads
  Ttl,          \* ttl_seconds of each request, in ticks
  MaxTime,      \* bound on the clock
  MaxCrashes,   \* bound on the crashes of the issuer daemon
  MaxTimeouts   \* bound on the signer calls that fail although the signer
                \* would sign

ASSUME IssuerAssumption ==
  /\ Ttl \in [Request -> Nat \ {0}]
  /\ MaxTime \in Nat
  /\ MaxCrashes \in Nat
  /\ MaxTimeouts \in Nat

VARIABLES
  now,        \* the wall clock
  up,         \* whether the issuer daemon runs
  crashes,    \* crashes so far
  timeouts,   \* signer calls that timed out so far
  making,     \* where SlackIssuer.create awaits, for each request
  expires,    \* the expiry create computed for the request
  shown,      \* whether the nonce of the request can be read in Slack
  row,        \* the approval_requests table
  order,      \* its rows in the order of their insertion
  said,       \* the message of each event
  delivery,   \* what Slack did with it
  call,       \* the daemon's call to the signer for each request
  late,       \* whether the signer still has a call nobody awaits any more
  recovery,   \* the requests recoverApproved has still to complete
  signed      \* the receipts the signer signed for each request

clockVars  == <<now, up, crashes, timeouts>>
createVars == <<making, expires, shown>>
storeVars  == <<row, order>>
slackVars  == <<said, delivery>>
signVars   == <<call, late, recovery, signed>>
vars == <<clockVars, createVars, storeVars, slackVars, signVars>>

(***************************************************************************)
(* Values.                                                                 *)
(***************************************************************************)
State == {"none", "pending", "approved_waiting_signature", "issued", "cancelled", "expired"}

Making == {"none", "preparing", "posting", "over"}

\* A message names the thread it is written in and the nonce it repeats.
Message == [thread : Request, nonce : Request, by : {"approver", "other"}]

Receipt == [issuedAt : Nat, expiresAt : Nat, event : Event]

\* issuedAt and event are set by approval; receipts holds the stored receipt.
Row == [state : State, issuedAt : Nat, events : SUBSET Event, receipts : SUBSET Receipt]

NoRow == [state |-> "none", issuedAt |-> 0, events |-> {}, receipts |-> {}]

NoMessage == [by |-> "nobody"]

TypeOK ==
  /\ now \in Nat
  /\ up \in BOOLEAN
  /\ crashes \in Nat
  /\ timeouts \in Nat
  /\ making \in [Request -> Making]
  /\ expires \in [Request -> Nat]
  /\ shown \in [Request -> BOOLEAN]
  /\ row \in [Request -> Row]
  /\ order \in Seq(Request)
  /\ said \in [Event -> Message \cup {NoMessage}]
  /\ delivery \in [Event -> {"none", "queued", "acked"}]
  /\ call \in [Request -> {"none", "asked", "answered"}]
  /\ late \in [Request -> BOOLEAN]
  /\ recovery \subseteq Request
  /\ signed \in [Request -> SUBSET Receipt]

Init ==
  /\ now = 0
  /\ up = TRUE
  /\ crashes = 0
  /\ timeouts = 0
  /\ making = [r \in Request |-> "none"]
  /\ expires = [r \in Request |-> 0]
  /\ shown = [r \in Request |-> FALSE]
  /\ row = [r \in Request |-> NoRow]
  /\ order = << >>
  /\ said = [e \in Event |-> NoMessage]
  /\ delivery = [e \in Event |-> "none"]
  /\ call = [r \in Request |-> "none"]
  /\ late = [r \in Request |-> FALSE]
  /\ recovery = {}
  /\ signed = [r \in Request |-> {}]

(***************************************************************************)
(* SlackIssuer.create.                                                     *)
(***************************************************************************)

\* POST /v1/create, until the executor's prepare socket answers.
CreateStarts(r) ==
  /\ up
  /\ making[r] = "none"
  /\ making' = [making EXCEPT ![r] = "preparing"]
  /\ UNCHANGED <<clockVars, expires, shown, storeVars, slackVars, signVars>>

\* The bundle is valid: the expiry is fixed before the presentation is posted.
CreatePrepared(r) ==
  /\ up
  /\ making[r] = "preparing"
  /\ making' = [making EXCEPT ![r] = "posting"]
  /\ expires' = [expires EXCEPT ![r] = now + Ttl[r]]
  /\ UNCHANGED <<clockVars, shown, storeVars, slackVars, signVars>>

\* The first message of the presentation carries the nonce; the other parts and
\* the screenshots follow one request at a time.
PresentationShows(r) ==
  /\ making[r] = "posting"
  /\ ~shown[r]
  /\ shown' = [shown EXCEPT ![r] = TRUE]
  /\ UNCHANGED <<clockVars, making, expires, storeVars, slackVars, signVars>>

\* All of it is posted: the row is inserted.
CreateStores(r) ==
  /\ up
  /\ making[r] = "posting"
  /\ shown[r]
  /\ making' = [making EXCEPT ![r] = "over"]
  /\ row' = [row EXCEPT ![r].state = "pending"]
  /\ order' = Append(order, r)
  /\ UNCHANGED <<clockVars, expires, shown, slackVars, signVars>>

\* Preparation or presentation fails, also half way: there will be no row.
CreateFails(r) ==
  /\ up
  /\ making[r] \in {"preparing", "posting"}
  /\ making' = [making EXCEPT ![r] = "over"]
  /\ UNCHANGED <<clockVars, expires, shown, storeVars, slackVars, signVars>>

\* Mutant: an approval that is not signed yet can still be cancelled.
Mutant_Cancel(r) ==
  /\ up
  /\ row[r].state \in {"pending", "approved_waiting_signature"}
  /\ row' = [row EXCEPT ![r].state = "cancelled"]
  /\ UNCHANGED <<clockVars, createVars, order, slackVars, signVars>>

\* POST /v1/cancel.
Cancel(r) ==
  /\ up
  /\ row[r].state = "pending"
  /\ row' = [row EXCEPT ![r].state = "cancelled"]
  /\ UNCHANGED <<clockVars, createVars, order, slackVars, signVars>>

(***************************************************************************)
(* The signer.                                                             *)
(***************************************************************************)

\* Mutant: the receipt is dated when it is signed.
Mutant_ReceiptOf(r) == [issuedAt : {now}, expiresAt : {expires[r]}, event : row[r].events]

\* issueReceipt: the receipt is a function of the decision, Ed25519 signature
\* included; completeApproved rebuilds the decision from the row.
ReceiptOf(r) == [issuedAt : {row[r].issuedAt}, expiresAt : {expires[r]}, event : row[r].events]

\* Otherwise inactive_decision or invalid_lifetime; issued_at lies in the past.
Active(r) == now < expires[r] /\ row[r].issuedAt < expires[r]

\* The signer answers the daemon's call.
SignerSigns(r) ==
  /\ call[r] = "asked"
  /\ Active(r)
  /\ signed' = [signed EXCEPT ![r] = @ \cup ReceiptOf(r)]
  /\ call' = [call EXCEPT ![r] = "answered"]
  /\ UNCHANGED <<clockVars, createVars, storeVars, slackVars, late, recovery>>

\* It processes a call whose caller timed out or died.
SignerSignsLate(r) ==
  /\ late[r]
  /\ late' = [late EXCEPT ![r] = FALSE]
  /\ signed' = [signed EXCEPT ![r] = @ \cup IF Active(r) THEN ReceiptOf(r) ELSE {}]
  /\ UNCHANGED <<clockVars, createVars, storeVars, slackVars, call, recovery>>

(***************************************************************************)
(* completeApproved, called for a decision just committed, or by           *)
(* recoverApproved for one request after the other: the first that throws  *)
(* ends the recovery.                                                      *)
(***************************************************************************)
First(r, requests) ==
  /\ r \in requests
  /\ \E i \in 1..Len(order) : order[i] = r /\ \A j \in 1..i-1 : order[j] \notin requests

Recovering(r) == First(r, recovery)

\* A call ends; the recovery, if it made the call, goes on with rest.
CallEnds(r, rest) ==
  IF Recovering(r)
  THEN /\ recovery' = rest
       /\ call' = [q \in Request |->
                     IF First(q, rest) THEN "asked"
                     ELSE IF q = r THEN "none" ELSE call[q]]
  ELSE /\ call' = [call EXCEPT ![r] = "none"]
       /\ UNCHANGED recovery

\* The receipt arrives and is stored.
StoreReceipt(r) ==
  /\ up
  /\ call[r] = "answered"
  /\ row[r].state = "approved_waiting_signature"
  /\ row' = [row EXCEPT ![r].state = "issued", ![r].receipts = ReceiptOf(r)]
  /\ CallEnds(r, recovery \ {r})
  /\ UNCHANGED <<clockVars, createVars, order, slackVars, late, signed>>

\* The signer refuses.
SignerRefuses(r) ==
  /\ up
  /\ call[r] = "asked"
  /\ ~Active(r)
  /\ CallEnds(r, {})
  /\ UNCHANGED <<clockVars, createVars, storeVars, slackVars, late, signed>>

\* The call times out, or the signer is down; it may have the request.
SignerTimesOut(r) ==
  /\ up
  /\ call[r] \in {"asked", "answered"}
  /\ timeouts < MaxTimeouts
  /\ timeouts' = timeouts + 1
  /\ late' = [late EXCEPT ![r] = @ \/ call[r] = "asked"]
  /\ CallEnds(r, {})
  /\ UNCHANGED <<now, up, crashes, createVars, storeVars, slackVars, signed>>

(***************************************************************************)
(* Decisions.                                                              *)
(***************************************************************************)

\* Somebody writes a message below a presentation.
Say(e, m) ==
  /\ said[e] = NoMessage
  /\ shown[m.thread] /\ shown[m.nonce]
  /\ said' = [said EXCEPT ![e] = m]
  /\ delivery' = [delivery EXCEPT ![e] = "queued"]
  /\ UNCHANGED <<clockVars, createVars, storeVars, signVars>>

\* Mutant: any keyword message in the thread decides, whatever its nonce.
Mutant_Names(m, r) == m # NoMessage /\ m.thread = r

\* decisionFromSocketPayload: the message is in the thread of the request and
\* repeats its nonce.  Who wrote it is asked later, by approve.
Names(m, r) == m # NoMessage /\ m.thread = r /\ m.nonce = r

\* Mutant: a decision that comes too late is recorded under a state the CHECK of
\* the table does not list.
Mutant_Approve(e, r) ==
  \/ /\ now < expires[r]
     /\ said[e].by = "approver"
     /\ row' = [row EXCEPT ![r] = [@ EXCEPT !.state = "approved_waiting_signature",
                                            !.issuedAt = now, !.events = {e}]]
     /\ call' = [call EXCEPT ![r] = "asked"]
  \/ /\ now >= expires[r]
     /\ row' = [row EXCEPT ![r].state = "late"]
     /\ UNCHANGED call

\* approve of a pending request, and the signer call that follows it in the
\* same handler.  One that has expired becomes so, whoever wrote the message; of
\* the others only the approver's message decides.
Approve(e, r) ==
  \/ /\ now < expires[r]
     /\ said[e].by = "approver"
     /\ row' = [row EXCEPT ![r] = [@ EXCEPT !.state = "approved_waiting_signature",
                                            !.issuedAt = now, !.events = {e}]]
     /\ call' = [call EXCEPT ![r] = "asked"]
  \/ /\ now < expires[r]
     /\ said[e].by # "approver"
     /\ UNCHANGED <<row, call>>
  \/ /\ now >= expires[r]
     /\ row' = [row EXCEPT ![r].state = "expired"]
     /\ UNCHANGED call

\* Mutant: a message that arrives again finds the request it has approved.
Mutant_Handle(e) ==
  /\ up
  /\ delivery[e] = "queued"
  /\ \E a \in {"acked", "queued"} : delivery' = [delivery EXCEPT ![e] = a]
  /\ \/ \E r \in Request :
          /\ row[r].state \in {"pending", "approved_waiting_signature"}
          /\ Names(said[e], r)
          /\ Approve(e, r)
     \/ UNCHANGED <<row, call>>
  /\ UNCHANGED <<clockVars, createVars, order, said, late, recovery, signed>>

\* The socket's message listener: whatever recording the decision threw, the
\* envelope is acknowledged; an acknowledgement that is lost means redelivery.
Handle(e) ==
  /\ up
  /\ delivery[e] = "queued"
  /\ \E a \in {"acked", "queued"} : delivery' = [delivery EXCEPT ![e] = a]
  /\ \/ \E r \in Request :
          row[r].state = "pending" /\ Names(said[e], r) /\ Approve(e, r)
     \/ /\ ~\E r \in Request : row[r].state = "pending" /\ Names(said[e], r)
        /\ UNCHANGED <<row, call>>
  /\ UNCHANGED <<clockVars, createVars, order, said, late, recovery, signed>>

(***************************************************************************)
(* Crash and restart.                                                      *)
(***************************************************************************)
Crash ==
  /\ up
  /\ crashes < MaxCrashes
  /\ up' = FALSE
  /\ crashes' = crashes + 1
  /\ making' = [r \in Request |-> IF making[r] \in {"preparing", "posting"} THEN "over" ELSE making[r]]
  /\ late' = [r \in Request |-> late[r] \/ call[r] = "asked"]
  /\ call' = [r \in Request |-> "none"]
  /\ recovery' = {}
  /\ UNCHANGED <<now, timeouts, expires, shown, storeVars, slackVars, signed>>

\* Mutant: what was approved before the crash is not looked for.
Mutant_ApprovedWaiting == {}

ApprovedWaiting == {r \in Request : row[r].state = "approved_waiting_signature"}

\* recoverApproved runs to its first await.
Restart ==
  /\ ~up
  /\ up' = TRUE
  /\ recovery' = ApprovedWaiting
  /\ call' = [r \in Request |-> IF First(r, recovery') THEN "asked" ELSE "none"]
  /\ UNCHANGED <<now, crashes, timeouts, createVars, storeVars, slackVars, late, signed>>

Tick ==
  /\ now < MaxTime
  /\ now' = now + 1
  /\ UNCHANGED <<up, crashes, timeouts, createVars, storeVars, slackVars, signVars>>

(***************************************************************************)
(* Specification.                                                          *)
(***************************************************************************)
Creation(r) ==
  \/ CreateStarts(r)
  \/ CreatePrepared(r)
  \/ PresentationShows(r)
  \/ CreateStores(r)
  \/ CreateFails(r)
  \/ Cancel(r)

Completion(r) == StoreReceipt(r) \/ SignerRefuses(r) \/ SignerTimesOut(r)

Signer(r) == SignerSigns(r) \/ SignerSignsLate(r)

Next ==
  \/ \E r \in Request : Creation(r) \/ Completion(r) \/ Signer(r)
  \/ \E e \in Event, m \in Message : Say(e, m)
  \/ \E e \in Event : Handle(e)
  \/ Crash
  \/ Restart
  \/ Tick

Spec == Init /\ [][Next]_vars

\* The event loop runs what an answer or the 5 s timeout made ready, the signer
\* serves its socket and launchd restarts the daemon.
Fairness ==
  /\ \A r \in Request : WF_vars(Completion(r)) /\ WF_vars(Signer(r))
  /\ WF_vars(Restart)

FairSpec == Spec /\ Fairness

(***************************************************************************)
(* Properties.                                                             *)
(***************************************************************************)

\* One approval is one receipt, however often the signer is asked: a crash, a
\* late signature and recovery all sign the same bytes, and those are stored
\* (completeApproved rebuilds the decision from the committed row).
OneReceipt ==
  \A r \in Request :
    /\ \A a, b \in signed[r] : a = b
    /\ row[r].receipts \subseteq signed[r]
    /\ row[r].state = "issued" => row[r].receipts # {}

\* Nothing is ever signed for a request that a caller saw cancelled, that
\* expired undecided, or that is still undecided (cancel against approve).
UndecidedUnsigned ==
  \A r \in Request :
    row[r].state \in {"none", "pending", "cancelled", "expired"} => signed[r] = {}

\* Every receipt goes back to a message of the approver in the thread of the
\* presentation, with its nonce, handled before the request expired.
ReceiptAuthorised ==
  \A r \in Request : \A x \in signed[r] :
    /\ said[x.event] = [thread |-> r, nonce |-> r, by |-> "approver"]
    /\ x.issuedAt < x.expiresAt
    /\ x.expiresAt <= x.issuedAt + Ttl[r]

Decided(r) == row[r].state \in {"approved_waiting_signature", "issued"}

\* A request that is over keeps its row; an approval can only become issued, and
\* is still an approval of the same message at the same moment; no receipt is
\* ever taken back.
DecisionStands(r) ==
  /\ row[r].state \in {"issued", "cancelled", "expired"} => row'[r] = row[r]
  /\ Decided(r) => Decided(r)' /\ ReceiptOf(r)' = ReceiptOf(r)
  /\ signed[r] \subseteq signed'[r]

\* Decisions are final: neither a cancellation, nor a message delivered again or
\* a second one, nor a late signature or a restart undoes, redates or reassigns
\* one (the state guards of approve, cancel, storeReceipt and create).
DecisionsStand == [][\A r \in Request : DecisionStands(r)]_vars

\* What authority/README.md says of startup recovery: an approval that is
\* waiting for its signature and has not expired is being signed, or is in line.
RecoveryResumes ==
  \A r \in Request :
    up /\ row[r].state = "approved_waiting_signature" /\ now < expires[r]
      => call[r] # "none" \/ r \in recovery

\* A committed approval gets its receipt, or expires, whatever crashes.
ApprovalResolves ==
  \A r \in Request :
    row[r].state = "approved_waiting_signature"
      ~> row[r].state = "issued" \/ now >= expires[r]
=============================================================================
