------------------------ MODULE AttemptJournalProofs ------------------------
(***************************************************************************)
(* Proofs about AttemptJournal for any processes, references, commands,    *)
(* edits and purges: one POST per draft, of what its attempt records, and  *)
(* confirmation only of a message that exists.                             *)
(***************************************************************************)
EXTENDS AttemptJournal, TLAPS

(***************************************************************************)
(* The inductive invariant.                                                *)
(***************************************************************************)

\* The local variables of a command.
Local == [step : Step, cmd : {"execute", "status"}, ref : Ref, sid : Nat, print : Nat,
          held : Row \cup {NoRow}, seen : Observed, sent : BOOLEAN]

\* Steps at which a command has an attempt in hand, and those at which it is its own.
Holding == {"resuming", "registered", "final", "posting", "waiting", "reconciling", "observed"}
Owning == {"registered", "final", "posting"}

SameAttempt(a, b) == a.ref = b.ref /\ a.sid = b.sid /\ a.print = b.print

\* What the row says is true of the mailbox, and a claim is never forgotten.
RowTrue ==
  row # NoRow =>
    /\ row.id \in 1..inserts
    /\ row.posts = 1 => row.state # "prepared"
    /\ row.state \in Purgeable => Blocked
    /\ row.state = "sent_provider_confirmed" => delivered

\* So is the attempt a command has in hand, and the rest of its variables.
HeldTrue(p) ==
  LET held == proc[p].held IN
  /\ held.id <= inserts
  /\ row # NoRow /\ held.id = row.id => SameAttempt(row, held)
  /\ held # NoRow /\ held.state = "sent_provider_confirmed" => delivered

CommandTrue(p) ==
  LET c == proc[p] IN
  /\ HeldTrue(p)
  /\ c.step \in Holding => c.held # NoRow
  /\ c.step \in Owning => SameAttempt(c.held, c)
  /\ c.step = "posting" /\ row # NoRow /\ row.id = c.held.id => row.posts = 1
  /\ c.step = "observed" /\ c.seen \in Purgeable => Blocked
  /\ c.step = "observed" /\ c.seen = "sent_provider_confirmed" => delivered
  /\ c.sent => delivered

\* The POST is made once, by the one process at it.
OnePoster ==
  /\ made <= 1
  /\ \A p, o \in Process : At(p, "posting") /\ At(o, "posting") => made = 0 /\ o = p

PostTrue == posted.id <= inserts /\ PostMatchesAttempt

IInv ==
  /\ TypeOK
  /\ RowTrue
  /\ \A p \in Process : CommandTrue(p)
  /\ OnePoster
  /\ SpentIsRemembered
  /\ PostTrue

(***************************************************************************)
(* What a step does to the journal.                                        *)
(***************************************************************************)
RowKept == row' = row /\ inserts' = inserts

RowPurged == row' = NoRow /\ inserts' = inserts /\ (row # NoRow => row.state \in Purgeable)

RowInserted(r) ==
  row = NoRow /\ row' = r /\ r.id = inserts + 1 /\ inserts' = inserts + 1
    /\ r.state = "prepared" /\ r.posts = 0

\* Another state, and that state is true; the claim is kept.
RowUpdated ==
  /\ row # NoRow /\ row' \in Row /\ row'.id = row.id /\ inserts' = inserts
  /\ SameAttempt(row', row) /\ row'.posts = row.posts
  /\ row.posts = 1 => row'.state # "prepared"
  /\ row'.state \in Purgeable => Blocked
  /\ row'.state = "sent_provider_confirmed" => delivered

JournalMoves == RowKept \/ RowPurged \/ (\E r \in Row : RowInserted(r)) \/ RowUpdated

MailKept == UNCHANGED <<made, posted, wire, content, job, delivered>>

\* Ids and bindings in types.
LEMMA RowFacts ==
  ASSUME TypeOK
  PROVE  /\ inserts \in Nat /\ made \in Nat /\ posted.id \in Nat /\ NoRow.id = 0
         /\ row # NoRow => row \in Row /\ row.id \in Nat /\ row.posts \in {0, 1}
         /\ \A p \in Process : /\ proc[p] \in Local /\ proc[p].held.id \in Nat
                               /\ proc[p].held # NoRow => proc[p].held \in Row
  BY DEF TypeOK, Row, NoRow, Local

\* The row stays true.
LEMMA JournalTrue ==
  ASSUME IInv, JournalMoves, Blocked => Blocked', delivered => delivered'
  PROVE  RowTrue'
  <1>1. inserts \in Nat /\ NoRow.id = 0 /\ (row # NoRow => row.id \in Nat)
    BY RowFacts DEF IInv
  <1>2. CASE RowKept
    BY <1>2 DEF RowKept, IInv, RowTrue
  <1>3. CASE RowPurged
    BY <1>3 DEF RowPurged, RowTrue
  <1>4. ASSUME NEW r \in Row, RowInserted(r) PROVE RowTrue'
    BY <1>1, <1>4 DEF RowInserted, RowTrue, Purgeable
  <1>5. CASE RowUpdated
    BY <1>5 DEF RowUpdated, IInv, RowTrue
  <1>6. QED
    BY <1>2, <1>3, <1>4, <1>5 DEF JournalMoves

\* An attempt in hand is not disturbed.
LEMMA HeldStays ==
  ASSUME IInv, JournalMoves, delivered => delivered',
         NEW o \in Process, proc'[o].held = proc[o].held
  PROVE  HeldTrue(o)'
  <1>1. HeldTrue(o) /\ inserts \in Nat /\ proc[o].held.id \in Nat
    BY RowFacts DEF IInv, CommandTrue
  <1>2. CASE RowKept
    BY <1>1, <1>2 DEF RowKept, HeldTrue
  <1>3. CASE RowPurged
    BY <1>1, <1>3 DEF RowPurged, HeldTrue
  <1>4. ASSUME NEW r \in Row, RowInserted(r) PROVE HeldTrue(o)'
    <2>1. row'.id # proc'[o].held.id /\ proc'[o].held.id <= inserts'
      BY <1>1, <1>4 DEF RowInserted, HeldTrue
    <2>2. QED
      BY <1>1, <2>1 DEF HeldTrue
  <1>5. CASE RowUpdated
    BY <1>1, <1>5 DEF RowUpdated, HeldTrue, SameAttempt
  <1>6. QED
    BY <1>2, <1>3, <1>4, <1>5 DEF JournalMoves

\* A command that does not move is not disturbed by one that does.
LEMMA Bystander ==
  ASSUME IInv, JournalMoves, Blocked => Blocked', delivered => delivered',
         NEW o \in Process, proc'[o] = proc[o]
  PROVE  CommandTrue(o)'
  <1>1. CommandTrue(o) /\ HeldTrue(o)' /\ HeldTrue(o)
    BY HeldStays DEF IInv, CommandTrue
  <1>2. row' # NoRow /\ row'.id = proc[o].held.id => row # NoRow /\ row'.id = row.id /\ row'.posts = row.posts
    <2>1. CASE RowKept
      BY <2>1 DEF RowKept
    <2>2. CASE RowPurged
      BY <2>2 DEF RowPurged
    <2>3. ASSUME NEW r \in Row, RowInserted(r) PROVE row'.id # proc[o].held.id
      <3>1. inserts \in Nat /\ proc[o].held.id \in Nat /\ proc[o].held.id <= inserts
        BY <1>1, RowFacts DEF IInv, HeldTrue
      <3>2. QED
        BY <2>3, <3>1 DEF RowInserted
    <2>4. CASE RowUpdated
      BY <2>4 DEF RowUpdated
    <2>5. QED
      BY <2>1, <2>2, <2>3, <2>4 DEF JournalMoves
  <1>3. QED
    BY <1>1, <1>2 DEF CommandTrue

\* The claim is remembered by a step after which nobody new is about to claim.
LEMMA Remembered ==
  ASSUME IInv, JournalMoves, MailKept,
         \A p \in Process : At(p, "posting")' => At(p, "posting"),
         \A p \in Process : At(p, "final")' => At(p, "final") /\ proc'[p].held = proc[p].held
  PROVE  SpentIsRemembered' /\ PostTrue'
  <1>1. Spent' => Spent
    BY DEF MailKept, Spent
  <1>2. (Blocked <=> Blocked') /\ made' = made /\ posted' = posted
    BY DEF MailKept, Blocked
  <1>3. CASE RowKept
    BY <1>1, <1>2, <1>3 DEF RowKept, IInv, SpentIsRemembered, PostTrue, PostMatchesAttempt
  <1>4. CASE RowPurged
    BY <1>1, <1>2, <1>4 DEF RowPurged, IInv, RowTrue, SpentIsRemembered, PostTrue, PostMatchesAttempt
  <1>5. ASSUME NEW r \in Row, RowInserted(r) PROVE SpentIsRemembered' /\ PostTrue'
    <2>1. inserts \in Nat /\ row'.id = inserts + 1 /\ inserts' = inserts + 1 /\ row = NoRow
      BY <1>5, RowFacts DEF RowInserted, IInv
    <2>2. row'.id # posted.id /\ posted.id <= inserts'
      <3>1. posted.id \in Nat /\ posted.id <= inserts
        BY RowFacts DEF IInv, PostTrue
      <3>2. QED
        BY <2>1, <3>1
    <2>3. ASSUME NEW p \in Process PROVE row'.id # proc[p].held.id
      <3>1. proc[p].held.id \in Nat /\ proc[p].held.id <= inserts
        BY RowFacts DEF IInv, CommandTrue, HeldTrue
      <3>2. QED
        BY <2>1, <3>1
    <2>4. QED
      BY <1>1, <1>2, <2>1, <2>2, <2>3 DEF IInv, SpentIsRemembered, PostTrue, PostMatchesAttempt
  <1>6. CASE RowUpdated
    <2>1. row # NoRow /\ row'.id = row.id /\ row'.posts = row.posts /\ row' # NoRow
      BY <1>6, RowFacts DEF RowUpdated, IInv, RowTrue
    <2>2. SpentIsRemembered'
      BY <1>1, <1>2, <2>1 DEF IInv, SpentIsRemembered
    <2>3. PostTrue'
      BY <1>2, <1>6, <2>1 DEF RowUpdated, SameAttempt, IInv, PostTrue, PostMatchesAttempt
    <2>4. QED
      BY <2>2, <2>3
  <1>7. QED
    BY <1>3, <1>4, <1>5, <1>6 DEF JournalMoves

\* One command moves, and is true afterwards; nobody comes to claim or to post.
LEMMA QuietIInv ==
  ASSUME IInv, TypeOK', JournalMoves, MailKept, NEW p \in Process,
         \A o \in Process \ {p} : proc'[o] = proc[o],
         CommandTrue(p)',
         proc'[p].step \notin {"final", "posting"}
  PROVE  IInv'
  <1>1. (Blocked => Blocked') /\ (delivered => delivered') /\ made' = made
    BY DEF MailKept, Blocked
  <1>2. RowTrue'
    BY <1>1, JournalTrue
  <1>3. ASSUME NEW o \in Process PROVE CommandTrue(o)'
    BY <1>1, Bystander
  <1>4. /\ \A o \in Process : At(o, "posting")' => At(o, "posting")
        /\ \A o \in Process : At(o, "final")' => At(o, "final") /\ proc'[o].held = proc[o].held
    BY DEF At
  <1>5. SpentIsRemembered' /\ PostTrue'
    BY <1>4, Remembered
  <1>6. OnePoster'
    BY <1>1, <1>4 DEF IInv, OnePoster
  <1>7. QED
    BY <1>2, <1>3, <1>5, <1>6 DEF IInv

(***************************************************************************)
(* Types.                                                                  *)
(***************************************************************************)

\* A command that ends leaves no variables behind.
LEMMA EndType ==
  ASSUME TypeOK, NEW p \in Process, NEW sent \in BOOLEAN, End(p, sent)
  PROVE  proc' \in [Process -> Local]
  <1>1. Ended(proc[p].ref, sent) \in Local
    BY DEF TypeOK, Ended, Local, Step, Observed
  <1>2. QED
    BY <1>1 DEF End, TypeOK, Local

\* Entering the reconciliation with a row in hand.
LEMMA ReconcileType ==
  ASSUME TypeOK, NEW p \in Process, NEW held \in Row \cup {NoRow}, EnterReconcile(p, held)
  PROVE  proc' \in [Process -> Local]
  <1>1. proc[p] \in Local
    BY RowFacts
  <1>2. [proc[p] EXCEPT !.step = "reconciling", !.held = held, !.sid = 0, !.print = 0,
                        !.seen = "active_draft"] \in Local
    BY <1>1 DEF Local, Step, Observed
  <1>3. QED
    BY <1>2 DEF EnterReconcile, TypeOK, Local

\* A row that is updated stays one.
LEMMA UpdateType ==
  ASSUME TypeOK, NEW p \in Process, NEW s \in AttemptState, Update(p, s)
  PROVE  row' \in Row
  <1>1. row \in Row
    BY DEF Update, TypeOK
  <1>2. [row EXCEPT !.state = s, !.msg = @ \/ s = "sent_provider_confirmed"] \in Row
    BY <1>1 DEF Row
  <1>3. QED
    BY <1>2 DEF Update

\* So does one that is created.
LEMMA CreateOrGetType ==
  ASSUME TypeOK, NEW q \in Ref, NEW sid \in Nat, NEW print \in Nat, CreateOrGet(q, sid, print)
  PROVE  row' \in Row /\ inserts' \in Nat /\ aged' \in BOOLEAN
  <1>1. CASE row = NoRow
    <2>1. NewRow(q, sid, print) \in Row /\ inserts + 1 \in Nat
      BY DEF NewRow, TypeOK, Row, AttemptState
    <2>2. QED
      BY <1>1, <2>1 DEF CreateOrGet
  <1>2. CASE row # NoRow
    BY <1>2 DEF CreateOrGet, TypeOK
  <1>3. QED
    BY <1>1, <1>2

\* A reconciled state is an attempt state.
LEMMA ReconciledType ==
  ASSUME TypeOK, NEW p \in Process, row # NoRow
  PROVE  Reconciled(p) \in AttemptState
  <1>1. row.state \in AttemptState /\ proc[p].seen \in Observed
    BY DEF TypeOK, Row
  <1>2. QED
    BY <1>1 DEF Reconciled, Unclear, AttemptState, Observed

\* The steps until the message is posted.
LEMMA ExecuteType ==
  ASSUME TypeOK, NEW p \in Process,
         \/ \E cmd \in {"execute", "status"}, q \in Ref : Begin(p, cmd, q)
         \/ LookUp(p) \/ FirstCheck(p) \/ FinalCheck(p) \/ Claim(p) \/ Post(p)
         \/ Observe(p)
  PROVE  TypeOK'
  <1> USE DEF journalVars, shmVars, postVars, mailVars
  <1>1. proc[p] \in Local /\ NoRow \in Row \cup {NoRow} /\ row \in Row \cup {NoRow}
    BY RowFacts DEF TypeOK
  <1>2. ASSUME NEW c \in Local, proc' = [proc EXCEPT ![p] = c] PROVE proc' \in [Process -> Local]
    BY <1>2 DEF TypeOK, Local
  <1>3. ASSUME NEW cmd \in {"execute", "status"}, NEW q \in Ref, Begin(p, cmd, q) PROVE TypeOK'
    <2>1. runs' \in Nat /\ (IF cmd = "execute" THEN runs + 1 ELSE 0) \in Nat
      <3>1. runs \in Nat
        BY DEF TypeOK
      <3>2. runs' = runs + 1
        BY <1>3 DEF Begin
      <3>3. QED
        BY <3>1, <3>2
    <2> DEFINE c == [proc[p] EXCEPT !.step = "opened", !.cmd = cmd, !.ref = q, !.sent = FALSE,
                                    !.sid = IF cmd = "execute" THEN runs + 1 ELSE 0]
    <2>2. c \in Local
      BY <1>1, <2>1 DEF Local, Step
    <2>3. proc' = [proc EXCEPT ![p] = c]
      BY <1>3 DEF Begin
    <2>4. proc' \in [Process -> Local]
      BY <1>2, <2>2, <2>3
    <2>5. row' \in Row \cup {NoRow} /\ aged' \in BOOLEAN
      BY <1>3 DEF Begin, TypeOK
    <2>6. QED
      BY <1>3, <2>1, <2>4, <2>5 DEF Begin, TypeOK, Local
  <1>4. CASE LookUp(p)
    <2>1. [proc[p] EXCEPT
             !.held = row,
             !.step = IF proc[p].cmd = "status"
                      THEN IF row = NoRow THEN "unattempted" ELSE "reconciling"
                      ELSE IF row = NoRow THEN "unchecked" ELSE "resuming"] \in Local
      BY <1>1 DEF Local, Step
    <2>2. proc' \in [Process -> Local]
      BY <1>2, <1>4, <2>1 DEF LookUp
    <2>3. QED
      BY <1>4, <2>2 DEF LookUp, TypeOK, Local
  <1>5. CASE FirstCheck(p)
    <2>1. [proc[p] EXCEPT !.step = "checked", !.print = content] \in Local
      BY <1>1 DEF Local, Step, TypeOK
    <2>2. proc' \in [Process -> Local]
      BY <1>2, <1>5, <2>1 DEF FirstCheck
    <2>3. QED
      BY <1>5, <2>2 DEF FirstCheck, TypeOK, Local
  <1>6. CASE FinalCheck(p)
    <2>1. [proc[p] EXCEPT !.step = "final"] \in Local
      BY <1>1 DEF Local, Step
    <2>2. proc' \in [Process -> Local]
      BY <1>2, <1>6, <2>1 DEF FinalCheck, Goto
    <2>3. QED
      BY <1>6, <2>2 DEF FinalCheck, TypeOK, Local
  <1>7. CASE Claim(p)
    <2>1. [row EXCEPT !.state = "posting", !.posts = 1] \in Row
      BY <1>7 DEF Claim, Claimable, TypeOK, Row, AttemptState
    <2>2. row' \in Row /\ aged' \in BOOLEAN
      BY <1>7, <2>1 DEF Claim
    <2>3. [proc[p] EXCEPT !.step = "posting", !.held = row'] \in Local
      BY <1>1, <2>2 DEF Local, Step
    <2>4. proc' \in [Process -> Local]
      BY <1>2, <1>7, <2>3 DEF Claim
    <2>5. QED
      BY <1>7, <2>2, <2>4 DEF Claim, TypeOK, Local
  <1>8. CASE Post(p)
    <2>1. [proc[p] EXCEPT !.step = "waiting"] \in Local
      BY <1>1 DEF Local, Step
    <2>2. proc' \in [Process -> Local]
      BY <1>2, <1>8, <2>1 DEF Post, Goto
    <2>3. posted' \in [id : Nat, ref : Ref, sid : Nat, print : Nat] /\ made' \in Nat /\ wire' = "sent"
      BY <1>1, <1>8, RowFacts DEF Post, TypeOK, Local
    <2>4. QED
      BY <1>8, <2>2, <2>3 DEF Post, TypeOK, Local
  <1>9. CASE Observe(p)
    <2>1. PICK s \in Observations : proc' = [proc EXCEPT ![p].step = "observed", ![p].seen = s]
      BY <1>9 DEF Observe
    <2>2. s \in Observed
      BY DEF Observations, OfJob, Observed, TypeOK, Job
    <2>3. [proc[p] EXCEPT !.step = "observed", !.seen = s] \in Local
      BY <1>1, <2>2 DEF Local, Step
    <2>4. proc' \in [Process -> Local]
      BY <1>2, <2>1, <2>3
    <2>5. QED
      BY <1>9, <2>4 DEF Observe, TypeOK, Local
  <1>10. QED
    BY <1>3, <1>4, <1>5, <1>6, <1>7, <1>8, <1>9

\* The steps after that, and those of a resumed attempt.
LEMMA AnswerType ==
  ASSUME TypeOK, NEW p \in Process,
         \/ Resume(p) \/ Register(p) \/ ClaimLost(p) \/ PostReturns(p) \/ PostRaises(p)
         \/ UseTombstone(p) \/ Reconcile(p) \/ ReportUnattempted(p) \/ Stop(p),
         At(p, "resuming") => proc[p].held # NoRow
  PROVE  TypeOK'
  <1> USE DEF journalVars, shmVars, postVars, mailVars
  <1>1. proc[p] \in Local /\ row \in Row \cup {NoRow} /\ proc[p].held \in Row \cup {NoRow}
    BY RowFacts DEF TypeOK, Local
  <1>2. ASSUME NEW s \in AttemptState, Update(p, s), UNCHANGED <<runs, postVars, mailVars>>,
               proc' \in [Process -> Local]
        PROVE  TypeOK'
    <2>1. row' \in Row
      BY <1>2, UpdateType
    <2>2. aged' \in BOOLEAN /\ inserts' = inserts /\ ages' = ages
      BY <1>2 DEF Update
    <2>3. QED
      BY <1>2, <2>1, <2>2 DEF TypeOK, Local
  <1>3. ASSUME proc' \in [Process -> Local], UNCHANGED <<runs, journalVars, postVars, mailVars>>
        PROVE  TypeOK'
    BY <1>3 DEF TypeOK, Local
  <1>4. ASSUME proc' \in [Process -> Local], UNCHANGED <<runs, ages, postVars, mailVars>>,
               row' \in Row, inserts' \in Nat, aged' \in BOOLEAN
        PROVE  TypeOK'
    BY <1>4 DEF TypeOK, Local
  <1>5. CASE Resume(p)
    <2>1. proc[p].held \in Row /\ proc[p].ref \in Ref /\ proc[p].held.sid \in Nat /\ proc[p].held.print \in Nat
      BY <1>1, <1>5 DEF Resume, Local, Row
    <2>2. CASE Conflict(p, proc[p].held.sid, proc[p].held.print)
      BY <1>3, <2>2, EndType DEF Conflict
    <2>3. CASE CreateOrGet(proc[p].ref, proc[p].held.sid, proc[p].held.print)
      <3>1. row' \in Row /\ inserts' \in Nat /\ aged' \in BOOLEAN
        BY <2>1, <2>3, CreateOrGetType
      <3>2. [proc[p] EXCEPT !.held = row', !.sid = row'.sid, !.step = "unchecked"] \in Local
        BY <1>1, <3>1 DEF Local, Step, Row
      <3>3. CASE EnterReconcile(p, row')
        <4>1. proc' \in [Process -> Local]
          BY <3>1, <3>3, ReconcileType
        <4>2. QED
          BY <1>3, <1>4, <1>5, <2>2, <3>1, <4>1 DEF Resume
      <3>4. CASE proc' = [proc EXCEPT ![p].held = row', ![p].sid = row'.sid, ![p].step = "unchecked"]
        <4>1. proc' \in [Process -> Local]
          BY <3>2, <3>4 DEF TypeOK, Local
        <4>2. QED
          BY <1>4, <1>5, <2>2, <3>1, <4>1 DEF Resume
      <3>5. QED
        BY <1>5, <2>2, <3>3, <3>4 DEF Resume
    <2>4. QED
      BY <1>5, <2>2, <2>3 DEF Resume
  <1>6. CASE Register(p)
    <2>1. CASE Conflict(p, proc[p].sid, proc[p].print)
      BY <1>3, <2>1, EndType DEF Conflict
    <2>2. CASE /\ CreateOrGet(proc[p].ref, proc[p].sid, proc[p].print)
               /\ proc' = [proc EXCEPT ![p].held = row', ![p].step = "registered"]
               /\ UNCHANGED <<runs, ages, postVars, mailVars>>
      <3>1. row' \in Row /\ inserts' \in Nat /\ aged' \in BOOLEAN
        BY <1>1, <2>2, CreateOrGetType DEF Local
      <3>2. [proc[p] EXCEPT !.held = row', !.step = "registered"] \in Local
        BY <1>1, <3>1 DEF Local, Step
      <3>3. proc' \in [Process -> Local]
        BY <2>2, <3>2 DEF TypeOK, Local
      <3>4. QED
        BY <1>4, <2>2, <3>1, <3>3
    <2>3. QED
      BY <1>6, <2>1, <2>2 DEF Register
  <1>7. CASE ClaimLost(p)
    BY <1>1, <1>3, <1>7, ReconcileType DEF ClaimLost
  <1>8. CASE PostReturns(p)
    <2>1. "request_accepted" \in AttemptState
      BY DEF AttemptState
    <2>2. row' \in Row /\ EnterReconcile(p, row')
      BY <1>8, <2>1, UpdateType DEF PostReturns
    <2>3. QED
      BY <1>2, <1>8, <2>1, <2>2, ReconcileType DEF PostReturns
  <1>9. CASE PostRaises(p)
    <2>1. "unknown" \in AttemptState
      BY DEF AttemptState
    <2>2. row' \in Row /\ EnterReconcile(p, row')
      BY <1>9, <2>1, UpdateType DEF PostRaises
    <2>3. QED
      BY <1>2, <1>9, <2>1, <2>2, ReconcileType DEF PostRaises
  <1>10. CASE UseTombstone(p)
    BY <1>3, <1>10, EndType DEF UseTombstone, Reply
  <1>11. CASE Reconcile(p)
    <2>1. Reconciled(p) \in AttemptState
      BY <1>11, ReconciledType DEF Reconcile, Update
    <2>2. proc' \in [Process -> Local]
      BY <1>1, <1>11, EndType, ReconcileType DEF Reconcile, Reply
    <2>3. QED
      BY <1>2, <1>11, <2>1, <2>2 DEF Reconcile
  <1>12. CASE ReportUnattempted(p)
    BY <1>3, <1>12, EndType DEF ReportUnattempted, Reply
  <1>13. CASE Stop(p)
    BY <1>3, <1>13, EndType DEF Stop
  <1>14. QED
    BY <1>5, <1>6, <1>7, <1>8, <1>9, <1>10, <1>11, <1>12, <1>13

\* The backend and the mailbox.
LEMMA MailboxType == ASSUME JournalAssumption, TypeOK, Mailbox PROVE TypeOK'
  <1> USE DEF journalVars, shmVars, postVars, mailVars
  <1>1. CASE ProviderProcesses
    BY <1>1 DEF ProviderProcesses, TypeOK
  <1>2. CASE JobMoves
    <2>1. job' \in Job
      BY <1>2 DEF JobMoves, JobSteps, TypeOK, Job
    <2>2. QED
      BY <1>2, <2>1 DEF JobMoves, TypeOK
  <1>3. CASE Deliver
    BY <1>3 DEF Deliver, TypeOK
  <1>4. CASE Edit
    BY <1>4 DEF Edit, TypeOK
  <1>5. CASE Age
    <2>1. ages' \in Nat /\ aged' \in BOOLEAN
      BY <1>5 DEF Age, TypeOK
    <2>2. QED
      BY <1>5, <2>1 DEF Age, TypeOK
  <1>6. QED
    BY <1>1, <1>2, <1>3, <1>4, <1>5 DEF Mailbox

\* Every step keeps the types.
LEMMA StepType == JournalAssumption /\ IInv /\ [Next]_vars => TypeOK'
  <1> SUFFICES ASSUME JournalAssumption, IInv, [Next]_vars PROVE TypeOK'
    OBVIOUS
  <1>1. TypeOK /\ \A p \in Process : At(p, "resuming") => proc[p].held # NoRow
    BY DEF IInv, CommandTrue, At, Holding
  <1>2. ASSUME NEW p \in Process, Command(p) PROVE TypeOK'
    BY <1>1, <1>2, ExecuteType, AnswerType DEF Command
  <1>3. CASE UNCHANGED vars
    BY <1>1, <1>3 DEF vars, journalVars, shmVars, postVars, mailVars, TypeOK
  <1>4. QED
    BY <1>1, <1>2, <1>3, MailboxType DEF Next

(***************************************************************************)
(* Steps.                                                                  *)
(***************************************************************************)

\* A command that ends remembers only whether it reported the message as sent.
LEMMA EndTrue ==
  ASSUME IInv, RowTrue', TypeOK', NEW p \in Process, NEW sent \in BOOLEAN, End(p, sent), sent => delivered'
  PROVE  /\ CommandTrue(p)' /\ proc'[p].step = "idle"
         /\ \A o \in Process \ {p} : proc'[o] = proc[o]
  <1>1. /\ proc'[p] = Ended(proc[p].ref, sent)
        /\ \A o \in Process \ {p} : proc'[o] = proc[o]
    BY DEF End, IInv, TypeOK
  <1>2. inserts' \in Nat /\ NoRow.id = 0 /\ (row' # NoRow => row'.id # 0)
    BY DEF TypeOK, NoRow, RowTrue
  <1>3. /\ proc'[p].step = "idle" /\ proc'[p].held = NoRow /\ proc'[p].seen = "active_draft"
        /\ proc'[p].sent = sent
    BY <1>1 DEF Ended
  <1>4. HeldTrue(p)'
    BY <1>2, <1>3 DEF HeldTrue
  <1>5. QED
    BY <1>1, <1>3, <1>4 DEF CommandTrue, Holding, Owning

\* A command that goes to reconcile keeps its attempt or takes the row.
LEMMA ReconcileTrue ==
  ASSUME IInv, RowTrue', TypeOK', JournalMoves, delivered => delivered', NEW p \in Process,
         \/ proc[p].held # NoRow /\ EnterReconcile(p, proc[p].held)
         \/ row' # NoRow /\ EnterReconcile(p, row')
  PROVE  /\ CommandTrue(p)' /\ proc'[p].step = "reconciling"
         /\ \A o \in Process \ {p} : proc'[o] = proc[o]
  <1>1. /\ proc'[p].step = "reconciling" /\ proc'[p].held # NoRow /\ proc'[p].sent = proc[p].sent
        /\ proc'[p].held = proc[p].held \/ (row' # NoRow /\ proc'[p].held = row')
        /\ \A o \in Process \ {p} : proc'[o] = proc[o]
    <2>1. proc[p] \in Local /\ proc \in [Process -> Local]
      BY RowFacts DEF IInv, TypeOK, Local
    <2>2. ASSUME NEW held, EnterReconcile(p, held)
          PROVE  /\ proc'[p].step = "reconciling" /\ proc'[p].held = held /\ proc'[p].sent = proc[p].sent
                 /\ \A o \in Process \ {p} : proc'[o] = proc[o]
      BY <2>1, <2>2 DEF EnterReconcile, Local
    <2>3. QED
      BY <2>2
  <1>2. HeldTrue(p)'
    <2>1. CASE proc'[p].held = proc[p].held
      BY <2>1, HeldStays
    <2>2. CASE row' # NoRow /\ proc'[p].held = row'
      BY <2>2 DEF HeldTrue, RowTrue, SameAttempt, TypeOK
    <2>3. QED
      BY <1>1, <2>1, <2>2
  <1>3. proc[p].sent => delivered'
    BY DEF IInv, CommandTrue
  <1>4. QED
    BY <1>1, <1>2, <1>3 DEF CommandTrue, Holding, Owning

\* Asking for the attempt with given bindings.
LEMMA CreateOrGetMoves ==
  ASSUME TypeOK, NEW q \in Ref, NEW sid \in Nat, NEW print \in Nat, CreateOrGet(q, sid, print)
  PROVE  /\ JournalMoves /\ row' \in Row
         /\ row'.ref = q /\ row'.sid = sid /\ row'.print = print
  <1>1. CASE row = NoRow
    <2>1. row' = NewRow(q, sid, print) /\ row' \in Row /\ inserts' = inserts + 1
      BY <1>1, CreateOrGetType DEF CreateOrGet
    <2>2. RowInserted(row')
      BY <1>1, <2>1 DEF RowInserted, NewRow
    <2>3. QED
      BY <2>1, <2>2 DEF JournalMoves, NewRow
  <1>2. CASE row # NoRow
    BY <1>2 DEF CreateOrGet, SameBindings, JournalMoves, RowKept, TypeOK
  <1>3. QED
    BY <1>1, <1>2

\* The state a reconciling command records is true of what it observed.
LEMMA ReconciledMoves ==
  ASSUME IInv, NEW p \in Process, At(p, "observed"), Update(p, Reconciled(p))
  PROVE  JournalMoves
  <1>1. row \in Row /\ row' \in Row /\ Reconciled(p) \in AttemptState
    BY ReconciledType, UpdateType DEF Update, IInv, TypeOK
  <1>2. row' = [row EXCEPT !.state = Reconciled(p), !.msg = @ \/ Reconciled(p) = "sent_provider_confirmed"]
    BY DEF Update
  <1>3. /\ row'.id = row.id /\ row'.ref = row.ref /\ row'.sid = row.sid /\ row'.print = row.print
        /\ row'.posts = row.posts /\ row'.state = Reconciled(p)
    BY <1>1, <1>2 DEF Row
  <1>4. \/ Reconciled(p) = row.state
        \/ Reconciled(p) = "unknown"
        \/ Reconciled(p) = proc[p].seen
    BY DEF Reconciled
  <1>5. CommandTrue(p) /\ RowTrue /\ proc[p].seen \in Observed /\ proc[p].step = "observed"
    BY DEF IInv, TypeOK, At
  <1>6. /\ row.posts = 1 => Reconciled(p) # "prepared"
        /\ Reconciled(p) \in Purgeable => Blocked
        /\ Reconciled(p) = "sent_provider_confirmed" => delivered
    BY <1>4, <1>5 DEF CommandTrue, RowTrue, Purgeable, Observed, Update
  <1>7. QED
    BY <1>1, <1>3, <1>6 DEF JournalMoves, RowUpdated, SameAttempt, Update

\* So are the states that say what became of a POST.
LEMMA PostMoves ==
  ASSUME IInv, NEW p \in Process, NEW s \in {"request_accepted", "unknown"}, Update(p, s)
  PROVE  JournalMoves /\ row' # NoRow
  <1>1. row \in Row /\ row' \in Row /\ row' = [row EXCEPT !.state = s, !.msg = @ \/ s = "sent_provider_confirmed"]
    BY UpdateType DEF Update, IInv, TypeOK, AttemptState
  <1>2. /\ row'.id = row.id /\ row'.ref = row.ref /\ row'.sid = row.sid /\ row'.print = row.print
        /\ row'.posts = row.posts /\ row'.state = s
    BY <1>1 DEF Row
  <1>3. RowUpdated
    BY <1>1, <1>2 DEF RowUpdated, SameAttempt, Update, Purgeable
  <1>4. row' # NoRow
    <2>1. row.id # 0
      BY RowFacts DEF IInv, RowTrue, Update
    <2>2. QED
      BY <1>2, <2>1 DEF NoRow
  <1>5. QED
    BY <1>3, <1>4 DEF JournalMoves

\* Commands that read the journal or the mailbox, or fail, do not write the row;
\* the first of them may purge it.
LEMMA ReadMoves ==
  ASSUME NEW p \in Process,
         \/ \E cmd \in {"execute", "status"}, q \in Ref : Begin(p, cmd, q)
         \/ LookUp(p) \/ FirstCheck(p) \/ ClaimLost(p) \/ UseTombstone(p) \/ Observe(p)
         \/ ReportUnattempted(p) \/ Stop(p)
  PROVE  JournalMoves /\ MailKept
  <1> USE DEF journalVars, shmVars, postVars, mailVars
  <1>1. MailKept
    BY DEF Begin, LookUp, FirstCheck, ClaimLost, UseTombstone, Observe, ReportUnattempted, Stop, MailKept
  <1>2. JournalMoves
    BY DEF Begin, LookUp, FirstCheck, ClaimLost, UseTombstone, Observe, ReportUnattempted, Stop,
           JournalMoves, RowKept, RowPurged
  <1>3. QED
    BY <1>1, <1>2

\* Commands that ask for the attempt, or record what became of it.
LEMMA WriteMoves ==
  ASSUME IInv, NEW p \in Process,
         Resume(p) \/ Register(p) \/ PostReturns(p) \/ PostRaises(p) \/ Reconcile(p)
  PROVE  JournalMoves /\ MailKept
  <1> USE DEF journalVars, shmVars, postVars, mailVars
  <1>1. TypeOK /\ CommandTrue(p) /\ proc[p] \in Local /\ (proc[p].held # NoRow => proc[p].held \in Row)
    BY RowFacts DEF IInv
  <1>2. MailKept
    BY DEF Resume, Register, Conflict, PostReturns, PostRaises, Reconcile, MailKept
  <1> SUFFICES JournalMoves
    BY <1>2
  <1>3. ASSUME NEW sid, NEW print, Conflict(p, sid, print) PROVE JournalMoves
    BY <1>3 DEF Conflict, JournalMoves, RowKept
  <1>4. CASE Resume(p)
    <2>1. proc[p].ref \in Ref /\ proc[p].held.sid \in Nat /\ proc[p].held.print \in Nat
      BY <1>1, <1>4 DEF Resume, At, CommandTrue, Holding, Row, Local
    <2>2. QED
      BY <1>1, <1>3, <1>4, <2>1, CreateOrGetMoves DEF Resume
  <1>5. CASE Register(p)
    BY <1>1, <1>3, <1>5, CreateOrGetMoves DEF Register, Local
  <1>6. CASE PostReturns(p) \/ PostRaises(p)
    BY <1>6, PostMoves DEF PostReturns, PostRaises
  <1>7. CASE Reconcile(p)
    BY <1>7, ReconciledMoves DEF Reconcile
  <1>8. QED
    BY <1>4, <1>5, <1>6, <1>7

\* The commands read the journal or the mailbox, or fail.
LEMMA ReadIInv ==
  ASSUME IInv, TypeOK', NEW p \in Process,
         \/ \E cmd \in {"execute", "status"}, q \in Ref : Begin(p, cmd, q)
         \/ LookUp(p) \/ FirstCheck(p) \/ ClaimLost(p) \/ UseTombstone(p) \/ Observe(p)
         \/ ReportUnattempted(p) \/ Stop(p)
  PROVE  IInv'
  <1> USE DEF journalVars, shmVars, postVars, mailVars
  <1>1. /\ CommandTrue(p) /\ proc \in [Process -> Local] /\ proc[p] \in Local
        /\ delivered \in BOOLEAN /\ (Blocked => job \in {"failed", "conflict"})
    BY RowFacts DEF IInv, TypeOK, Local, Blocked
  <1>2. MailKept
    BY ReadMoves
  <1>3. JournalMoves
    BY ReadMoves
  <1>4. RowTrue' /\ (delivered => delivered') /\ (Blocked <=> Blocked')
    BY <1>2, <1>3, JournalTrue DEF MailKept, Blocked
  <1>5. ASSUME \/ \E sent \in BOOLEAN : End(p, sent) /\ (sent => delivered)
               \/ proc[p].held # NoRow /\ EnterReconcile(p, proc[p].held)
               \/ row' # NoRow /\ EnterReconcile(p, row')
        PROVE  IInv'
    BY <1>2, <1>3, <1>4, <1>5, EndTrue, ReconcileTrue, QuietIInv
  <1>6. ASSUME NEW cmd \in {"execute", "status"}, NEW q \in Ref, Begin(p, cmd, q) PROVE IInv'
    <2>1. /\ proc'[p].step = "opened" /\ proc'[p].held = proc[p].held /\ proc'[p].sent = FALSE
          /\ \A o \in Process \ {p} : proc'[o] = proc[o]
      BY <1>1, <1>6 DEF Begin, Local
    <2>2. HeldTrue(p)'
      BY <1>3, <1>4, <2>1, HeldStays
    <2>3. CommandTrue(p)'
      BY <2>1, <2>2 DEF CommandTrue, Holding, Owning
    <2>4. QED
      BY <1>2, <1>3, <2>1, <2>3, QuietIInv
  <1>7. CASE LookUp(p)
    <2>1. /\ proc'[p].step \in {"unattempted", "reconciling", "unchecked", "resuming"}
          /\ proc'[p].held = row /\ proc'[p].sent = proc[p].sent
          /\ proc'[p].step \in {"reconciling", "resuming"} => row # NoRow
          /\ \A o \in Process \ {p} : proc'[o] = proc[o]
      BY <1>1, <1>7 DEF LookUp, Local
    <2>2. row' = row /\ inserts' = inserts
      BY <1>7 DEF LookUp
    <2>3. HeldTrue(p)'
      <3>1. row.id <= inserts
        BY RowFacts DEF IInv, RowTrue
      <3>2. QED
        BY <1>4, <2>1, <2>2, <3>1 DEF HeldTrue, RowTrue, SameAttempt
    <2>4. CommandTrue(p)'
      BY <1>1, <1>4, <2>1, <2>3 DEF CommandTrue, Holding, Owning
    <2>5. QED
      BY <1>2, <1>3, <2>1, <2>4, QuietIInv
  <1>8. CASE FirstCheck(p)
    <2>1. /\ proc'[p].step = "checked" /\ proc'[p].held = proc[p].held /\ proc'[p].sent = proc[p].sent
          /\ \A o \in Process \ {p} : proc'[o] = proc[o]
      BY <1>1, <1>8 DEF FirstCheck, Local
    <2>2. HeldTrue(p)'
      BY <1>3, <1>4, <2>1, HeldStays
    <2>3. CommandTrue(p)'
      BY <1>1, <1>4, <2>1, <2>2 DEF CommandTrue, Holding, Owning
    <2>4. QED
      BY <1>2, <1>3, <2>1, <2>3, QuietIInv
  <1>9. CASE ClaimLost(p)
    BY <1>5, <1>9 DEF ClaimLost
  <1>10. CASE UseTombstone(p)
    <2>1. proc[p].held # NoRow /\ proc[p].held.state = "sent_provider_confirmed"
      BY <1>1, <1>10 DEF UseTombstone, Tombstone, CommandTrue, At, Holding
    <2>2. delivered
      BY <1>1, <2>1 DEF CommandTrue, HeldTrue
    <2>3. QED
      BY <1>5, <1>10, <2>2 DEF UseTombstone, Reply
  <1>11. CASE Observe(p)
    <2>1. PICK s \in Observations : proc' = [proc EXCEPT ![p].step = "observed", ![p].seen = s]
      BY <1>11 DEF Observe
    <2>2. /\ s \in Purgeable => Blocked
          /\ s = "sent_provider_confirmed" => delivered
      BY DEF Observations, OfJob, Purgeable, Blocked, IInv, TypeOK, Job
    <2>3. /\ proc'[p].step = "observed" /\ proc'[p].held = proc[p].held /\ proc'[p].sent = proc[p].sent
          /\ proc'[p].seen = s
          /\ \A o \in Process \ {p} : proc'[o] = proc[o]
      BY <1>1, <2>1 DEF Local
    <2>4. HeldTrue(p)'
      BY <1>3, <1>4, <2>3, HeldStays
    <2>5. proc[p].held # NoRow
      BY <1>1, <1>11 DEF Observe, At, CommandTrue, Holding
    <2>6. CommandTrue(p)'
      BY <1>1, <1>4, <2>2, <2>3, <2>4, <2>5 DEF CommandTrue, Holding, Owning
    <2>7. QED
      BY <1>2, <1>3, <2>3, <2>6, QuietIInv
  <1>12. CASE ReportUnattempted(p)
    <2>1. PICK s \in Observations : Reply(p, s)
      BY <1>12 DEF ReportUnattempted
    <2>2. s = "sent_provider_confirmed" => delivered
      BY DEF Observations, OfJob, IInv, TypeOK, Job
    <2>3. QED
      BY <1>5, <2>1, <2>2 DEF Reply
  <1>13. CASE Stop(p)
    BY <1>5, <1>13 DEF Stop
  <1>14. QED
    BY <1>6, <1>7, <1>8, <1>9, <1>10, <1>11, <1>12, <1>13

\* The commands ask for the attempt, or record what became of it.
LEMMA WriteIInv ==
  ASSUME IInv, TypeOK', NEW p \in Process,
         Resume(p) \/ Register(p) \/ PostReturns(p) \/ PostRaises(p) \/ Reconcile(p)
  PROVE  IInv'
  <1> USE DEF journalVars, shmVars, postVars, mailVars
  <1>1. /\ TypeOK /\ CommandTrue(p) /\ proc \in [Process -> Local] /\ proc[p] \in Local
        /\ proc[p].held # NoRow => proc[p].held \in Row
    BY RowFacts DEF IInv, TypeOK, Local
  <1>2. JournalMoves /\ MailKept
    BY WriteMoves
  <1>3. (delivered => delivered') /\ (Blocked <=> Blocked')
    BY <1>2 DEF MailKept, Blocked
  <1>4. ASSUME \/ \E sent \in BOOLEAN : End(p, sent) /\ (sent => delivered)
               \/ proc[p].held # NoRow /\ EnterReconcile(p, proc[p].held)
               \/ row' # NoRow /\ EnterReconcile(p, row')
        PROVE  IInv'
    BY <1>2, <1>3, <1>4, JournalTrue, EndTrue, ReconcileTrue, QuietIInv
  <1>5. ASSUME NEW sid, NEW print, Conflict(p, sid, print) PROVE IInv'
    BY <1>4, <1>5 DEF Conflict
  <1>6. ASSUME NEW sid \in Nat, NEW print \in Nat, CreateOrGet(proc[p].ref, sid, print)
        PROVE  /\ RowTrue' /\ row' # NoRow /\ row' \in Row /\ row'.id <= inserts'
               /\ row'.ref = proc[p].ref /\ row'.sid = sid /\ row'.print = print
    <2>1. /\ row' \in Row
          /\ row'.ref = proc[p].ref /\ row'.sid = sid /\ row'.print = print
      BY <1>1, <1>6, CreateOrGetMoves DEF Local
    <2>2. RowTrue'
      BY <1>2, <1>3, JournalTrue
    <2>3. row' # NoRow
      BY <2>1 DEF Row, NoRow
    <2>4. row'.id <= inserts'
      <3>1. row'.id \in 1..inserts'
        BY <2>2, <2>3 DEF RowTrue
      <3>2. QED
        BY <3>1 DEF TypeOK
    <2>5. QED
      BY <2>1, <2>2, <2>3, <2>4
  <1>7. CASE Resume(p)
    <2>1. proc[p].held \in Row /\ proc[p].held.sid \in Nat /\ proc[p].held.print \in Nat
      BY <1>1, <1>7 DEF Resume, At, CommandTrue, Holding, Row
    <2>2. CASE Conflict(p, proc[p].held.sid, proc[p].held.print)
      BY <1>5, <2>2
    <2>3. CASE CreateOrGet(proc[p].ref, proc[p].held.sid, proc[p].held.print)
      <3>1. /\ RowTrue' /\ row' # NoRow /\ row' \in Row /\ row'.id <= inserts'
        BY <1>6, <2>1, <2>3
      <3>2. CASE EnterReconcile(p, row')
        BY <1>4, <3>1, <3>2
      <3>3. CASE proc' = [proc EXCEPT ![p].held = row', ![p].sid = row'.sid, ![p].step = "unchecked"]
        <4>1. /\ proc'[p].step = "unchecked" /\ proc'[p].held = row' /\ proc'[p].sent = proc[p].sent
              /\ \A o \in Process \ {p} : proc'[o] = proc[o]
          BY <1>1, <3>3 DEF Local
        <4>2. HeldTrue(p)'
          BY <3>1, <4>1 DEF HeldTrue, RowTrue, SameAttempt
        <4>3. CommandTrue(p)'
          BY <1>1, <1>3, <4>1, <4>2 DEF CommandTrue, Holding, Owning
        <4>4. QED
          BY <1>2, <4>1, <4>3, QuietIInv
      <3>4. QED
        BY <1>7, <2>2, <3>2, <3>3 DEF Resume
    <2>4. QED
      BY <1>7, <2>2, <2>3 DEF Resume
  <1>8. CASE Register(p)
    <2>1. CASE Conflict(p, proc[p].sid, proc[p].print)
      BY <1>5, <2>1
    <2>2. CASE /\ CreateOrGet(proc[p].ref, proc[p].sid, proc[p].print)
               /\ proc' = [proc EXCEPT ![p].held = row', ![p].step = "registered"]
      <3>1. /\ RowTrue' /\ row' # NoRow /\ row' \in Row /\ row'.id <= inserts'
            /\ row'.ref = proc[p].ref /\ row'.sid = proc[p].sid /\ row'.print = proc[p].print
        BY <1>1, <1>6, <2>2 DEF Local
      <3>2. /\ proc'[p].step = "registered" /\ proc'[p].held = row' /\ proc'[p].sent = proc[p].sent
            /\ SameAttempt(proc'[p], proc[p])
            /\ \A o \in Process \ {p} : proc'[o] = proc[o]
        BY <1>1, <2>2 DEF Local, SameAttempt
      <3>3. HeldTrue(p)'
        BY <3>1, <3>2 DEF HeldTrue, RowTrue, SameAttempt
      <3>4. CommandTrue(p)'
        BY <1>1, <1>3, <3>1, <3>2, <3>3 DEF CommandTrue, SameAttempt
      <3>5. QED
        BY <1>2, <3>2, <3>4, QuietIInv
    <2>3. QED
      BY <1>8, <2>1, <2>2 DEF Register
  <1>9. CASE PostReturns(p)
    <2>1. row' # NoRow
      BY <1>9, PostMoves DEF PostReturns
    <2>2. QED
      BY <1>4, <1>9, <2>1 DEF PostReturns
  <1>10. CASE PostRaises(p)
    <2>1. row' # NoRow
      BY <1>10, PostMoves DEF PostRaises
    <2>2. QED
      BY <1>4, <1>10, <2>1 DEF PostRaises
  <1>11. CASE Reconcile(p)
    <2>1. /\ proc[p].held # NoRow
          /\ proc[p].seen = "sent_provider_confirmed" => delivered
      BY <1>1, <1>11 DEF Reconcile, At, CommandTrue, Holding
    <2>2. QED
      BY <1>4, <1>11, <2>1 DEF Reconcile, Reply
  <1>12. QED
    BY <1>7, <1>8, <1>9, <1>10, <1>11

\* A second preflight passes only while no job blocks the draft, so the POST is
\* not spent behind a forgotten attempt.
LEMMA FinalCheckIInv ==
  ASSUME IInv, TypeOK', NEW p \in Process, FinalCheck(p)
  PROVE  IInv'
  <1> USE DEF journalVars, shmVars, postVars, mailVars
  <1>1. CommandTrue(p) /\ proc \in [Process -> Local] /\ proc[p] \in Local
    BY RowFacts DEF IInv, TypeOK, Local
  <1>2. JournalMoves /\ row' = row /\ inserts' = inserts /\ made' = made /\ posted' = posted
        /\ (Blocked <=> Blocked') /\ (delivered => delivered')
    BY DEF FinalCheck, JournalMoves, RowKept, Blocked
  <1>3. /\ proc'[p].step = "final" /\ proc[p].step = "registered" /\ proc'[p].held = proc[p].held
        /\ proc'[p].sent = proc[p].sent /\ SameAttempt(proc'[p], proc[p])
        /\ \A o \in Process \ {p} : proc'[o] = proc[o]
    BY <1>1 DEF FinalCheck, Goto, At, Local, SameAttempt
  <1>4. HeldTrue(p)'
    BY <1>2, <1>3, HeldStays
  <1>5. CommandTrue(p)'
    BY <1>1, <1>2, <1>3, <1>4 DEF CommandTrue, Holding, Owning, SameAttempt
  <1>6. ASSUME NEW o \in Process PROVE CommandTrue(o)'
    BY <1>2, <1>3, <1>5, Bystander
  <1>7. RowTrue'
    BY <1>2, JournalTrue
  <1>8. \A o \in Process : At(o, "posting")' => At(o, "posting")
    BY <1>3 DEF At
  <1>9. ~Blocked
    BY DEF FinalCheck, Observations, OfJob, Blocked, IInv, TypeOK, Job
  <1>10. SpentIsRemembered'
    BY <1>2, <1>8, <1>9 DEF IInv, SpentIsRemembered, Spent
  <1>11. OnePoster' /\ PostTrue'
    BY <1>2, <1>8 DEF IInv, OnePoster, PostTrue, PostMatchesAttempt
  <1>12. QED
    BY <1>6, <1>7, <1>10, <1>11 DEF IInv

\* Who claims the attempt is the first and will be the only one to post.
LEMMA ClaimIInv ==
  ASSUME IInv, TypeOK', NEW p \in Process, Claim(p)
  PROVE  IInv'
  <1> USE DEF journalVars, shmVars, postVars, mailVars
  <1>1. CommandTrue(p) /\ proc \in [Process -> Local] /\ proc[p] \in Local /\ made \in Nat
    BY RowFacts DEF IInv, TypeOK, Local
  <1>2. row \in Row /\ row # NoRow /\ row.id = proc[p].held.id /\ row.posts = 0 /\ At(p, "final")
    BY DEF Claim, Claimable, IInv, TypeOK
  <1>3. ~Spent
    BY <1>2 DEF IInv, SpentIsRemembered
  <1>4. /\ row'.id = row.id /\ row'.ref = row.ref /\ row'.sid = row.sid /\ row'.print = row.print
        /\ row'.posts = 1 /\ row'.state = "posting"
        /\ inserts' = inserts /\ made' = made /\ posted' = posted /\ delivered' = delivered /\ job' = job
    BY <1>2 DEF Claim, Row
  <1>5. row' # NoRow
    BY <1>2, <1>4, RowFacts DEF IInv, RowTrue
  <1>6. /\ proc'[p].step = "posting" /\ proc'[p].held = row' /\ proc'[p].sent = proc[p].sent
        /\ SameAttempt(proc'[p], proc[p])
        /\ \A o \in Process \ {p} : proc'[o] = proc[o]
    BY <1>1 DEF Claim, Local, SameAttempt
  <1>7. RowTrue'
    BY <1>2, <1>4 DEF IInv, RowTrue, Purgeable
  <1>8. CommandTrue(p)'
    <2>1. row.id <= inserts
      BY <1>2, RowFacts DEF IInv, RowTrue
    <2>2. HeldTrue(p)'
      BY <1>4, <1>5, <1>6, <2>1 DEF HeldTrue, SameAttempt
    <2>3. SameAttempt(proc[p].held, proc[p]) /\ SameAttempt(row, proc[p].held)
      BY <1>1, <1>2 DEF CommandTrue, HeldTrue, Owning, At
    <2>4. QED
      BY <1>1, <1>4, <1>5, <1>6, <2>2, <2>3 DEF CommandTrue, Holding, Owning, SameAttempt
  <1>9. ASSUME NEW o \in Process, o # p PROVE CommandTrue(o)'
    <2>1. CommandTrue(o) /\ proc'[o] = proc[o]
      BY <1>6, <1>9 DEF IInv
    <2>2. HeldTrue(o)'
      BY <1>2, <1>4, <2>1 DEF CommandTrue, HeldTrue, SameAttempt
    <2>3. QED
      BY <1>4, <2>1, <2>2 DEF CommandTrue, Blocked
  <1>10. \A o \in Process : At(o, "posting")' => o = p
    BY <1>3, <1>6 DEF At, Spent
  <1>11. made = 0
    BY <1>1, <1>3 DEF Spent
  <1>12. OnePoster' /\ SpentIsRemembered' /\ PostTrue'
    BY <1>4, <1>5, <1>10, <1>11 DEF IInv, OnePoster, SpentIsRemembered, PostTrue, PostMatchesAttempt
  <1>13. QED
    BY <1>7, <1>8, <1>9, <1>12 DEF IInv

\* The POST is of the attempt that was claimed for it.
LEMMA PostIInv ==
  ASSUME IInv, TypeOK', NEW p \in Process, Post(p)
  PROVE  IInv'
  <1> USE DEF journalVars, shmVars, postVars, mailVars
  <1>1. CommandTrue(p) /\ proc \in [Process -> Local] /\ proc[p] \in Local /\ At(p, "posting")
    BY RowFacts DEF IInv, TypeOK, Local, Post
  <1>2. made = 0 /\ \A o \in Process : At(o, "posting") => o = p
    BY <1>1 DEF IInv, OnePoster
  <1>3. JournalMoves /\ row' = row /\ inserts' = inserts /\ made' = 1
        /\ (Blocked <=> Blocked') /\ (delivered => delivered')
    BY <1>2 DEF Post, JournalMoves, RowKept, Blocked
  <1>4. posted' = [id |-> proc[p].held.id, ref |-> proc[p].ref, sid |-> proc[p].sid, print |-> proc[p].print]
    BY DEF Post
  <1>5. /\ proc'[p].step = "waiting" /\ proc'[p].held = proc[p].held
        /\ proc'[p].sent = proc[p].sent
        /\ \A o \in Process \ {p} : proc'[o] = proc[o]
    BY <1>1 DEF Post, Goto, Local
  <1>6. HeldTrue(p)'
    BY <1>3, <1>5, HeldStays
  <1>7. CommandTrue(p)'
    BY <1>1, <1>3, <1>5, <1>6 DEF CommandTrue, Holding, Owning, At
  <1>8. ASSUME NEW o \in Process PROVE CommandTrue(o)'
    BY <1>3, <1>5, <1>7, Bystander
  <1>9. RowTrue'
    BY <1>3, JournalTrue
  <1>10. Spent /\ (\A o \in Process : ~At(o, "posting")')
         /\ (\A o \in Process : At(o, "final")' => At(o, "final") /\ proc'[o].held = proc[o].held)
    BY <1>1, <1>2, <1>5 DEF At, Spent
  <1>11. SpentIsRemembered'
    BY <1>3, <1>10 DEF IInv, SpentIsRemembered
  <1>12. OnePoster'
    BY <1>3, <1>10 DEF OnePoster
  <1>13. PostTrue'
    <2>1. SameAttempt(proc[p].held, proc[p]) /\ proc[p].held.id <= inserts
          /\ (row # NoRow /\ row.id = proc[p].held.id => SameAttempt(row, proc[p].held) /\ row.posts = 1)
      BY <1>1 DEF CommandTrue, HeldTrue, Owning, At
    <2>2. QED
      BY <1>3, <1>4, <2>1 DEF PostTrue, PostMatchesAttempt, SameAttempt
  <1>14. QED
    BY <1>8, <1>9, <1>11, <1>12, <1>13 DEF IInv

\* The mailbox only makes more true of what journal and commands say.
LEMMA MailboxIInv ==
  ASSUME IInv, TypeOK', Mailbox \/ UNCHANGED vars
  PROVE  IInv'
  <1> USE DEF journalVars, shmVars, postVars, mailVars
  <1>1. row' = row /\ inserts' = inserts /\ proc' = proc /\ made' = made /\ posted' = posted
    BY DEF Mailbox, ProviderProcesses, JobMoves, Deliver, Edit, Age, vars
  <1>2. (Blocked => Blocked') /\ (delivered => delivered')
    BY DEF Mailbox, ProviderProcesses, JobMoves, JobSteps, Deliver, Edit, Age, vars, Blocked, IInv, TypeOK, Job
  <1>3. JournalMoves
    BY <1>1 DEF JournalMoves, RowKept
  <1>4. RowTrue' /\ \A o \in Process : CommandTrue(o)'
    BY <1>1, <1>2, <1>3, JournalTrue, Bystander
  <1>5. SpentIsRemembered' /\ OnePoster' /\ PostTrue'
    BY <1>1, <1>2 DEF IInv, SpentIsRemembered, Spent, OnePoster, PostTrue, PostMatchesAttempt, At
  <1>6. QED
    BY <1>4, <1>5 DEF IInv

\* Every step keeps the invariant.
LEMMA StepIInv == JournalAssumption /\ IInv /\ [Next]_vars => IInv'
  <1> SUFFICES ASSUME JournalAssumption, IInv, [Next]_vars PROVE IInv'
    OBVIOUS
  <1>1. TypeOK'
    BY StepType
  <1>2. ASSUME NEW p \in Process, Command(p) PROVE IInv'
    BY <1>1, <1>2, ReadIInv, WriteIInv, FinalCheckIInv, ClaimIInv, PostIInv DEF Command
  <1>3. QED
    BY <1>1, <1>2, MailboxIInv DEF Next

\* It holds in the beginning.
LEMMA InitIInv == Init => IInv
  <1> SUFFICES ASSUME Init PROVE IInv
    OBVIOUS
  <1>1. PICK q \in Ref : /\ proc = [p \in Process |-> Ended(q, FALSE)]
                         /\ posted = [id |-> 0, ref |-> q, sid |-> 0, print |-> 0]
    BY DEF Init
  <1>2. Ended(q, FALSE) \in Local
    BY DEF Ended, Local, Step, Observed
  <1>3. TypeOK
    BY <1>1, <1>2 DEF Init, TypeOK, Local, Job
  <1>4. RowTrue /\ made = 0 /\ inserts = 0 /\ row = NoRow
    BY DEF Init, RowTrue
  <1>5. ASSUME NEW p \in Process
        PROVE  proc[p].step = "idle" /\ proc[p].held = NoRow /\ proc[p].sent = FALSE
    BY <1>1 DEF Ended
  <1>6. ASSUME NEW p \in Process PROVE CommandTrue(p)
    <2>1. NoRow.id = 0
      BY DEF NoRow
    <2>2. HeldTrue(p)
      <3>1. proc[p].held = NoRow /\ row = NoRow /\ inserts = 0
        BY <1>4, <1>5
      <3>2. QED
        BY <2>1, <3>1 DEF HeldTrue
    <2>3. QED
      BY <1>5, <2>2 DEF CommandTrue, Holding, Owning
  <1>7. OnePoster /\ SpentIsRemembered
    <2>1. ASSUME NEW p \in Process PROVE ~At(p, "posting")
      BY <1>5 DEF At
    <2>2. ~Spent
      BY <1>4, <2>1 DEF Spent
    <2>3. QED
      BY <1>4, <2>1, <2>2 DEF OnePoster, SpentIsRemembered
  <1>8. PostTrue
    BY <1>1, <1>4 DEF PostTrue, PostMatchesAttempt
  <1>9. QED
    BY <1>3, <1>4, <1>6, <1>7, <1>8 DEF IInv

\* It holds always.
LEMMA AlwaysIInv == Spec => []IInv
  BY InitIInv, StepIInv, JournalAssumption, PTL DEF Spec

(***************************************************************************)
(* Theorems.                                                               *)
(***************************************************************************)

\* Every variable keeps its type.
THEOREM TypeCorrect == Spec => []TypeOK
  <1>1. IInv => TypeOK
    BY DEF IInv
  <1>2. QED
    BY <1>1, AlwaysIInv, PTL

\* Any number of processes, whatever runs twice, is killed or retried, make one
\* POST for the draft.
THEOREM OnePostEver == Spec => []OnePost
  <1>1. IInv => OnePost
    BY DEF IInv, OnePoster, OnePost
  <1>2. QED
    BY <1>1, AlwaysIInv, PTL

\* The message is reported as sent only when it exists.
THEOREM SentIsReal == Spec => []SentExists
  <1>1. IInv => SentExists
    BY DEF IInv, RowTrue, CommandTrue, SentExists
  <1>2. QED
    BY <1>1, AlwaysIInv, PTL

\* Journal, processes and mailbox agree about the attempt; what was posted is what
\* the attempt records.
THEOREM AlwaysAgree == Spec => []AttemptsAgree
  <1>1. IInv => AttemptsAgree
    <2> SUFFICES ASSUME IInv PROVE AttemptsAgree
      OBVIOUS
    <2>1. IdsAgree
      BY RowFacts DEF IInv, RowTrue, PostTrue, CommandTrue, HeldTrue, SameAttempt, Holding, Owning, IdsAgree
    <2>2. PosterAlone
      BY DEF IInv, OnePoster, CommandTrue, At, PosterAlone
    <2>3. FailureIsFinal /\ ConfirmationIsReal
      BY DEF IInv, RowTrue, CommandTrue, HeldTrue, At, FailureIsFinal, ConfirmationIsReal
    <2>4. QED
      BY <2>1, <2>2, <2>3 DEF IInv, PostTrue, AttemptsAgree
  <1>2. QED
    BY <1>1, AlwaysIInv, PTL

\* While an attempt has its id its claim is never undone, whatever a process that
\* read it earlier writes.
THEOREM ClaimNeverUndone == Spec => ClaimIsForGood
  <1>1. IInv /\ IInv' /\ [Next]_vars
          => [row # NoRow /\ row' # NoRow /\ row'.id = row.id /\ row.posts = 1
                => row'.posts = 1 /\ row'.state # "prepared"]_vars
    <2> SUFFICES ASSUME IInv, IInv', Next, row # NoRow, row' # NoRow, row'.id = row.id, row.posts = 1
                 PROVE  row'.posts = 1 /\ row'.state # "prepared"
      OBVIOUS
    <2>1. JournalMoves
      <3>1. ASSUME NEW p \in Process, Command(p) PROVE JournalMoves
        <4>1. CASE FinalCheck(p) \/ Post(p)
          BY <4>1 DEF FinalCheck, Post, journalVars, JournalMoves, RowKept
        <4>2. ~Claim(p)
          BY DEF Claim, Claimable
        <4>3. QED
          BY <3>1, <4>1, <4>2, ReadMoves, WriteMoves DEF Command
      <3>2. CASE Mailbox
        BY <3>2 DEF Mailbox, ProviderProcesses, JobMoves, Deliver, Edit, Age, journalVars, JournalMoves, RowKept
      <3>3. QED
        BY <3>1, <3>2 DEF Next
    <2>2. row'.posts = 1
      <3>1. ASSUME NEW r \in Row, RowInserted(r) PROVE FALSE
        BY <3>1 DEF RowInserted
      <3>2. QED
        BY <2>1, <3>1 DEF JournalMoves, RowKept, RowPurged, RowUpdated
    <2>3. QED
      BY <2>2 DEF IInv, RowTrue
  <1>2. QED
    BY <1>1, AlwaysIInv, PTL DEF Spec, ClaimIsForGood
=============================================================================
