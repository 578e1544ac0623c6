------------------------- MODULE SlackIssuerProofs -------------------------
(***************************************************************************)
(* Proofs about SlackIssuer for any requests, messages, lifetimes, crashes *)
(* and timeouts: one receipt per request, none for a request that is       *)
(* undecided, none that its approver did not ask for, no decision undone.  *)
(***************************************************************************)
EXTENDS SlackIssuer, TLAPS

(***************************************************************************)
(* The inductive invariant.                                                *)
(***************************************************************************)
Undecided(r) == row[r].state \in {"none", "pending", "cancelled", "expired"}

\* The message that decides about r.
Approval(r) == [thread |-> r, nonce |-> r, by |-> "approver"]

\* The expiry is at most one lifetime away, and fixed before there is a row.
DatedOnce(r) ==
  /\ expires[r] <= now + Ttl[r]
  /\ row[r].state # "none" => making[r] = "over"

\* Nobody asks the signer for an undecided request, nor will anybody.
UndecidedIsIdle(r) ==
  Undecided(r) =>
    /\ call[r] = "none" /\ ~late[r] /\ r \notin recovery
    /\ signed[r] = {} /\ row[r].receipts = {}

\* The row of a decided request fixes the one receipt the signer can sign for it.
DecidedIsFixed(r) ==
  Decided(r) =>
    /\ \E e \in Event : row[r].events = {e} /\ said[e] = Approval(r)
    /\ row[r].issuedAt < expires[r] /\ expires[r] <= row[r].issuedAt + Ttl[r]
    /\ signed[r] \subseteq ReceiptOf(r)
    /\ call[r] = "answered" => signed[r] = ReceiptOf(r)
    /\ row[r].state = "issued" => row[r].receipts = ReceiptOf(r) /\ signed[r] = ReceiptOf(r)
    /\ row[r].state # "issued" => row[r].receipts = {}

Consistent(r) == DatedOnce(r) /\ UndecidedIsIdle(r) /\ DecidedIsFixed(r)

IInv == TypeOK /\ \A r \in Request : Consistent(r)

(***************************************************************************)
(* Types.                                                                  *)
(***************************************************************************)

\* A receipt of a decided row is a receipt.
LEMMA ReceiptType ==
  ASSUME IssuerAssumption, TypeOK, NEW r \in Request
  PROVE  ReceiptOf(r) \subseteq Receipt
  BY DEF ReceiptOf, Receipt, TypeOK, Row

\* Creating and posting a request.
LEMMA CreationType ==
  ASSUME IssuerAssumption, TypeOK, NEW r \in Request, Creation(r)
  PROVE  TypeOK'
  <1> USE DEF TypeOK, clockVars, createVars, storeVars, slackVars, signVars, Making, IssuerAssumption
  <1>1. CASE CreateStarts(r)
    BY <1>1 DEF CreateStarts
  <1>2. CASE CreatePrepared(r)
    BY <1>2 DEF CreatePrepared
  <1>3. CASE PresentationShows(r)
    BY <1>3 DEF PresentationShows
  <1>4. CASE CreateStores(r)
    <2>1. row' \in [Request -> Row]
      <3>1. row[r] \in Row
        OBVIOUS
      <3>2. [row[r] EXCEPT !.state = "pending"] \in Row
        BY <3>1 DEF Row, State
      <3>3. QED
        BY <1>4, <3>2 DEF CreateStores
    <2>2. order' \in Seq(Request)
      BY <1>4 DEF CreateStores
    <2>3. QED
      BY <1>4, <2>1, <2>2 DEF CreateStores
  <1>5. CASE CreateFails(r)
    BY <1>5 DEF CreateFails
  <1>6. CASE Cancel(r)
    BY <1>6 DEF Cancel, Row, State
  <1>7. QED
    BY <1>1, <1>2, <1>3, <1>4, <1>5, <1>6 DEF Creation

\* A call that ends leaves calls and a recovery.
LEMMA CallEndsType ==
  ASSUME TypeOK, NEW r \in Request, NEW rest \in SUBSET Request, CallEnds(r, rest)
  PROVE  call' \in [Request -> {"none", "asked", "answered"}] /\ recovery' \subseteq Request
  BY DEF CallEnds, TypeOK

\* Asking the signer, storing its receipt and telling of it.
LEMMA CompletionType ==
  ASSUME IssuerAssumption, TypeOK, NEW r \in Request, Completion(r)
  PROVE  TypeOK'
  <1> USE DEF clockVars, createVars, storeVars, slackVars, signVars
  <1>1. CASE StoreReceipt(r)
    <2>1. call' \in [Request -> {"none", "asked", "answered"}] /\ recovery' \subseteq Request
      <3>1. recovery \ {r} \in SUBSET Request
        BY DEF TypeOK
      <3>2. QED
        BY <1>1, <3>1, CallEndsType DEF StoreReceipt
    <2>2. row' \in [Request -> Row]
      <3>1. row[r] \in Row /\ ReceiptOf(r) \in SUBSET Receipt
        BY ReceiptType DEF TypeOK
      <3>2. [row[r] EXCEPT !.state = "issued", !.receipts = ReceiptOf(r)] \in Row
        BY <3>1 DEF Row, State
      <3>3. QED
        BY <1>1, <3>2 DEF StoreReceipt, TypeOK
    <2>3. QED
      BY <1>1, <2>1, <2>2 DEF StoreReceipt, TypeOK
  <1>2. CASE SignerRefuses(r)
    BY <1>2, CallEndsType DEF SignerRefuses, TypeOK
  <1>3. CASE SignerTimesOut(r)
    <2>1. call' \in [Request -> {"none", "asked", "answered"}] /\ recovery' \subseteq Request
      BY <1>3, CallEndsType DEF SignerTimesOut
    <2>2. late' \in [Request -> BOOLEAN]
      BY <1>3 DEF SignerTimesOut, TypeOK
    <2>3. timeouts' \in Nat
      BY <1>3 DEF SignerTimesOut, TypeOK
    <2>4. QED
      BY <1>3, <2>1, <2>2, <2>3 DEF SignerTimesOut, TypeOK
  <1>4. QED
    BY <1>1, <1>2, <1>3 DEF Completion

\* The signer.
LEMMA SignerType ==
  ASSUME IssuerAssumption, TypeOK, NEW r \in Request, Signer(r)
  PROVE  TypeOK'
  <1> USE DEF clockVars, createVars, storeVars, slackVars, signVars
  <1>1. CASE SignerSigns(r)
    BY <1>1, ReceiptType DEF SignerSigns, TypeOK
  <1>2. CASE SignerSignsLate(r)
    BY <1>2, ReceiptType DEF SignerSignsLate, TypeOK
  <1>3. QED
    BY <1>1, <1>2 DEF Signer

\* A message of the thread that is looked at.
LEMMA HandleType ==
  ASSUME IssuerAssumption, TypeOK, NEW e \in Event, Handle(e)
  PROVE  TypeOK'
  <1> USE DEF clockVars, createVars, storeVars, slackVars, signVars
  <1>1. delivery' \in [Event -> {"none", "queued", "acked"}]
    BY DEF Handle, TypeOK
  <1>2. row' \in [Request -> Row] /\ call' \in [Request -> {"none", "asked", "answered"}]
    <2>1. ASSUME NEW r \in Request, Approve(e, r)
          PROVE  row' \in [Request -> Row] /\ call' \in [Request -> {"none", "asked", "answered"}]
      <3>1. row[r] \in Row /\ now \in Nat
        BY DEF TypeOK
      <3>2. /\ [row[r] EXCEPT !.state = "expired"] \in Row
            /\ [row[r] EXCEPT !.state = "approved_waiting_signature",
                              !.issuedAt = now, !.events = {e}] \in Row
        BY <3>1 DEF Row, State
      <3>3. row' \in [Request -> Row]
        BY <2>1, <3>2 DEF Approve, TypeOK
      <3>4. call' \in [Request -> {"none", "asked", "answered"}]
        BY <2>1 DEF Approve, TypeOK
      <3>5. QED
        BY <3>3, <3>4
    <2>2. QED
      BY <2>1 DEF Handle, TypeOK
  <1>3. QED
    BY <1>1, <1>2 DEF Handle, TypeOK

\* Every step keeps the types.
LEMMA StepType == IssuerAssumption /\ TypeOK /\ [Next]_vars => TypeOK'
  <1> SUFFICES ASSUME IssuerAssumption, TypeOK, [Next]_vars PROVE TypeOK'
    OBVIOUS
  <1> USE DEF clockVars, createVars, storeVars, slackVars, signVars
  <1>1. ASSUME NEW e \in Event, NEW m \in Message, Say(e, m) PROVE TypeOK'
    BY <1>1 DEF Say, TypeOK
  <1>2. CASE Crash
    <2>1. making' \in [Request -> Making] /\ call' \in [Request -> {"none", "asked", "answered"}]
      BY <1>2 DEF Crash, TypeOK, Making
    <2>2. late' \in [Request -> BOOLEAN]
      BY <1>2 DEF Crash, TypeOK
    <2>3. up' \in BOOLEAN /\ recovery' \subseteq Request
      BY <1>2 DEF Crash, TypeOK
    <2>4. crashes' \in Nat
      BY <1>2 DEF Crash, TypeOK
    <2>5. QED
      BY <1>2, <2>1, <2>2, <2>3, <2>4 DEF Crash, TypeOK
  <1>3. CASE Restart
    BY <1>3 DEF Restart, ApprovedWaiting, TypeOK
  <1>4. CASE Tick
    BY <1>4 DEF Tick, TypeOK
  <1>5. CASE UNCHANGED vars
    BY <1>5 DEF vars, TypeOK
  <1>6. QED
    BY <1>1, <1>2, <1>3, <1>4, <1>5, CreationType, CompletionType, SignerType, HandleType DEF Next

(***************************************************************************)
(* Steps.                                                                  *)
(***************************************************************************)

\* A step leaves the row, the expiry and the receipts of a request alone, and asks
\* the signer only for a decided one.
Untouched(r) ==
  /\ row'[r] = row[r] /\ expires'[r] = expires[r] /\ signed'[r] = signed[r]
  /\ making[r] = "over" => making'[r] = "over"
  /\ now <= now'
  /\ \A e \in Event : said[e] # NoMessage => said'[e] = said[e]
  /\ call'[r] = call[r] \/ call'[r] = "none" \/ (call'[r] = "asked" /\ Decided(r))
  /\ late'[r] => late[r] \/ call[r] = "asked"
  /\ r \in recovery' => r \in recovery \/ Decided(r)

\* What a step leaves untouched stays consistent.
LEMMA Undisturbed ==
  ASSUME IInv, TypeOK', NEW r \in Request, Untouched(r)
  PROVE  Consistent(r)'
  <1> USE DEF IInv, Consistent, Untouched
  <1>1. DatedOnce(r)'
    BY IssuerAssumption DEF DatedOnce, TypeOK, IssuerAssumption
  <1>2. UndecidedIsIdle(r)'
    BY DEF UndecidedIsIdle, Undecided, Decided
  <1>3. DecidedIsFixed(r)'
    <2> SUFFICES ASSUME Decided(r)
                 PROVE  DecidedIsFixed(r)'
      BY DEF DecidedIsFixed, Decided
    <2>1. ReceiptOf(r)' = ReceiptOf(r)
      BY DEF ReceiptOf
    <2>2. PICK e \in Event : row[r].events = {e} /\ said[e] = Approval(r)
      BY DEF DecidedIsFixed
    <2>3. said'[e] = Approval(r)
      BY <2>2 DEF Approval, NoMessage
    <2>4. QED
      BY <2>1, <2>2, <2>3 DEF DecidedIsFixed, Approval
  <1>4. QED
    BY <1>1, <1>2, <1>3

\* The same groups of steps keep the whole invariant.
LEMMA CreationIInv ==
  ASSUME IInv, TypeOK', NEW r \in Request, Creation(r)
  PROVE  IInv'
  <1> USE DEF clockVars, createVars, storeVars, slackVars, signVars
  <1>1. TypeOK /\ Consistent(r) /\ now \in Nat /\ now <= now
    BY DEF IInv, TypeOK
  <1>2. ASSUME NEW q \in Request, row'[q] = row[q], expires'[q] = expires[q],
               making[q] = "over" => making'[q] = "over",
               UNCHANGED <<clockVars, slackVars, signVars>>
        PROVE  Consistent(q)'
    <2>1. Untouched(q)
      BY <1>1, <1>2 DEF Untouched
    <2>2. QED
      BY <2>1, Undisturbed
  <1>3. CASE CreateStarts(r)
    BY <1>1, <1>2, <1>3 DEF CreateStarts, TypeOK, IInv
  <1>4. CASE CreatePrepared(r)
    <2>1. ASSUME NEW q \in Request, q # r PROVE Consistent(q)'
      BY <1>1, <1>2, <1>4, <2>1 DEF CreatePrepared, TypeOK
    <2>2. row[r].state = "none"
      BY <1>1, <1>4 DEF CreatePrepared, Consistent, DatedOnce
    <2>3. DatedOnce(r)'
      BY <1>1, <1>4, <2>2, IssuerAssumption DEF CreatePrepared, DatedOnce, TypeOK, IssuerAssumption
    <2>4. UndecidedIsIdle(r)' /\ DecidedIsFixed(r)'
      BY <1>1, <1>4, <2>2 DEF CreatePrepared, Consistent, UndecidedIsIdle, Undecided, DecidedIsFixed, Decided
    <2>5. QED
      BY <2>1, <2>3, <2>4 DEF IInv, Consistent
  <1>5. CASE PresentationShows(r)
    BY <1>1, <1>2, <1>5 DEF PresentationShows, TypeOK, IInv
  <1>6. ASSUME Undecided(r), Undecided(r)', row'[r].receipts = row[r].receipts,
               \A q \in Request \ {r} : row'[q] = row[q] /\ (making[q] = "over" => making'[q] = "over"),
               making'[r] = "over", UNCHANGED <<clockVars, expires, slackVars, signVars>>
        PROVE  IInv'
    <2>1. ASSUME NEW q \in Request, q # r PROVE Consistent(q)'
      BY <1>2, <1>6, <2>1
    <2>2. Consistent(r)'
      BY <1>1, <1>6 DEF Consistent, DatedOnce, UndecidedIsIdle, Undecided, DecidedIsFixed, Decided
    <2>3. QED
      BY <2>1, <2>2 DEF IInv
  <1>7. CASE CreateStores(r)
    <2>1. row[r].state = "none" /\ row'[r].state = "pending" /\ row'[r].receipts = row[r].receipts
      BY <1>1, <1>7 DEF CreateStores, Consistent, DatedOnce, TypeOK, Row
    <2>2. QED
      BY <1>1, <1>6, <1>7, <2>1 DEF CreateStores, Undecided, TypeOK
  <1>8. CASE CreateFails(r)
    BY <1>1, <1>2, <1>8 DEF CreateFails, TypeOK, IInv
  <1>9. CASE Cancel(r)
    <2>1. row[r].state = "pending" /\ row'[r].state = "cancelled" /\ row'[r].receipts = row[r].receipts
      BY <1>1, <1>9 DEF Cancel, TypeOK, Row
    <2>2. making[r] = "over"
      BY <1>1, <2>1 DEF Consistent, DatedOnce
    <2>3. QED
      BY <1>1, <1>6, <1>9, <2>1, <2>2 DEF Cancel, Undecided, TypeOK
  <1>10. QED
    BY <1>3, <1>4, <1>5, <1>7, <1>8, <1>9 DEF Creation

\* A call that is not over was made for a decided request.
LEMMA CalledIsDecided ==
  ASSUME IInv, NEW r \in Request, call[r] # "none" \/ late[r] \/ r \in recovery
  PROVE  Decided(r)
  BY DEF IInv, Consistent, UndecidedIsIdle, Undecided, Decided, TypeOK, Row, State

\* What a call that ends, of the recovery or not, makes of the calls.
LEMMA CallEndsCalls ==
  ASSUME TypeOK, NEW r \in Request, NEW rest \in SUBSET recovery, CallEnds(r, rest)
  PROVE  /\ \A q \in Request : call'[q] = call[q] \/ call'[q] = "none"
                                \/ (call'[q] = "asked" /\ q \in recovery)
         /\ recovery' \subseteq recovery
  <1>1. CASE Recovering(r)
    BY <1>1 DEF CallEnds, First, TypeOK
  <1>2. CASE ~Recovering(r)
    BY <1>2 DEF CallEnds, TypeOK
  <1>3. QED
    BY <1>1, <1>2

\* A receipt is asked for and stored only for a decision.
LEMMA CompletionIInv ==
  ASSUME IInv, TypeOK', NEW r \in Request, Completion(r)
  PROVE  IInv'
  <1> USE DEF clockVars, createVars, storeVars, slackVars, signVars
  <1>1. TypeOK /\ now \in Nat /\ now <= now
    BY DEF IInv, TypeOK
  <1>2. ASSUME NEW rest \in SUBSET recovery, CallEnds(r, rest),
               UNCHANGED <<now, createVars, slackVars, signed>>,
               \A q \in Request : late'[q] => late[q] \/ call[q] = "asked",
               NEW q \in Request, row'[q] = row[q]
        PROVE  Consistent(q)'
    <2>1. /\ call'[q] = call[q] \/ call'[q] = "none" \/ (call'[q] = "asked" /\ Decided(q))
          /\ q \in recovery' => q \in recovery
      BY <1>1, <1>2, CallEndsCalls, CalledIsDecided
    <2>2. Untouched(q)
      BY <1>1, <1>2, <2>1 DEF Untouched
    <2>3. QED
      BY <2>2, Undisturbed
  <1>3. CASE StoreReceipt(r)
    <2>1. recovery \ {r} \in SUBSET recovery
      OBVIOUS
    <2>2. ASSUME NEW q \in Request, q # r PROVE Consistent(q)'
      BY <1>1, <1>2, <1>3, <2>1, <2>2 DEF StoreReceipt, TypeOK
    <2>3. /\ Decided(r) /\ Consistent(r) /\ call[r] = "answered"
          /\ row'[r].state = "issued" /\ row'[r].receipts = ReceiptOf(r)
          /\ row'[r].issuedAt = row[r].issuedAt /\ row'[r].events = row[r].events
      BY <1>1, <1>3 DEF StoreReceipt, Decided, IInv, TypeOK, Row
    <2>4. ReceiptOf(r)' = ReceiptOf(r) /\ signed' = signed /\ expires' = expires /\ said' = said
          /\ now' = now /\ making' = making
      BY <1>3, <2>3 DEF StoreReceipt, ReceiptOf
    <2>5. DatedOnce(r)'
      BY <2>3, <2>4 DEF Consistent, DatedOnce, Decided
    <2>6. DecidedIsFixed(r)'
      BY <2>3, <2>4 DEF Consistent, DecidedIsFixed, Approval
    <2>7. UndecidedIsIdle(r)'
      BY <2>3 DEF UndecidedIsIdle, Undecided
    <2>8. QED
      BY <2>2, <2>5, <2>6, <2>7 DEF IInv, Consistent
  <1>4. CASE SignerRefuses(r)
    BY <1>1, <1>2, <1>4 DEF SignerRefuses, IInv
  <1>5. CASE SignerTimesOut(r)
    BY <1>1, <1>2, <1>5 DEF SignerTimesOut, IInv, TypeOK
  <1>6. QED
    BY <1>3, <1>4, <1>5 DEF Completion

\* The signer signs the decision as it stands, at the latest before its expiry.
LEMMA SignerIInv ==
  ASSUME IInv, TypeOK', NEW r \in Request, Signer(r)
  PROVE  IInv'
  <1> USE DEF clockVars, createVars, storeVars, slackVars, signVars
  <1>1. /\ TypeOK /\ now \in Nat /\ now <= now
        /\ UNCHANGED <<now, createVars, row, said, recovery>>
        /\ \A q \in Request \ {r} : call'[q] = call[q] /\ signed'[q] = signed[q] /\ late'[q] = late[q]
        /\ call[r] # "none" \/ late[r]
        /\ signed'[r] = signed[r] \/ signed'[r] = signed[r] \cup ReceiptOf(r)
        /\ call'[r] = call[r] \/ (call'[r] = "answered" /\ signed'[r] = signed[r] \cup ReceiptOf(r))
    <2>1. CASE SignerSigns(r)
      BY <2>1 DEF SignerSigns, IInv, TypeOK
    <2>2. CASE SignerSignsLate(r)
      BY <2>2 DEF SignerSignsLate, IInv, TypeOK
    <2>3. QED
      BY <2>1, <2>2 DEF Signer
  <1>2. ASSUME NEW q \in Request, q # r PROVE Consistent(q)'
    <2>1. Untouched(q)
      BY <1>1, <1>2 DEF Untouched
    <2>2. QED
      BY <2>1, Undisturbed
  <1>3. Decided(r) /\ Consistent(r) /\ ReceiptOf(r)' = ReceiptOf(r)
    BY <1>1, CalledIsDecided DEF IInv, ReceiptOf
  <1>4. DatedOnce(r)'
    BY <1>1, <1>3 DEF Consistent, DatedOnce
  <1>5. DecidedIsFixed(r)'
    BY <1>1, <1>3 DEF Consistent, DecidedIsFixed, Decided, Approval
  <1>6. UndecidedIsIdle(r)'
    BY <1>1, <1>3 DEF UndecidedIsIdle, Undecided, Decided
  <1>7. QED
    BY <1>2, <1>4, <1>5, <1>6 DEF IInv, Consistent

\* A decision fixes the receipt of a request that nobody has asked the signer for.
LEMMA ApproveIInv ==
  ASSUME IInv, TypeOK', NEW e \in Event, NEW r \in Request,
         row[r].state = "pending", Names(said[e], r), Approve(e, r),
         UNCHANGED <<clockVars, createVars, order, said, late, recovery, signed>>
  PROVE  IInv'
  <1> USE DEF clockVars, createVars
  <1>1. /\ TypeOK /\ Consistent(r) /\ Undecided(r) /\ now \in Nat /\ now <= now
    BY DEF IInv, TypeOK, Undecided
  <1>2. ASSUME NEW q \in Request, q # r PROVE Consistent(q)'
    <2>1. row'[q] = row[q] /\ call'[q] = call[q]
      BY <1>1, <1>2 DEF Approve, TypeOK
    <2>2. Untouched(q)
      BY <1>1, <2>1 DEF Untouched
    <2>3. QED
      BY <2>2, Undisturbed
  <1>3. ASSUME said[e].by = "approver" PROVE said[e] = Approval(r)
    BY <1>1, <1>3 DEF Names, Approval, TypeOK, Message
  <1>4. DatedOnce(r)'
    BY <1>1 DEF Consistent, DatedOnce
  <1>5. CASE /\ now < expires[r]
             /\ said[e].by = "approver"
             /\ row' = [row EXCEPT ![r] = [@ EXCEPT !.state = "approved_waiting_signature",
                                                    !.issuedAt = now, !.events = {e}]]
             /\ call' = [call EXCEPT ![r] = "asked"]
    <2>1. /\ row'[r].state = "approved_waiting_signature" /\ row'[r].issuedAt = now
          /\ row'[r].events = {e} /\ row'[r].receipts = row[r].receipts /\ call'[r] = "asked"
      BY <1>1, <1>5 DEF TypeOK, Row
    <2>2. DecidedIsFixed(r)'
      BY <1>1, <1>3, <1>5, <2>1 DEF Consistent, DatedOnce, UndecidedIsIdle, DecidedIsFixed, Approval
    <2>3. UndecidedIsIdle(r)'
      BY <2>1 DEF UndecidedIsIdle, Undecided
    <2>4. QED
      BY <1>2, <1>4, <2>2, <2>3 DEF IInv, Consistent
  <1>6. CASE /\ now >= expires[r]
             /\ row' = [row EXCEPT ![r].state = "expired"]
             /\ UNCHANGED call
    <2>1. row'[r].state = "expired" /\ row'[r].receipts = row[r].receipts
      BY <1>1, <1>6 DEF TypeOK, Row
    <2>2. UndecidedIsIdle(r)' /\ DecidedIsFixed(r)'
      BY <1>1, <1>6, <2>1 DEF Consistent, UndecidedIsIdle, DecidedIsFixed, Decided
    <2>3. QED
      BY <1>2, <1>4, <2>2 DEF IInv, Consistent
  <1>7. CASE UNCHANGED <<row, call>>
    <2>1. Untouched(r)
      BY <1>1, <1>7 DEF Untouched
    <2>2. QED
      BY <1>2, <2>1, Undisturbed DEF IInv
  <1>8. QED
    BY <1>5, <1>6, <1>7 DEF Approve

\* A message looked at decides a pending request, or changes nothing of it.
LEMMA HandleIInv ==
  ASSUME IInv, TypeOK', NEW e \in Event, Handle(e)
  PROVE  IInv'
  <1> USE DEF clockVars, createVars, slackVars
  <1>1. ASSUME NEW r \in Request, row[r].state = "pending", Names(said[e], r), Approve(e, r)
        PROVE  IInv'
    BY <1>1, ApproveIInv DEF Handle
  <1>2. CASE UNCHANGED <<row, call>>
    <2>1. /\ now \in Nat /\ now <= now
          /\ UNCHANGED <<now, createVars, said, late, recovery, signed>>
      BY DEF Handle, IInv, TypeOK
    <2>2. ASSUME NEW q \in Request PROVE Consistent(q)'
      <3>1. Untouched(q)
        BY <1>2, <2>1 DEF Untouched
      <3>2. QED
        BY <3>1, Undisturbed
    <2>3. QED
      BY <2>2 DEF IInv
  <1>3. QED
    BY <1>1, <1>2 DEF Handle

\* Whatever asks the signer for nothing undecided keeps the invariant.
LEMMA QuietIInv ==
  ASSUME IInv, TypeOK', \A q \in Request : Untouched(q)
  PROVE  IInv'
  BY Undisturbed DEF IInv

\* Every step keeps the invariant.
LEMMA StepIInv == IInv /\ [Next]_vars => IInv'
  <1> SUFFICES ASSUME IInv, [Next]_vars PROVE IInv'
    OBVIOUS
  <1> USE DEF clockVars, createVars, storeVars, slackVars, signVars
  <1>1. TypeOK /\ TypeOK' /\ now \in Nat /\ now <= now
    BY StepType, IssuerAssumption DEF IInv, TypeOK
  <1>2. ASSUME NEW e \in Event, NEW m \in Message, Say(e, m) PROVE IInv'
    <2>1. \A f \in Event : said[f] # NoMessage => said'[f] = said[f]
      BY <1>1, <1>2 DEF Say, TypeOK
    <2>2. QED
      BY <1>1, <1>2, <2>1, QuietIInv DEF Say, Untouched
  <1>3. CASE Crash
    <2>1. ASSUME NEW q \in Request PROVE Untouched(q)
      BY <1>1, <1>3 DEF Crash, Untouched, TypeOK
    <2>2. QED
      BY <1>1, <2>1, QuietIInv
  <1>4. CASE Restart
    <2>1. ASSUME NEW q \in Request PROVE Untouched(q)
      BY <1>1, <1>4 DEF Restart, ApprovedWaiting, First, Untouched, Decided
    <2>2. QED
      BY <1>1, <2>1, QuietIInv
  <1>5. CASE Tick
    <2>1. now <= now'
      BY <1>1, <1>5 DEF Tick
    <2>2. QED
      BY <1>1, <1>5, <2>1, QuietIInv DEF Tick, Untouched
  <1>6. CASE UNCHANGED vars
    BY <1>1, <1>6, QuietIInv DEF vars, Untouched
  <1>7. QED
    BY <1>1, <1>2, <1>3, <1>4, <1>5, <1>6, CreationIInv, CompletionIInv, SignerIInv, HandleIInv DEF Next

\* It holds in the beginning.
LEMMA InitIInv == Init => IInv
  <1> SUFFICES ASSUME Init PROVE IInv
    OBVIOUS
  <1>1. TypeOK
    BY DEF Init, TypeOK, Making, NoRow, Row, State
  <1>2. ASSUME NEW r \in Request PROVE Consistent(r)
    <2>1. DatedOnce(r)
      BY IssuerAssumption DEF Init, DatedOnce, NoRow, IssuerAssumption
    <2>2. UndecidedIsIdle(r) /\ DecidedIsFixed(r)
      BY DEF Init, UndecidedIsIdle, DecidedIsFixed, Decided, NoRow
    <2>3. QED
      BY <2>1, <2>2 DEF Consistent
  <1>3. QED
    BY <1>1, <1>2 DEF IInv

\* It holds always.
LEMMA AlwaysIInv == Spec => []IInv
  BY InitIInv, StepIInv, PTL DEF Spec

(***************************************************************************)
(* Theorems.                                                               *)
(***************************************************************************)

\* Every variable keeps its type.
THEOREM TypeCorrect == Spec => []TypeOK
  <1>1. IInv => TypeOK
    BY DEF IInv
  <1>2. QED
    BY <1>1, AlwaysIInv, PTL

\* However often the signer is asked for a request, before and after crashes,
\* timeouts and recoveries, it signs one receipt, and that one is stored.
THEOREM OneReceiptEach == Spec => []OneReceipt
  <1>1. IInv => OneReceipt
    <2> SUFFICES ASSUME IInv, NEW r \in Request
                 PROVE  /\ \A a, b \in signed[r] : a = b
                        /\ row[r].receipts \subseteq signed[r]
                        /\ row[r].state = "issued" => row[r].receipts # {}
      BY DEF OneReceipt
    <2>1. CASE Undecided(r)
      BY <2>1 DEF IInv, Consistent, UndecidedIsIdle, Undecided
    <2>2. CASE Decided(r)
      <3>1. PICK e \in Event : row[r].events = {e}
        BY <2>2 DEF IInv, Consistent, DecidedIsFixed
      <3>2. \A a, b \in ReceiptOf(r) : a = b
        BY <3>1 DEF ReceiptOf
      <3>3. [issuedAt |-> row[r].issuedAt, expiresAt |-> expires[r], event |-> e] \in ReceiptOf(r)
        BY <3>1 DEF ReceiptOf
      <3>4. signed[r] \subseteq ReceiptOf(r)
        BY <2>2 DEF IInv, Consistent, DecidedIsFixed
      <3>5. \/ row[r].receipts = {} /\ row[r].state # "issued"
            \/ row[r].receipts = ReceiptOf(r) /\ signed[r] = ReceiptOf(r)
        BY <2>2 DEF IInv, Consistent, DecidedIsFixed
      <3>6. QED
        BY <3>2, <3>3, <3>4, <3>5
    <2>3. QED
      BY <2>1, <2>2 DEF IInv, TypeOK, Row, State, Undecided, Decided
  <1>2. QED
    BY <1>1, AlwaysIInv, PTL

\* Nothing is signed for a request nobody decided in time, cancelled ones included.
THEOREM NoneUndecided == Spec => []UndecidedUnsigned
  <1>1. IInv => UndecidedUnsigned
    BY DEF IInv, Consistent, UndecidedIsIdle, Undecided, UndecidedUnsigned
  <1>2. QED
    BY <1>1, AlwaysIInv, PTL

\* Every receipt goes back to the approver's message in the thread of its request,
\* with its nonce, and lives no longer than the request.
THEOREM Authorised == Spec => []ReceiptAuthorised
  <1>1. IInv => ReceiptAuthorised
    <2> SUFFICES ASSUME IInv, NEW r \in Request, NEW x \in signed[r]
                 PROVE  /\ said[x.event] = Approval(r)
                        /\ x.issuedAt < x.expiresAt
                        /\ x.expiresAt <= x.issuedAt + Ttl[r]
      BY DEF ReceiptAuthorised, Approval
    <2>1. Decided(r)
      BY DEF IInv, Consistent, UndecidedIsIdle, Undecided, Decided, TypeOK, Row, State
    <2>2. x \in ReceiptOf(r) /\ DecidedIsFixed(r)
      BY <2>1 DEF IInv, Consistent, DecidedIsFixed
    <2>3. QED
      BY <2>1, <2>2 DEF DecidedIsFixed, ReceiptOf
  <1>2. QED
    BY <1>1, AlwaysIInv, PTL

(***************************************************************************)
(* What a step may never do to a decision.                                 *)
(***************************************************************************)

\* A row and an expiry that stay, and signatures that at most grow.
LEMMA KeptStands ==
  ASSUME NEW r \in Request, row'[r] = row[r], signed[r] \subseteq signed'[r],
         Decided(r) => expires'[r] = expires[r]
  PROVE  DecisionStands(r)
  BY DEF DecisionStands, Decided, ReceiptOf

\* Creation gives an expiry and a row only to a request that has no row yet, and
\* only a pending request is cancelled.
LEMMA CreationStands ==
  ASSUME IInv, NEW q \in Request, Creation(q), NEW r \in Request
  PROVE  DecisionStands(r)
  <1> USE DEF clockVars, createVars, storeVars, slackVars, signVars, IInv, TypeOK
  <1>1. CASE CreateStarts(q) \/ PresentationShows(q) \/ CreateFails(q)
    BY <1>1, KeptStands DEF CreateStarts, PresentationShows, CreateFails
  <1>2. CASE CreatePrepared(q)
    <2>1. Decided(q) => making[q] = "over"
      BY DEF Decided, Consistent, DatedOnce
    <2>2. ~Decided(q) /\ row' = row /\ signed' = signed
      BY <1>2, <2>1 DEF CreatePrepared
    <2>3. q # r => expires'[r] = expires[r]
      BY <1>2 DEF CreatePrepared
    <2>4. QED
      BY <2>2, <2>3, KeptStands
  <1>3. CASE CreateStores(q) \/ Cancel(q)
    <2>1. row[q].state \in {"none", "pending"}
      BY <1>3 DEF CreateStores, Cancel, Consistent, DatedOnce
    <2>2. expires' = expires /\ signed' = signed
      BY <1>3 DEF CreateStores, Cancel
    <2>3. CASE q = r
      BY <2>1, <2>2, <2>3 DEF DecisionStands, Decided
    <2>4. CASE q # r
      <3>1. row'[r] = row[r]
        BY <1>3, <2>4 DEF CreateStores, Cancel
      <3>2. QED
        BY <2>2, <3>1, KeptStands
    <2>5. QED
      BY <2>3, <2>4
  <1>4. QED
    BY <1>1, <1>2, <1>3 DEF Creation

\* Storing the receipt keeps what it is made of.
LEMMA CompletionStands ==
  ASSUME IInv, NEW q \in Request, Completion(q), NEW r \in Request
  PROVE  DecisionStands(r)
  <1> USE DEF clockVars, createVars, storeVars, slackVars, signVars, IInv, TypeOK
  <1>1. CASE SignerRefuses(q) \/ SignerTimesOut(q)
    BY <1>1, KeptStands DEF SignerRefuses, SignerTimesOut
  <1>2. CASE StoreReceipt(q)
    <2>1. expires' = expires /\ signed' = signed
      BY <1>2 DEF StoreReceipt
    <2>2. CASE q = r
      <3>1. /\ row[r].state = "approved_waiting_signature" /\ row'[r].state = "issued"
            /\ row'[r].issuedAt = row[r].issuedAt /\ row'[r].events = row[r].events
        BY <1>2, <2>2 DEF StoreReceipt, Row
      <3>2. QED
        BY <2>1, <3>1 DEF DecisionStands, Decided, ReceiptOf
    <2>3. CASE q # r
      <3>1. row'[r] = row[r]
        BY <1>2, <2>3 DEF StoreReceipt
      <3>2. QED
        BY <2>1, <3>1, KeptStands
    <2>4. QED
      BY <2>2, <2>3
  <1>3. QED
    BY <1>1, <1>2 DEF Completion

\* The signer adds receipts and writes no row.
LEMMA SignerStands ==
  ASSUME IInv, NEW q \in Request, Signer(q), NEW r \in Request
  PROVE  DecisionStands(r)
  <1> USE DEF clockVars, createVars, storeVars, slackVars, signVars
  <1>1. row' = row /\ expires' = expires
    BY DEF Signer, SignerSigns, SignerSignsLate
  <1>2. signed[r] \subseteq signed'[r]
    <2>1. ASSUME NEW more, signed' = [signed EXCEPT ![q] = @ \cup more]
          PROVE  signed[r] \subseteq signed'[r]
      BY <2>1 DEF IInv, TypeOK
    <2>2. CASE SignerSigns(q)
      BY <2>1, <2>2 DEF SignerSigns
    <2>3. CASE SignerSignsLate(q)
      BY <2>1, <2>3 DEF SignerSignsLate
    <2>4. QED
      BY <2>2, <2>3 DEF Signer
  <1>3. QED
    BY <1>1, <1>2, KeptStands

\* A message decides only about a request that is pending.
LEMMA HandleStands ==
  ASSUME IInv, NEW e \in Event, Handle(e), NEW r \in Request
  PROVE  DecisionStands(r)
  <1> USE DEF clockVars, createVars, IInv, TypeOK
  <1>1. expires' = expires /\ signed' = signed
    BY DEF Handle
  <1>2. ASSUME NEW q \in Request, row[q].state = "pending", Approve(e, q)
        PROVE  DecisionStands(r)
    <2>1. CASE q = r
      BY <1>1, <1>2, <2>1 DEF DecisionStands, Decided
    <2>2. CASE q # r
      <3>1. row'[r] = row[r]
        BY <1>2, <2>2 DEF Approve
      <3>2. QED
        BY <1>1, <3>1, KeptStands
    <2>3. QED
      BY <2>1, <2>2
  <1>3. CASE row' = row
    BY <1>1, <1>3, KeptStands
  <1>4. QED
    BY <1>2, <1>3 DEF Handle

\* Decisions are final: neither a cancellation, nor a second message, nor a
\* restart undoes or redates one (the state guards of approve, cancel and
\* completeApproved).
THEOREM DecisionsAreFinal == Spec => DecisionsStand
  <1>1. IInv /\ [Next]_vars => [\A r \in Request : DecisionStands(r)]_vars
    <2> SUFFICES ASSUME IInv, Next, NEW r \in Request
                 PROVE  DecisionStands(r)
      OBVIOUS
    <2>1. CASE (\E e \in Event, m \in Message : Say(e, m)) \/ Crash \/ Restart \/ Tick
      <3>1. row' = row /\ expires' = expires /\ signed' = signed
        BY <2>1 DEF Say, Crash, Restart, Tick, clockVars, createVars, storeVars, signVars
      <3>2. QED
        BY <3>1, KeptStands
    <2>2. QED
      BY <2>1, CreationStands, CompletionStands, SignerStands, HandleStands DEF Next
  <1>2. QED
    BY <1>1, AlwaysIInv, PTL DEF Spec, DecisionsStand
=============================================================================
