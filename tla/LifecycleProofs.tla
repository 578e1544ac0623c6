-------------------------- MODULE LifecycleProofs --------------------------
(***************************************************************************)
(* Proofs about Lifecycle for any drafts and attempts: type correctness,   *)
(* what confirmation is evidence of, and that a readable message of a      *)
(* draft always blocks another send.                                       *)
(***************************************************************************)
EXTENDS Lifecycle, TLAPS

\* A job that names a message names the one of its own attempt, which exists.
LEMMA JobsMessage ==
  ASSUME NEW d \in Draft, NEW w \in Wrappers(d), w.job.message # Nothing
  PROVE  /\ w.job # NoJob
         /\ w.job.message = w.job.of
         /\ w.job.of \in sent
         /\ DraftOf[w.job.of] = d
  BY DEF Wrappers, NoJob, Job

\* The expected attempt is one of the draft's, or unknown.
LEMMA ExpectedAttempt ==
  ASSUME NEW d \in Draft, NEW w \in Wrappers(d), NEW recorded,
         Expected(w.job, recorded) # Nothing
  PROVE  \/ w.job # NoJob /\ Expected(w.job, recorded) = w.job.of
         \/ Expected(w.job, recorded) = recorded
  BY DEF Expected, NoJob

\* Whatever userdata says, the verdict is one of the known states.
LEMMA ClassifyState ==
  ASSUME NEW d \in Draft, NEW w \in Wrappers(d), NEW messages, NEW expected
  PROVE  Classify(d, w, messages, expected) \in State
  <1>1. FromUserdata(w) \in State
    BY DEF FromUserdata, Underway, State
  <1>2. QED
    BY <1>1 DEF Classify, State

\* A message that proves the send is that of the job or of the recorded attempt.
LEMMA ProofIsOurs ==
  ASSUME LifecycleAssumption, NEW d \in Draft, NEW w \in Wrappers(d), NEW m \in Attempt,
         NEW recorded \in {Nothing} \cup {a \in Attempt : DraftOf[a] = d},
         Proves(m, d, w.job, Expected(w.job, recorded))
  PROVE  /\ m \in IF w.job = NoJob THEN {recorded} ELSE {w.job.of, recorded}
         /\ DraftOf[m] = d
  <1>1. CASE m = w.job.message
    BY <1>1, JobsMessage DEF LifecycleAssumption
  <1>2. CASE m # w.job.message
    <2>1. DraftOf[m] = d /\ m = Expected(w.job, recorded)
      BY <1>2 DEF Proves, NamesDraft, NamesAttempt
    <2>2. QED
      BY <2>1, ExpectedAttempt DEF LifecycleAssumption
  <1>3. QED
    BY <1>1, <1>2

(***************************************************************************)
(* The invariants.                                                         *)
(***************************************************************************)

\* All of them say something about an observation only, and are made together.
Inv == TypeOK /\ ConfirmedIsThisSend /\ BackendIsTrue /\ LinkedIsNeverResent

\* An observation is judged rightly, whatever userdata and the cache say.
LEMMA ObserveInv ==
  ASSUME LifecycleAssumption, Inv, NEW d \in Draft, Observe(d)
  PROVE  Inv'
  <1> USE DEF Inv
  <1> DEFINE
        Proofs(w, messages, recorded) ==
          {m \in messages : Proves(m, d, w.job, Expected(w.job, recorded))}
        Ours(w, recorded) ==
          IF w.job = NoJob THEN {recorded} \cap Attempt ELSE {w.job.of, recorded} \cap Attempt
        Sees(w, messages, recorded, m) ==
          observed' = [of |-> d,
                       state |-> Classify(d, w, messages, Expected(w.job, recorded)),
                       message |-> m,
                       ours |-> Ours(w, recorded),
                       linked |-> \E n \in messages : NamesDraft(n, d)]
  <1>0. PICK w \in Wrappers(d), messages \in {cache, {}},
             recorded \in {Nothing} \cup {a \in Attempt : DraftOf[a] = d} :
          \E m \in IF Proofs(w, messages, recorded) = {} THEN {Nothing}
                   ELSE Proofs(w, messages, recorded) :
            Sees(w, messages, recorded, m)
    BY DEF Observe
  <1>1. PICK m \in IF Proofs(w, messages, recorded) = {} THEN {Nothing}
                  ELSE Proofs(w, messages, recorded) :
          Sees(w, messages, recorded, m)
    BY <1>0
  <1> DEFINE expected == Expected(w.job, recorded)
             state == Classify(d, w, messages, expected)
  <1>2. UNCHANGED <<sent, says, cache>>
    BY DEF Observe
  <1>3. messages \subseteq sent /\ messages \subseteq Attempt
    BY DEF TypeOK
  <1>4. TypeOK'
    <2>1. state \in State
      BY ClassifyState
    <2>2. m \in Attempt \cup {Nothing}
      BY <1>3
    <2>3. Ours(w, recorded) \in SUBSET Attempt
      OBVIOUS
    <2> DEFINE linked == \E n \in messages : NamesDraft(n, d)
    <2>4. linked \in BOOLEAN
      OBVIOUS
    <2>5. observed' = [of |-> d, state |-> state, message |-> m,
                       ours |-> Ours(w, recorded), linked |-> linked]
      BY <1>1
    <2>6. observed' \in Observation
      <3> HIDE DEF linked, state, Ours
      <3> QED
        BY <2>1, <2>2, <2>3, <2>4, <2>5 DEF Observation
    <2>7. QED
      BY <1>2, <2>6 DEF TypeOK
  <1>5. ConfirmedIsThisSend'
    <2>1. SUFFICES ASSUME state = "sent_provider_confirmed"
                   PROVE  m \in sent /\ m \in observed'.ours /\ DraftOf[m] = d
      BY <1>1, <1>2 DEF ConfirmedIsThisSend
    <2>2. \E n \in messages : Proves(n, d, w.job, expected)
      BY <2>1 DEF Classify, FromUserdata, Underway
    <2>3. m \in messages /\ Proves(m, d, w.job, expected)
      BY <1>1, <2>2
    <2>4. QED
      BY <1>1, <1>3, <2>3, ProofIsOurs
  <1>6. BackendIsTrue'
    <2>1. SUFFICES ASSUME state = "sent_backend_confirmed"
                   PROVE  \E a \in sent : DraftOf[a] = d
      BY <1>1, <1>2 DEF BackendIsTrue
    <2>2. BackendSuccess(w.job)
      BY <2>1 DEF Classify, FromUserdata, Underway
    <2>3. QED
      BY <2>2, JobsMessage DEF BackendSuccess
  <1>7. LinkedIsNeverResent'
    <2>1. SUFFICES ASSUME NEW n \in messages, NamesDraft(n, d)
                   PROVE  state \in {"sent_provider_confirmed", "inconsistent"}
      BY <1>1 DEF LinkedIsNeverResent
    <2>2. Claims(n, d, w.job, expected)
      BY <2>1 DEF Claims
    <2>3. QED
      BY <2>2 DEF Classify
  <1>8. QED
    BY <1>4, <1>5, <1>6, <1>7

\* What is not found is neither confirmed nor offered.
LEMMA MissesInv ==
  ASSUME Inv, NEW d \in Draft, ObserveMisses(d)
  PROVE  Inv'
  <1>1. PICK linked \in BOOLEAN :
          observed' = [of |-> d, state |-> "missing", message |-> Nothing, ours |-> {}, linked |-> linked]
    BY DEF ObserveMisses
  <1>2. UNCHANGED <<sent, says, cache>>
    BY DEF ObserveMisses
  <1>3. observed' \in Observation
    BY <1>1 DEF Observation
  <1>4. QED
    BY <1>1, <1>2, <1>3 DEF Inv, TypeOK, ConfirmedIsThisSend, BackendIsTrue, LinkedIsNeverResent

\* So is every step: the provider and the cache do not touch what was observed.
LEMMA StepInv ==
  ASSUME LifecycleAssumption, Inv, [Next]_vars
  PROVE  Inv'
  <1>1. ASSUME NEW d \in Draft, Observe(d) PROVE Inv'
    BY <1>1, ObserveInv
  <1>2. ASSUME NEW d \in Draft, ObserveMisses(d) PROVE Inv'
    BY <1>2, MissesInv
  <1>3. ASSUME NEW a \in Attempt, ProviderSends(a) PROVE Inv'
    BY <1>3 DEF ProviderSends, Inv, TypeOK, ConfirmedIsThisSend, BackendIsTrue, LinkedIsNeverResent
  <1>4. ASSUME NEW a \in Attempt, CacheSyncs(a) PROVE Inv'
    BY <1>4 DEF CacheSyncs, Inv, TypeOK, ConfirmedIsThisSend, BackendIsTrue, LinkedIsNeverResent
  <1>5. CASE UNCHANGED vars
    BY <1>5 DEF vars, Inv, TypeOK, ConfirmedIsThisSend, BackendIsTrue, LinkedIsNeverResent, NamesDraft
  <1>6. QED
    BY <1>1, <1>2, <1>3, <1>4, <1>5 DEF Next

\* The four invariants hold in every reachable state.
LEMMA AlwaysInv == Spec => []Inv
  <1>1. Init => Inv
    BY DEF Init, Inv, TypeOK, ConfirmedIsThisSend, BackendIsTrue, LinkedIsNeverResent
  <1>2. Inv /\ [Next]_vars => Inv'
    BY StepInv, LifecycleAssumption
  <1>3. QED
    BY <1>1, <1>2, PTL DEF Spec

\* Every observation is well typed: classify names one of its ten states,
\* unless the draft is not found.
THEOREM TypeCorrect == Spec => []TypeOK
  BY AlwaysInv, PTL DEF Inv

\* Confirmation is of the message of this send, whatever else is in the thread
\* (_provider_proof).
THEOREM ConfirmationCorrect == Spec => []ConfirmedIsThisSend
  BY AlwaysInv, PTL DEF Inv

\* The backend's word stands for a message that exists (backend_success).
THEOREM BackendCorrect == Spec => []BackendIsTrue
  BY AlwaysInv, PTL DEF Inv

\* A draft with a readable message is never offered for sending (the conflict
\* flag of _provider_proof).
THEOREM NeverResent == Spec => []LinkedIsNeverResent
  BY AlwaysInv, PTL DEF Inv
=============================================================================
