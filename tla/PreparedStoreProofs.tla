------------------------ MODULE PreparedStoreProofs ------------------------
(***************************************************************************)
(* Proofs about PreparedStore for any number of attestations, lifetimes,   *)
(* prepare calls, sweeps and crashes: type correctness, that no crash      *)
(* leaves a marked record without its screenshots, and that an execution   *)
(* keeps its evidence until it expires.                                    *)
(***************************************************************************)
EXTENDS PreparedStore, TLAPS

(***************************************************************************)
(* Type correctness.                                                       *)
(***************************************************************************)
\* Preparing an attestation keeps the types.
LEMMA PrepareType ==
  ASSUME StoreAssumption, TypeOK, NEW a \in Attestation, Prepare(a)
  PROVE  TypeOK'
  <1> USE DEF TypeOK, StoreAssumption, clockVars, diskVars, storeVars
  <1>1. CASE PrepareStarts(a)
    BY <1>1 DEF PrepareStarts, Child
  <1>2. CASE BridgeShoots(a)
    BY <1>2 DEF BridgeShoots, Child
  <1>3. CASE BridgeSaves(a)
    BY <1>3 DEF BridgeSaves, Child
  <1>4. CASE PrepareReturns(a)
    BY <1>4 DEF PrepareReturns, Child
  <1>5. CASE PrepareFails(a)
    BY <1>5 DEF PrepareFails
  <1>6. QED
    BY <1>1, <1>2, <1>3, <1>4, <1>5 DEF Prepare

\* Executing one keeps the types.
LEMMA ExecuteType ==
  ASSUME StoreAssumption, TypeOK, NEW a \in Attestation, Execute(a)
  PROVE  TypeOK'
  <1> USE DEF TypeOK, StoreAssumption, clockVars, diskVars, storeVars, Execution
  <1>1. CASE ExecutionStarts(a)
    BY <1>1 DEF ExecutionStarts
  <1>2. CASE ExecutionRendered(a)
    BY <1>2 DEF ExecutionRendered
  <1>3. CASE ExecutionRefused(a)
    BY <1>3 DEF ExecutionRefused
  <1>4. CASE ExecutionSettles(a)
    BY <1>4 DEF ExecutionSettles, Removes
  <1>5. CASE ExecutionErrs(a)
    BY <1>5 DEF ExecutionErrs
  <1>6. CASE ExecutionResumes(a)
    BY <1>6 DEF ExecutionResumes
  <1>7. QED
    BY <1>1, <1>2, <1>3, <1>4, <1>5, <1>6 DEF Execute

\* A crash begins no execution and revives none.
LEMMA CrashExec ==
  ASSUME TypeOK, Crash
  PROVE  \A a \in Attestation :
           /\ exec'[a] \in Execution
           /\ exec'[a] \in {"running", "paused"} => exec[a] \in {"running", "paused"}
           /\ exec'[a] # "none" => exec[a] # "none"
  BY DEF Crash, TypeOK, Execution

\* Every step keeps the types.
LEMMA StepType ==
  ASSUME StoreAssumption, TypeOK, [Next]_vars
  PROVE  TypeOK'
  <1> USE DEF TypeOK, StoreAssumption, clockVars, callVars, diskVars, storeVars
  <1>1. ASSUME NEW a \in Attestation, Prepare(a) PROVE TypeOK'
    BY <1>1, PrepareType
  <1>2. ASSUME NEW a \in Attestation, Execute(a) PROVE TypeOK'
    BY <1>2, ExecuteType
  <1>3. ASSUME NEW a \in Attestation, SweepVisits(a) PROVE TypeOK'
    BY <1>3 DEF SweepVisits, Removes
  <1>4. CASE SweepStarts
    BY <1>4 DEF SweepStarts, Free
  <1>5. CASE Remove
    BY <1>5 DEF Remove, Unlink, RemoveScreenshots, RemoveMarker
  <1>6. CASE Crash
    <2>1. exec' \in [Attestation -> Execution]
      BY <1>6 DEF Crash, Execution
    <2>2. up' \in BOOLEAN
      BY <1>6 DEF Crash
    <2>3. /\ crashes' = crashes + 1 /\ awaited' = {}
          /\ left' = {} /\ target' = Nobody /\ step' = "none"
          /\ UNCHANGED <<now, child, shots, record, marker, expires>>
      BY <1>6 DEF Crash
    <2>4. QED
      BY <2>1, <2>2, <2>3
  <1>7. CASE Restart
    BY <1>7 DEF Restart
  <1>8. CASE Tick
    BY <1>8 DEF Tick
  <1>9. CASE UNCHANGED vars
    BY <1>9 DEF vars
  <1>10. QED
    BY <1>1, <1>2, <1>3, <1>4, <1>5, <1>6, <1>7, <1>8, <1>9 DEF Next

\* The initial state is well typed.
LEMMA InitType == StoreAssumption /\ Init => TypeOK
  BY DEF Init, TypeOK, Child, Execution, StoreAssumption

\* Every reachable state is well typed; remove has a target exactly when it runs.
THEOREM TypeCorrect == Spec => []TypeOK
  BY InitType, StepType, StoreAssumption, PTL DEF Spec

(***************************************************************************)
(* What the disk, the daemon and the bridge know of each other.            *)
(***************************************************************************)

\* A record follows its screenshots; marker, execution and removal follow the
\* record's return to the issuer.
Ordered ==
  \A a \in Attestation :
    /\ child[a] = "shot" => a \in shots
    /\ a \in record => child[a] \in {"saved", "returned"}
    /\ a \in marker \/ a \in left \/ a = target \/ exec[a] # "none" => child[a] = "returned"

\* The record is the first thing remove deletes.
RecordFirst == step \in {"screenshots", "marker"} => target \notin record

\* Nothing is removed that an execution with an unexpired attestation needs.
RemovesUnneeded ==
  \A a \in Attestation :
    a = target /\ exec[a] \in {"running", "paused"} => now >= expires[a]

Inv == Ordered /\ RecordFirst /\ RemovesUnneeded /\ RecordHasScreenshots /\ LiveKeepsEvidence

\* Preparing an attestation keeps the order of its evidence.
LEMMA PrepareInv ==
  ASSUME StoreAssumption, TypeOK, Inv, NEW a \in Attestation, Prepare(a)
  PROVE  Inv'
  <1> USE DEF Inv, Ordered, RecordFirst, RemovesUnneeded, RecordHasScreenshots,
              LiveKeepsEvidence, Evidence, TypeOK, clockVars, diskVars, storeVars
  <1>1. CASE PrepareStarts(a)
    BY <1>1 DEF PrepareStarts
  <1>2. CASE BridgeShoots(a)
    BY <1>2 DEF BridgeShoots
  <1>3. CASE BridgeSaves(a)
    BY <1>3 DEF BridgeSaves
  <1>4. CASE PrepareReturns(a)
    BY <1>4 DEF PrepareReturns, Free
  <1>5. CASE PrepareFails(a)
    BY <1>5 DEF PrepareFails
  <1>6. QED
    BY <1>1, <1>2, <1>3, <1>4, <1>5 DEF Prepare

\* Executing one keeps its evidence.
LEMMA ExecuteInv ==
  ASSUME StoreAssumption, TypeOK, Inv, NEW a \in Attestation, Execute(a)
  PROVE  Inv'
  <1> USE DEF Inv, Ordered, RecordFirst, RemovesUnneeded, RecordHasScreenshots,
              LiveKeepsEvidence, Evidence, TypeOK, clockVars, diskVars, storeVars, Free,
              StoreAssumption
  <1>1. CASE ExecutionStarts(a)
    BY <1>1 DEF ExecutionStarts
  <1>2. CASE ExecutionRendered(a)
    BY <1>2 DEF ExecutionRendered
  <1>3. CASE ExecutionRefused(a)
    BY <1>3 DEF ExecutionRefused
  <1>4. CASE ExecutionSettles(a)
    BY <1>4 DEF ExecutionSettles, Removes
  <1>5. CASE ExecutionErrs(a)
    BY <1>5 DEF ExecutionErrs
  <1>6. CASE ExecutionResumes(a)
    BY <1>6 DEF ExecutionResumes
  <1>7. QED
    BY <1>1, <1>2, <1>3, <1>4, <1>5, <1>6 DEF Execute

\* A sweep picks only what nobody needs.
LEMMA SweepInv ==
  ASSUME StoreAssumption, TypeOK, Inv, NEW a \in Attestation, SweepVisits(a)
  PROVE  Inv'
  <1> USE DEF Inv, Ordered, RecordFirst, RemovesUnneeded, RecordHasScreenshots,
              LiveKeepsEvidence, Evidence, TypeOK, clockVars, callVars, diskVars
  <1>1. CASE Stale(a)
    BY <1>1 DEF SweepVisits, Removes, Stale, StoreAssumption
  <1>2. CASE ~Stale(a)
    BY <1>2 DEF SweepVisits
  <1>3. QED
    BY <1>1, <1>2

\* A removal deletes the record first and the marker last.
LEMMA RemoveInv ==
  ASSUME StoreAssumption, TypeOK, Inv, Remove
  PROVE  Inv'
  <1> USE DEF Inv, Ordered, RecordFirst, RemovesUnneeded, RecordHasScreenshots,
              LiveKeepsEvidence, Evidence, TypeOK, clockVars, callVars, diskVars
  <1>1. CASE Unlink
    BY <1>1 DEF Unlink
  <1>2. CASE RemoveScreenshots
    BY <1>2 DEF RemoveScreenshots
  <1>3. CASE RemoveMarker
    BY <1>3 DEF RemoveMarker, StoreAssumption
  <1>4. QED
    BY <1>1, <1>2, <1>3 DEF Remove

\* A crash between two deletions leaves them in that order.
LEMMA CrashInv ==
  ASSUME StoreAssumption, TypeOK, Inv, Crash
  PROVE  Inv'
  <1> USE DEF Inv, Ordered, RecordFirst, RemovesUnneeded, RecordHasScreenshots,
              LiveKeepsEvidence, Evidence, TypeOK, diskVars
  <1>1. /\ UNCHANGED <<now, child, shots, record, marker, expires>>
        /\ left' = {} /\ target' = Nobody /\ step' = "none"
    BY DEF Crash
  <1>2. QED
    BY <1>1, CrashExec DEF StoreAssumption

\* Every step keeps the invariant.
LEMMA StepInv ==
  ASSUME StoreAssumption, TypeOK, Inv, [Next]_vars
  PROVE  Inv'
  <1> USE DEF clockVars, callVars, diskVars, storeVars
  <1>1. ASSUME NEW a \in Attestation, Prepare(a) PROVE Inv'
    BY <1>1, PrepareInv
  <1>2. ASSUME NEW a \in Attestation, Execute(a) PROVE Inv'
    BY <1>2, ExecuteInv
  <1>3. ASSUME NEW a \in Attestation, SweepVisits(a) PROVE Inv'
    BY <1>3, SweepInv
  <1>4. CASE Remove
    BY <1>4, RemoveInv
  <1>5. CASE Crash
    BY <1>5, CrashInv
  <1>6. CASE SweepStarts \/ Restart
    BY <1>6 DEF SweepStarts, Restart, Inv, Ordered, RecordFirst, RemovesUnneeded,
         RecordHasScreenshots, LiveKeepsEvidence, Evidence
  <1>7. CASE Tick
    BY <1>7 DEF Tick, Inv, Ordered, RecordFirst, RemovesUnneeded,
         RecordHasScreenshots, LiveKeepsEvidence, Evidence, TypeOK
  <1>8. CASE UNCHANGED vars
    BY <1>8 DEF vars, Inv, Ordered, RecordFirst, RemovesUnneeded,
         RecordHasScreenshots, LiveKeepsEvidence, Evidence
  <1>9. QED
    BY <1>1, <1>2, <1>3, <1>4, <1>5, <1>6, <1>7, <1>8 DEF Next

\* It holds in every reachable state.
LEMMA AlwaysInv == Spec => []Inv
  <1>1. StoreAssumption /\ Init => Inv
    BY DEF Init, Inv, Ordered, RecordFirst, RemovesUnneeded, RecordHasScreenshots,
         LiveKeepsEvidence, Evidence, StoreAssumption
  <1>2. TypeOK /\ Inv /\ [Next]_vars => Inv'
    BY StepInv, StoreAssumption
  <1>3. QED
    BY <1>1, <1>2, TypeCorrect, StoreAssumption, PTL DEF Spec

\* No crash between two deletions leaves a record whose screenshots are gone, so
\* sweep never throws on their paths (prepared-store.mjs remove).
THEOREM RecordsComplete == Spec => []RecordHasScreenshots
  BY AlwaysInv, PTL DEF Inv

\* No sweep, replay or crash takes the evidence from an execution before its
\* attestation expires.
THEOREM EvidenceKept == Spec => []LiveKeepsEvidence
  BY AlwaysInv, PTL DEF Inv
=============================================================================
