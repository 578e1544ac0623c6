------------------------- MODULE SendExecutorProofs -------------------------
(***************************************************************************)
(* Proofs about SendExecutor for any receipts, drafts, expiries, grace and *)
(* bounds: type correctness, the safety invariants, and the refinement of  *)
(* OneShotSend.                                                            *)
(***************************************************************************)
EXTENDS SendExecutor, TLAPS

(***************************************************************************)
(* Type correctness.                                                       *)
(***************************************************************************)

\* The initial state is well typed.
LEMMA InitTypeOK == Init => TypeOK
  BY DEF Init, TypeOK, NoRow, RowState, WorkerState, BridgeState, WireState, LifeState

\* What a client is told stays well typed, whatever state is told.
LEMMA TellType ==
  ASSUME TypeOK, NEW r \in Receipt, NEW Q \in SUBSET Request, NEW s, Tell(r, Q, s)
  PROVE  told' \in [Receipt -> SUBSET [request : Request, state : SettledState]]
  <1>1. [request : Q, state : {s} \cap SettledState]
          \subseteq [request : Request, state : SettledState]
    OBVIOUS
  <1>2. QED
    BY <1>1 DEF TypeOK, Tell

\* A row that changes its state stays a row.
LEMMA SetStateType ==
  ASSUME TypeOK, NEW r \in Receipt, NEW s \in RowState, SetState(r, s)
  PROVE  row' \in [Receipt -> [state : RowState, notBefore : Nat, recordedAt : Nat]]
  BY DEF TypeOK, SetState

\* An action of a client, typed.
LEMMA ClientTypeOK ==
  ASSUME TypeOK, NEW r \in Receipt, Client(r)
  PROVE  TypeOK'
  <1> USE DEF bridgeVars, providerVars
  <1>1. ASSUME NEW q \in Request, JoinInflight(r, q) PROVE TypeOK'
    BY <1>1 DEF JoinInflight, TypeOK
  <1>2. CASE ReplayAnswer(r)
    <2>1. told' \in [Receipt -> SUBSET [request : Request, state : SettledState]]
      BY <1>2, TellType DEF ReplayAnswer, Request
    <2>2. QED
      BY <1>2, <2>1 DEF ReplayAnswer, TypeOK
  <1>3. CASE ResumeExpired(r)
    <2>1. told' \in [Receipt -> SUBSET [request : Request, state : SettledState]]
      BY <1>3, TellType DEF ResumeExpired, Request
    <2>2. row' \in [Receipt -> [state : RowState, notBefore : Nat, recordedAt : Nat]]
      BY <1>3, SetStateType DEF ResumeExpired, FailGrace, RowState, SettledState
    <2>3. QED
      BY <1>3, <2>1, <2>2 DEF ResumeExpired, TypeOK
  <1>4. CASE ResumeGrace(r)
    BY <1>4 DEF ResumeGrace, TypeOK, WorkerState, Request
  <1>5. CASE FirstRequest(r)
    BY <1>5 DEF FirstRequest, TypeOK, WorkerState, Request
  <1>6. CASE Abort(r)
    <2>1. told' \in [Receipt -> SUBSET [request : Request, state : SettledState]]
      BY <1>6, TellType DEF Abort, Request
    <2>2. row' \in [Receipt -> [state : RowState, notBefore : Nat, recordedAt : Nat]]
      BY <1>6, SetStateType DEF Abort, RowState, SettledState, TypeOK
    <2>3. QED
      BY <1>6, <2>1, <2>2 DEF Abort, TypeOK
  <1>7. CASE Status(r)
    <2>1. told' \in [Receipt -> SUBSET [request : Request, state : SettledState]]
      BY <1>7, TellType DEF Status, Request
    <2>2. QED
      BY <1>7, <2>1 DEF Status, TypeOK
  <1>8. QED
    BY <1>1, <1>2, <1>3, <1>4, <1>5, <1>6, <1>7 DEF Client

\* The in-flight promise settling keeps the types of what it touches.
LEMMA ResolveType ==
  ASSUME TypeOK, NEW r \in Receipt, NEW s, Resolve(r, s) \/ Reject(r)
  PROVE  /\ worker' \in [Receipt -> WorkerState]
         /\ waiting' \in [Receipt -> SUBSET Request]
         /\ told' \in [Receipt -> SUBSET [request : Request, state : SettledState]]
  <1>1. CASE Resolve(r, s)
    <2>1. waiting[r] \in SUBSET Request
      BY DEF TypeOK
    <2>2. told' \in [Receipt -> SUBSET [request : Request, state : SettledState]]
      BY <1>1, <2>1, TellType DEF Resolve
    <2>3. QED
      BY <1>1, <2>2 DEF Resolve, TypeOK, WorkerState
  <1>2. CASE Reject(r)
    BY <1>2 DEF Reject, TypeOK, WorkerState
  <1>3. QED
    BY <1>1, <1>2

\* A stretch of the worker, typed.
LEMMA WorkerTypeOK ==
  ASSUME TypeOK, NEW r \in Receipt, Worker(r)
  PROVE  TypeOK'
  <1> USE DEF bridgeVars, providerVars
  <1> DEFINE RowTyped == row' \in [Receipt -> [state : RowState, notBefore : Nat, recordedAt : Nat]]
  <1>1. CASE RenderMatches(r)
    BY <1>1, ExecutorAssumption DEF RenderMatches, Start, TypeOK, WorkerState, RowState
  <1>2. CASE RenderFails(r)
    BY <1>2, ResolveType DEF RenderFails, TypeOK
  <1>3. CASE WakeSettled(r)
    BY <1>3, ResolveType DEF WakeSettled, TypeOK
  <1>4. CASE WakeAfterGrace(r)
    BY <1>4 DEF WakeAfterGrace, TypeOK, WorkerState
  <1>5. CASE RerenderFails(r)
    <2>1. RowTyped
      BY <1>5, SetStateType DEF RerenderFails, FailGrace, RowState, SettledState, TypeOK
    <2>2. QED
      BY <1>5, <2>1, ResolveType DEF RerenderFails, TypeOK
  <1>6. CASE RerenderMatches(r)
    <2>1. CASE Claimable(r) /\ Claim(r) /\ worker' = [worker EXCEPT ![r] = "claimed"]
                 /\ UNCHANGED <<waiting, told>>
      <3>1. RowTyped
        BY <2>1, SetStateType DEF Claim, RowState
      <3>2. QED
        BY <1>6, <2>1, <3>1 DEF RerenderMatches, TypeOK, WorkerState
    <2>2. CASE row[r].state # "grace" /\ Resolve(r, row[r].state) /\ UNCHANGED row
      BY <1>6, <2>2, ResolveType DEF RerenderMatches, TypeOK
    <2>3. CASE now >= Expiry[r] /\ FailGrace(r, "expired") /\ Resolve(r, "expired")
      <3>1. RowTyped
        BY <2>3, SetStateType DEF FailGrace, RowState, SettledState
      <3>2. QED
        BY <1>6, <2>3, <3>1, ResolveType DEF RerenderMatches, TypeOK
    <2>4. QED
      BY <1>6, <2>1, <2>2, <2>3 DEF RerenderMatches
  <1>7. CASE LaunchSend(r)
    BY <1>7 DEF LaunchSend, TypeOK, WorkerState, BridgeState
  <1>8. CASE SendReturns(r)
    <2>1. Verdict(bridge[r]) \in RowState
      BY DEF Verdict, RowState, SettledState
    <2>2. RowTyped
      BY <1>8, <2>1, SetStateType DEF SendReturns, Finish
    <2>3. QED
      BY <1>8, <2>2, ResolveType DEF SendReturns, TypeOK
  <1>9. CASE SendFails(r)
    <2>1. RowTyped
      BY <1>9, SetStateType DEF SendFails, Finish, RowState, SettledState
    <2>2. QED
      BY <1>9, <2>1, ResolveType DEF SendFails, TypeOK
  <1>10. QED
    BY <1>1, <1>2, <1>3, <1>4, <1>5, <1>6, <1>7, <1>8, <1>9 DEF Worker

\* A step of the bridge process, typed.
LEMMA BridgeTypeOK ==
  ASSUME TypeOK, NEW r \in Receipt, Bridge(r)
  PROVE  TypeOK'
  <1> USE DEF TypeOK, daemonVars, providerVars, BridgeState, WireState
  <1>1. CASE BridgeChecks(r)
    BY <1>1, ExecutorAssumption DEF BridgeChecks
  <1>2. CASE BridgeRejects(r)
    BY <1>2 DEF BridgeRejects
  <1>3. CASE BridgeDies(r)
    BY <1>3 DEF BridgeDies
  <1>4. CASE BridgePosts(r)
    BY <1>4 DEF BridgePosts
  <1>5. CASE BridgeAnswered(r)
    BY <1>5 DEF BridgeAnswered
  <1>6. CASE BridgeObserves(r)
    BY <1>6 DEF BridgeObserves, Observation
  <1>7. QED
    BY <1>1, <1>2, <1>3, <1>4, <1>5, <1>6 DEF Bridge

\* Every step keeps the types.
LEMMA NextTypeOK == TypeOK /\ [Next]_vars => TypeOK'
  <1> SUFFICES ASSUME TypeOK, [Next]_vars PROVE TypeOK'
    OBVIOUS
  <1> USE DEF daemonVars, bridgeVars, providerVars
  <1>1. ASSUME NEW r \in Receipt, Client(r) \/ Worker(r) \/ Bridge(r) PROVE TypeOK'
    BY <1>1, ClientTypeOK, WorkerTypeOK, BridgeTypeOK
  <1>2. ASSUME NEW r \in Receipt, ProviderProcesses(r) PROVE TypeOK'
    <2>1. life' \in [Draft -> LifeState]
      BY <1>2, ExecutorAssumption DEF ProviderProcesses, TypeOK, LifeState
    <2>2. QED
      BY <1>2, <2>1 DEF ProviderProcesses, TypeOK, WireState
  <1>3. ASSUME NEW r \in Receipt, ProviderRefuses(r) PROVE TypeOK'
    BY <1>3 DEF ProviderRefuses, TypeOK, WireState
  <1>4. ASSUME NEW d \in Draft, ProviderAdvances(d) PROVE TypeOK'
    <2>1. Successors(life[d]) \subseteq LifeState
      BY DEF Successors, LifeState
    <2>2. QED
      BY <1>4, <2>1 DEF ProviderAdvances, TypeOK
  <1>5. ASSUME NEW d \in Draft, Edit(d) PROVE TypeOK'
    BY <1>5 DEF Edit, TypeOK
  <1>6. CASE Crash
    <2>1. worker' \in [Receipt -> WorkerState] /\ waiting' \in [Receipt -> SUBSET Request]
      BY <1>6 DEF Crash, WorkerState
    <2>2. up' \in BOOLEAN
      BY <1>6 DEF Crash
    <2>3. crashes' \in Nat
      BY <1>6 DEF Crash, TypeOK
    <2>4. QED
      BY <1>6, <2>1, <2>2, <2>3 DEF Crash, TypeOK
  <1>7. CASE Restart
    <2>1. \A r \in Receipt : Recovered(r) \in RowState
      BY DEF Recovered, RowState, SettledState, TypeOK
    <2>2. row' \in [Receipt -> [state : RowState, notBefore : Nat, recordedAt : Nat]]
      BY <1>7, <2>1 DEF Restart, TypeOK
    <2>3. QED
      BY <1>7, <2>2 DEF Restart, TypeOK
  <1>8. CASE Tick
    BY <1>8 DEF Tick, TypeOK
  <1>9. CASE UNCHANGED vars
    BY <1>9 DEF vars, TypeOK
  <1>10. QED
    BY <1>1, <1>2, <1>3, <1>4, <1>5, <1>6, <1>7, <1>8, <1>9 DEF Next, Provider

\* Every reachable state is well typed, for any constants that satisfy
\* ExecutorAssumption (all the tables and processes of SendExecutor).
THEOREM TypeCorrect == Spec => []TypeOK
  BY InitTypeOK, NextTypeOK, PTL DEF Spec

(***************************************************************************)
(* Journal, worker, bridge, provider and clock agree.                      *)
(***************************************************************************)

\* At first nothing has happened anywhere.
LEMMA InitPartsAgree == Init => PartsAgree
  BY DEF Init, NoRow, PartsAgree, RowFitsBridge, WorkerFitsRow, BridgeFitsProvider,
         GraceFitsClock, Posted

\* An action of a client touches at most a row that is in grace, or has none.
LEMMA ClientPartsAgree ==
  ASSUME TypeOK, PartsAgree, NEW r \in Receipt, Client(r)
  PROVE  PartsAgree'
  <1> USE DEF bridgeVars, providerVars, TypeOK, PartsAgree, RowFitsBridge, WorkerFitsRow,
              BridgeFitsProvider, GraceFitsClock, Posted, Evidenced
  <1>1. ASSUME NEW q \in Request, JoinInflight(r, q) PROVE PartsAgree'
    BY <1>1 DEF JoinInflight
  <1>2. CASE ReplayAnswer(r)
    BY <1>2 DEF ReplayAnswer
  <1>3. CASE ResumeExpired(r)
    BY <1>3 DEF ResumeExpired, FailGrace, SetState
  <1>4. CASE ResumeGrace(r)
    BY <1>4 DEF ResumeGrace, Arrives
  <1>5. CASE FirstRequest(r)
    BY <1>5 DEF FirstRequest, Arrives
  <1>6. CASE Abort(r)
    BY <1>6 DEF Abort, SetState
  <1>7. CASE Status(r)
    BY <1>7 DEF Status
  <1>8. QED
    BY <1>1, <1>2, <1>3, <1>4, <1>5, <1>6, <1>7 DEF Client

\* A stretch of the worker.
LEMMA WorkerPartsAgree ==
  ASSUME TypeOK, PartsAgree, NEW r \in Receipt, Worker(r)
  PROVE  PartsAgree'
  <1> USE DEF bridgeVars, providerVars, TypeOK, PartsAgree, RowFitsBridge, WorkerFitsRow,
              BridgeFitsProvider, GraceFitsClock, Posted, Evidenced
  <1>1. CASE RenderMatches(r)
    BY <1>1, ExecutorAssumption DEF RenderMatches, Start
  <1>2. CASE RenderFails(r)
    BY <1>2 DEF RenderFails, Reject
  <1>3. CASE WakeSettled(r)
    BY <1>3 DEF WakeSettled, Resolve
  <1>4. CASE WakeAfterGrace(r)
    BY <1>4 DEF WakeAfterGrace
  <1>5. CASE RerenderFails(r)
    <2>1. CASE FailGrace(r, "failed") /\ Resolve(r, "failed")
      BY <1>5, <2>1 DEF RerenderFails, FailGrace, SetState, Resolve
    <2>2. CASE row[r].state # "grace" /\ Reject(r) /\ UNCHANGED row
      BY <1>5, <2>2 DEF RerenderFails, Reject
    <2>3. QED
      BY <1>5, <2>1, <2>2 DEF RerenderFails
  <1>6. CASE RerenderMatches(r)
    <2>1. CASE Claimable(r) /\ Claim(r) /\ worker' = [worker EXCEPT ![r] = "claimed"]
      BY <1>6, <2>1, ExecutorAssumption DEF RerenderMatches, Claimable, Claim, SetState
    <2>2. CASE row[r].state # "grace" /\ Resolve(r, row[r].state) /\ UNCHANGED row
      BY <1>6, <2>2 DEF RerenderMatches, Resolve
    <2>3. CASE FailGrace(r, "expired") /\ Resolve(r, "expired")
      BY <1>6, <2>3 DEF RerenderMatches, FailGrace, SetState, Resolve
    <2>4. QED
      BY <1>6, <2>1, <2>2, <2>3 DEF RerenderMatches
  <1>7. CASE LaunchSend(r)
    BY <1>7 DEF LaunchSend
  <1>8. CASE SendReturns(r)
    BY <1>8 DEF SendReturns, Finish, Verdict, SetState, Resolve, Exited
  <1>9. CASE SendFails(r)
    BY <1>9 DEF SendFails, Finish, SetState, Resolve
  <1>10. QED
    BY <1>1, <1>2, <1>3, <1>4, <1>5, <1>6, <1>7, <1>8, <1>9 DEF Worker

\* A step of the bridge process, whether or not a worker still waits for it.
LEMMA BridgePartsAgree ==
  ASSUME TypeOK, PartsAgree, NEW r \in Receipt, Bridge(r)
  PROVE  PartsAgree'
  <1> USE DEF daemonVars, providerVars, TypeOK, PartsAgree, RowFitsBridge, WorkerFitsRow,
              BridgeFitsProvider, GraceFitsClock, Posted, Evidenced
  <1>1. CASE BridgeChecks(r)
    BY <1>1, ExecutorAssumption DEF BridgeChecks, Unchanged
  <1>2. CASE BridgeRejects(r)
    BY <1>2 DEF BridgeRejects
  <1>3. CASE BridgeDies(r)
    BY <1>3 DEF BridgeDies, Exited
  <1>4. CASE BridgePosts(r)
    BY <1>4 DEF BridgePosts
  <1>5. CASE BridgeAnswered(r)
    BY <1>5 DEF BridgeAnswered
  <1>6. CASE BridgeObserves(r)
    BY <1>6 DEF BridgeObserves, Observation
  <1>7. QED
    BY <1>1, <1>2, <1>3, <1>4, <1>5, <1>6 DEF Bridge

\* No step takes the parts apart: one lemma above per kind of step.
LEMMA NextPartsAgree == TypeOK /\ PartsAgree /\ [Next]_vars => PartsAgree'
  <1> SUFFICES ASSUME TypeOK, PartsAgree, [Next]_vars PROVE PartsAgree'
    OBVIOUS
  <1> USE DEF daemonVars, bridgeVars, providerVars
  <1>1. ASSUME NEW r \in Receipt, Client(r) \/ Worker(r) \/ Bridge(r) PROVE PartsAgree'
    BY <1>1, ClientPartsAgree, WorkerPartsAgree, BridgePartsAgree
  <1> USE DEF TypeOK, PartsAgree, RowFitsBridge, WorkerFitsRow, BridgeFitsProvider,
              GraceFitsClock, Posted, Evidenced
  <1>2. ASSUME NEW r \in Receipt, ProviderProcesses(r) PROVE PartsAgree'
    <2>1. \A q \in Receipt : wire[q] = "processed" => wire'[q] = "processed"
      BY <1>2 DEF ProviderProcesses
    <2>2. \A d \in Draft : life[d] # "active" => life'[d] = life[d]
      BY <1>2 DEF ProviderProcesses
    <2>3. \A q \in Receipt : DraftOf[q] \in Draft
      BY ExecutorAssumption
    <2>4. \A q \in Receipt : BridgeFitsProvider(q)'
      BY <1>2, <2>1, <2>2, <2>3 DEF ProviderProcesses
    <2>5. \A q \in Receipt : RowFitsBridge(q)' /\ WorkerFitsRow(q)' /\ GraceFitsClock(q)'
      BY <1>2 DEF ProviderProcesses
    <2>6. QED
      BY <2>4, <2>5
  <1>3. ASSUME NEW r \in Receipt, ProviderRefuses(r) PROVE PartsAgree'
    BY <1>3 DEF ProviderRefuses
  <1>4. ASSUME NEW d \in Draft, ProviderAdvances(d) PROVE PartsAgree'
    BY <1>4, ExecutorAssumption DEF ProviderAdvances, Successors
  <1>5. ASSUME NEW d \in Draft, Edit(d) PROVE PartsAgree'
    BY <1>5 DEF Edit
  <1>6. CASE Crash
    BY <1>6 DEF Crash
  <1>7. CASE Restart
    BY <1>7 DEF Restart, Recovered
  <1>8. CASE Tick
    BY <1>8, ExecutorAssumption DEF Tick
  <1>9. CASE UNCHANGED vars
    BY <1>9 DEF vars
  <1>10. QED
    BY <1>1, <1>2, <1>3, <1>4, <1>5, <1>6, <1>7, <1>8, <1>9 DEF Next, Provider

\* In every reachable state journal, worker, bridge, provider and clock agree.
THEOREM AlwaysAgree == Spec => []PartsAgree
  BY TypeCorrect, InitPartsAgree, NextPartsAgree, PTL DEF Spec

(***************************************************************************)
(* The safety properties it carries.                                       *)
(***************************************************************************)

\* One receipt causes at most one POST, in any number of replays and restarts.
THEOREM OnePost == Spec => []AtMostOnePost
  <1>1. TypeOK /\ PartsAgree => AtMostOnePost
    BY DEF PartsAgree, BridgeFitsProvider, AtMostOnePost
  <1>2. QED
    BY <1>1, TypeCorrect, AlwaysAgree, PTL

\* A row that reports no send, or has not decided, saw no POST.
THEOREM NotSentTrue == Spec => []NotSentIsTrue
  <1>1. TypeOK /\ PartsAgree => NotSentIsTrue
    BY DEF PartsAgree, BridgeFitsProvider, RowFitsBridge, NotSentIsTrue, NotSent, TypeOK
  <1>2. QED
    BY <1>1, TypeCorrect, AlwaysAgree, PTL

\* No POST before the cancellable grace of its execution is over.
THEOREM GraceRespected == Spec => []GraceHonoured
  <1>1. TypeOK /\ PartsAgree => GraceHonoured
    BY DEF PartsAgree, BridgeFitsProvider, GraceFitsClock, GraceHonoured, TypeOK
  <1>2. QED
    BY <1>1, TypeCorrect, AlwaysAgree, PTL

\* What is posted under a receipt is the content the receipt approves.
THEOREM PostApproved == Spec => []PostedAsApproved
  <1>1. TypeOK /\ PartsAgree => PostedAsApproved
    BY DEF PartsAgree, BridgeFitsProvider, PostedAsApproved, TypeOK
  <1>2. QED
    BY <1>1, TypeCorrect, AlwaysAgree, PTL

\* A row that reports a send has a processed POST, and the provider has, or had,
\* scheduled the job of the draft or confirmed it.
THEOREM SentEvidenced == Spec => []SentIsEvidenced
  <1>1. TypeOK /\ PartsAgree => SentIsEvidenced
    BY DEF PartsAgree, RowFitsBridge, BridgeFitsProvider, Posted, SentIsEvidenced, TypeOK
  <1>2. QED
    BY <1>1, TypeCorrect, AlwaysAgree, PTL

(***************************************************************************)
(* Answers.                                                                *)
(***************************************************************************)

\* What one step does to the row of each receipt and to what was told of it:
\* a settled row does not move, and only the row's new state is told.
RowsSettle ==
  \A q \in Receipt : row[q].state \in SettledState => row'[q].state = row[q].state

TellsRow ==
  \A q \in Receipt : \A a \in told'[q] :
    a \in told[q] \/ (a.state = row'[q].state /\ a.state \in SettledState)

\* A client is told the state the row has after the step.
LEMMA TellTells ==
  ASSUME TypeOK, NEW r \in Receipt, NEW Q, NEW s, Tell(r, Q, s), row'[r].state = s
  PROVE  TellsRow
  BY DEF Tell, TellsRow, TypeOK

\* Requests and aborts keep settled rows and answer from the row.
LEMMA ClientSettles ==
  ASSUME TypeOK, NEW r \in Receipt, Client(r)
  PROVE  RowsSettle /\ TellsRow
  <1>1. ASSUME NEW q \in Request, JoinInflight(r, q) PROVE RowsSettle /\ TellsRow
    BY <1>1 DEF JoinInflight, RowsSettle, TellsRow
  <1>2. CASE ReplayAnswer(r) \/ Status(r)
    <2>1. Tell(r, {"genuine"}, row[r].state) /\ row' = row
      BY <1>2 DEF ReplayAnswer, Status
    <2>2. TellsRow
      BY <2>1, TellTells
    <2>3. QED
      BY <2>1, <2>2 DEF RowsSettle
  <1>3. CASE ResumeExpired(r)
    <2>1. Tell(r, {"genuine"}, "expired") /\ row[r].state = "grace"
          /\ row' = [row EXCEPT ![r].state = "expired"]
      BY <1>3 DEF ResumeExpired, FailGrace, SetState
    <2>2. row'[r].state = "expired" /\ RowsSettle
      BY <2>1 DEF RowsSettle, SettledState, TypeOK
    <2>3. QED
      BY <2>1, <2>2, TellTells
  <1>4. CASE ResumeGrace(r) \/ FirstRequest(r)
    BY <1>4 DEF ResumeGrace, FirstRequest, RowsSettle, TellsRow
  <1>5. CASE Abort(r)
    <2>1. row'[r].state = "aborted" /\ RowsSettle
      BY <1>5 DEF Abort, SetState, RowsSettle, SettledState, TypeOK
    <2>2. QED
      BY <1>5, <2>1, TellTells DEF Abort
  <1>6. QED
    BY <1>1, <1>2, <1>3, <1>4, <1>5 DEF Client

\* So do the workers.
LEMMA WorkerSettles ==
  ASSUME TypeOK, PartsAgree, NEW r \in Receipt, Worker(r)
  PROVE  RowsSettle /\ TellsRow
  <1> USE DEF RowsSettle, SettledState, TypeOK
  <1>1. CASE RenderMatches(r)
    BY <1>1 DEF RenderMatches, Start, PartsAgree, WorkerFitsRow, TellsRow
  <1>2. CASE RenderFails(r) \/ WakeAfterGrace(r) \/ LaunchSend(r)
    BY <1>2 DEF RenderFails, Reject, WakeAfterGrace, LaunchSend, TellsRow
  <1>3. CASE WakeSettled(r)
    BY <1>3, TellTells DEF WakeSettled, Resolve
  <1>4. ASSUME NEW s \in SettledState, NEW t \in {"grace", "claimed"}, row[r].state = t,
               SetState(r, s), Resolve(r, s)
        PROVE  RowsSettle /\ TellsRow
    <2>1. row'[r].state = s
      BY <1>4 DEF SetState
    <2>2. QED
      BY <1>4, <2>1, TellTells DEF SetState, Resolve
  <1>5. CASE RerenderFails(r)
    <2>1. CASE FailGrace(r, "failed") /\ Resolve(r, "failed")
      BY <2>1, <1>4 DEF FailGrace
    <2>2. CASE row[r].state # "grace" /\ Reject(r) /\ UNCHANGED row
      BY <2>2 DEF Reject, TellsRow
    <2>3. QED
      BY <1>5, <2>1, <2>2 DEF RerenderFails
  <1>6. CASE RerenderMatches(r)
    <2>1. CASE Claimable(r) /\ Claim(r) /\ UNCHANGED told
      BY <2>1 DEF Claimable, Claim, SetState, TellsRow
    <2>2. CASE row[r].state # "grace" /\ Resolve(r, row[r].state) /\ UNCHANGED row
      BY <2>2, TellTells DEF Resolve
    <2>3. CASE FailGrace(r, "expired") /\ Resolve(r, "expired")
      BY <2>3, <1>4 DEF FailGrace
    <2>4. QED
      BY <1>6, <2>1, <2>2, <2>3 DEF RerenderMatches
  <1>7. CASE SendReturns(r)
    <2>1. Verdict(bridge[r]) \in SettledState
      BY DEF Verdict
    <2>2. QED
      BY <1>7, <2>1, <1>4 DEF SendReturns, Finish
  <1>8. CASE SendFails(r)
    BY <1>8, <1>4 DEF SendFails, Finish
  <1>9. QED
    BY <1>1, <1>2, <1>3, <1>5, <1>6, <1>7, <1>8 DEF Worker

\* No step moves a settled row or tells anything but the row's state.
LEMMA NextSettles == TypeOK /\ PartsAgree /\ [Next]_vars => RowsSettle /\ TellsRow
  <1> SUFFICES ASSUME TypeOK, PartsAgree, [Next]_vars PROVE RowsSettle /\ TellsRow
    OBVIOUS
  <1> USE DEF daemonVars, RowsSettle, TellsRow
  <1>1. ASSUME NEW r \in Receipt, Client(r) \/ Worker(r) PROVE RowsSettle /\ TellsRow
    BY <1>1, ClientSettles, WorkerSettles
  <1>2. ASSUME NEW r \in Receipt, Bridge(r) PROVE RowsSettle /\ TellsRow
    BY <1>2 DEF Bridge, BridgeChecks, BridgeRejects, BridgeDies, BridgePosts, BridgeAnswered,
                BridgeObserves
  <1>3. CASE Provider
    BY <1>3 DEF Provider, ProviderProcesses, ProviderRefuses, ProviderAdvances, Edit
  <1>4. CASE Crash
    BY <1>4 DEF Crash
  <1>5. CASE Restart
    BY <1>5 DEF Restart, Recovered, SettledState, TypeOK
  <1>6. CASE Tick \/ UNCHANGED vars
    BY <1>6 DEF Tick, vars
  <1>7. QED
    BY <1>1, <1>2, <1>3, <1>4, <1>5, <1>6 DEF Next

\* A settled row never changes its state again, whatever is retried, aborted,
\* answered late or restarted (the journal's WHERE state guards and recover).
THEOREM SettledIsFinal == Spec => [][RowsSettle]_vars
  <1>1. TypeOK /\ PartsAgree /\ [Next]_vars => [RowsSettle]_vars
    BY NextSettles
  <1>2. QED
    BY <1>1, TypeCorrect, AlwaysAgree, PTL DEF Spec

\* All settled answers agree with each other and with the journal, for ever.
THEOREM AnswersConsistent == Spec => []AnswersAgree
  <1>1. Init => AnswersAgree
    BY DEF Init, AnswersAgree
  <1>2. TypeOK /\ PartsAgree /\ AnswersAgree /\ [Next]_vars => AnswersAgree'
    <2> SUFFICES ASSUME TypeOK, PartsAgree, AnswersAgree, [Next]_vars,
                        NEW q \in Receipt, NEW a \in told'[q]
                 PROVE  a.state = row'[q].state
      BY DEF AnswersAgree
    <2>1. RowsSettle /\ TellsRow
      BY NextSettles
    <2>2. CASE a \in told[q]
      <3>1. a.state \in SettledState
        BY <2>2 DEF TypeOK
      <3>2. QED
        BY <2>1, <2>2, <3>1 DEF RowsSettle, AnswersAgree
    <2>3. CASE a.state = row'[q].state
      BY <2>3
    <2>4. QED
      BY <2>1, <2>2, <2>3 DEF TellsRow
  <1>3. QED
    BY <1>1, <1>2, TypeCorrect, AlwaysAgree, PTL DEF Spec

(***************************************************************************)
(* The refinement of OneShotSend.                                          *)
(***************************************************************************)

\* What OneShotSend allows one receipt to do in a step.
Advances(q) ==
  \/ OneShot!Commit(q)
  \/ OneShot!CallOff(q)
  \/ OneShot!Send(q)
  \/ OneShot!Report(q)
  \/ OneShot!GiveUp(q)
  \/ OneShot!Rest(q)

\* A receipt whose row keeps its state, or is only recorded, rests.
LEMMA RestAdvances ==
  ASSUME NEW q \in Receipt, posts'[q] = posts[q],
         \/ row'[q].state = row[q].state
         \/ row[q].state = "none" /\ row'[q].state = "grace"
  PROVE  Advances(q)
  <1>1. VerdictOf(row'[q].state) = VerdictOf(row[q].state)
    BY DEF VerdictOf
  <1>2. QED
    BY <1>1 DEF Advances, OneShot!Rest, OneShot!Becomes

\* A row called off while its receipt has no POST.
LEMMA CallOffAdvances ==
  ASSUME NEW q \in Receipt, posts'[q] = posts[q], posts[q] = 0,
         row[q].state \in {"grace", "claimed"},
         row'[q].state \in {"failed", "expired", "aborted"}
  PROVE  Advances(q)
  <1>1. VerdictOf(row[q].state) \in {"open", "committed"} /\ VerdictOf(row'[q].state) = "called off"
    BY DEF VerdictOf
  <1>2. QED
    BY <1>1 DEF Advances, OneShot!CallOff, OneShot!Becomes

\* A claimed row that ends without a known outcome.
LEMMA GiveUpAdvances ==
  ASSUME NEW q \in Receipt, posts'[q] = posts[q],
         row[q].state = "claimed", row'[q].state = "unknown"
  PROVE  Advances(q)
  <1>1. VerdictOf(row[q].state) = "committed" /\ VerdictOf(row'[q].state) = "uncertain"
    BY DEF VerdictOf
  <1>2. QED
    BY <1>1 DEF Advances, OneShot!GiveUp, OneShot!Becomes

\* The receipts an action does not name, and those it names without effect.
LEMMA SameRowAdvances ==
  ASSUME row' = row, posts' = posts
  PROVE  \A q \in Receipt : Advances(q)
  BY RestAdvances

\* SetState on one receipt leaves the state of the others.
LEMMA SetStateElsewhere ==
  ASSUME TypeOK, NEW r \in Receipt, NEW s, SetState(r, s)
  PROVE  /\ row'[r].state = s
         /\ \A q \in Receipt \ {r} : row'[q].state = row[q].state
  BY DEF TypeOK, SetState

\* A request or an abort is a step, or a rest, of every receipt of OneShotSend.
LEMMA ClientAdvances ==
  ASSUME TypeOK, PartsAgree, NEW r \in Receipt, Client(r)
  PROVE  \A q \in Receipt : Advances(q)
  <1>0. posts' = posts
    BY DEF Client, JoinInflight, ReplayAnswer, ResumeExpired, ResumeGrace, FirstRequest, Abort,
           Status, bridgeVars
  <1>1. CASE row' = row
    BY <1>0, <1>1, SameRowAdvances
  <1>2. ASSUME NEW s \in {"expired", "aborted"}, row[r].state = "grace", SetState(r, s)
        PROVE  \A q \in Receipt : Advances(q)
    <2>1. posts[r] = 0
      BY <1>2 DEF PartsAgree, RowFitsBridge, BridgeFitsProvider
    <2>2. Advances(r)
      BY <1>0, <1>2, <2>1, SetStateElsewhere, CallOffAdvances
    <2>3. QED
      BY <1>0, <1>2, <2>2, SetStateElsewhere, RestAdvances
  <1>3. QED
    BY <1>1, <1>2 DEF Client, JoinInflight, ReplayAnswer, ResumeExpired, FailGrace, ResumeGrace,
                      FirstRequest, Abort, Status

\* So is a step of a worker.
LEMMA WorkerAdvances ==
  ASSUME TypeOK, PartsAgree, NEW r \in Receipt, Worker(r)
  PROVE  \A q \in Receipt : Advances(q)
  <1>0. posts' = posts
    BY DEF Worker, RenderMatches, RenderFails, WakeSettled, WakeAfterGrace, RerenderFails,
           RerenderMatches, LaunchSend, SendReturns, SendFails, bridgeVars
  <1>1. ASSUME row' = row PROVE \A q \in Receipt : Advances(q)
    BY <1>0, <1>1, SameRowAdvances
  <1>2. ASSUME NEW s, SetState(r, s), Advances(r)
        PROVE  \A q \in Receipt : Advances(q)
    BY <1>0, <1>2, SetStateElsewhere, RestAdvances
  <1>3. ASSUME NEW s \in {"failed", "expired"}, row[r].state = "grace", SetState(r, s)
        PROVE  \A q \in Receipt : Advances(q)
    <2>1. posts[r] = 0
      BY <1>3 DEF PartsAgree, RowFitsBridge, BridgeFitsProvider
    <2>2. QED
      BY <1>0, <1>2, <1>3, <2>1, SetStateElsewhere, CallOffAdvances
  <1>4. CASE RenderMatches(r)
    <2>1. row[r].state = "none" /\ row'[r].state = "grace"
      BY <1>4 DEF RenderMatches, Start, TypeOK, PartsAgree, WorkerFitsRow
    <2>2. \A q \in Receipt \ {r} : row'[q] = row[q]
      BY <1>4 DEF RenderMatches, Start, TypeOK
    <2>3. QED
      BY <1>0, <2>1, <2>2, RestAdvances
  <1>5. CASE RenderFails(r) \/ WakeSettled(r) \/ WakeAfterGrace(r) \/ LaunchSend(r)
    BY <1>1, <1>5 DEF RenderFails, WakeSettled, WakeAfterGrace, LaunchSend
  <1>6. CASE RerenderFails(r)
    BY <1>1, <1>3, <1>6 DEF RerenderFails, FailGrace
  <1>7. CASE RerenderMatches(r)
    <2>1. CASE Claimable(r) /\ Claim(r)
      <3>1. row[r].state = "grace" /\ SetState(r, "claimed")
        BY <2>1 DEF Claimable, Claim
      <3>2. VerdictOf(row[r].state) = "open" /\ VerdictOf(row'[r].state) = "committed"
        BY <3>1, SetStateElsewhere DEF VerdictOf
      <3>3. Advances(r)
        BY <1>0, <3>2 DEF Advances, OneShot!Commit, OneShot!Becomes
      <3>4. QED
        BY <1>2, <3>1, <3>3
    <2>2. CASE row' = row
      BY <1>1, <2>2
    <2>3. CASE FailGrace(r, "expired")
      BY <1>3, <2>3 DEF FailGrace
    <2>4. QED
      BY <1>7, <2>1, <2>2, <2>3 DEF RerenderMatches
  <1>8. ASSUME row[r].state = "claimed", SetState(r, "unknown")
        PROVE  \A q \in Receipt : Advances(q)
    BY <1>0, <1>2, <1>8, SetStateElsewhere, GiveUpAdvances
  <1>9. CASE SendReturns(r)
    <2>1. row[r].state = "claimed" /\ SetState(r, Verdict(bridge[r])) /\ bridge[r] \in Exited
      BY <1>9 DEF SendReturns, Finish
    <2>2. CASE bridge[r] \in {"accepted", "confirmed"}
      <3>1. posts[r] = 1
        BY <2>2 DEF PartsAgree, BridgeFitsProvider, Posted
      <3>2. row'[r].state \in {"accepted", "provider_confirmed"}
        BY <2>1, <2>2, SetStateElsewhere DEF Verdict
      <3>3. VerdictOf(row[r].state) = "committed" /\ VerdictOf(row'[r].state) = "sent"
        BY <2>1, <3>2 DEF VerdictOf
      <3>4. Advances(r)
        BY <1>0, <3>1, <3>3 DEF Advances, OneShot!Report, OneShot!Becomes
      <3>5. QED
        BY <1>2, <2>1, <3>4
    <2>3. CASE bridge[r] = "rejected"
      <3>1. posts[r] = 0
        BY <2>3 DEF PartsAgree, BridgeFitsProvider
      <3>2. Verdict(bridge[r]) = "failed"
        BY <2>3 DEF Verdict
      <3>3. QED
        BY <1>0, <1>2, <2>1, <3>1, <3>2, SetStateElsewhere, CallOffAdvances
    <2>4. CASE bridge[r] \in {"errored", "inconclusive"}
      <3>1. Verdict(bridge[r]) = "unknown"
        BY <2>4 DEF Verdict
      <3>2. QED
        BY <1>8, <2>1, <3>1
    <2>5. QED
      BY <2>1, <2>2, <2>3, <2>4 DEF Exited
  <1>10. CASE SendFails(r)
    BY <1>8, <1>10 DEF SendFails, Finish
  <1>11. QED
    BY <1>4, <1>5, <1>6, <1>7, <1>9, <1>10 DEF Worker

\* Only the POST itself is a step of OneShotSend.
LEMMA BridgeAdvances ==
  ASSUME TypeOK, PartsAgree, NEW r \in Receipt, Bridge(r)
  PROVE  \A q \in Receipt : Advances(q)
  <1>0. row' = row
    BY DEF Bridge, BridgeChecks, BridgeRejects, BridgeDies, BridgePosts, BridgeAnswered,
           BridgeObserves, daemonVars
  <1>1. CASE BridgePosts(r)
    <2>1. posts[r] = 0 /\ posts'[r] = 1 /\ \A q \in Receipt \ {r} : posts'[q] = posts[q]
      BY <1>1 DEF BridgePosts, TypeOK, PartsAgree, BridgeFitsProvider
    <2>2. row[r].state \in {"claimed", "unknown"}
      BY <1>1 DEF BridgePosts, TypeOK, RowState, SettledState, PartsAgree, RowFitsBridge
    <2>3. VerdictOf(row[r].state) \in {"committed", "uncertain"}
      BY <2>2 DEF VerdictOf
    <2>4. Advances(r)
      BY <1>0, <2>1, <2>3 DEF Advances, OneShot!Send
    <2>5. QED
      BY <1>0, <2>1, <2>4, RestAdvances
  <1>2. CASE posts' = posts
    BY <1>0, <1>2, SameRowAdvances
  <1>3. QED
    BY <1>1, <1>2 DEF Bridge, BridgeChecks, BridgeRejects, BridgeDies, BridgeAnswered,
                      BridgeObserves

\* A restart settles every interrupted receipt at once.
LEMMA RestartAdvances ==
  ASSUME TypeOK, PartsAgree, Restart
  PROVE  \A q \in Receipt : Advances(q)
  <1> SUFFICES ASSUME NEW q \in Receipt PROVE Advances(q)
    OBVIOUS
  <1>1. posts'[q] = posts[q] /\ row'[q].state = Recovered(q)
    BY DEF Restart, bridgeVars, TypeOK
  <1>2. CASE row[q].state = "claimed"
    BY <1>1, <1>2, GiveUpAdvances DEF Recovered
  <1>3. CASE row[q].state = "grace" /\ now >= Expiry[q]
    <2>1. posts[q] = 0
      BY <1>3 DEF PartsAgree, RowFitsBridge, BridgeFitsProvider
    <2>2. QED
      BY <1>1, <1>3, <2>1, CallOffAdvances DEF Recovered
  <1>4. CASE Recovered(q) = row[q].state
    BY <1>1, <1>4, RestAdvances
  <1>5. QED
    BY <1>2, <1>3, <1>4 DEF Recovered

\* So is every step of the executor.
LEMMA NextAdvances ==
  ASSUME TypeOK, PartsAgree, [Next]_vars
  PROVE  \A q \in Receipt : Advances(q)
  <1>1. ASSUME NEW r \in Receipt, Client(r) \/ Worker(r) \/ Bridge(r)
        PROVE  \A q \in Receipt : Advances(q)
    BY <1>1, ClientAdvances, WorkerAdvances, BridgeAdvances
  <1>2. CASE Provider \/ Crash \/ Tick \/ UNCHANGED vars
    <2>1. row' = row /\ posts' = posts
      BY <1>2 DEF Provider, ProviderProcesses, ProviderRefuses, ProviderAdvances, Edit, Crash,
                  Tick, vars, daemonVars, bridgeVars
    <2>2. QED
      BY <2>1, SameRowAdvances
  <1>3. CASE Restart
    BY <1>3, RestartAdvances
  <1>4. QED
    BY <1>1, <1>2, <1>3 DEF Next

\* The executor, with its daemon, bridges, crashes and provider, implements the
\* one-shot promise for every receipt (executor.mjs and send_conditional).
THEOREM ImplementsOneShot == Spec => KeepsOneShot
  <1>1. Init => OneShot!Init
    BY DEF Init, NoRow, OneShot!Init, VerdictOf
  <1>2. TypeOK /\ TypeOK' /\ PartsAgree /\ [Next]_vars => [OneShot!Next]_(OneShot!vars)
    <2> SUFFICES ASSUME TypeOK, TypeOK', PartsAgree, [Next]_vars PROVE OneShot!Next
      OBVIOUS
    <2>1. \A q \in Receipt : Advances(q)
      BY NextAdvances
    <2>2. /\ [r \in Receipt |-> VerdictOf(row[r].state)]' \in [Receipt -> OneShot!Verdict]
          /\ posts' \in [Receipt -> Nat]
      BY DEF TypeOK, RowState, SettledState, VerdictOf, OneShot!Verdict
    <2>3. QED
      BY <2>1, <2>2 DEF OneShot!Next, Advances
  <1>3. QED
    BY <1>1, <1>2, TypeCorrect, AlwaysAgree, PTL DEF Spec, KeepsOneShot, OneShot!Spec
=============================================================================
