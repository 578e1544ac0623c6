--------------------------- MODULE PreparedStore ---------------------------
(***************************************************************************)
(* The private evidence of prepared renders: the screenshots and the       *)
(* record the credential bridge leaves on disk, the marker by which the    *)
(* executor daemon trusts them, and their removal after the execution or   *)
(* when the attestation expires (authority/send-executor/prepared-store    *)
(* .mjs and its callers in daemon.mjs, prepare_attestation and             *)
(* attestation.save on the side of the bridge).                            *)
(*                                                                         *)
(* The daemon is one thread: mark, sweep and remove run without            *)
(* interruption, but each deletion is on disk before the next one and the  *)
(* daemon may die between two.  The bridge is a process of its own that    *)
(* goes on when the daemon dies or gives up on it.  An attestation id is   *)
(* fresh for every prepare call, and is the subject of one receipt.        *)
(***************************************************************************)
EXTENDS Naturals

CONSTANTS
  Attestation,  \* the attestation ids, one for each prepare call
  Nobody,       \* no attestation
  Life,         \* DEFAULT_TTL_SECONDS in ticks
  MaxTime,      \* bound on the clock
  MaxCrashes    \* bound on the crashes of the daemon

ASSUME StoreAssumption ==
  /\ Nobody \notin Attestation
  /\ Life \in Nat \ {0}
  /\ MaxTime \in Nat
  /\ MaxCrashes \in Nat

VARIABLES
  now,       \* the wall clock
  up,        \* whether the daemon runs
  crashes,   \* crashes so far
  child,     \* how far the bridge's Python process of a prepare call is, and
             \* whether its bundle was returned to the issuer
  awaited,   \* whether the daemon still awaits that call
  shots,     \* the attestations whose directory of screenshots exists
  record,    \* the attestations whose record exists
  marker,    \* the attestations whose marker exists
  expires,   \* the expires_at of each record
  exec,      \* the execution of the receipt for each attestation
  left,      \* the markers the running sweep has still to visit
  target,    \* the attestation being removed
  step       \* the next deletion of remove

clockVars == <<now, up, crashes>>
callVars  == <<child, awaited, exec>>
diskVars  == <<shots, record, marker, expires>>
storeVars == <<left, target, step>>
vars == <<clockVars, callVars, diskVars, storeVars>>

(***************************************************************************)
(* Values.                                                                 *)
(***************************************************************************)
Child == {"none", "rendering", "shot", "saved", "returned"}

\* An execution is rendering before it has a grace row, running while a worker
\* holds it, paused when a crash left its grace row, over when it has settled.
Execution == {"none", "rendering", "running", "paused", "over"}

TypeOK ==
  /\ now \in Nat
  /\ up \in BOOLEAN
  /\ crashes \in Nat
  /\ child \in [Attestation -> Child]
  /\ awaited \subseteq Attestation
  /\ shots \subseteq Attestation
  /\ record \subseteq Attestation
  /\ marker \subseteq Attestation
  /\ expires \in [Attestation -> Nat]
  /\ exec \in [Attestation -> Execution]
  /\ left \subseteq Attestation
  /\ target \in Attestation \cup {Nobody}
  /\ step \in {"none", "record", "screenshots", "marker"}
  /\ step = "none" <=> target = Nobody

Init ==
  /\ now = 0
  /\ up = TRUE
  /\ crashes = 0
  /\ child = [a \in Attestation |-> "none"]
  /\ awaited = {}
  /\ shots = {}
  /\ record = {}
  /\ marker = {}
  /\ expires = [a \in Attestation |-> 0]
  /\ exec = [a \in Attestation |-> "none"]
  /\ left = {}
  /\ target = Nobody
  /\ step = "none"

\* The daemon's thread is free for another callback.
Free == up /\ target = Nobody /\ left = {}

(***************************************************************************)
(* POST /v1/prepare.                                                       *)
(***************************************************************************)
PrepareStarts(a) ==
  /\ Free
  /\ child[a] = "none"
  /\ now + Life <= MaxTime
  /\ child' = [child EXCEPT ![a] = "rendering"]
  /\ awaited' = awaited \cup {a}
  /\ UNCHANGED <<clockVars, exec, diskVars, storeVars>>

\* prepare_attestation makes its directory and the renderer fills it.
BridgeShoots(a) ==
  /\ child[a] = "rendering"
  /\ child' = [child EXCEPT ![a] = "shot"]
  /\ shots' = shots \cup {a}
  /\ UNCHANGED <<clockVars, awaited, exec, record, marker, expires, storeVars>>

\* Mutant: the lifetime is counted backwards from the time of the record.
Mutant_BridgeSaves(a) ==
  /\ child[a] = "shot"
  /\ child' = [child EXCEPT ![a] = "saved"]
  /\ record' = record \cup {a}
  /\ expires' = [expires EXCEPT ![a] = now - Life]
  /\ UNCHANGED <<clockVars, awaited, exec, shots, marker, storeVars>>

\* attestation.create stamps the record and saves it.
BridgeSaves(a) ==
  /\ child[a] = "shot"
  /\ child' = [child EXCEPT ![a] = "saved"]
  /\ record' = record \cup {a}
  /\ expires' = [expires EXCEPT ![a] = now + Life]
  /\ UNCHANGED <<clockVars, awaited, exec, shots, marker, storeVars>>

\* The bundle is back: its id is marked in the turn that validates it.
PrepareReturns(a) ==
  /\ Free
  /\ a \in awaited
  /\ child[a] = "saved"
  /\ child' = [child EXCEPT ![a] = "returned"]
  /\ awaited' = awaited \ {a}
  /\ marker' = marker \cup {a}
  /\ UNCHANGED <<clockVars, exec, shots, record, expires, storeVars>>

\* The bridge failed, the 120 s timeout ended it or the bundle is invalid; its
\* Python process may go on.
PrepareFails(a) ==
  /\ Free
  /\ a \in awaited
  /\ awaited' = awaited \ {a}
  /\ UNCHANGED <<clockVars, child, exec, diskVars, storeVars>>

(***************************************************************************)
(* TrustedPreparedStore.remove, one deletion at a time.                    *)
(***************************************************************************)

\* The record is parsed, and the paths of its screenshots are resolved, before
\* anything is deleted; without a record the screenshots cannot be found.
Removes(a) ==
  /\ target' = a
  /\ step' = IF a \in record THEN "record" ELSE "marker"

\* Mutant: the directories go first, the record that names them last.
Mutant_Unlink ==
  /\ step = "record"
  /\ step' = "screenshots"
  /\ shots' = shots \ {target}
  /\ UNCHANGED <<clockVars, callVars, record, marker, expires, left, target>>

\* unlinkSync(recordPath)
Unlink ==
  /\ step = "record"
  /\ step' = "screenshots"
  /\ record' = record \ {target}
  /\ UNCHANGED <<clockVars, callVars, shots, marker, expires, left, target>>

\* rmSync(directory)
RemoveScreenshots ==
  /\ step = "screenshots"
  /\ step' = "marker"
  /\ shots' = shots \ {target}
  /\ UNCHANGED <<clockVars, callVars, record, marker, expires, left, target>>

\* rmSync of the marker, and return.
RemoveMarker ==
  /\ step = "marker"
  /\ step' = "none"
  /\ target' = Nobody
  /\ marker' = marker \ {target}
  /\ UNCHANGED <<clockVars, callVars, shots, record, expires, left>>

(***************************************************************************)
(* POST /v1/execute, as far as the evidence is concerned.                  *)
(***************************************************************************)

\* verify_prepared, which every render and the send begin with.
Evidence(a) == a \in record \cap marker \cap shots /\ now < expires[a]

\* The issuer got the bundle and a receipt for it was signed; a request whose
\* render was refused may come again.
ExecutionStarts(a) ==
  /\ Free
  /\ exec[a] = "none"
  /\ child[a] = "returned"
  /\ exec' = [exec EXCEPT ![a] = "rendering"]
  /\ UNCHANGED <<clockVars, child, awaited, diskVars, storeVars>>

ExecutionRendered(a) ==
  /\ Free
  /\ exec[a] = "rendering"
  /\ Evidence(a)
  /\ exec' = [exec EXCEPT ![a] = "running"]
  /\ UNCHANGED <<clockVars, child, awaited, diskVars, storeVars>>

\* An error is answered; nothing is removed.
ExecutionRefused(a) ==
  /\ Free
  /\ exec[a] = "rendering"
  /\ exec' = [exec EXCEPT ![a] = "none"]
  /\ UNCHANGED <<clockVars, child, awaited, diskVars, storeVars>>

\* A settled state is answered, first or again, and the evidence is removed.  A
\* paused execution that expired settles in the same turn.
ExecutionSettles(a) ==
  /\ Free
  /\ exec[a] \in {"running", "paused", "over"}
  /\ exec' = [exec EXCEPT ![a] = "over"]
  /\ Removes(a)
  /\ UNCHANGED <<clockVars, child, awaited, diskVars, left>>

\* The row settles without an answer that says so: an abort won against the
\* second render, whose error is answered, or met a paused execution.
ExecutionErrs(a) ==
  /\ Free
  /\ exec[a] \in {"running", "paused"}
  /\ exec' = [exec EXCEPT ![a] = "over"]
  /\ UNCHANGED <<clockVars, child, awaited, diskVars, storeVars>>

\* A resubmitted request resumes the grace a crash interrupted.
ExecutionResumes(a) ==
  /\ Free
  /\ exec[a] = "paused"
  /\ exec' = [exec EXCEPT ![a] = "running"]
  /\ UNCHANGED <<clockVars, child, awaited, diskVars, storeVars>>

(***************************************************************************)
(* TrustedPreparedStore.sweep, at start-up and every minute.               *)
(***************************************************************************)

\* readdirSync(root)
SweepStarts ==
  /\ Free
  /\ left' = marker
  /\ UNCHANGED <<clockVars, callVars, diskVars, target, step>>

\* Mutants: whatever is marked is stale; or only an unreadable record is.
Mutant_Stale(a) == a \in marker
Mutant_StaleUnreadable(a) == a \notin record

\* The record has expired or cannot be read.
Stale(a) == a \notin record \/ expires[a] <= now

SweepVisits(a) ==
  /\ up
  /\ target = Nobody
  /\ a \in left
  /\ left' = left \ {a}
  /\ IF Stale(a) THEN Removes(a) ELSE UNCHANGED <<target, step>>
  /\ UNCHANGED <<clockVars, callVars, diskVars>>

(***************************************************************************)
(* The daemon dies, at any point of the above; a claimed execution settles *)
(* at the restart, one in its grace waits to be resumed.  Starting begins  *)
(* with a sweep.                                                           *)
(***************************************************************************)
Crash ==
  /\ up
  /\ crashes < MaxCrashes
  /\ up' = FALSE
  /\ crashes' = crashes + 1
  /\ awaited' = {}
  /\ \E claimed \in SUBSET {a \in Attestation : exec[a] = "running"} :
       exec' = [a \in Attestation |->
                  CASE exec[a] = "rendering" -> "none"
                    [] exec[a] = "running"   -> IF a \in claimed THEN "over" ELSE "paused"
                    [] OTHER                 -> exec[a]]
  /\ left' = {}
  /\ target' = Nobody
  /\ step' = "none"
  /\ UNCHANGED <<now, child, diskVars>>

Restart ==
  /\ ~up
  /\ up' = TRUE
  /\ left' = marker
  /\ UNCHANGED <<now, crashes, callVars, diskVars, target, step>>

\* The bounded clock still runs for a record that has not expired.
Tick ==
  /\ now < MaxTime \/ \E a \in Attestation : now < expires[a]
  /\ now' = now + 1
  /\ UNCHANGED <<up, crashes, callVars, diskVars, storeVars>>

(***************************************************************************)
(* Specification.                                                          *)
(***************************************************************************)
Prepare(a) ==
  \/ PrepareStarts(a)
  \/ BridgeShoots(a)
  \/ BridgeSaves(a)
  \/ PrepareReturns(a)
  \/ PrepareFails(a)

Execute(a) ==
  \/ ExecutionStarts(a)
  \/ ExecutionRendered(a)
  \/ ExecutionRefused(a)
  \/ ExecutionSettles(a)
  \/ ExecutionErrs(a)
  \/ ExecutionResumes(a)

Remove == Unlink \/ RemoveScreenshots \/ RemoveMarker

Next ==
  \/ \E a \in Attestation : Prepare(a) \/ Execute(a) \/ SweepVisits(a)
  \/ SweepStarts
  \/ Remove
  \/ Crash
  \/ Restart
  \/ Tick

Spec == Init /\ [][Next]_vars

\* The thread runs on, the timer gets its turn although it is busy at times,
\* launchd restarts the daemon and time passes.
Fairness ==
  /\ WF_vars(Remove)
  /\ \A a \in Attestation : WF_vars(SweepVisits(a))
  /\ SF_vars(SweepStarts)
  /\ WF_vars(Restart)
  /\ WF_vars(Tick)

FairSpec == Spec /\ Fairness

(***************************************************************************)
(* Properties.                                                             *)
(***************************************************************************)

\* Wherever a crash strikes, a marked record finds its screenshots: otherwise
\* remove throws on their paths, twice in sweep, and the error ends the daemon
\* at its timer and at every start (prepared-store.mjs sweep's catch).
RecordHasScreenshots == record \subseteq shots

\* An execution that renders, waits out its grace or sends keeps record, marker
\* and screenshots until the attestation expires, whatever is swept meanwhile.
LiveKeepsEvidence ==
  \A a \in Attestation :
    exec[a] \in {"running", "paused"} /\ now < expires[a] => Evidence(a)

\* A marked attestation loses marker and record in the end, also when no
\* execution ever settles and when the daemon dies during the removal; it loses
\* its screenshots too unless the daemon has died (sweep; remove).
MarkedGoesAway ==
  \A a \in Attestation :
    a \in marker ~> a \notin marker \cup record /\ (a \in shots => crashes > 0)

\* The private records and the screenshots of marked evidence are removed in the
\* end (docs/send-safety.md, step 7 of the executor).  The code does not promise
\* it: the record alone names the directories and is unlinked before them.
MarkedIsRemoved ==
  \A a \in Attestation : a \in marker ~> a \notin marker \cup record \cup shots
=============================================================================
