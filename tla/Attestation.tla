----------------------------- MODULE Attestation -----------------------------
(***************************************************************************)
(* Render attestation of one draft: attestation.create seals what the live *)
(* Superhuman app would send, revalidate_for_send renders again before the *)
(* send, and send_conditional posts (superhuman_mail/attestation.py and    *)
(* executor.py).  Both drive renderer_probe.js, which attaches to the page *)
(* of the app over CDP, cuts it from the network, renders a clone of the   *)
(* draft, pictures it in an overlay and lets the page go.                  *)
(*                                                                         *)
(* Each run is a process of its own and several may be attached to the one *)
(* page.  Meanwhile the owner types, the app saves and refreshes, other    *)
(* clients write the draft or send it.  A version of the draft is its      *)
(* content; its place in versions is the history id of the thread.         *)
(*                                                                         *)
(* External: the page, its saves and the server; that the browser drops    *)
(* the interception and the offline mode of a client that detaches.        *)
(***************************************************************************)
EXTENDS Naturals, Sequences

CONSTANTS
  Run,          \* the processes, each of which creates or revalidates once
  Content,      \* what the draft may say
  Setting,      \* the signature settings a rendering depends on
  Nothing,      \* no content, payload, record or run
  MaxVersions,  \* bound on the versions of the draft
  MaxTyped      \* bound on the edits typed into the page

ASSUME AttestationAssumption ==
  /\ Nothing \notin Content \cup Run
  /\ MaxVersions \in Nat \ {0}
  /\ MaxTyped \in Nat

VARIABLES
  versions,  \* the contents the server has stored, the last one current
  active,    \* whether the lifecycle of the draft is active_draft
  page,      \* the draft model, its editor, settings and overlay in the app
  saving,    \* the content of a save on its way to the server
  typed,     \* edits typed so far
  offline,   \* whether the page emulates being offline
  run,       \* the state of each run
  sealed,    \* the record each creating run has saved
  posted     \* what send_conditional has posted

serverVars == <<versions, active>>
pageVars   == <<page, saving, typed>>
proofVars  == <<sealed, posted>>
vars == <<serverVars, pageVars, offline, run, proofVars>>

(***************************************************************************)
(* Values.                                                                 *)
(***************************************************************************)
History == 1..MaxVersions
Payload == [body : Content, settings : Setting]

Step == {"idle", "checked", "attached", "rendering", "rendered", "shown",
         "pictured", "restored", "detached", "accepted", "posted", "failed"}

\* The steps at which the client intercepts the requests of the page.
Intercepting == {"attached", "rendering", "rendered", "shown", "pictured", "restored"}

Run0 == [at |-> "idle", of |-> Nothing, seen |-> 0, live |-> Nothing, editor |-> Nothing,
         settings |-> Nothing, payload |-> Nothing, shot |-> Nothing,
         wrote |-> FALSE, alone |-> TRUE]

RunState ==
  [at : Step, of : Run \cup {Nothing}, seen : {0} \cup History,
   live : Content \cup {Nothing}, editor : Content \cup {Nothing},
   settings : Setting \cup {Nothing}, payload : Payload \cup {Nothing},
   shot : Payload \cup {Nothing}, wrote : BOOLEAN, alone : BOOLEAN]

Record == [history : History, source : Content, editor : Content, settings : Setting,
           payload : Payload, shot : Payload \cup {Nothing}, alone : BOOLEAN]

ASSUME RecordAssumption == Nothing \notin Record

Current == Len(versions)
At(r, s) == run[r].at = s
Attached(r) == run[r].at \in Intercepting
Creates(r) == run[r].of = r

Typed ==
  /\ versions \in Seq(Content) /\ Len(versions) \in History
  /\ active \in BOOLEAN
  /\ page \in [model : Content, editor : Content, dirty : BOOLEAN,
               settings : Setting, overlay : Payload \cup {Nothing}]
  /\ saving \in Content \cup {Nothing}
  /\ typed \in 0..MaxTyped
  /\ offline \in BOOLEAN
  /\ run \in [Run -> RunState]
  /\ sealed \in [Run -> Record \cup {Nothing}]
  /\ posted \subseteq [of : Run, seen : History, payload : Payload]

\* Types; and the owner's app is offline only under a probe, whatever became of
\* the others.
TypeOK == Typed /\ (offline => \E r \in Run : Attached(r))

Init ==
  /\ \E c \in Content, s \in Setting :
       /\ versions = <<c>>
       /\ page = [model |-> c, editor |-> c, dirty |-> FALSE, settings |-> s, overlay |-> Nothing]
  /\ active = TRUE
  /\ saving = Nothing
  /\ typed = 0
  /\ offline = FALSE
  /\ run = [r \in Run |-> Run0]
  /\ sealed = [r \in Run |-> Nothing]
  /\ posted = {}

(***************************************************************************)
(* The calls around the probe.                                             *)
(***************************************************************************)

\* The canonical source of a version: its fields and the digests of its files.
Source(history) == versions[history]

\* attestation.create: preflight A, of an active draft.
CreateStarts(r) ==
  /\ At(r, "idle")
  /\ active
  /\ run' = [run EXCEPT ![r] = [Run0 EXCEPT !.at = "checked", !.of = r, !.seen = Current]]
  /\ UNCHANGED <<serverVars, pageVars, offline, proofVars>>

\* The server still holds the source of the record, at the history it names.
StillSource(q) ==
  /\ Source(Current) = sealed[q].source
  /\ Current = sealed[q].history

\* revalidate_for_send of the record of q: preflight A, compared with the record.
RevalidateStarts(r, q) ==
  /\ At(r, "idle")
  /\ sealed[q] # Nothing
  /\ active
  /\ StillSource(q)
  /\ run' = [run EXCEPT ![r] = [Run0 EXCEPT !.at = "checked", !.of = q, !.seen = Current]]
  /\ UNCHANGED <<serverVars, pageVars, offline, proofVars>>

NetworkWrites(r) == run[r].wrote

\* _validate_probe: the live model is the source of preflight A, and the page
\* attempted no write.
Validated(r) ==
  /\ run[r].live = Source(run[r].seen)
  /\ ~NetworkWrites(r)

\* Preflight B agrees with preflight A.
Settled(r) ==
  /\ active
  /\ Source(Current) = Source(run[r].seen)
  /\ Current = run[r].seen

Ended(r, s) == [run EXCEPT ![r] = [Run0 EXCEPT !.at = s, !.of = run[r].of]]

\* create seals and saves what it has validated.
Seals(r) ==
  /\ At(r, "detached") /\ Creates(r)
  /\ Validated(r) /\ Settled(r)
  /\ sealed' = [sealed EXCEPT ![r] =
       [history |-> run[r].seen, source |-> run[r].live, editor |-> run[r].editor,
        settings |-> run[r].settings, payload |-> run[r].payload,
        shot |-> run[r].shot, alone |-> run[r].alone]]
  /\ run' = Ended(r, "accepted")
  /\ UNCHANGED <<serverVars, pageVars, offline, posted>>

\* The same source, settings and history do not make the same payload: the
\* settings may have changed while the body was rendered.
Mutant_SameFingerprint(r, rec) ==
  /\ run[r].live = rec.source
  /\ run[r].editor = rec.editor
  /\ run[r].settings = rec.settings
  /\ Current = rec.history

\* _fingerprint of the fresh probe, with the history of preflight B, is that of
\* the record.
SameFingerprint(r, rec) ==
  /\ run[r].live = rec.source
  /\ run[r].editor = rec.editor
  /\ run[r].settings = rec.settings
  /\ run[r].payload = rec.payload
  /\ Current = rec.history

\* revalidate_for_send returns the fresh payload; for get_rendered that is all.
Revalidates(r) ==
  /\ At(r, "detached") /\ ~Creates(r)
  /\ Validated(r) /\ Settled(r)
  /\ SameFingerprint(r, sealed[run[r].of])
  /\ run' = [run EXCEPT ![r] = [Run0 EXCEPT !.at = "accepted", !.of = run[r].of,
                                            !.seen = Current, !.payload = run[r].payload]]
  /\ UNCHANGED <<serverVars, pageVars, offline, proofVars>>

\* send_conditional posts it.  That the provider sends is SentNatively's.
Posts(r) ==
  /\ At(r, "accepted") /\ ~Creates(r)
  /\ posted' = posted \cup {[of |-> run[r].of, seen |-> run[r].seen, payload |-> run[r].payload]}
  /\ run' = Ended(r, "posted")
  /\ UNCHANGED <<serverVars, pageVars, offline, sealed>>

(***************************************************************************)
(* The probe.                                                              *)
(***************************************************************************)

\* Interception is enabled, then the page taken offline.
Attaches(r) ==
  /\ At(r, "checked")
  /\ run' = [q \in Run |->
       IF q = r THEN [run[r] EXCEPT !.at = "attached",
                                    !.alone = \A p \in Run \ {r} : ~Attached(p)]
       ELSE [run[q] EXCEPT !.alone = @ /\ ~Attached(q)]]
  /\ offline' = TRUE
  /\ UNCHANGED <<serverVars, pageVars, proofVars>>

Mutant_Clones(r) ==
  /\ At(r, "attached")
  /\ run' = [run EXCEPT ![r] = [@ EXCEPT !.at = "rendering", !.live = page.model,
                                         !.editor = page.editor, !.settings = page.settings]]
  /\ UNCHANGED <<serverVars, pageVars, offline, proofVars>>

\* The synchronous part of the expression: a dirty draft throws; the editor's
\* HTML, the model's JSON and the clone are taken at one moment.
Clones(r) ==
  /\ At(r, "attached")
  /\ ~page.dirty
  /\ run' = [run EXCEPT ![r] = [@ EXCEPT !.at = "rendering", !.live = page.model,
                                         !.editor = page.editor, !.settings = page.settings]]
  /\ UNCHANGED <<serverVars, pageVars, offline, proofVars>>

\* getDraftHtmlBody of the clone, with the settings as they were or are now; the
\* signature is read for the record once it has returned.
Renders(r) ==
  /\ At(r, "rendering")
  /\ \E s \in {run[r].settings, page.settings} :
       run' = [run EXCEPT ![r] =
         [@ EXCEPT !.at = "rendered", !.settings = page.settings,
                   !.payload = [body |-> run[r].editor, settings |-> s]]]
  /\ UNCHANGED <<serverVars, pageVars, offline, proofVars>>

Mutant_Overlay(payload) == IF page.overlay = Nothing THEN payload ELSE page.overlay

\* The overlay replaces any that is there.
Overlay(payload) == payload

Shows(r) ==
  /\ At(r, "rendered")
  /\ page' = [page EXCEPT !.overlay = Overlay(run[r].payload)]
  /\ run' = [run EXCEPT ![r].at = "shown"]
  /\ UNCHANGED <<serverVars, saving, typed, offline, proofVars>>

\* outgoing.png: what lies on the page, Nothing for the bare page.
Pictures(r) ==
  /\ At(r, "shown")
  /\ run' = [run EXCEPT ![r].at = "pictured", ![r].shot = page.overlay]
  /\ UNCHANGED <<serverVars, pageVars, offline, proofVars>>

\* The overlay goes, the page is online again and still intercepted for 100 ms.
Restores(r) ==
  /\ At(r, "pictured")
  /\ page' = [page EXCEPT !.overlay = Nothing]
  /\ offline' = FALSE
  /\ run' = [run EXCEPT ![r].at = "restored"]
  /\ UNCHANGED <<serverVars, saving, typed, proofVars>>

\* Interception is disabled and the result written.
Detaches(r) ==
  /\ At(r, "restored")
  /\ run' = [run EXCEPT ![r].at = "detached"]
  /\ UNCHANGED <<serverVars, pageVars, offline, proofVars>>

Mutant_Fails(r) ==
  /\ run[r].at \notin {"idle", "accepted", "posted", "failed"}
  /\ run' = Ended(r, "failed")
  /\ UNCHANGED <<serverVars, pageVars, offline, proofVars>>

\* A run throws, is refused by a comparison or is killed after 60 s.  The finally
\* block, or the browser, puts the page online; the overlay stays.
Fails(r) ==
  /\ run[r].at \notin {"idle", "accepted", "posted", "failed"}
  /\ offline' = (offline /\ ~Attached(r))
  /\ run' = Ended(r, "failed")
  /\ UNCHANGED <<serverVars, pageVars, proofVars>>

(***************************************************************************)
(* The owner, the app and the other clients.                               *)
(***************************************************************************)

Types(c) ==
  /\ typed < MaxTyped
  /\ typed' = typed + 1
  /\ page' = [page EXCEPT !.editor = c, !.dirty = TRUE]
  /\ UNCHANGED <<serverVars, saving, offline, run, proofVars>>

\* The app saves; the model is clean as soon as the request is on its way.
Saves ==
  /\ page.dirty /\ saving = Nothing
  /\ ~offline /\ \A r \in Run : ~Attached(r)
  /\ page' = [page EXCEPT !.model = page.editor, !.dirty = FALSE]
  /\ saving' = page.editor
  /\ UNCHANGED <<serverVars, typed, offline, run, proofVars>>

\* requestDisposition fails the save of an intercepted page; every client that
\* intercepts has the event among its network_events.
SaveBlocked ==
  /\ page.dirty
  /\ \E r \in Run : Attached(r) /\ ~run[r].wrote
  /\ run' = [r \in Run |-> [run[r] EXCEPT !.wrote = @ \/ Attached(r)]]
  /\ UNCHANGED <<serverVars, pageVars, offline, proofVars>>

SaveLands ==
  /\ saving # Nothing
  /\ Current < MaxVersions
  /\ versions' = Append(versions, saving)
  /\ saving' = Nothing
  /\ UNCHANGED <<active, page, typed, offline, run, proofVars>>

\* An app with nothing to save takes over what the server holds.
Refreshes ==
  /\ ~page.dirty /\ saving = Nothing /\ ~offline
  /\ page.model # versions[Current]
  /\ page' = [page EXCEPT !.model = versions[Current], !.editor = versions[Current]]
  /\ UNCHANGED <<serverVars, saving, typed, offline, run, proofVars>>

\* Another client writes the draft, or moves the history with the same content.
WrittenElsewhere(c) ==
  /\ Current < MaxVersions
  /\ versions' = Append(versions, c)
  /\ UNCHANGED <<active, pageVars, offline, run, proofVars>>

SentNatively ==
  /\ active
  /\ active' = FALSE
  /\ UNCHANGED <<versions, pageVars, offline, run, proofVars>>

SettingsChange(s) ==
  /\ s # page.settings
  /\ page' = [page EXCEPT !.settings = s]
  /\ UNCHANGED <<serverVars, saving, typed, offline, run, proofVars>>

Probe(r) ==
  \/ Attaches(r) \/ Clones(r) \/ Renders(r) \/ Shows(r)
  \/ Pictures(r) \/ Restores(r) \/ Detaches(r)

Call(r) ==
  \/ CreateStarts(r)
  \/ \E q \in Run : RevalidateStarts(r, q)
  \/ Seals(r) \/ Revalidates(r) \/ Posts(r) \/ Fails(r)

World ==
  \/ \E c \in Content : Types(c) \/ WrittenElsewhere(c)
  \/ \E s \in Setting : SettingsChange(s)
  \/ Saves \/ SaveBlocked \/ SaveLands \/ Refreshes \/ SentNatively

Next == World \/ \E r \in Run : Call(r) \/ Probe(r)

Spec == Init /\ [][Next]_vars

(***************************************************************************)
(* Properties.                                                             *)
(***************************************************************************)

\* What a sealed record would send is, as source, editor HTML and payload, the
\* content the server stored at the history it names: never unsaved text of the
\* editor, never a page behind or ahead of the server.
SealedIsSaved ==
  \A q \in Run : sealed[q] # Nothing =>
    /\ sealed[q].history \in 1..Current
    /\ LET stored == versions[sealed[q].history]
       IN  sealed[q].source = stored /\ sealed[q].editor = stored /\ sealed[q].payload.body = stored

\* What is posted is the payload of the record, and from the sealing to the second
\* look of the sender the draft was not written at all, not even to and fro.
PostedAsSealed ==
  \A p \in posted :
    /\ sealed[p.of] # Nothing
    /\ p.payload = sealed[p.of].payload
    /\ p.seen = sealed[p.of].history

\* The outgoing picture an approver is shown is that of the sealed payload, also
\* when a dead probe has left its overlay, if no other probe was on the page.
OutgoingShown ==
  \A q \in Run : sealed[q] # Nothing /\ sealed[q].alone => sealed[q].shot = sealed[q].payload
=============================================================================
