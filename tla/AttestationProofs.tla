------------------------- MODULE AttestationProofs -------------------------
(***************************************************************************)
(* Proofs about Attestation for any number of runs, contents, settings,    *)
(* versions and edits: type correctness (which says that the owner is left *)
(* offline by nobody), that only stored content is sealed, that only the   *)
(* sealed payload is posted, and that the picture is of the payload.       *)
(***************************************************************************)
EXTENDS Attestation, TLAPS

(***************************************************************************)
(* The inductive invariant.                                                *)
(***************************************************************************)

\* The steps at which a run has looked at the page, and has rendered.
Cloned == {"rendering", "rendered", "shown", "pictured", "restored", "detached"}
Rendered == Cloned \ {"rendering"}
Begun == {"checked", "attached"} \cup Cloned

\* A page without unsaved text shows what its model holds.
CleanIsSaved == ~page.dirty => page.editor = page.model

\* A run looked at a stored version; what it took from the page is of one piece;
\* one that revalidates has a record to compare with.
RunIsWhole(r) ==
  /\ run[r].at \in Begun => run[r].of \in Run /\ run[r].seen \in 1..Current
  /\ run[r].at \in Begun /\ run[r].of # r => sealed[run[r].of] # Nothing
  /\ run[r].at \in Cloned =>
       run[r].live \in Content /\ run[r].settings \in Setting /\ run[r].editor = run[r].live
  /\ run[r].at \in Rendered => run[r].payload \in Payload /\ run[r].payload.body = run[r].editor

\* A run seals once and for all, and what another run has accepted is the record.
SealIsFinal(r) ==
  /\ sealed[r] # Nothing => run[r].at = "accepted" /\ run[r].of = r
  /\ run[r].at = "accepted" /\ run[r].of # r =>
       /\ run[r].of \in Run
       /\ sealed[run[r].of] # Nothing
       /\ run[r].payload = sealed[run[r].of].payload
       /\ run[r].seen = sealed[run[r].of].history

\* A probe alone on the page is not joined unnoticed, and finds its own overlay.
PictureFits(r) ==
  run[r].alone =>
    /\ Attached(r) => \A p \in Run \ {r} : ~Attached(p)
    /\ run[r].at = "shown" => page.overlay = run[r].payload
    /\ run[r].at \in {"pictured", "restored", "detached"} => run[r].shot = run[r].payload

\* Who has taken the page offline has yet to put it back.
OfflineIsHeld == offline => \E r \in Run : Attached(r) /\ run[r].at # "restored"

Steady ==
  /\ CleanIsSaved
  /\ \A r \in Run : RunIsWhole(r)
  /\ \A r \in Run : SealIsFinal(r)
  /\ \A r \in Run : PictureFits(r)
  /\ OfflineIsHeld

IInv == TypeOK /\ Steady /\ SealedIsSaved /\ PostedAsSealed /\ OutgoingShown

Page == [model : Content, editor : Content, dirty : BOOLEAN,
         settings : Setting, overlay : Payload \cup {Nothing}]

\* Initially nothing is attached, unsaved, sealed or posted.
LEMMA InitIInv == AttestationAssumption /\ Init => IInv
  <1> SUFFICES ASSUME AttestationAssumption, Init PROVE IInv
    OBVIOUS
  <1> USE DEF AttestationAssumption, Init, Run0
  <1>1. PICK c \in Content, s \in Setting :
          /\ versions = <<c>>
          /\ page = [model |-> c, editor |-> c, dirty |-> FALSE, settings |-> s, overlay |-> Nothing]
    OBVIOUS
  <1>2. versions \in Seq(Content) /\ Len(versions) \in History
    BY <1>1 DEF History
  <1>3. run \in [Run -> RunState]
    BY DEF RunState, Step
  <1>4. Typed
    <2>1. /\ sealed \in [Run -> Record \cup {Nothing}]
          /\ posted \subseteq [of : Run, seen : History, payload : Payload]
      OBVIOUS
    <2>2. page \in [model : Content, editor : Content, dirty : BOOLEAN,
                   settings : Setting, overlay : Payload \cup {Nothing}]
      BY <1>1
    <2>3. active \in BOOLEAN /\ saving \in Content \cup {Nothing} /\ offline \in BOOLEAN
      OBVIOUS
    <2>4. typed \in 0..MaxTyped
      OBVIOUS
    <2>5. QED
      BY <1>2, <1>3, <2>1, <2>2, <2>3, <2>4 DEF Typed
  <1>5. Steady
    BY <1>1 DEF Steady, CleanIsSaved, RunIsWhole, SealIsFinal, PictureFits,
       OfflineIsHeld, Begun, Cloned, Rendered, Attached, Intercepting
  <1>6. SealedIsSaved /\ PostedAsSealed /\ OutgoingShown
    BY DEF SealedIsSaved, PostedAsSealed, OutgoingShown
  <1>7. QED
    BY <1>4, <1>5, <1>6 DEF IInv, TypeOK

\* What the page, the app and the other clients do: the runs and what they sealed
\* and posted stay, stored versions stay where they are, the overlay stays.
LEMMA WorldKeeps ==
  ASSUME IInv, Typed', CleanIsSaved', UNCHANGED <<offline, run, proofVars>>,
         page'.overlay = page.overlay,
         \A i \in 1..Current : i \in 1..Current' /\ versions'[i] = versions[i]
  PROVE  IInv'
  <1> USE DEF IInv, Steady, proofVars
  <1>1. Steady'
    <2>1. ASSUME NEW x \in Run PROVE RunIsWhole(x)'
      BY DEF RunIsWhole
    <2>2. ASSUME NEW x \in Run PROVE SealIsFinal(x)'
      BY DEF SealIsFinal
    <2>3. ASSUME NEW x \in Run PROVE PictureFits(x)'
      BY DEF PictureFits, Attached
    <2>4. OfflineIsHeld'
      BY DEF OfflineIsHeld, Attached
    <2>5. QED
      BY <2>1, <2>2, <2>3, <2>4
  <1>2. SealedIsSaved'
    BY DEF SealedIsSaved
  <1>3. PostedAsSealed' /\ OutgoingShown'
    BY DEF PostedAsSealed, OutgoingShown
  <1>4. TypeOK'
    BY <1>1 DEF TypeOK, OfflineIsHeld
  <1>5. QED
    BY <1>1, <1>2, <1>3, <1>4

\* A step of one run that has sealed nothing: what is particular to it is its own
\* state, its overlay and whether the page is offline.
LEMMA RunKeeps ==
  ASSUME IInv, NEW r \in Run, NEW new \in RunState, run' = [run EXCEPT ![r] = new],
         UNCHANGED <<serverVars, saving, typed, proofVars>>, sealed[r] = Nothing,
         page' \in Page, CleanIsSaved', page'.overlay = page.overlay \/ Attached(r),
         offline' \in BOOLEAN, OfflineIsHeld',
         new.at \in Intercepting => Attached(r),
         RunIsWhole(r)', SealIsFinal(r)', PictureFits(r)'
  PROVE  IInv'
  <1> USE DEF IInv, Steady, proofVars, serverVars
  <1>1. /\ run' \in [Run -> RunState]
        /\ run'[r] = new
        /\ \A q \in Run \ {r} : run'[q] = run[q]
        /\ versions' = versions /\ sealed' = sealed /\ posted' = posted
    BY DEF TypeOK, Typed
  <1>2. Typed'
    BY <1>1 DEF TypeOK, Typed, Page
  <1>3. ASSUME NEW x \in Run, x # r PROVE RunIsWhole(x)'
    BY <1>1, <1>3 DEF RunIsWhole, Current
  <1>4. ASSUME NEW x \in Run, x # r PROVE SealIsFinal(x)'
    BY <1>1, <1>4 DEF SealIsFinal
  <1>5. ASSUME NEW x \in Run, x # r PROVE PictureFits(x)'
    <2>1. \A q \in Run : Attached(q)' => Attached(q)
      BY <1>1 DEF Attached
    <2>2. CASE page'.overlay = page.overlay
      BY <1>1, <1>5, <2>1, <2>2 DEF PictureFits, Attached
    <2>3. CASE Attached(r)
      BY <1>1, <1>5, <2>1, <2>3 DEF PictureFits, Attached, Intercepting
    <2>4. QED
      BY <2>2, <2>3
  <1>6. Steady'
    BY <1>3, <1>4, <1>5
  <1>7. SealedIsSaved' /\ PostedAsSealed' /\ OutgoingShown'
    BY <1>1 DEF SealedIsSaved, PostedAsSealed, OutgoingShown, Current
  <1>8. TypeOK'
    BY <1>2, <1>6 DEF TypeOK, OfflineIsHeld
  <1>9. QED
    BY <1>6, <1>7, <1>8

\* The owner types: the page is dirty, so nothing is claimed of its editor.
LEMMA TypesIInv ==
  ASSUME AttestationAssumption, IInv, NEW c \in Content, Types(c)
  PROVE  IInv'
  <1> USE DEF Types, serverVars, pageVars, proofVars
  <1>1. TypeOK /\ CleanIsSaved
    BY DEF IInv, Steady
  <1>2. page' \in Page /\ page'.overlay = page.overlay
    BY <1>1 DEF TypeOK, Typed, Page
  <1>3. Typed'
    BY <1>1, <1>2 DEF TypeOK, Typed, Page
  <1>4. CleanIsSaved'
    BY <1>1 DEF CleanIsSaved, TypeOK, Typed
  <1>5. \A i \in 1..Current : i \in 1..Current' /\ versions'[i] = versions[i]
    BY <1>1 DEF TypeOK, Typed, Current
  <1>6. UNCHANGED <<offline, run, proofVars>>
    OBVIOUS
  <1>7. QED
    BY <1>2, <1>3, <1>4, <1>5, <1>6, WorldKeeps

\* Another client appends a version; those before it stay.
LEMMA WrittenElsewhereIInv ==
  ASSUME AttestationAssumption, IInv, NEW c \in Content, WrittenElsewhere(c)
  PROVE  IInv'
  <1> USE DEF WrittenElsewhere, serverVars, pageVars, proofVars
  <1>1. TypeOK /\ CleanIsSaved
    BY DEF IInv, Steady
  <1>2. page' \in Page /\ page'.overlay = page.overlay
    BY <1>1 DEF TypeOK, Typed, Page
  <1>3. Typed'
    BY <1>1, <1>2 DEF TypeOK, Typed, Current, History
  <1>4. CleanIsSaved'
    BY <1>1 DEF CleanIsSaved, TypeOK, Typed
  <1>5. \A i \in 1..Current : i \in 1..Current' /\ versions'[i] = versions[i]
    BY <1>1 DEF TypeOK, Typed, Current
  <1>6. UNCHANGED <<offline, run, proofVars>>
    OBVIOUS
  <1>7. QED
    BY <1>2, <1>3, <1>4, <1>5, <1>6, WorldKeeps

\* The signature settings change under a rendering.
LEMMA SettingsChangeIInv ==
  ASSUME AttestationAssumption, IInv, NEW s \in Setting, SettingsChange(s)
  PROVE  IInv'
  <1> USE DEF SettingsChange, serverVars, pageVars, proofVars
  <1>1. TypeOK /\ CleanIsSaved
    BY DEF IInv, Steady
  <1>2. page' \in Page /\ page'.overlay = page.overlay
    BY <1>1 DEF TypeOK, Typed, Page
  <1>3. Typed'
    BY <1>1, <1>2 DEF TypeOK, Typed
  <1>4. CleanIsSaved'
    BY <1>1 DEF CleanIsSaved, TypeOK, Typed
  <1>5. \A i \in 1..Current : i \in 1..Current' /\ versions'[i] = versions[i]
    BY <1>1 DEF TypeOK, Typed, Current
  <1>6. UNCHANGED <<offline, run, proofVars>>
    OBVIOUS
  <1>7. QED
    BY <1>2, <1>3, <1>4, <1>5, <1>6, WorldKeeps

\* The app saves: what the editor holds becomes the model.
LEMMA SavesIInv ==
  ASSUME AttestationAssumption, IInv, Saves
  PROVE  IInv'
  <1> USE DEF Saves, serverVars, pageVars, proofVars
  <1>1. TypeOK /\ CleanIsSaved
    BY DEF IInv, Steady
  <1>2. page' \in Page /\ page'.overlay = page.overlay
    BY <1>1 DEF TypeOK, Typed, Page
  <1>3. Typed'
    BY <1>1, <1>2 DEF TypeOK, Typed
  <1>4. CleanIsSaved'
    BY <1>1 DEF CleanIsSaved, TypeOK, Typed
  <1>5. \A i \in 1..Current : i \in 1..Current' /\ versions'[i] = versions[i]
    BY <1>1 DEF TypeOK, Typed, Current
  <1>6. UNCHANGED <<offline, run, proofVars>>
    OBVIOUS
  <1>7. QED
    BY <1>2, <1>3, <1>4, <1>5, <1>6, WorldKeeps

\* A save appends a version; those before it stay.
LEMMA SaveLandsIInv ==
  ASSUME AttestationAssumption, IInv, SaveLands
  PROVE  IInv'
  <1> USE DEF SaveLands, serverVars, pageVars, proofVars
  <1>1. TypeOK /\ CleanIsSaved
    BY DEF IInv, Steady
  <1>2. page' \in Page /\ page'.overlay = page.overlay
    BY <1>1 DEF TypeOK, Typed, Page
  <1>3. Typed'
    BY <1>1, <1>2 DEF TypeOK, Typed, Current, History
  <1>4. CleanIsSaved'
    BY <1>1 DEF CleanIsSaved, TypeOK, Typed
  <1>5. \A i \in 1..Current : i \in 1..Current' /\ versions'[i] = versions[i]
    BY <1>1 DEF TypeOK, Typed, Current
  <1>6. UNCHANGED <<offline, run, proofVars>>
    OBVIOUS
  <1>7. QED
    BY <1>2, <1>3, <1>4, <1>5, <1>6, WorldKeeps

\* The app takes over a stored version, in model and editor alike.
LEMMA RefreshesIInv ==
  ASSUME AttestationAssumption, IInv, Refreshes
  PROVE  IInv'
  <1> USE DEF Refreshes, serverVars, pageVars, proofVars
  <1>1. TypeOK /\ CleanIsSaved
    BY DEF IInv, Steady
  <1>2. page' \in Page /\ page'.overlay = page.overlay
    <2>1. Current \in 1..Len(versions) /\ versions \in Seq(Content)
      BY <1>1 DEF TypeOK, Typed, Current, History
    <2>2. versions[Current] \in Content
      BY <2>1
    <2>3. QED
      BY <1>1, <2>2 DEF TypeOK, Typed, Page
  <1>3. Typed'
    BY <1>1, <1>2 DEF TypeOK, Typed, Page
  <1>4. CleanIsSaved'
    BY <1>1 DEF CleanIsSaved, TypeOK, Typed
  <1>5. \A i \in 1..Current : i \in 1..Current' /\ versions'[i] = versions[i]
    BY <1>1 DEF TypeOK, Typed, Current
  <1>6. UNCHANGED <<offline, run, proofVars>>
    OBVIOUS
  <1>7. QED
    BY <1>2, <1>3, <1>4, <1>5, <1>6, WorldKeeps

\* The draft is sent elsewhere: its versions stay.
LEMMA SentNativelyIInv ==
  ASSUME AttestationAssumption, IInv, SentNatively
  PROVE  IInv'
  <1> USE DEF SentNatively, serverVars, pageVars, proofVars
  <1>1. TypeOK /\ CleanIsSaved
    BY DEF IInv, Steady
  <1>2. page' \in Page /\ page'.overlay = page.overlay
    BY <1>1 DEF TypeOK, Typed, Page
  <1>3. Typed'
    BY <1>1, <1>2 DEF TypeOK, Typed
  <1>4. CleanIsSaved'
    BY <1>1 DEF CleanIsSaved, TypeOK, Typed
  <1>5. \A i \in 1..Current : i \in 1..Current' /\ versions'[i] = versions[i]
    BY <1>1 DEF TypeOK, Typed, Current
  <1>6. UNCHANGED <<offline, run, proofVars>>
    OBVIOUS
  <1>7. QED
    BY <1>2, <1>3, <1>4, <1>5, <1>6, WorldKeeps

\* Preflight A of a creation names the current version.
LEMMA CreateStartsIInv ==
  ASSUME AttestationAssumption, IInv, NEW r \in Run, CreateStarts(r)
  PROVE  IInv'
  <1> DEFINE new == [Run0 EXCEPT !.at = "checked", !.of = r, !.seen = Current]
  <1> USE DEF CreateStarts, At, serverVars, pageVars, proofVars, Run0
  <1>1. /\ Typed /\ CleanIsSaved /\ OfflineIsHeld
        /\ RunIsWhole(r) /\ SealIsFinal(r) /\ PictureFits(r)
        /\ sealed[r] = Nothing
    BY DEF IInv, TypeOK, Steady, SealIsFinal
  <1>2. new \in RunState
    <2>1. Current \in History
      BY <1>1 DEF Typed, Current
    <2>2. QED
      BY <2>1 DEF RunState, Step
  <1>3. run' = [run EXCEPT ![r] = new]
    OBVIOUS
  <1>4. run'[r] = new
    BY <1>1, <1>3 DEF Typed
  <1>5. page' \in Page /\ CleanIsSaved'
    BY <1>1 DEF Typed, Page, CleanIsSaved
  <1>6. page'.overlay = page.overlay \/ Attached(r)
    BY <1>1 DEF Attached, Intercepting, Typed
  <1>7. new.at \in Intercepting => Attached(r)
    BY <1>1 DEF Typed, Attached, Intercepting, RunState
  <1>8. RunIsWhole(r)'
    BY <1>1, <1>4 DEF Typed, RunIsWhole, Cloned, Rendered, Current, History
  <1>9. SealIsFinal(r)'
    BY <1>1, <1>4 DEF SealIsFinal
  <1>10. PictureFits(r)'
    BY <1>1, <1>3, <1>4 DEF PictureFits, Attached, Intercepting
  <1>11. offline' \in BOOLEAN /\ OfflineIsHeld'
    BY <1>1, <1>3, <1>4 DEF Typed, OfflineIsHeld, Attached, Intercepting
  <1>12. QED
    <2> HIDE DEF new
    <2>1. UNCHANGED <<serverVars, saving, typed, proofVars>>
      OBVIOUS
    <2>2. QED
      BY <1>1, <1>2, <1>3, <1>5, <1>6, <1>7, <1>8, <1>9, <1>10, <1>11, <2>1, RunKeeps

\* Preflight A of a revalidation has a record to compare with.
LEMMA RevalidateStartsIInv ==
  ASSUME AttestationAssumption, IInv, NEW r \in Run, NEW q \in Run, RevalidateStarts(r, q)
  PROVE  IInv'
  <1> DEFINE new == [Run0 EXCEPT !.at = "checked", !.of = q, !.seen = Current]
  <1> USE DEF RevalidateStarts, At, serverVars, pageVars, proofVars, Run0
  <1>1. /\ Typed /\ CleanIsSaved /\ OfflineIsHeld
        /\ RunIsWhole(r) /\ SealIsFinal(r) /\ PictureFits(r)
        /\ sealed[r] = Nothing
    BY DEF IInv, TypeOK, Steady, SealIsFinal
  <1>2. new \in RunState
    <2>1. Current \in History
      BY <1>1 DEF Typed, Current
    <2>2. QED
      BY <2>1 DEF RunState, Step
  <1>3. run' = [run EXCEPT ![r] = new]
    OBVIOUS
  <1>4. run'[r] = new
    BY <1>1, <1>3 DEF Typed
  <1>5. page' \in Page /\ CleanIsSaved'
    BY <1>1 DEF Typed, Page, CleanIsSaved
  <1>6. page'.overlay = page.overlay \/ Attached(r)
    BY <1>1 DEF Attached, Intercepting, Typed
  <1>7. new.at \in Intercepting => Attached(r)
    BY <1>1 DEF Typed, Attached, Intercepting, RunState
  <1>8. RunIsWhole(r)'
    BY <1>1, <1>4 DEF Typed, RunIsWhole, Cloned, Rendered, Current, History
  <1>9. SealIsFinal(r)'
    BY <1>1, <1>4 DEF SealIsFinal
  <1>10. PictureFits(r)'
    BY <1>1, <1>3, <1>4 DEF PictureFits, Attached, Intercepting
  <1>11. offline' \in BOOLEAN /\ OfflineIsHeld'
    BY <1>1, <1>3, <1>4 DEF Typed, OfflineIsHeld, Attached, Intercepting
  <1>12. QED
    <2> HIDE DEF new
    <2>1. UNCHANGED <<serverVars, saving, typed, proofVars>>
      OBVIOUS
    <2>2. QED
      BY <1>1, <1>2, <1>3, <1>5, <1>6, <1>7, <1>8, <1>9, <1>10, <1>11, <2>1, RunKeeps

\* Only a clean page is cloned, so the editor holds what the model does.
LEMMA ClonesIInv ==
  ASSUME AttestationAssumption, IInv, NEW r \in Run, Clones(r)
  PROVE  IInv'
  <1> DEFINE new == [run[r] EXCEPT !.at = "rendering", !.live = page.model,
                                 !.editor = page.editor, !.settings = page.settings]
  <1> USE DEF Clones, At, serverVars, pageVars, proofVars
  <1>1. /\ Typed /\ CleanIsSaved /\ OfflineIsHeld
        /\ RunIsWhole(r) /\ SealIsFinal(r) /\ PictureFits(r)
        /\ sealed[r] = Nothing
    BY DEF IInv, TypeOK, Steady, SealIsFinal
  <1>2. new \in RunState
    <2>1. run[r] \in RunState
      BY <1>1 DEF Typed
    <2>2. page \in Page
      BY <1>1 DEF Typed, Page
    <2>3. QED
      BY <2>1, <2>2 DEF RunState, Step, Page
  <1>3. run' = [run EXCEPT ![r] = new]
    OBVIOUS
  <1>4. run'[r] = new
    BY <1>1, <1>3 DEF Typed
  <1>5. page' \in Page /\ CleanIsSaved'
    BY <1>1 DEF Typed, Page, CleanIsSaved
  <1>6. page'.overlay = page.overlay \/ Attached(r)
    BY <1>1 DEF Attached, Intercepting, Typed
  <1>7. new.at \in Intercepting => Attached(r)
    BY <1>1 DEF Typed, Attached, Intercepting, RunState
  <1>8. RunIsWhole(r)'
    BY <1>1, <1>4 DEF Typed, RunIsWhole, Begun, Rendered, CleanIsSaved, Current
  <1>9. SealIsFinal(r)'
    BY <1>1, <1>4 DEF SealIsFinal
  <1>10. PictureFits(r)'
    BY <1>1, <1>3, <1>4 DEF PictureFits, Attached, Intercepting
  <1>11. offline' \in BOOLEAN /\ OfflineIsHeld'
    BY <1>1, <1>3, <1>4 DEF Typed, OfflineIsHeld, Attached, Intercepting
  <1>12. QED
    <2> HIDE DEF new
    <2>1. UNCHANGED <<serverVars, saving, typed, proofVars>>
      OBVIOUS
    <2>2. QED
      BY <1>1, <1>2, <1>3, <1>5, <1>6, <1>7, <1>8, <1>9, <1>10, <1>11, <2>1, RunKeeps

\* The overlay shown is that of the own payload, whatever was there.
LEMMA ShowsIInv ==
  ASSUME AttestationAssumption, IInv, NEW r \in Run, Shows(r)
  PROVE  IInv'
  <1> DEFINE new == [run[r] EXCEPT !.at = "shown"]
  <1> USE DEF Shows, At, serverVars, pageVars, proofVars, Overlay
  <1>1. /\ Typed /\ CleanIsSaved /\ OfflineIsHeld
        /\ RunIsWhole(r) /\ SealIsFinal(r) /\ PictureFits(r)
        /\ sealed[r] = Nothing
    BY DEF IInv, TypeOK, Steady, SealIsFinal
  <1>2. new \in RunState
    <2>1. run[r] \in RunState
      BY <1>1 DEF Typed
    <2>2. page \in Page
      BY <1>1 DEF Typed, Page
    <2>3. QED
      BY <2>1, <2>2 DEF RunState, Step, Page
  <1>3. run' = [run EXCEPT ![r] = new]
    OBVIOUS
  <1>4. run'[r] = new
    BY <1>1, <1>3 DEF Typed
  <1>5. page' \in Page /\ CleanIsSaved'
    BY <1>1 DEF Typed, Page, CleanIsSaved, RunIsWhole, Rendered, Cloned
  <1>6. page'.overlay = page.overlay \/ Attached(r)
    BY <1>1 DEF Attached, Intercepting, Typed
  <1>7. new.at \in Intercepting => Attached(r)
    BY <1>1 DEF Typed, Attached, Intercepting, RunState
  <1>8. RunIsWhole(r)'
    BY <1>1, <1>4 DEF RunIsWhole, Begun, Cloned, Rendered, Current
  <1>9. SealIsFinal(r)'
    BY <1>1, <1>4 DEF SealIsFinal
  <1>10. PictureFits(r)'
    BY <1>1, <1>3, <1>4 DEF PictureFits, Attached, Intercepting
  <1>11. offline' \in BOOLEAN /\ OfflineIsHeld'
    BY <1>1, <1>3, <1>4 DEF Typed, OfflineIsHeld, Attached, Intercepting
  <1>12. QED
    <2> HIDE DEF new
    <2>1. UNCHANGED <<serverVars, saving, typed, proofVars>>
      OBVIOUS
    <2>2. QED
      BY <1>1, <1>2, <1>3, <1>5, <1>6, <1>7, <1>8, <1>9, <1>10, <1>11, <2>1, RunKeeps

\* A probe alone on the page pictures its own overlay.
LEMMA PicturesIInv ==
  ASSUME AttestationAssumption, IInv, NEW r \in Run, Pictures(r)
  PROVE  IInv'
  <1> DEFINE new == [run[r] EXCEPT !.at = "pictured", !.shot = page.overlay]
  <1> USE DEF Pictures, At, serverVars, pageVars, proofVars
  <1>1. /\ Typed /\ CleanIsSaved /\ OfflineIsHeld
        /\ RunIsWhole(r) /\ SealIsFinal(r) /\ PictureFits(r)
        /\ sealed[r] = Nothing
    BY DEF IInv, TypeOK, Steady, SealIsFinal
  <1>2. new \in RunState
    <2>1. run[r] \in RunState
      BY <1>1 DEF Typed
    <2>2. page \in Page
      BY <1>1 DEF Typed, Page
    <2>3. QED
      BY <2>1, <2>2 DEF RunState, Step, Page
  <1>3. run' = [run EXCEPT ![r] = new]
    OBVIOUS
  <1>4. run'[r] = new
    BY <1>1, <1>3 DEF Typed
  <1>5. page' \in Page /\ CleanIsSaved'
    BY <1>1 DEF Typed, Page, CleanIsSaved
  <1>6. page'.overlay = page.overlay \/ Attached(r)
    BY <1>1 DEF Attached, Intercepting, Typed
  <1>7. new.at \in Intercepting => Attached(r)
    BY <1>1 DEF Typed, Attached, Intercepting, RunState
  <1>8. RunIsWhole(r)'
    BY <1>1, <1>4 DEF Typed, RunIsWhole, Begun, Cloned, Rendered, Current
  <1>9. SealIsFinal(r)'
    BY <1>1, <1>4 DEF SealIsFinal, Typed
  <1>10. PictureFits(r)'
    BY <1>1, <1>3, <1>4 DEF PictureFits, Attached, Intercepting, Typed
  <1>11. offline' \in BOOLEAN /\ OfflineIsHeld'
    BY <1>1, <1>3, <1>4 DEF Typed, OfflineIsHeld, Attached, Intercepting
  <1>12. QED
    <2> HIDE DEF new
    <2>1. UNCHANGED <<serverVars, saving, typed, proofVars>>
      OBVIOUS
    <2>2. QED
      BY <1>1, <1>2, <1>3, <1>5, <1>6, <1>7, <1>8, <1>9, <1>10, <1>11, <2>1, RunKeeps

\* The overlay goes, and only that of a probe that was joined is missed.
LEMMA RestoresIInv ==
  ASSUME AttestationAssumption, IInv, NEW r \in Run, Restores(r)
  PROVE  IInv'
  <1> DEFINE new == [run[r] EXCEPT !.at = "restored"]
  <1> USE DEF Restores, At, serverVars, pageVars, proofVars
  <1>1. /\ Typed /\ CleanIsSaved /\ OfflineIsHeld
        /\ RunIsWhole(r) /\ SealIsFinal(r) /\ PictureFits(r)
        /\ sealed[r] = Nothing
    BY DEF IInv, TypeOK, Steady, SealIsFinal
  <1>2. new \in RunState
    <2>1. run[r] \in RunState
      BY <1>1 DEF Typed
    <2>2. QED
      BY <2>1 DEF RunState, Step
  <1>3. run' = [run EXCEPT ![r] = new]
    OBVIOUS
  <1>4. run'[r] = new
    BY <1>1, <1>3 DEF Typed
  <1>5. page' \in Page /\ CleanIsSaved'
    BY <1>1 DEF Typed, Page, CleanIsSaved
  <1>6. page'.overlay = page.overlay \/ Attached(r)
    BY <1>1 DEF Attached, Intercepting, Typed
  <1>7. new.at \in Intercepting => Attached(r)
    BY <1>1 DEF Typed, Attached, Intercepting, RunState
  <1>8. RunIsWhole(r)'
    BY <1>1, <1>4 DEF RunIsWhole, Begun, Cloned, Rendered, Current
  <1>9. SealIsFinal(r)'
    BY <1>1, <1>4 DEF SealIsFinal
  <1>10. PictureFits(r)'
    BY <1>1, <1>3, <1>4 DEF PictureFits, Attached, Intercepting
  <1>11. offline' \in BOOLEAN /\ OfflineIsHeld'
    BY <1>1, <1>3, <1>4 DEF OfflineIsHeld
  <1>12. QED
    <2> HIDE DEF new
    <2>1. UNCHANGED <<serverVars, saving, typed, proofVars>>
      OBVIOUS
    <2>2. QED
      BY <1>1, <1>2, <1>3, <1>5, <1>6, <1>7, <1>8, <1>9, <1>10, <1>11, <2>1, RunKeeps

\* The page was put online before the probe lets it go.
LEMMA DetachesIInv ==
  ASSUME AttestationAssumption, IInv, NEW r \in Run, Detaches(r)
  PROVE  IInv'
  <1> DEFINE new == [run[r] EXCEPT !.at = "detached"]
  <1> USE DEF Detaches, At, serverVars, pageVars, proofVars
  <1>1. /\ Typed /\ CleanIsSaved /\ OfflineIsHeld
        /\ RunIsWhole(r) /\ SealIsFinal(r) /\ PictureFits(r)
        /\ sealed[r] = Nothing
    BY DEF IInv, TypeOK, Steady, SealIsFinal
  <1>2. new \in RunState
    <2>1. run[r] \in RunState
      BY <1>1 DEF Typed
    <2>2. QED
      BY <2>1 DEF RunState, Step
  <1>3. run' = [run EXCEPT ![r] = new]
    OBVIOUS
  <1>4. run'[r] = new
    BY <1>1, <1>3 DEF Typed
  <1>5. page' \in Page /\ CleanIsSaved'
    BY <1>1 DEF Typed, Page, CleanIsSaved
  <1>6. page'.overlay = page.overlay \/ Attached(r)
    BY <1>1 DEF Attached, Intercepting, Typed
  <1>7. new.at \in Intercepting => Attached(r)
    BY <1>1 DEF Typed, Attached, Intercepting, RunState
  <1>8. RunIsWhole(r)'
    BY <1>1, <1>4 DEF RunIsWhole, Begun, Cloned, Rendered, Current
  <1>9. SealIsFinal(r)'
    BY <1>1, <1>4 DEF SealIsFinal
  <1>10. PictureFits(r)'
    BY <1>1, <1>3, <1>4 DEF PictureFits, Attached, Intercepting
  <1>11. offline' \in BOOLEAN /\ OfflineIsHeld'
    BY <1>1, <1>3, <1>4 DEF Typed, OfflineIsHeld, Attached
  <1>12. QED
    <2> HIDE DEF new
    <2>1. UNCHANGED <<serverVars, saving, typed, proofVars>>
      OBVIOUS
    <2>2. QED
      BY <1>1, <1>2, <1>3, <1>5, <1>6, <1>7, <1>8, <1>9, <1>10, <1>11, <2>1, RunKeeps

\* A run that fails or dies leaves the page online.
LEMMA FailsIInv ==
  ASSUME AttestationAssumption, IInv, NEW r \in Run, Fails(r)
  PROVE  IInv'
  <1> DEFINE new == [Run0 EXCEPT !.at = "failed", !.of = run[r].of]
  <1> USE DEF Fails, At, serverVars, pageVars, proofVars, Run0, Ended
  <1>1. /\ Typed /\ CleanIsSaved /\ OfflineIsHeld
        /\ RunIsWhole(r) /\ SealIsFinal(r) /\ PictureFits(r)
        /\ sealed[r] = Nothing
    BY DEF IInv, TypeOK, Steady, SealIsFinal
  <1>2. new \in RunState
    <2>1. run[r].of \in Run \cup {Nothing} /\ run[r].payload \in Payload \cup {Nothing}
      BY <1>1 DEF Typed, RunState
    <2>2. Current \in History
      BY <1>1 DEF Typed, Current
    <2>3. QED
      BY <2>1, <2>2 DEF RunState, Step
  <1>3. run' = [run EXCEPT ![r] = new]
    OBVIOUS
  <1>4. run'[r] = new
    BY <1>1, <1>3 DEF Typed
  <1>5. page' \in Page /\ CleanIsSaved'
    BY <1>1 DEF Typed, Page, CleanIsSaved
  <1>6. page'.overlay = page.overlay \/ Attached(r)
    BY <1>1 DEF Attached, Intercepting, Typed
  <1>7. new.at \in Intercepting => Attached(r)
    BY <1>1 DEF Typed, Attached, Intercepting, RunState
  <1>8. RunIsWhole(r)'
    BY <1>1, <1>4 DEF Typed, RunIsWhole, Begun, Cloned, Rendered
  <1>9. SealIsFinal(r)'
    BY <1>1, <1>4 DEF SealIsFinal
  <1>10. PictureFits(r)'
    BY <1>1, <1>3, <1>4 DEF PictureFits, Attached, Intercepting
  <1>11. offline' \in BOOLEAN /\ OfflineIsHeld'
    BY <1>1, <1>3, <1>4 DEF Typed, OfflineIsHeld, Attached
  <1>12. QED
    <2> HIDE DEF new
    <2>1. UNCHANGED <<serverVars, saving, typed, proofVars>>
      OBVIOUS
    <2>2. QED
      BY <1>1, <1>2, <1>3, <1>5, <1>6, <1>7, <1>8, <1>9, <1>10, <1>11, <2>1, RunKeeps

\* What is accepted has the payload and the history of the record.
LEMMA RevalidatesIInv ==
  ASSUME AttestationAssumption, IInv, NEW r \in Run, Revalidates(r)
  PROVE  IInv'
  <1> DEFINE new == [Run0 EXCEPT !.at = "accepted", !.of = run[r].of,
                            !.seen = Current, !.payload = run[r].payload]
  <1> USE DEF Revalidates, At, serverVars, pageVars, proofVars, Run0, Creates, Settled, SameFingerprint
  <1>1. /\ Typed /\ CleanIsSaved /\ OfflineIsHeld
        /\ RunIsWhole(r) /\ SealIsFinal(r) /\ PictureFits(r)
        /\ sealed[r] = Nothing
    BY DEF IInv, TypeOK, Steady, SealIsFinal
  <1>2. new \in RunState
    <2>1. run[r].of \in Run \cup {Nothing} /\ run[r].payload \in Payload \cup {Nothing}
      BY <1>1 DEF Typed, RunState
    <2>2. Current \in History
      BY <1>1 DEF Typed, Current
    <2>3. QED
      BY <2>1, <2>2 DEF RunState, Step
  <1>3. run' = [run EXCEPT ![r] = new]
    OBVIOUS
  <1>4. run'[r] = new
    BY <1>1, <1>3 DEF Typed
  <1>5. page' \in Page /\ CleanIsSaved'
    BY <1>1 DEF Typed, Page, CleanIsSaved
  <1>6. page'.overlay = page.overlay \/ Attached(r)
    BY <1>1 DEF Attached, Intercepting, Typed
  <1>7. new.at \in Intercepting => Attached(r)
    BY <1>1 DEF Typed, Attached, Intercepting, RunState
  <1>8. RunIsWhole(r)'
    BY <1>1, <1>4 DEF Typed, RunIsWhole, Begun, Cloned, Rendered
  <1>9. SealIsFinal(r)'
    BY <1>1, <1>4 DEF SealIsFinal, RunIsWhole, Begun, Cloned
  <1>10. PictureFits(r)'
    BY <1>1, <1>3, <1>4 DEF PictureFits, Attached, Intercepting
  <1>11. offline' \in BOOLEAN /\ OfflineIsHeld'
    BY <1>1, <1>3, <1>4 DEF Typed, OfflineIsHeld, Attached, Intercepting
  <1>12. QED
    <2> HIDE DEF new
    <2>1. UNCHANGED <<serverVars, saving, typed, proofVars>>
      OBVIOUS
    <2>2. QED
      BY <1>1, <1>2, <1>3, <1>5, <1>6, <1>7, <1>8, <1>9, <1>10, <1>11, <2>1, RunKeeps

\* The payload is a rendering of the editor HTML taken with the clone.
LEMMA RendersIInv ==
  ASSUME AttestationAssumption, IInv, NEW r \in Run, Renders(r)
  PROVE  IInv'
  <1> USE DEF At, serverVars, pageVars, proofVars
  <1>1. PICK s \in {run[r].settings, page.settings} :
          run' = [run EXCEPT ![r] =
            [run[r] EXCEPT !.at = "rendered", !.settings = page.settings,
                           !.payload = [body |-> run[r].editor, settings |-> s]]]
    BY DEF Renders
  <1> DEFINE new == [run[r] EXCEPT !.at = "rendered", !.settings = page.settings,
                                   !.payload = [body |-> run[r].editor, settings |-> s]]
  <1>2. /\ Typed /\ OfflineIsHeld /\ CleanIsSaved
        /\ RunIsWhole(r) /\ SealIsFinal(r) /\ PictureFits(r)
        /\ run[r].at = "rendering" /\ sealed[r] = Nothing
        /\ UNCHANGED <<serverVars, pageVars, offline, proofVars>>
    BY DEF IInv, TypeOK, Steady, SealIsFinal, Renders
  <1>3. new.payload \in Payload /\ new.payload.body = new.editor /\ new.editor = new.live
    BY <1>2 DEF Payload, RunIsWhole, Cloned, Typed
  <1>4. new \in RunState
    <2>1. run[r] \in RunState /\ page.settings \in Setting
      BY <1>2 DEF Typed
    <2>2. QED
      BY <1>3, <2>1 DEF RunState, Step
  <1>5. run'[r] = new
    BY <1>1, <1>2 DEF Typed
  <1>6. /\ new.at = "rendered" /\ new.of = run[r].of /\ new.seen = run[r].seen
        /\ new.live = run[r].live /\ new.settings \in Setting /\ new.alone = run[r].alone
    BY <1>2, <1>4 DEF Typed, RunState
  <1>7. Attached(r)
    BY <1>2 DEF Attached, Intercepting
  <1>8. RunIsWhole(r)' /\ SealIsFinal(r)'
    <2> HIDE DEF new
    <2>1. QED
      BY <1>2, <1>3, <1>5, <1>6 DEF RunIsWhole, SealIsFinal, Begun, Cloned, Current
  <1>9. PictureFits(r)' /\ OfflineIsHeld'
    <2> HIDE DEF new
    <2>1. \A q \in Run : Attached(q)' <=> Attached(q)
      BY <1>1, <1>2, <1>5, <1>6, <1>7 DEF Attached, Intercepting, Typed, new
    <2>2. PictureFits(r)'
      BY <1>2, <1>5, <1>6, <1>7, <2>1 DEF PictureFits
    <2>3. \A q \in Run : run'[q].at = "restored" => run[q].at = "restored"
      BY <1>1, <1>2, <1>5, <1>6 DEF Typed, new
    <2>4. OfflineIsHeld'
      BY <1>2, <2>1, <2>3 DEF OfflineIsHeld
    <2>5. QED
      BY <2>2, <2>4
  <1>10. page' \in Page /\ CleanIsSaved' /\ offline' \in BOOLEAN
    BY <1>2 DEF Typed, Page, CleanIsSaved
  <1>11. QED
    <2> HIDE DEF new
    <2>1. run' = [run EXCEPT ![r] = new]
      BY <1>1 DEF new
    <2>2. QED
      BY <1>2, <1>4, <1>7, <1>8, <1>9, <1>10, <2>1, RunKeeps

\* A record is sealed of a run that is whole and of a version that is stored.
LEMMA SealsIInv ==
  ASSUME AttestationAssumption, IInv, NEW r \in Run, Seals(r)
  PROVE  IInv'
  <1> DEFINE rec == [history |-> run[r].seen, source |-> run[r].live, editor |-> run[r].editor,
                     settings |-> run[r].settings, payload |-> run[r].payload,
                     shot |-> run[r].shot, alone |-> run[r].alone]
             new == [Run0 EXCEPT !.at = "accepted", !.of = r]
  <1>1. /\ run' = [run EXCEPT ![r] = new]
        /\ sealed' = [sealed EXCEPT ![r] = rec]
        /\ versions' = versions /\ posted' = posted /\ page' = page /\ offline' = offline
        /\ active' = active /\ saving' = saving /\ typed' = typed
        /\ run[r].at = "detached" /\ run[r].of = r /\ run[r].live = versions[run[r].seen]
    BY DEF Seals, Ended, At, Creates, Validated, Source, serverVars, pageVars
  <1>2. /\ Typed /\ Steady /\ sealed[r] = Nothing
        /\ \A x \in Run : RunIsWhole(x) /\ SealIsFinal(x) /\ PictureFits(x)
    BY <1>1 DEF IInv, TypeOK, Steady, SealIsFinal
  <1>3. /\ run[r].seen \in 1..Current /\ run[r].live \in Content /\ run[r].editor = run[r].live
        /\ run[r].settings \in Setting /\ run[r].payload \in Payload
        /\ run[r].payload.body = run[r].editor
    BY <1>1, <1>2 DEF RunIsWhole, Begun, Cloned, Rendered
  <1>4. rec \in Record /\ rec # Nothing
    <2>1. run[r] \in RunState /\ run[r].seen \in History
      BY <1>2, <1>3 DEF Typed, History, Current
    <2>2. rec \in Record
      BY <1>3, <2>1 DEF RunState, Record
    <2>3. QED
      BY <2>2, RecordAssumption
  <1>5. new \in RunState
    BY DEF RunState, Step, Run0
  <1>6. /\ run'[r] = new /\ sealed'[r] = rec
        /\ \A x \in Run \ {r} : run'[x] = run[x] /\ sealed'[x] = sealed[x]
    BY <1>1, <1>2 DEF Typed
  <1>7. new.at = "accepted" /\ new.of = r /\ new.alone
    BY DEF Run0
  <1> HIDE DEF rec, new
  <1>8. Typed'
    <2>1. run' \in [Run -> RunState] /\ sealed' \in [Run -> Record \cup {Nothing}]
      BY <1>1, <1>2, <1>4, <1>5 DEF Typed
    <2>2. QED
      BY <1>1, <1>2, <2>1 DEF Typed
  <1>9. Steady'
    <2>1. ASSUME NEW x \in Run PROVE RunIsWhole(x)'
      BY <1>1, <1>2, <1>4, <1>6, <1>7 DEF RunIsWhole, Begun, Cloned, Rendered, Current
    <2>2. ASSUME NEW x \in Run PROVE SealIsFinal(x)'
      BY <1>2, <1>4, <1>6, <1>7 DEF SealIsFinal
    <2>3. ASSUME NEW x \in Run PROVE PictureFits(x)'
      BY <1>1, <1>2, <1>6, <1>7 DEF PictureFits, Attached, Intercepting
    <2>4. CleanIsSaved' /\ OfflineIsHeld'
      BY <1>1, <1>2, <1>6 DEF Steady, CleanIsSaved, OfflineIsHeld, Attached,
         Intercepting
    <2>5. QED
      BY <2>1, <2>2, <2>3, <2>4 DEF Steady
  <1>10. SealedIsSaved'
    BY <1>1, <1>3, <1>6 DEF IInv, SealedIsSaved, Current, rec
  <1>11. PostedAsSealed'
    BY <1>1, <1>2, <1>6 DEF IInv, PostedAsSealed
  <1>12. OutgoingShown'
    <2>1. rec.alone => rec.shot = rec.payload
      BY <1>1, <1>2 DEF PictureFits, rec
    <2>2. QED
      BY <1>6, <2>1 DEF IInv, OutgoingShown
  <1>13. QED
    BY <1>8, <1>9, <1>10, <1>11, <1>12 DEF IInv, TypeOK, Steady, OfflineIsHeld

\* What is posted was accepted, and what was accepted is the record.
LEMMA PostsIInv ==
  ASSUME AttestationAssumption, IInv, NEW r \in Run, Posts(r)
  PROVE  IInv'
  <1> DEFINE new == [Run0 EXCEPT !.at = "posted", !.of = run[r].of]
             post == [of |-> run[r].of, seen |-> run[r].seen, payload |-> run[r].payload]
  <1>1. /\ run' = [run EXCEPT ![r] = new]
        /\ posted' = posted \cup {post}
        /\ versions' = versions /\ sealed' = sealed /\ page' = page /\ offline' = offline
        /\ run[r].at = "accepted" /\ run[r].of # r
    BY DEF Posts, Ended, At, Creates, serverVars, pageVars
  <1>2. /\ Typed /\ Steady /\ sealed[r] = Nothing
        /\ \A x \in Run : RunIsWhole(x) /\ SealIsFinal(x) /\ PictureFits(x)
    BY <1>1 DEF IInv, TypeOK, Steady, SealIsFinal
  <1>3. /\ run[r].of \in Run /\ sealed[run[r].of] # Nothing
        /\ run[r].payload = sealed[run[r].of].payload
        /\ run[r].seen = sealed[run[r].of].history
    BY <1>1, <1>2 DEF SealIsFinal
  <1>4. new \in RunState
    BY <1>3 DEF RunState, Step, Run0
  <1>5. /\ run'[r] = new /\ \A x \in Run \ {r} : run'[x] = run[x]
    BY <1>1, <1>2 DEF Typed
  <1>6. new.at = "posted"
    BY DEF Run0
  <1>7. post \in [of : Run, seen : History, payload : Payload]
    <2>1. sealed[run[r].of] \in Record
      BY <1>2, <1>3 DEF Typed
    <2>2. QED
      BY <1>3, <2>1 DEF Record
  <1> HIDE DEF new
  <1>8. Typed'
    <2>1. /\ run' \in [Run -> RunState]
          /\ posted' \subseteq [of : Run, seen : History, payload : Payload]
      BY <1>1, <1>2, <1>4, <1>7 DEF Typed
    <2>2. QED
      BY <1>2, <2>1 DEF Typed, Posts, serverVars, pageVars
  <1>9. Steady'
    <2>1. ASSUME NEW x \in Run PROVE RunIsWhole(x)'
      BY <1>1, <1>2, <1>5, <1>6 DEF RunIsWhole, Begun, Cloned, Rendered, Current
    <2>2. ASSUME NEW x \in Run PROVE SealIsFinal(x)'
      BY <1>1, <1>2, <1>5, <1>6 DEF SealIsFinal
    <2>3. ASSUME NEW x \in Run PROVE PictureFits(x)'
      BY <1>1, <1>2, <1>5, <1>6 DEF PictureFits, Attached, Intercepting
    <2>4. CleanIsSaved' /\ OfflineIsHeld'
      BY <1>1, <1>2, <1>5 DEF Steady, CleanIsSaved, OfflineIsHeld, Attached,
         Intercepting
    <2>5. QED
      BY <2>1, <2>2, <2>3, <2>4 DEF Steady
  <1>10. SealedIsSaved' /\ OutgoingShown'
    BY <1>1 DEF IInv, SealedIsSaved, OutgoingShown, Current
  <1>11. PostedAsSealed'
    BY <1>1, <1>3 DEF IInv, PostedAsSealed
  <1>12. QED
    BY <1>8, <1>9, <1>10, <1>11 DEF IInv, TypeOK, Steady, OfflineIsHeld

\* The two steps that touch every run leave what the invariant reads of the others:
\* a step that joins or blocks changes only at, alone and wrote.
LEMMA RunsKeep ==
  ASSUME IInv, UNCHANGED <<serverVars, pageVars, proofVars>>, offline' \in BOOLEAN,
         run' \in [Run -> RunState], OfflineIsHeld',
         \A x \in Run :
           /\ run'[x].at = run[x].at \/ (run[x].at = "checked" /\ run'[x].at = "attached")
           /\ run'[x].of = run[x].of /\ run'[x].seen = run[x].seen
           /\ run'[x].live = run[x].live /\ run'[x].editor = run[x].editor
           /\ run'[x].settings = run[x].settings /\ run'[x].payload = run[x].payload
           /\ run'[x].shot = run[x].shot
           /\ run'[x].alone =>
                /\ run[x].at # "checked" \/ run'[x].at = "checked" => run[x].alone
                /\ Attached(x)' => \A q \in Run \ {x} : ~Attached(q)'
  PROVE  IInv'
  <1> USE DEF serverVars, pageVars, proofVars
  <1>1. /\ versions' = versions /\ page' = page /\ sealed' = sealed /\ posted' = posted
        /\ Typed /\ CleanIsSaved
        /\ \A x \in Run : RunIsWhole(x) /\ SealIsFinal(x) /\ PictureFits(x)
    BY DEF IInv, TypeOK, Steady
  <1>2. Typed'
    BY <1>1 DEF Typed
  <1>3. ASSUME NEW x \in Run PROVE RunIsWhole(x)'
    BY <1>1 DEF RunIsWhole, Begun, Cloned, Rendered, Current
  <1>4. ASSUME NEW x \in Run PROVE SealIsFinal(x)'
    BY <1>1 DEF SealIsFinal
  <1>5. ASSUME NEW x \in Run PROVE PictureFits(x)'
    BY <1>1 DEF PictureFits
  <1>6. CleanIsSaved'
    BY <1>1 DEF CleanIsSaved
  <1>7. SealedIsSaved' /\ PostedAsSealed' /\ OutgoingShown'
    BY <1>1 DEF IInv, SealedIsSaved, PostedAsSealed, OutgoingShown, Current
  <1>8. QED
    BY <1>2, <1>3, <1>4, <1>5, <1>6, <1>7 DEF IInv, TypeOK, Steady, OfflineIsHeld

\* A probe that joins another spoils the picture of both.
LEMMA AttachesIInv ==
  ASSUME AttestationAssumption, IInv, NEW r \in Run, Attaches(r)
  PROVE  IInv'
  <1> DEFINE Joined(q) == [run[q] EXCEPT !.alone = run[q].alone /\ ~Attached(q)]
             new == [run[r] EXCEPT !.at = "attached",
                                   !.alone = \A p \in Run \ {r} : ~Attached(p)]
  <1>1. /\ run[r].at = "checked" /\ offline' = TRUE
        /\ run' = [q \in Run |-> IF q = r THEN new ELSE Joined(q)]
        /\ UNCHANGED <<serverVars, pageVars, proofVars>>
    BY DEF Attaches, At
  <1>2. \A q \in Run : run[q] \in RunState
    BY DEF IInv, TypeOK, Typed
  <1>3. /\ new \in RunState /\ new.at = "attached"
        /\ new.of = run[r].of /\ new.seen = run[r].seen /\ new.live = run[r].live
        /\ new.editor = run[r].editor /\ new.settings = run[r].settings
        /\ new.payload = run[r].payload /\ new.shot = run[r].shot
    BY <1>2 DEF RunState, Step
  <1>4. new.alone <=> \A p \in Run \ {r} : ~Attached(p)
    BY <1>2 DEF RunState
  <1>5. ASSUME NEW q \in Run
        PROVE  /\ Joined(q) \in RunState /\ Joined(q).at = run[q].at
               /\ Joined(q).of = run[q].of /\ Joined(q).seen = run[q].seen /\ Joined(q).live = run[q].live
               /\ Joined(q).editor = run[q].editor /\ Joined(q).settings = run[q].settings
               /\ Joined(q).payload = run[q].payload /\ Joined(q).shot = run[q].shot
    <2>1. (run[q].alone /\ ~Attached(q)) \in BOOLEAN
      OBVIOUS
    <2>2. QED
      BY <1>2, <2>1 DEF RunState
  <1>6. ASSUME NEW q \in Run
        PROVE  Joined(q).alone <=> run[q].alone /\ ~Attached(q)
    BY <1>2 DEF RunState
  <1> HIDE DEF new, Joined
  <1>7. run'[r] = new /\ \A q \in Run \ {r} : run'[q] = Joined(q)
    BY <1>1
  <1>8. run' \in [Run -> RunState]
    BY <1>1, <1>3, <1>5
  <1>9. \A q \in Run \ {r} : Attached(q)' <=> Attached(q)
    BY <1>5, <1>7 DEF Attached
  <1>10. OfflineIsHeld'
    BY <1>3, <1>7 DEF OfflineIsHeld, Attached, Intercepting
  <1>11. ASSUME NEW x \in Run
         PROVE  /\ run'[x].at = run[x].at \/ (run[x].at = "checked" /\ run'[x].at = "attached")
                /\ run'[x].of = run[x].of /\ run'[x].seen = run[x].seen
                /\ run'[x].live = run[x].live /\ run'[x].editor = run[x].editor
                /\ run'[x].settings = run[x].settings /\ run'[x].payload = run[x].payload
                /\ run'[x].shot = run[x].shot
    BY <1>1, <1>3, <1>5, <1>7
  <1>12. ASSUME NEW x \in Run, run'[x].alone
         PROVE  /\ run[x].at # "checked" \/ run'[x].at = "checked" => run[x].alone
                /\ Attached(x)' => \A q \in Run \ {x} : ~Attached(q)'
    <2>1. CASE x = r
      BY <1>1, <1>3, <1>4, <1>7, <1>9, <1>12, <2>1
    <2>2. CASE x # r
      BY <1>6, <1>7, <1>9, <1>12, <2>2
    <2>3. QED
      BY <2>1, <2>2
  <1>13. QED
    BY <1>1, <1>8, <1>10, <1>11, <1>12, RunsKeep

\* A blocked save is noted by every probe that intercepts.
LEMMA SaveBlockedIInv ==
  ASSUME AttestationAssumption, IInv, SaveBlocked
  PROVE  IInv'
  <1> DEFINE Blocked(q) == [run[q] EXCEPT !.wrote = run[q].wrote \/ Attached(q)]
  <1>1. /\ run' = [q \in Run |-> Blocked(q)]
        /\ UNCHANGED <<serverVars, pageVars, offline, proofVars>>
    BY DEF SaveBlocked
  <1>2. \A q \in Run : run[q] \in RunState /\ PictureFits(q)
    BY DEF IInv, TypeOK, Typed, Steady
  <1>3. ASSUME NEW q \in Run
        PROVE  /\ Blocked(q) \in RunState /\ Blocked(q).at = run[q].at
               /\ Blocked(q).of = run[q].of /\ Blocked(q).seen = run[q].seen /\ Blocked(q).live = run[q].live
               /\ Blocked(q).editor = run[q].editor /\ Blocked(q).settings = run[q].settings
               /\ Blocked(q).payload = run[q].payload /\ Blocked(q).shot = run[q].shot
    <2>1. (run[q].wrote \/ Attached(q)) \in BOOLEAN
      OBVIOUS
    <2>2. QED
      BY <1>2, <2>1 DEF RunState
  <1>4. ASSUME NEW q \in Run PROVE Blocked(q).alone <=> run[q].alone
    BY <1>2 DEF RunState
  <1> HIDE DEF Blocked
  <1>5. \A q \in Run : run'[q] = Blocked(q)
    BY <1>1
  <1>6. run' \in [Run -> RunState]
    BY <1>1, <1>3
  <1>7. \A q \in Run : Attached(q)' <=> Attached(q)
    BY <1>3, <1>5 DEF Attached
  <1>8. OfflineIsHeld' /\ offline' \in BOOLEAN
    <2>1. OfflineIsHeld /\ offline \in BOOLEAN
      BY DEF IInv, TypeOK, Typed, Steady
    <2>2. QED
      BY <1>1, <1>3, <1>5, <1>7, <2>1 DEF OfflineIsHeld
  <1>9. \A x \in Run : run'[x].alone =>
           run[x].alone /\ (Attached(x)' => \A q \in Run \ {x} : ~Attached(q)')
    BY <1>2, <1>4, <1>5, <1>7 DEF PictureFits
  <1>10. QED
    BY <1>1, <1>3, <1>5, <1>6, <1>8, <1>9, RunsKeep

(***************************************************************************)
(* The theorems.                                                           *)
(***************************************************************************)

\* Every step preserves the invariant.
LEMMA StepIInv == AttestationAssumption /\ IInv /\ [Next]_vars => IInv'
  <1> SUFFICES ASSUME AttestationAssumption, IInv, [Next]_vars PROVE IInv'
    OBVIOUS
  <1>1. CASE World
    BY <1>1, TypesIInv, WrittenElsewhereIInv, SettingsChangeIInv, SavesIInv,
       SaveBlockedIInv, SaveLandsIInv, RefreshesIInv, SentNativelyIInv DEF World
  <1>2. ASSUME NEW r \in Run, Call(r) PROVE IInv'
    BY <1>2, CreateStartsIInv, RevalidateStartsIInv, SealsIInv, RevalidatesIInv,
       PostsIInv, FailsIInv DEF Call
  <1>3. ASSUME NEW r \in Run, Probe(r) PROVE IInv'
    BY <1>3, AttachesIInv, ClonesIInv, RendersIInv, ShowsIInv, PicturesIInv,
       RestoresIInv, DetachesIInv DEF Probe
  <1>4. CASE UNCHANGED vars
    BY <1>4, WorldKeeps DEF vars, serverVars, pageVars, proofVars, IInv, TypeOK,
       Typed, Steady, CleanIsSaved, Current
  <1>5. QED
    BY <1>1, <1>2, <1>3, <1>4 DEF Next

\* The invariant holds in every reachable state.
LEMMA AlwaysIInv == Spec => []IInv
  <1>1. Init => IInv
    BY AttestationAssumption, InitIInv
  <1>2. IInv /\ [Next]_vars => IInv'
    BY AttestationAssumption, StepIInv
  <1>3. QED
    BY <1>1, <1>2, PTL DEF Spec

\* The variables keep their types, and at every moment an owner who is offline is so
\* under a probe that has still to let the page go: neither a probe that throws nor
\* one that is killed, of however many, strands the app (renderer_probe.js).
THEOREM TypeCorrect == Spec => []TypeOK
  BY AlwaysIInv, PTL DEF IInv

\* However many runs, edits, saves and foreign writes interleave, what a record would
\* send is the content the server stored at the history id it names
\* (attestation.create).
THEOREM OnlySavedSealed == Spec => []SealedIsSaved
  BY AlwaysIInv, PTL DEF IInv

\* What send_conditional posts after a revalidation is the payload of the record, with
\* no write of the draft between the two (attestation.revalidate_for_send).
THEOREM OnlySealedPosted == Spec => []PostedAsSealed
  BY AlwaysIInv, PTL DEF IInv

\* A record whose probe met no other on the page holds the picture of its own payload,
\* whatever overlay a dead probe has left there (renderer_probe.js).
THEOREM PictureTrue == Spec => []OutgoingShown
  BY AlwaysIInv, PTL DEF IInv

=============================================================================
