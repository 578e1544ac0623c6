----------------------------- MODULE Lifecycle -----------------------------
(***************************************************************************)
(* The canonical send lifecycle of a draft: what lifecycle.classify makes  *)
(* of the userdata wrapper of the draft and of the provider messages that  *)
(* lifecycle.observe reads after it (superhuman_mail/lifecycle.py).        *)
(*                                                                         *)
(* The evidence is incomplete when it is read: the application and the     *)
(* backend fill in the wrapper and its send job field by field and replace *)
(* the job when the draft is sent again; the provider creates the message  *)
(* of an attempt, with or without the identities that link it; the local   *)
(* cache follows later or cannot be read.  Messages of other drafts and of *)
(* earlier attempts are in the same thread.                                *)
(*                                                                         *)
(* An attempt to send is its superhuman_id; it creates at most one         *)
(* message, which the model names by the attempt.                          *)
(***************************************************************************)
EXTENDS Naturals

CONSTANTS
  Draft,     \* the drafts of one thread
  Attempt,   \* the superhuman_ids of attempts to send them
  DraftOf,   \* the draft each attempt sends
  Nothing    \* an absent identity

ASSUME LifecycleAssumption ==
  /\ DraftOf \in [Attempt -> Draft]
  /\ Nothing \notin Attempt \cup Draft

VARIABLES
  sent,      \* the attempts whose message the provider created
  says,      \* the identities each message carries
  cache,     \* the messages the local cache has, SENT and from the account
  observed   \* an observation of the evidence as it stands

vars == <<sent, says, cache, observed>>

(***************************************************************************)
(* Values.                                                                 *)
(***************************************************************************)
State == {"active_draft", "scheduled", "send_requested", "send_pending_undo",
          "send_failed", "send_aborted", "discarded", "sent_backend_confirmed",
          "sent_provider_confirmed", "inconsistent"}

\* superhumanOwnDraftId and superhumanId of a message.
Identity == {"draft", "attempt"}

\* The terminal fields of a send job that are set, and whether a send time in
\* the future or notSentToServer says that it has not started.
Mark == {"sentAt", "verifiedAt", "failed", "aborted"}
Phase == {"notSentToServer", "sendAt", "due"}

Job == [of : Attempt, named : BOOLEAN, message : Attempt \cup {Nothing},
        marks : SUBSET Mark, phase : Phase]

\* An empty sendJob counts as none.
NoJob == [message |-> Nothing, named |-> FALSE, marks |-> {}]

Flag == {"sending", "scheduledFor", "discarded"}

\* What userdata can say of draft d: a job for one of its attempts, with any of
\* its fields missing; a message it names is the one that attempt created.
Wrappers(d) ==
  [job : {NoJob} \cup {j \in Job : /\ DraftOf[j.of] = d
                                   /\ j.message \in {Nothing} \cup ({j.of} \cap sent)},
   flags : SUBSET Flag]

\* The state is "missing" when the draft was not found.  ours: the attempts whose
\* message would confirm the send observed; linked: whether a message that names
\* the draft was in the cache that was read.
Observation == [of : Draft, state : State \cup {"missing"}, message : Attempt \cup {Nothing},
                ours : SUBSET Attempt, linked : BOOLEAN]

TypeOK ==
  /\ sent \subseteq Attempt
  /\ says \in [Attempt -> SUBSET Identity]
  /\ cache \subseteq sent
  /\ observed \in Observation \cup {Nothing}

Init ==
  /\ sent = {}
  /\ says = [a \in Attempt |-> {}]
  /\ cache = {}
  /\ observed = Nothing

(***************************************************************************)
(* _provider_proof, for one message.                                       *)
(***************************************************************************)

\* expected_sid: of the job, else the one the caller's journal recorded.
Expected(job, recorded) == IF job.named THEN job.of ELSE recorded

NamesDraft(m, d) == "draft" \in says[m] /\ DraftOf[m] = d

NamesAttempt(m, expected) == "attempt" \in says[m] /\ m = expected

\* Mutant: one of the two identities is enough without the job.
Mutant_Proves(m, d, job, expected) ==
  IF m = job.message
  THEN /\ "draft" \in says[m] => DraftOf[m] = d
       /\ "attempt" \in says[m] => expected \in {m, Nothing}
  ELSE NamesDraft(m, d) \/ NamesAttempt(m, expected)

\* Proof A by the message id of the job, unless an identity the message carries
\* disagrees; proof B by both identities.
Proves(m, d, job, expected) ==
  IF m = job.message
  THEN /\ "draft" \in says[m] => DraftOf[m] = d
       /\ "attempt" \in says[m] => expected \in {m, Nothing}
  ELSE NamesDraft(m, d) /\ NamesAttempt(m, expected)

\* Mutant: a message that names the draft but no attempt is a fuzzy match.
Mutant_Claims(m, d, job, expected) == NamesAttempt(m, expected) \/ m = job.message

\* A message that claims one of the identities: without proof, a conflict.
Claims(m, d, job, expected) ==
  NamesDraft(m, d) \/ NamesAttempt(m, expected) \/ m = job.message

(***************************************************************************)
(* classify.                                                               *)
(***************************************************************************)

\* Mutant: a time of sending is taken for a completed send.
Mutant_BackendSuccess(job) == "sentAt" \in job.marks

BackendSuccess(job) == "sentAt" \in job.marks /\ job.message # Nothing

\* More than one outcome, or a part of one.
Contradictory(job) ==
  \/ BackendSuccess(job) /\ {"failed", "aborted"} \cap job.marks # {}
  \/ {"failed", "aborted"} \subseteq job.marks
  \/ {"sentAt", "verifiedAt"} \cap job.marks # {} /\ ~BackendSuccess(job)

\* A job without a terminal field.
Underway(w) ==
  IF w.job.phase = "sendAt"
  THEN IF "scheduledFor" \in w.flags THEN "scheduled" ELSE "send_pending_undo"
  ELSE "send_requested"

\* Mutant: a completed job is reported under a name that is no state.
Mutant_FromUserdata(w) ==
  CASE BackendSuccess(w.job)      -> "sent"
    [] "failed" \in w.job.marks   -> "send_failed"
    [] OTHER                      -> "active_draft"

\* Without messages that matter and without contradiction.
FromUserdata(w) ==
  CASE BackendSuccess(w.job)      -> "sent_backend_confirmed"
    [] "failed" \in w.job.marks   -> "send_failed"
    [] "aborted" \in w.job.marks  -> "send_aborted"
    [] w.job # NoJob              -> Underway(w)
    [] "sending" \in w.flags      -> "send_requested"
    [] "discarded" \in w.flags    -> "discarded"
    [] OTHER                      -> "active_draft"

Classify(d, w, messages, expected) ==
  IF \E m \in messages : Proves(m, d, w.job, expected)
  THEN "sent_provider_confirmed"
  ELSE IF \/ Contradictory(w.job)
          \/ \E m \in messages : Claims(m, d, w.job, expected)
       THEN "inconsistent"
       ELSE FromUserdata(w)

(***************************************************************************)
(* observe_thread, for draft d: userdata, then the messages of the cache,  *)
(* none of them when it is unavailable; the caller may have recorded an    *)
(* attempt.  That userdata is read first shows in fields it lacks.         *)
(***************************************************************************)
Observe(d) ==
  /\ observed = Nothing
  /\ \E w \in Wrappers(d), messages \in {cache, {}},
        recorded \in {Nothing} \cup {a \in Attempt : DraftOf[a] = d} :
       LET expected == Expected(w.job, recorded)
           proofs == {m \in messages : Proves(m, d, w.job, expected)}
       IN  \E m \in IF proofs = {} THEN {Nothing} ELSE proofs :
             observed' = [of |-> d,
                          state |-> Classify(d, w, messages, expected),
                          message |-> m,
                          ours |-> IF w.job = NoJob
                                   THEN {recorded} \cap Attempt
                                   ELSE {w.job.of, recorded} \cap Attempt,
                          linked |-> \E n \in messages : NamesDraft(n, d)]
  /\ UNCHANGED <<sent, says, cache>>

\* Userdata or the wrapper of the draft is missing, or the wrapper has no draft,
\* no job and no time of a discard: the error of a lookup instead of a state.
ObserveMisses(d) ==
  /\ observed = Nothing
  /\ \E messages \in {cache, {}} :
       observed' = [of |-> d, state |-> "missing", message |-> Nothing, ours |-> {},
                    linked |-> \E n \in messages : NamesDraft(n, d)]
  /\ UNCHANGED <<sent, says, cache>>

(***************************************************************************)
(* The provider and the local cache; what they add calls for a new look.   *)
(***************************************************************************)
ProviderSends(a) ==
  /\ a \notin sent
  /\ sent' = sent \cup {a}
  /\ \E carried \in SUBSET Identity : says' = [says EXCEPT ![a] = carried]
  /\ observed' = Nothing
  /\ UNCHANGED cache

CacheSyncs(a) ==
  /\ a \in sent \ cache
  /\ cache' = cache \cup {a}
  /\ observed' = Nothing
  /\ UNCHANGED <<sent, says>>

Next ==
  \/ \E d \in Draft : Observe(d) \/ ObserveMisses(d)
  \/ \E a \in Attempt : ProviderSends(a) \/ CacheSyncs(a)

Spec == Init /\ [][Next]_vars

(***************************************************************************)
(* Properties.                                                             *)
(***************************************************************************)

\* Only sent_provider_confirmed is outbound evidence, and it is evidence of this
\* send: the message exists, is of the observed draft, and is that of the job or
\* of the recorded attempt, never of another draft or of an earlier attempt.
ConfirmedIsThisSend ==
  observed # Nothing /\ observed.state = "sent_provider_confirmed" =>
    /\ observed.message \in sent \cap observed.ours
    /\ DraftOf[observed.message] = observed.of

\* The backend's word is taken only for a message that exists.
BackendIsTrue ==
  observed # Nothing /\ observed.state = "sent_backend_confirmed" =>
    \E a \in sent : DraftOf[a] = observed.of

\* A draft whose message, of whichever attempt, can be read is never offered for
\* sending, nor its outcome taken for a failure, whatever userdata lacks or
\* says, and also after the job was replaced; at most it is not found at all.
LinkedIsNeverResent ==
  observed # Nothing /\ observed.linked =>
    observed.state \in {"sent_provider_confirmed", "inconsistent", "missing"}
=============================================================================
