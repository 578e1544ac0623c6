---------------------------- MODULE OneShotSend -----------------------------
(***************************************************************************)
(* What the send executor promises for each approval receipt, with no      *)
(* daemon, clock, bridge or provider in it: a decision to send is taken at *)
(* most once, what is called off is never sent, what is reported sent was  *)
(* sent, and when nobody can tell the report says so.                      *)
(***************************************************************************)
EXTENDS Naturals

CONSTANT Receipt

VARIABLES
  verdict,   \* what the journal promises about each receipt
  sends      \* sends made under each receipt

vars == <<verdict, sends>>

Verdict == {"open", "committed", "called off", "sent", "uncertain"}

Init ==
  /\ verdict = [r \in Receipt |-> "open"]
  /\ sends = [r \in Receipt |-> 0]

Becomes(r, v) == verdict'[r] = v /\ sends'[r] = sends[r]

Commit(r) == verdict[r] = "open" /\ Becomes(r, "committed")

\* Also after the commitment, on proof that nothing was sent yet.
CallOff(r) ==
  /\ verdict[r] \in {"open", "committed"}
  /\ sends[r] = 0
  /\ Becomes(r, "called off")

\* The send may come after its outcome was given up on, but only once.
Send(r) ==
  /\ verdict[r] \in {"committed", "uncertain"}
  /\ sends[r] = 0
  /\ sends'[r] = 1
  /\ verdict'[r] = verdict[r]

Report(r) ==
  /\ verdict[r] = "committed"
  /\ sends[r] = 1
  /\ Becomes(r, "sent")

GiveUp(r) == verdict[r] = "committed" /\ Becomes(r, "uncertain")

Rest(r) == Becomes(r, verdict[r])

\* A restart settles every interrupted receipt in one step.
Next ==
  /\ verdict' \in [Receipt -> Verdict]
  /\ sends' \in [Receipt -> Nat]
  /\ \A r \in Receipt :
       \/ Commit(r)
       \/ CallOff(r)
       \/ Send(r)
       \/ Report(r)
       \/ GiveUp(r)
       \/ Rest(r)

Spec == Init /\ [][Next]_vars
=============================================================================
