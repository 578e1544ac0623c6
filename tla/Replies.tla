------------------------------ MODULE Replies ------------------------------
(***************************************************************************)
(* Which message of a cached thread a reply answers, which one it is       *)
(* threaded to, whom it is addressed to, and which message a forward       *)
(* quotes (superhuman_mail/draft.py).  A thread is the sequence of its     *)
(* messages, oldest first.                                                 *)
(***************************************************************************)
EXTENDS Integers, SequencesExt

CONSTANTS
  From, To, Cc,  \* the sender and the sets of recipients of each message
  Me,            \* the address of the account
  Internal,      \* the addresses of its domain
  System         \* the addresses of superhuman.com

ASSUME RepliesAssumption ==
  /\ Me \in Internal
  /\ Internal \cap System = {}

IsSystemSender(m) == From[m] \in System

Participants(m) == {From[m]} \cup To[m] \cup Cc[m]

IsInternalOnly(m) == Participants(m) \subseteq Internal

ThreadHasExternal(messages) ==
  \E m \in ToSet(messages) :
    ~IsSystemSender(m) /\ ~(Participants(m) \subseteq Internal \cup System)

\* Mutant: insiders' messages are passed over only in threads without outsiders.
Mutant_Visible(messages, m) ==
  ~IsSystemSender(m) /\ ~(~ThreadHasExternal(messages) /\ IsInternalOnly(m))

\* In a thread with outsiders a message among insiders is passed over.
Visible(messages, m) ==
  ~IsSystemSender(m) /\ ~(ThreadHasExternal(messages) /\ IsInternalOnly(m))

LastVisible(messages) == SelectLastInSeq(messages, LAMBDA m : Visible(messages, m))
LastNonSystem(messages) == SelectLastInSeq(messages, LAMBDA m : ~IsSystemSender(m))

\* The first of several searches that found something, else the last message.
FirstFound(messages, indexes) ==
  LET found == SelectInSeq(indexes, LAMBDA i : i > 0)
  IN IF found = 0 THEN messages[Len(messages)] ELSE messages[indexes[found]]

FindReplyMessage(messages) ==
  FirstFound(messages,
    << SelectLastInSeq(messages, LAMBDA m : Visible(messages, m) /\ From[m] # Me),
       LastVisible(messages), LastNonSystem(messages) >>)

FindThreadingMessage(messages) ==
  FirstFound(messages, << LastVisible(messages), LastNonSystem(messages) >>)

\* The index of the message a forward quotes.
FindForwardMessage(messages) ==
  IF LastNonSystem(messages) > 0 THEN LastNonSystem(messages) ELSE Len(messages)

\* Mutant: our own message is answered like anybody's.
Mutant_ReplyTargets(m, all) ==
  [to |-> {From[m]}, cc |-> IF all THEN (To[m] \cup Cc[m]) \ {From[m], Me} ELSE {}]

\* A follow-up to a message of ours goes to those it went to.
ReplyTargets(m, all) ==
  IF From[m] = Me
  THEN [to |-> To[m] \ {Me}, cc |-> IF all THEN Cc[m] \ {Me} ELSE {}]
  ELSE [to |-> {From[m]}, cc |-> IF all THEN (To[m] \cup Cc[m]) \ {From[m], Me} ELSE {}]

\* The draft of create_reply; its subject comes from the message it is threaded to.
Reply(messages, all) ==
  LET answered == FindReplyMessage(messages)
      targets == ReplyTargets(answered, all)
  IN [answered |-> answered, inReplyTo |-> FindThreadingMessage(messages),
      to |-> targets.to, cc |-> targets.cc, all |-> all]

(***************************************************************************)
(* What is asked of a reply to a thread.                                   *)
(***************************************************************************)
IndexOf(messages, m) == SelectLastInSeq(messages, LAMBDA x : x = m)

\* It stays with the outsiders of a thread that has some; it never goes to
\* ourselves; to all means everybody on the message answered; nobody else's
\* later word that outsiders saw is passed over, and it is not threaded to
\* anything older than what it answers.
RepliesRightly(messages, r) ==
  /\ ThreadHasExternal(messages) =>
       ~IsInternalOnly(r.answered) /\ ~IsInternalOnly(r.inReplyTo)
  /\ Me \notin r.to \cup r.cc
  /\ r.all => r.to \cup r.cc = Participants(r.answered) \ {Me}
  /\ \A i \in IndexOf(messages, r.answered) + 1 .. Len(messages) :
       messages[i] # r.answered /\ ~IsSystemSender(messages[i]) /\ ~IsInternalOnly(messages[i])
         => From[messages[i]] = Me
  /\ IndexOf(messages, r.answered) <= IndexOf(messages, r.inReplyTo)
=============================================================================
