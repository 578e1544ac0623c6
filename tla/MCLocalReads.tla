---------------------------- MODULE MCLocalReads ----------------------------
(***************************************************************************)
(* Instances of LocalReads for TLC.  Messages: 1 from a client, 2 our own  *)
(* answer, longer than a record may be, 3 a colleague's word to us alone,  *)
(* 4 a notice of the application.  Our answer holds the first words of 1,  *)
(* the notice shares its own with 3.  The limits are such that the         *)
(* contents reach them and stay below them.                                *)
(***************************************************************************)
EXTENDS LocalReads

CONSTANTS p1, p2, c1, c2, c3, me, colleague, client, notice

MCDate == << 1, 2, 3, 2 >>
MCAmount == << 1, 3, 1, 1 >>
MCFrom == << client, me, colleague, notice >>
MCTo == << {me}, {client}, {me}, {me} >>
MCCc == << {colleague}, {me}, {}, {} >>
MCParty == << {"client"}, {"client"}, {"colleague"}, {} >>
MCSharing == << {1, 2}, {2}, {3}, {3, 4} >>
MCAsked == << c1, c2, c3 >>

MCRow(messages) == [messages |-> messages, garbled |-> FALSE]
MCInitialCache ==
  {<< << Empty, Empty, Empty >>, << Empty, Empty, Empty >> >>,
   << << MCRow(<<1, 3>>), MCRow(<<3>>), Empty >>, << MCRow(<<1>>), Empty, Empty >> >>,
   << << MCRow(<<2>>), MCRow(<<1>>), MCRow(<<1, 3>>) >>, << Empty, MCRow(<<3>>), Empty >> >>}

MCRequest ==
  {[accounts |-> {1, 2}, since |-> 1, before |-> 4, threads |-> {}, people |-> {}],
   [accounts |-> {1}, since |-> 1, before |-> 3, threads |-> {}, people |-> {"client"}],
   [accounts |-> {1}, since |-> 2, before |-> 4, threads |-> {1}, people |-> {}],
   [accounts |-> {1}, since |-> 3, before |-> 3, threads |-> {}, people |-> {}],
   [accounts |-> {1, 3}, since |-> 1, before |-> 3, threads |-> {}, people |-> {}]}

MCSymmetry == Permutations(Process)
=============================================================================
