-------------------------- MODULE LocalReadsProofs --------------------------
(***************************************************************************)
(* Proofs about LocalReads for any accounts, threads, messages, requests   *)
(* and processes: whom a reply goes to, that a forward is of one message,  *)
(* and that a scan answers as if it had read all its files at once.        *)
(***************************************************************************)
EXTENDS LocalReads, ReadsLemmas, TLAPS

(***************************************************************************)
(* The invariant.                                                          *)
(***************************************************************************)
Begins(f, g) ==
  /\ Len(f) <= Len(g)
  /\ \A i \in 1..Len(f) : f[i] = g[i]

\* Every thread of rows r was cut short, at most, of what it is in rows s.
Older(r, s) == \A t \in Thread : Begins(r[t].messages, s[t].messages)

File == [rows : Rows, ino : Nat, mtime : Nat]
Copy == [rows : Rows, whole : BOOLEAN, mtime : Nat]
First == [index : Nat, message : Message]
Doing == [at : DraftStep, purpose : {"reply", "forward"}, thread : Thread,
          first : First \cup {Nothing}, hand : Rows \cup {Nothing}]

\* Rows that were read stay what the file begins with, while nothing is taken out.
IsOld(rows) == shrunk \/ Older(rows, file[Own].rows)

\* The message found stays at its place.
InPlace(thread, first) ==
  shrunk \/ /\ first.index \in 1..Len(file[Own].rows[thread].messages)
            /\ file[Own].rows[thread].messages[first.index] = first.message

FileTrue ==
  /\ now \in 0..MaxWrites
  /\ shrunk \in BOOLEAN
  /\ file \in [Account -> File]
  /\ \A a \in Account : file[a].ino <= now /\ file[a].mtime <= now

Made == copy \in Copy /\ copy.mtime <= now /\ IsOld(copy.rows)
CopyTrue == copy = Nothing \/ Made

DoingTrue(d) ==
  /\ d \in Doing
  /\ d.at \in {"truncate", "fill"} <=> d.hand # Nothing
  /\ d.hand # Nothing => IsOld(d.hand)
  /\ d.first # Nothing => d.purpose = "forward" /\ InPlace(d.thread, d.first)
  /\ d.at = "read" => Made

DraftTrue ==
  /\ draft \in [Process -> Doing \cup {Idle}]
  /\ \A p \in Process : draft[p] = Idle \/ DoingTrue(draft[p])

\* What the scan has copied is what the files held when it opened them; of the
\* file it is at, unless its identity will tell otherwise.
Partial(D, R) == UNION {[E -> R] : E \in SUBSET D}
Snapshots == Partial(Account, Rows)
Opened == [at : {"open"}, q : Request, left : SUBSET Account, copies : Snapshots, truth : Snapshots]
Copying == [at : {"copy"}, q : Request, left : SUBSET Account, copies : Snapshots, truth : Snapshots,
            account : Account, before : Nat \X Nat, copied : Partial(Thread, Row),
            replaced : Rows \cup {Nothing}]

CopyingTrue ==
  /\ scan \in Copying
  /\ scan.account \in scan.left
  /\ DOMAIN scan.truth = (scan.q.accounts \ scan.left) \cup {scan.account}
  /\ scan.before[2] <= now
  /\ Stable =>
       /\ scan.truth[scan.account] = file[scan.account].rows
       /\ \A t \in DOMAIN scan.copied : scan.copied[t] = file[scan.account].rows[t]

OpenedTrue ==
  /\ scan \in Opened
  /\ DOMAIN scan.truth = scan.q.accounts \ scan.left

ScanTrue ==
  \/ scan = Idle
  \/ /\ scan.q.accounts \subseteq Account
     /\ scan.left # {} /\ scan.left \subseteq scan.q.accounts
     /\ DOMAIN scan.copies = scan.q.accounts \ scan.left
     /\ \A a \in DOMAIN scan.copies : scan.copies[a] = scan.truth[a]
     /\ OpenedTrue \/ CopyingTrue

IInv == FileTrue /\ CopyTrue /\ DraftTrue /\ ScanTrue

\* Of a function on a part of D.
LEMMA WithIsPartial ==
  ASSUME NEW D, NEW R, NEW f \in Partial(D, R), NEW x \in D, NEW v \in R
  PROVE  With(f, x, v) \in Partial(D, R)
  <1>1. PICK E \in SUBSET D : f \in [E -> R]
    BY DEF Partial
  <1>2. With(f, x, v) \in [E \cup {x} -> R]
    BY <1>1 DEF With
  <1>3. E \cup {x} \in SUBSET D
    OBVIOUS
  <1>4. QED
    BY <1>2, <1>3 DEF Partial

\* The empty function is one of them.
LEMMA NothingIsPartial ==
  ASSUME NEW D, NEW R
  PROVE  << >> \in Partial(D, R) /\ DOMAIN << >> = {}
  <1>1. << >> \in [{} -> R]
    OBVIOUS
  <1>2. QED
    BY <1>1 DEF Partial

\* A row is a record; one that is there has messages.
LEMMA RowIs ==
  ASSUME NEW row \in Row
  PROVE  /\ row \in [messages : Seq(Message), garbled : BOOLEAN]
         /\ row # Empty => row.messages # << >>
  <1>1. << >> \in Seq(Message)
    OBVIOUS
  <1>2. Empty \in [messages : Seq(Message), garbled : BOOLEAN]
    BY <1>1 DEF Empty
  <1>3. CASE row = Empty
    BY <1>2, <1>3
  <1>4. CASE row \in [messages : Seq(Message) \ {<< >>}, garbled : BOOLEAN]
    <2>1. row.messages \in Seq(Message) \ {<< >>}
      BY <1>4
    <2>2. row \in [messages : Seq(Message), garbled : BOOLEAN]
      BY <1>4
    <2>3. QED
      BY <2>1, <2>2
  <1>5. QED
    BY <1>3, <1>4 DEF Row

\* And the other way round.
LEMMA IsRow ==
  ASSUME NEW row \in [messages : Seq(Message), garbled : BOOLEAN], row.messages # << >>
  PROVE  row \in Row
  BY DEF Row

\* Of two messages one is left.
LEMMA FrontIsThere ==
  ASSUME NEW s \in Seq(Message), s # << >>, Len(s) # 1
  PROVE  Front(s) # << >>
  <1>1. Len(s) \in Nat /\ Len(s) # 0
    OBVIOUS
  <1> DEFINE n == Len(s) - 1
  <1>2. n \in Nat /\ n # 0
    BY <1>1
  <1>3. ASSUME NEW m \in Nat, m # 0, m <= Len(s) PROVE SubSeq(s, 1, m) # << >>
    <2>1. Len(SubSeq(s, 1, m)) = m
      BY <1>1, <1>3
    <2>2. QED
      BY <1>3, <2>1
  <1>4. n <= Len(s) /\ Front(s) = SubSeq(s, 1, n)
    BY <1>1 DEF Front
  <1> HIDE DEF n
  <1>5. QED
    BY <1>2, <1>3, <1>4

\* A thread has a length.
LEMMA LengthOfThread ==
  ASSUME NEW rows \in Rows, NEW t \in Thread
  PROVE  rows[t].messages \in Seq(Message) /\ Len(rows[t].messages) \in Nat
  <1>1. rows[t] \in Row
    BY DEF Rows
  <1>2. rows[t].messages \in Seq(Message)
    BY <1>1, RowIs
  <1>3. QED
    BY <1>2

\* What began an older file begins the newer one.
LEMMA OlderIsTransitive ==
  ASSUME NEW r \in Rows, NEW s \in Rows, NEW u \in Rows, Older(r, s), Older(s, u)
  PROVE  Older(r, u)
  <1> SUFFICES ASSUME NEW t \in Thread PROVE Begins(r[t].messages, u[t].messages)
    BY DEF Older
  <1>1. Begins(r[t].messages, s[t].messages) /\ Begins(s[t].messages, u[t].messages)
    BY DEF Older
  <1>2. Len(r[t].messages) \in Nat /\ Len(s[t].messages) \in Nat /\ Len(u[t].messages) \in Nat
    BY DEF Rows, Row
  <1>3. QED
    BY <1>1, <1>2 DEF Begins

\* A file begins itself.
LEMMA OlderIsReflexive ==
  ASSUME NEW r \in Rows
  PROVE  Older(r, r)
  <1>1. \A t \in Thread : Len(r[t].messages) \in Nat
    BY DEF Rows, Row
  <1>2. QED
    BY <1>1 DEF Older, Begins

\* The invariant holds in the beginning.
LEMMA InitIsTrue ==
  ASSUME Init
  PROVE  IInv
  <1>1. FileTrue
    <2>1. PICK rows \in InitialCache : file = [a \in Account |-> [rows |-> rows[a], ino |-> 0, mtime |-> 0]]
      BY DEF Init
    <2>2. rows \in [Account -> Rows] /\ MaxWrites \in Nat
      BY ReadsAssumption
    <2>3. file \in [Account -> File] /\ \A a \in Account : file[a].ino <= 0 /\ file[a].mtime <= 0
      BY <2>1, <2>2 DEF File
    <2>4. now = 0 /\ shrunk = FALSE
      BY DEF Init
    <2>5. now \in 0..MaxWrites
      BY <2>2, <2>4
    <2>6. QED
      BY <2>3, <2>4, <2>5 DEF FileTrue
  <1>2. CopyTrue
    BY DEF Init, CopyTrue
  <1>3. DraftTrue
    BY DEF Init, DraftTrue
  <1>4. ScanTrue
    BY DEF Init, ScanTrue
  <1>5. QED
    BY <1>1, <1>2, <1>3, <1>4 DEF IInv

(***************************************************************************)
(* Steps of the application.                                               *)
(***************************************************************************)

\* A write whose identity tells of it, and that takes nothing out of a thread of
\* the drafts' account unless it says so.
LEMMA Written ==
  ASSUME IInv, WritesOnce, NEW a \in Account, NEW f \in File,
         file' = [file EXCEPT ![a] = f],
         f.ino \in {file[a].ino, now'}, f.mtime = now',
         shrunk' \in BOOLEAN, shrunk => shrunk',
         ~shrunk' => Older(file[a].rows, f.rows),
         scan' = scan \/ scan' = Freeze(a)
  PROVE  IInv'
  <1>1. /\ now \in Nat /\ now' = now + 1 /\ now' \in 0..MaxWrites
        /\ UNCHANGED <<copy, draft>>
        /\ file \in [Account -> File] /\ Own \in Account
        /\ \A b \in Account : file[b].ino <= now /\ file[b].mtime <= now
    BY ReadsAssumption DEF IInv, FileTrue, WritesOnce
  <1>2. FileTrue'
    <2>1. file' \in [Account -> File]
      BY <1>1
    <2>2. ASSUME NEW b \in Account PROVE file'[b].ino <= now' /\ file'[b].mtime <= now'
      <3>1. /\ file[b].ino \in Nat /\ file[b].mtime \in Nat
            /\ file[b].ino <= now /\ file[b].mtime <= now
        BY <1>1 DEF File
      <3>2. CASE b = a
        BY <1>1, <3>1, <3>2
      <3>3. CASE b # a
        BY <1>1, <3>1, <3>3
      <3>4. QED
        BY <3>2, <3>3
    <2>3. QED
      BY <1>1, <2>1, <2>2 DEF FileTrue
  <1>3. ~shrunk' => Older(file[Own].rows, file'[Own].rows)
    <2>1. CASE Own = a
      BY <1>1, <2>1
    <2>2. CASE Own # a
      <3>1. file'[Own] = file[Own] /\ file[Own].rows \in Rows
        BY <1>1, <2>2 DEF File
      <3>2. QED
        BY <3>1, OlderIsReflexive
    <2>3. QED
      BY <2>1, <2>2
  <1>4. file[Own].rows \in Rows /\ file'[Own].rows \in Rows
    BY <1>1 DEF File
  <1>5. ASSUME NEW r \in Rows, IsOld(r) PROVE IsOld(r)'
    BY <1>3, <1>4, <1>5, OlderIsTransitive DEF IsOld
  <1>6. ASSUME NEW t \in Thread, NEW m \in First, InPlace(t, m) PROVE InPlace(t, m)'
    <2> SUFFICES ASSUME ~shrunk'
                 PROVE  /\ m.index \in 1..Len(file'[Own].rows[t].messages)
                        /\ file'[Own].rows[t].messages[m.index] = m.message
      BY DEF InPlace
    <2>1. /\ m.index \in 1..Len(file[Own].rows[t].messages)
          /\ file[Own].rows[t].messages[m.index] = m.message
      BY <1>6 DEF InPlace
    <2>2. Begins(file[Own].rows[t].messages, file'[Own].rows[t].messages)
      BY <1>3 DEF Older
    <2>3. Len(file[Own].rows[t].messages) \in Nat /\ Len(file'[Own].rows[t].messages) \in Nat
      BY <1>4 DEF Rows, Row
    <2>4. m.index \in 1..Len(file'[Own].rows[t].messages)
      BY <2>1, <2>2, <2>3 DEF Begins
    <2>5. file[Own].rows[t].messages[m.index] = file'[Own].rows[t].messages[m.index]
      BY <2>1, <2>2 DEF Begins
    <2>6. QED
      BY <2>1, <2>4, <2>5
  <1>7. CopyTrue' /\ (Made => Made')
    <2>1. copy = Nothing => copy' = Nothing
      BY <1>1
    <2>2. ASSUME Made PROVE Made'
      <3>1. copy \in Copy /\ copy.mtime <= now /\ IsOld(copy.rows) /\ copy.rows \in Rows /\ copy.mtime \in Nat
        BY <2>2 DEF Made, Copy
      <3>2. IsOld(copy.rows)' /\ copy'.mtime <= now' /\ copy' \in Copy
        BY <1>1, <1>5, <3>1
      <3>3. QED
        BY <3>2 DEF Made
    <2>3. QED
      BY <2>1, <2>2 DEF IInv, CopyTrue
  <1>8. DraftTrue'
    <2>1. \A p \in Process : draft[p] = Idle \/ DoingTrue(draft[p])
      BY DEF IInv, DraftTrue
    <2>2. ASSUME NEW p \in Process, DoingTrue(draft[p]) PROVE DoingTrue(draft[p])'
      <3>1. draft[p] \in Doing /\ draft'[p] = draft[p] /\ copy' = copy
        BY <1>1, <2>2 DEF DoingTrue
      <3>2. draft[p].hand # Nothing => IsOld(draft[p].hand)'
        <4>1. draft[p].hand # Nothing => draft[p].hand \in Rows /\ IsOld(draft[p].hand)
          BY <2>2, <3>1 DEF DoingTrue, Doing
        <4>2. QED
          BY <1>1, <1>5, <4>1
      <3>3. draft[p].first # Nothing => InPlace(draft[p].thread, draft[p].first)'
        <4>1. draft[p].first # Nothing => draft[p].first \in First /\ draft[p].thread \in Thread
          BY <2>2, <3>1 DEF DoingTrue, Doing
        <4>2. QED
          BY <1>1, <1>6, <2>2, <4>1 DEF DoingTrue
      <3>4. QED
        BY <1>7, <2>2, <3>1, <3>2, <3>3 DEF DoingTrue
    <2>3. QED
      BY <1>1, <2>1, <2>2 DEF IInv, DraftTrue
  <1>9. ScanTrue'
    <2>1. CASE scan = Idle
      <3>1. scan' = Idle
        BY <2>1 DEF Freeze, Idle
      <3>2. QED
        BY <3>1 DEF ScanTrue
    <2>2. CASE scan # Idle /\ OpenedTrue
      <3>1. scan.at = "open"
        BY <2>2 DEF OpenedTrue, Opened
      <3>2. scan' = scan
        BY <3>1 DEF Freeze
      <3>3. QED
        BY <2>2, <3>2 DEF IInv, ScanTrue, OpenedTrue
    <2>3. CASE scan # Idle /\ CopyingTrue
      <3>1. /\ scan \in Copying /\ scan.account \in Account
            /\ scan.before[2] <= now /\ scan.before[2] \in Nat
        BY <2>3 DEF CopyingTrue, Copying
      <3>2. /\ scan' \in Copying
            /\ scan'.q = scan.q /\ scan'.left = scan.left /\ scan'.copies = scan.copies
            /\ scan'.truth = scan.truth /\ scan'.account = scan.account
            /\ scan'.before = scan.before /\ scan'.copied = scan.copied
            /\ scan'.replaced = Nothing => scan.replaced = Nothing
        <4>1. file[a].rows \in Rows
          BY <1>1 DEF File
        <4>2. Nothing \notin Rows
          BY ReadsAssumption
        <4>3. CASE scan' = scan
          BY <3>1, <4>3
        <4>4. CASE scan' = [scan EXCEPT !.replaced = file[a].rows]
          BY <3>1, <4>1, <4>2, <4>4 DEF Copying
        <4>5. QED
          BY <4>3, <4>4 DEF Freeze
      <3>3. Stable' => Stable /\ file'[scan.account] = file[scan.account]
        <4>1. CASE scan.account = a
          <5>1. file'[scan.account].mtime = now'
            BY <1>1, <4>1
          <5>2. now' # scan.before[2]
            BY <1>1, <3>1
          <5>3. Identity(file[scan.account])' = scan'.before => now' = scan.before[2]
            BY <3>2, <5>1 DEF Identity
          <5>4. QED
            BY <3>2, <5>2, <5>3 DEF Stable
        <4>2. CASE scan.account # a
          <5>1. file'[scan.account] = file[scan.account]
            BY <1>1, <3>1, <4>2
          <5>2. QED
            BY <3>2, <5>1 DEF Stable, Identity
        <4>3. QED
          BY <4>1, <4>2
      <3>4. CopyingTrue'
        <4>1. scan'.before[2] <= now'
          BY <1>1, <3>1, <3>2
        <4>2. QED
          BY <2>3, <3>2, <3>3, <4>1 DEF CopyingTrue
      <3>5. QED
        BY <2>3, <3>2, <3>4 DEF IInv, ScanTrue
    <2>4. QED
      BY <2>1, <2>2, <2>3 DEF IInv, ScanTrue
  <1>10. QED
    BY <1>2, <1>7, <1>8, <1>9 DEF IInv

\* One thread of a cache is written.
LEMMA RowWritten ==
  ASSUME IInv, NEW a \in Account, NEW t \in Thread, NEW row \in Row, Write(a, t, row),
         shrunk' \in BOOLEAN, shrunk => shrunk',
         ~shrunk' => Begins(file[a].rows[t].messages, row.messages)
  PROVE  IInv'
  <1> DEFINE f == [file[a] EXCEPT !.rows[t] = row, !.mtime = now']
  <1>1. /\ WritesOnce /\ scan' = scan
        /\ file' = [file EXCEPT ![a].rows[t] = row, ![a].mtime = now']
    BY DEF Write
  <1>2. file \in [Account -> File] /\ now' \in Nat
    BY ReadsAssumption, <1>1 DEF IInv, FileTrue, WritesOnce
  <1>3. file[a] \in File /\ file[a].rows \in Rows
    BY <1>2 DEF File
  <1>4. [file[a].rows EXCEPT ![t] = row] \in Rows
    BY <1>3 DEF Rows
  <1>5. f = [file[a] EXCEPT !.rows = [file[a].rows EXCEPT ![t] = row], !.mtime = now']
    OBVIOUS
  <1>6. f \in File /\ f.ino = file[a].ino /\ f.mtime = now' /\ f.rows = [file[a].rows EXCEPT ![t] = row]
    BY <1>2, <1>3, <1>4, <1>5 DEF File
  <1>7. file' = [file EXCEPT ![a] = f]
    BY <1>1, <1>2, <1>3 DEF File
  <1>8. ~shrunk' => Older(file[a].rows, f.rows)
    <2> SUFFICES ASSUME ~shrunk', NEW u \in Thread
                 PROVE  Begins(file[a].rows[u].messages, f.rows[u].messages)
      BY DEF Older
    <2>1. CASE u = t
      BY <1>3, <1>6, <2>1 DEF Rows
    <2>2. CASE u # t
      <3>1. f.rows[u] = file[a].rows[u]
        BY <1>3, <1>6, <2>2 DEF Rows
      <3>2. QED
        BY <1>3, <3>1, OlderIsReflexive DEF Older
    <2>3. QED
      BY <2>1, <2>2
  <1> HIDE DEF f
  <1>9. QED
    BY <1>1, <1>6, <1>7, <1>8, Written

\* A thread to which a message is added begins with what it was.
LEMMA AppendGrows ==
  ASSUME NEW s \in Seq(Message), NEW m \in Message
  PROVE  Append(s, m) \in Seq(Message) /\ Begins(s, Append(s, m))
  BY DEF Begins

\* The application keeps the invariant.
LEMMA AppKeeps ==
  ASSUME IInv, App
  PROVE  IInv'
  <1>1. /\ file \in [Account -> File] /\ shrunk \in BOOLEAN
        /\ Own \in Account /\ Edited \subseteq Thread
    BY ReadsAssumption DEF IInv, FileTrue
  <1>2. PICK a \in Account :
          \/ Replaces(a)
          \/ \E t \in Thread : (\E m \in Message : Arrives(a, t, m)) \/ Withdraws(a, t) \/ Garbles(a, t)
    BY <1>1 DEF App
  <1>3. file[a] \in File /\ file[a].rows \in Rows
    BY <1>1 DEF File
  <1>4. ASSUME NEW t \in Thread
        PROVE  /\ file[a].rows[t] \in Row
               /\ file[a].rows[t].messages \in Seq(Message) /\ Len(file[a].rows[t].messages) \in Nat
               /\ file[a].rows[t] \in [messages : Seq(Message), garbled : BOOLEAN]
               /\ file[a].rows[t] # Empty => file[a].rows[t].messages # << >>
    <2>1. file[a].rows[t] \in Row
      BY <1>3, <1>4 DEF Rows
    <2>2. QED
      BY <2>1, RowIs
  <1>5. CASE Replaces(a)
    <2> DEFINE f == [file[a] EXCEPT !.ino = now', !.mtime = now']
    <2>1. WritesOnce /\ scan' = Freeze(a) /\ shrunk' = shrunk /\ now' \in Nat
      BY <1>5 DEF Replaces, WritesOnce, IInv, FileTrue
    <2>2. f \in File /\ f.ino = now' /\ f.mtime = now' /\ f.rows = file[a].rows
      BY <1>3, <2>1 DEF File
    <2>3. file' = [file EXCEPT ![a] = f]
      BY <1>1, <1>3, <1>5 DEF Replaces, File
    <2>4. Older(file[a].rows, f.rows)
      BY <1>3, <2>2, OlderIsReflexive
    <2> HIDE DEF f
    <2>5. QED
      BY <1>1, <2>1, <2>2, <2>3, <2>4, Written
  <1>6. ASSUME NEW t \in Thread, NEW m \in Message, Arrives(a, t, m) PROVE IInv'
    <2> DEFINE row == [file[a].rows[t] EXCEPT !.messages = Append(@, m)]
    <2>1. Write(a, t, row) /\ shrunk' = shrunk
      BY <1>6 DEF Arrives
    <2>2. /\ Append(file[a].rows[t].messages, m) \in Seq(Message)
          /\ Begins(file[a].rows[t].messages, Append(file[a].rows[t].messages, m))
      BY <1>4, AppendGrows
    <2>3. row \in Row /\ row.messages = Append(file[a].rows[t].messages, m)
      <3>1. /\ file[a].rows[t] \in [messages : Seq(Message), garbled : BOOLEAN]
            /\ Append(file[a].rows[t].messages, m) # << >>
        BY <1>4
      <3>2. row = [file[a].rows[t] EXCEPT !.messages = Append(file[a].rows[t].messages, m)]
        OBVIOUS
      <3>3. /\ row \in [messages : Seq(Message), garbled : BOOLEAN]
            /\ row.messages = Append(file[a].rows[t].messages, m)
        BY <2>2, <3>1, <3>2
      <3>4. QED
        BY <3>1, <3>3, IsRow
    <2> HIDE DEF row
    <2>4. QED
      BY <1>1, <2>1, <2>2, <2>3, RowWritten
  <1>7. ASSUME NEW t \in Thread, Withdraws(a, t) PROVE IInv'
    <2> DEFINE row == IF Len(file[a].rows[t].messages) = 1 THEN Empty
                      ELSE [file[a].rows[t] EXCEPT !.messages = Front(@)]
    <2>1. Write(a, t, row) /\ shrunk' = TRUE /\ file[a].rows[t].messages # << >>
      BY <1>7 DEF Withdraws
    <2>2. row \in Row
      <3>1. Front(file[a].rows[t].messages) \in Seq(Message)
        BY <1>4, <2>1 DEF Front
      <3>2. ASSUME Len(file[a].rows[t].messages) # 1
            PROVE  [file[a].rows[t] EXCEPT !.messages = Front(@)] \in Row
        <4> DEFINE cut == [file[a].rows[t] EXCEPT !.messages = Front(@)]
        <4>1. Front(file[a].rows[t].messages) # << >>
          BY <1>4, <2>1, <3>2, FrontIsThere
        <4>2. cut \in [messages : Seq(Message), garbled : BOOLEAN] /\ cut.messages # << >>
          BY <1>4, <3>1, <4>1
        <4>3. QED
          BY <4>2, IsRow
      <3>3. Empty \in Row
        BY DEF Empty, Row
      <3>4. QED
        BY <3>2, <3>3
    <2> HIDE DEF row
    <2>3. QED
      BY <1>1, <2>1, <2>2, RowWritten
  <1>8. ASSUME NEW t \in Thread, Garbles(a, t) PROVE IInv'
    <2> DEFINE row == [file[a].rows[t] EXCEPT !.garbled = TRUE]
    <2>1. Write(a, t, row) /\ shrunk' = shrunk
      BY <1>8 DEF Garbles
    <2>2. row \in Row /\ row.messages = file[a].rows[t].messages
      <3>1. file[a].rows[t] # Empty
        BY <1>8 DEF Garbles
      <3>2. row \in [messages : Seq(Message), garbled : BOOLEAN] /\ row.messages = file[a].rows[t].messages
        BY <1>4
      <3>3. QED
        BY <1>4, <3>1, <3>2, IsRow
    <2>3. Begins(file[a].rows[t].messages, row.messages)
      BY <1>4, <2>2 DEF Begins
    <2> HIDE DEF row
    <2>4. QED
      BY <1>1, <2>1, <2>2, <2>3, RowWritten
  <1>9. QED
    BY <1>2, <1>5, <1>6, <1>7, <1>8

(***************************************************************************)
(* Steps of drafts.                                                        *)
(***************************************************************************)

\* One process moves, and the shared copy stays or is made anew.
LEMMA Drafted ==
  ASSUME IInv, NEW p \in Process, UNCHANGED <<appVars, scan>>,
         CopyTrue', Made => Made',
         NEW d \in Doing \cup {Idle}, draft' = [draft EXCEPT ![p] = d],
         draft'[p] = Idle \/ DoingTrue(draft[p])'
  PROVE  IInv'
  <1>1. draft \in [Process -> Doing \cup {Idle}] /\ file' = file /\ now' = now /\ shrunk' = shrunk
    BY DEF IInv, DraftTrue, appVars
  <1>2. draft' \in [Process -> Doing \cup {Idle}]
    BY <1>1
  <1>3. ASSUME NEW q \in Process, q # p PROVE draft'[q] = Idle \/ DoingTrue(draft[q])'
    <2>1. draft'[q] = draft[q]
      BY <1>1, <1>3
    <2>2. draft[q] = Idle \/ DoingTrue(draft[q])
      BY DEF IInv, DraftTrue
    <2>3. QED
      BY <1>1, <2>1, <2>2 DEF DoingTrue, Made, IsOld, InPlace
  <1>4. DraftTrue'
    BY <1>2, <1>3 DEF DraftTrue
  <1>5. FileTrue' /\ ScanTrue'
    <2>1. scan' = scan
      OBVIOUS
    <2>2. QED
      BY <1>1, <2>1 DEF IInv, FileTrue, ScanTrue, OpenedTrue, CopyingTrue, Stable, Identity
  <1>6. QED
    BY <1>4, <1>5 DEF IInv

\* What a process can read of its thread.
LEMMA ReadableIs ==
  ASSUME IInv, NEW p \in Process, draft[p].at = "read", NEW messages \in Readable(p)
  PROVE  /\ DoingTrue(draft[p]) /\ draft[p].thread \in Thread
         /\ copy \in Copy /\ IsOld(copy.rows)
         /\ messages \in Seq(Message)
         /\ messages = << >> \/ messages = copy.rows[draft[p].thread].messages
  <1>1. DoingTrue(draft[p])
    BY DEF IInv, DraftTrue, Idle
  <1>2. draft[p].thread \in Thread /\ copy \in Copy /\ IsOld(copy.rows)
    BY <1>1 DEF DoingTrue, Doing, Made
  <1>3. copy.rows[draft[p].thread].messages \in Seq(Message)
    BY <1>2, LengthOfThread DEF Copy
  <1>4. messages = << >> \/ messages = copy.rows[draft[p].thread].messages
    BY DEF Readable
  <1>5. << >> \in Seq(Message)
    OBVIOUS
  <1>6. QED
    BY <1>1, <1>2, <1>3, <1>4, <1>5

\* So do the processes that create drafts.
LEMMA DraftingKeeps ==
  ASSUME IInv, NEW p \in Process, Drafting(p)
  PROVE  IInv'
  <1>1. /\ draft \in [Process -> Doing \cup {Idle}]
        /\ file \in [Account -> File] /\ Own \in Account /\ Edited \subseteq Thread /\ Nothing \notin Rows
        /\ now \in Nat
        /\ CopyTrue
    BY ReadsAssumption DEF IInv, DraftTrue, FileTrue
  <1>2. draft[p].at # "idle" => DoingTrue(draft[p]) /\ draft[p] \in Doing
    BY DEF IInv, DraftTrue, Idle, DoingTrue
  <1>3. file[Own].rows \in Rows
    BY <1>1 DEF File
  <1>4. IsOld(file[Own].rows)
    BY <1>3, OlderIsReflexive DEF IsOld
  <1>5. ASSUME NEW t \in Edited, NEW purpose \in {"reply", "forward"}, CreateStarts(p, t, purpose)
        PROVE  IInv'
    <2> DEFINE d == [at |-> "check", purpose |-> purpose, thread |-> t, first |-> Nothing, hand |-> Nothing]
    <2>1. d \in Doing /\ d.at = "check" /\ d.first = Nothing /\ d.hand = Nothing
      BY <1>1 DEF Doing, DraftStep
    <2>2. draft' = [draft EXCEPT ![p] = d] /\ UNCHANGED <<appVars, scan>> /\ copy' = copy
      BY <1>5 DEF CreateStarts
    <2>3. draft'[p] = d
      BY <1>1, <2>2
    <2> HIDE DEF d
    <2>4. DoingTrue(draft[p])'
      BY <2>1, <2>3 DEF DoingTrue
    <2>5. CopyTrue' /\ (Made => Made')
      BY <1>1, <2>2 DEF CopyTrue, Made, IsOld, appVars
    <2>6. QED
      BY <2>1, <2>2, <2>4, <2>5, Drafted
  <1>6. CASE CopyChecks(p)
    <2> DEFINE d == [draft[p] EXCEPT !.at = IF Fresh THEN "read" ELSE "source"]
    <2>1. draft[p].at = "check" /\ DoingTrue(draft[p]) /\ draft[p] \in Doing
      BY <1>2, <1>6 DEF CopyChecks
    <2>2. draft' = [draft EXCEPT ![p] = d] /\ UNCHANGED <<appVars, scan>> /\ copy' = copy
      BY <1>6 DEF CopyChecks, Go
    <2>3. /\ d \in Doing /\ d.at \in {"read", "source"} /\ d.purpose = draft[p].purpose
          /\ d.thread = draft[p].thread /\ d.first = draft[p].first /\ d.hand = draft[p].hand
          /\ d.at = "read" => Made
      BY <1>1, <2>1 DEF Doing, DraftStep, Fresh, CopyTrue
    <2>4. draft'[p] = d
      BY <1>1, <2>2
    <2> HIDE DEF d
    <2>5. DoingTrue(draft[p])'
      BY <2>1, <2>2, <2>3, <2>4 DEF DoingTrue, Made, IsOld, InPlace, appVars
    <2>6. CopyTrue' /\ (Made => Made')
      BY <1>1, <2>2 DEF CopyTrue, Made, IsOld, appVars
    <2>7. QED
      BY <2>2, <2>3, <2>5, <2>6, Drafted
  <1>7. CASE CopyReads(p)
    <2> DEFINE d == [draft[p] EXCEPT !.at = "truncate", !.hand = file[Own].rows]
    <2>1. draft[p].at = "source" /\ DoingTrue(draft[p]) /\ draft[p] \in Doing
      BY <1>2, <1>7 DEF CopyReads
    <2>2. draft' = [draft EXCEPT ![p] = d] /\ UNCHANGED <<appVars, scan>> /\ copy' = copy
      BY <1>1, <1>7 DEF CopyReads
    <2>3. /\ d \in Doing /\ d.at = "truncate" /\ d.purpose = draft[p].purpose
          /\ d.thread = draft[p].thread /\ d.first = draft[p].first /\ d.hand = file[Own].rows
      BY <1>3, <2>1 DEF Doing, DraftStep
    <2>4. draft'[p] = d
      BY <1>1, <2>2
    <2> HIDE DEF d
    <2>5. DoingTrue(draft[p])'
      BY <1>1, <1>3, <1>4, <2>1, <2>2, <2>3, <2>4 DEF DoingTrue, Made, IsOld, InPlace, appVars
    <2>6. CopyTrue' /\ (Made => Made')
      BY <1>1, <2>2 DEF CopyTrue, Made, IsOld, appVars
    <2>7. QED
      BY <2>2, <2>3, <2>5, <2>6, Drafted
  <1>8. ASSUME NEW whole \in BOOLEAN, NEW d \in Doing,
               draft[p].at \in {"truncate", "fill"},
               copy' = [rows |-> draft[p].hand, whole |-> whole, mtime |-> now],
               d.at = IF whole THEN "read" ELSE "fill", d.purpose = draft[p].purpose,
               d.thread = draft[p].thread, d.first = draft[p].first,
               d.hand = IF whole THEN Nothing ELSE draft[p].hand,
               draft' = [draft EXCEPT ![p] = d], UNCHANGED <<appVars, scan>>
        PROVE  IInv'
    <2>1. DoingTrue(draft[p]) /\ draft[p] \in Doing
      BY <1>2, <1>8
    <2>2. draft[p].hand \in Rows /\ IsOld(draft[p].hand)
      BY <1>8, <2>1 DEF DoingTrue, Doing
    <2>3. copy' \in Copy
      BY <1>1, <1>8, <2>2 DEF Copy
    <2>4. Made'
      BY <1>1, <1>8, <2>2, <2>3 DEF Made, IsOld, appVars
    <2>5. draft'[p] = d
      BY <1>1, <1>8
    <2>6. DoingTrue(draft[p])'
      BY <1>1, <1>8, <2>1, <2>2, <2>4, <2>5 DEF DoingTrue, IsOld, InPlace, appVars
    <2>7. QED
      BY <1>8, <2>4, <2>6, Drafted DEF CopyTrue
  <1>9. CASE CopyTruncates(p)
    <2> DEFINE d == [draft[p] EXCEPT !.at = "fill"]
    <2>1. draft[p].at = "truncate" /\ draft[p] \in Doing
      BY <1>2, <1>9 DEF CopyTruncates
    <2>2. draft' = [draft EXCEPT ![p] = d]
      BY <1>9 DEF CopyTruncates, Go
    <2>3. /\ d \in Doing /\ d.at = "fill" /\ d.purpose = draft[p].purpose
          /\ d.thread = draft[p].thread /\ d.first = draft[p].first /\ d.hand = draft[p].hand
      BY <2>1 DEF Doing, DraftStep
    <2> HIDE DEF d
    <2>4. QED
      BY <1>8, <1>9, <2>1, <2>2, <2>3 DEF CopyTruncates
  <1>10. CASE CopyFills(p)
    <2> DEFINE d == [draft[p] EXCEPT !.at = "read", !.hand = Nothing]
    <2>1. draft[p].at = "fill" /\ draft[p] \in Doing
      BY <1>2, <1>10 DEF CopyFills
    <2>2. draft' = [draft EXCEPT ![p] = d]
      BY <1>1, <1>10 DEF CopyFills
    <2>3. /\ d \in Doing /\ d.at = "read" /\ d.purpose = draft[p].purpose
          /\ d.thread = draft[p].thread /\ d.first = draft[p].first /\ d.hand = Nothing
      BY <2>1 DEF Doing, DraftStep
    <2> HIDE DEF d
    <2>4. QED
      BY <1>8, <1>10, <2>1, <2>2, <2>3 DEF CopyFills
  <1>11. CASE ForwardFinds(p)
    <2>1. draft[p].at = "read" /\ draft[p].purpose = "forward"
      BY <1>11 DEF ForwardFinds
    <2>2. PICK messages \in Readable(p) \ {<< >>} :
            draft' = [draft EXCEPT ![p].at = "check",
                        ![p].first = [index |-> FindForwardMessage(messages),
                                      message |-> messages[FindForwardMessage(messages)]]]
      BY <1>11 DEF ForwardFinds
    <2> DEFINE i == FindForwardMessage(messages)
               first == [index |-> i, message |-> messages[i]]
               d == [draft[p] EXCEPT !.at = "check", !.first = first]
    <2>3. /\ DoingTrue(draft[p]) /\ draft[p] \in Doing /\ draft[p].thread \in Thread
          /\ copy \in Copy /\ IsOld(copy.rows)
          /\ messages \in Seq(Message) /\ messages # << >>
          /\ messages = copy.rows[draft[p].thread].messages
      BY <2>1, <2>2, ReadableIs DEF DoingTrue
    <2>4. i \in 1..Len(messages) /\ messages[i] \in Message
      BY <2>3, ForwardPlace
    <2> HIDE DEF i
    <2>5. first \in First /\ first.index = i /\ first.message = messages[i]
      BY <2>3, <2>4 DEF First
    <2>6. InPlace(draft[p].thread, first)
      <3>1. CASE shrunk
        BY <3>1 DEF InPlace
      <3>2. CASE ~shrunk
        <4>1. Begins(messages, file[Own].rows[draft[p].thread].messages)
          BY <2>3, <3>2 DEF IsOld, Older
        <4>2. Len(messages) \in Nat /\ Len(file[Own].rows[draft[p].thread].messages) \in Nat
          <5>1. Len(file[Own].rows[draft[p].thread].messages) \in Nat
            BY <1>3, <2>3, LengthOfThread
          <5>2. Len(messages) \in Nat
            <6>1. messages \in Seq(Message)
              BY <2>3
            <6>2. QED
              BY <6>1
          <5>3. QED
            BY <5>1, <5>2
        <4>3. i \in 1..Len(file[Own].rows[draft[p].thread].messages)
          BY <2>4, <4>1, <4>2 DEF Begins
        <4>4. file[Own].rows[draft[p].thread].messages[i] = messages[i]
          BY <2>4, <4>1 DEF Begins
        <4>5. QED
          BY <2>5, <4>3, <4>4 DEF InPlace
      <3>3. QED
        BY <3>1, <3>2
    <2> HIDE DEF first
    <2>7. /\ d \in Doing /\ d.at = "check" /\ d.purpose = "forward" /\ d.thread = draft[p].thread
          /\ d.first = first /\ d.hand = draft[p].hand
      BY <2>1, <2>3, <2>5 DEF Doing, DraftStep
    <2>8. draft' = [draft EXCEPT ![p] = d] /\ UNCHANGED <<appVars, scan>> /\ copy' = copy
      BY <1>1, <1>11, <2>2 DEF ForwardFinds, first, i
    <2>9. draft'[p] = d
      BY <1>1, <2>8
    <2> HIDE DEF d
    <2>10. DoingTrue(draft[p])'
      BY <1>1, <2>1, <2>3, <2>6, <2>7, <2>8, <2>9 DEF DoingTrue, Made, IsOld, InPlace, appVars
    <2>11. CopyTrue' /\ (Made => Made')
      BY <1>1, <2>8 DEF CopyTrue, Made, IsOld, appVars
    <2>12. QED
      BY <2>7, <2>8, <2>10, <2>11, Drafted
  <1>12. ASSUME draft' = [draft EXCEPT ![p] = Idle], UNCHANGED <<appVars, copy, scan>> PROVE IInv'
    <2>1. CopyTrue' /\ (Made => Made')
      BY <1>1, <1>12 DEF CopyTrue, Made, IsOld, appVars
    <2>2. draft'[p] = Idle
      BY <1>1, <1>12
    <2>3. QED
      BY <1>12, <2>1, <2>2, Drafted
  <1>13. CASE CreateFails(p) \/ CreateReply(p) \/ CreateForward(p) \/ Dies(p)
    BY <1>12, <1>13 DEF CreateFails, CreateReply, CreateForward, Dies, Ends
  <1>14. QED
    BY <1>5, <1>6, <1>7, <1>9, <1>10, <1>11, <1>13 DEF Drafting

(***************************************************************************)
(* Steps of the scan.                                                      *)
(***************************************************************************)

\* They leave everything else alone.
LEMMA Scanned ==
  ASSUME IInv, UNCHANGED <<appVars, copy, draft>>, ScanTrue'
  PROVE  IInv'
  <1>1. file' = file /\ now' = now /\ shrunk' = shrunk /\ copy' = copy /\ draft' = draft
    BY DEF appVars
  <1>2. FileTrue' /\ CopyTrue' /\ DraftTrue'
    BY <1>1 DEF IInv, FileTrue, CopyTrue, Made, DraftTrue, DoingTrue, IsOld, InPlace
  <1>3. QED
    BY <1>2 DEF IInv

\* A scan that starts has copied nothing.
LEMMA StartKeeps ==
  ASSUME IInv, NEW q \in Request, ScanStarts(q)
  PROVE  IInv'
  <1>1. /\ scan' = [at |-> "open", q |-> q, left |-> q.accounts, copies |-> << >>, truth |-> << >>]
        /\ q.accounts \subseteq Account /\ q.accounts # {}
        /\ UNCHANGED <<appVars, copy, draft>>
    BY ReadsAssumption DEF ScanStarts, ValidRequest
  <1>2. << >> \in Snapshots /\ DOMAIN << >> = {}
    BY NothingIsPartial DEF Snapshots
  <1>3. scan' \in Opened
    BY <1>1, <1>2 DEF Opened
  <1>4. ScanTrue'
    BY <1>1, <1>2, <1>3 DEF ScanTrue, OpenedTrue
  <1>5. QED
    BY <1>1, <1>4, Scanned

\* It opens a file and remembers its identity.
LEMMA OpensKeeps ==
  ASSUME IInv, SnapshotOpens
  PROVE  IInv'
  <1>1. PICK a \in scan.left :
          scan' = [at |-> "copy", q |-> scan.q, left |-> scan.left, copies |-> scan.copies,
                   truth |-> With(scan.truth, a, file[a].rows), account |-> a,
                   before |-> Identity(file[a]), copied |-> << >>, replaced |-> Nothing]
    BY DEF SnapshotOpens
  <1>2. /\ scan.q.accounts \subseteq Account
        /\ scan.left # {} /\ scan.left \subseteq scan.q.accounts
        /\ DOMAIN scan.copies = scan.q.accounts \ scan.left
        /\ \A b \in DOMAIN scan.copies : scan.copies[b] = scan.truth[b]
        /\ scan \in Opened
        /\ DOMAIN scan.truth = scan.q.accounts \ scan.left
    BY DEF IInv, ScanTrue, SnapshotOpens, OpenedTrue, CopyingTrue, Copying, Idle
  <1>3. /\ scan.q \in Request /\ scan.left \in SUBSET Account
        /\ scan.copies \in Snapshots /\ scan.truth \in Snapshots
    BY <1>2 DEF Opened
  <1>4. /\ file[a] \in File /\ file[a].rows \in Rows /\ a \in Account
        /\ file[a].mtime <= now /\ Identity(file[a]) \in Nat \X Nat /\ Identity(file[a])[2] = file[a].mtime
    BY <1>2 DEF IInv, FileTrue, File, Identity
  <1>5. /\ With(scan.truth, a, file[a].rows) \in Snapshots
        /\ DOMAIN With(scan.truth, a, file[a].rows) = DOMAIN scan.truth \cup {a}
        /\ With(scan.truth, a, file[a].rows)[a] = file[a].rows
        /\ \A b \in DOMAIN scan.truth : b # a => With(scan.truth, a, file[a].rows)[b] = scan.truth[b]
    <2>1. scan.truth \in Partial(Account, Rows)
      BY <1>3 DEF Snapshots
    <2>2. With(scan.truth, a, file[a].rows) \in Snapshots
      BY <1>4, <2>1, WithIsPartial DEF Snapshots
    <2>3. QED
      BY <2>2 DEF With
  <1>6. << >> \in Partial(Thread, Row) /\ DOMAIN << >> = {}
    BY NothingIsPartial
  <1>7. scan' \in Copying
    BY <1>1, <1>3, <1>4, <1>5, <1>6 DEF Copying
  <1>8. UNCHANGED <<appVars, copy, draft>> /\ file' = file /\ now' = now
    BY DEF SnapshotOpens, appVars
  <1>9. CopyingTrue'
    BY <1>1, <1>2, <1>4, <1>5, <1>6, <1>7, <1>8 DEF CopyingTrue
  <1>10. \A b \in DOMAIN scan'.copies : scan'.copies[b] = scan'.truth[b]
    BY <1>1, <1>2, <1>5
  <1>11. ScanTrue'
    BY <1>1, <1>2, <1>9, <1>10 DEF ScanTrue
  <1>12. QED
    BY <1>8, <1>11, Scanned

\* A scan that is copying.
LEMMA CopyingFacts ==
  ASSUME IInv, scan.at = "copy"
  PROVE  /\ CopyingTrue /\ scan \in Copying
         /\ scan.q.accounts \subseteq Account
         /\ scan.left # {} /\ scan.left \subseteq scan.q.accounts
         /\ DOMAIN scan.copies = scan.q.accounts \ scan.left
         /\ \A a \in DOMAIN scan.copies : scan.copies[a] = scan.truth[a]
         /\ DOMAIN scan.truth = (scan.q.accounts \ scan.left) \cup {scan.account}
         /\ scan.account \in scan.left /\ scan.account \in Account
         /\ file \in [Account -> File] /\ file[scan.account].rows \in Rows
  <1>1. /\ CopyingTrue /\ scan.q.accounts \subseteq Account
        /\ scan.left # {} /\ scan.left \subseteq scan.q.accounts
        /\ DOMAIN scan.copies = scan.q.accounts \ scan.left
        /\ \A a \in DOMAIN scan.copies : scan.copies[a] = scan.truth[a]
    BY DEF IInv, ScanTrue, OpenedTrue, Opened, Idle
  <1>2. /\ scan \in Copying /\ scan.account \in scan.left
        /\ DOMAIN scan.truth = (scan.q.accounts \ scan.left) \cup {scan.account}
    BY <1>1 DEF CopyingTrue
  <1>3. file \in [Account -> File]
    BY DEF IInv, FileTrue
  <1>4. scan.account \in Account
    BY <1>1, <1>2
  <1>5. QED
    BY <1>1, <1>2, <1>3, <1>4 DEF File

\* It copies a block.
LEMMA CopiesKeeps ==
  ASSUME IInv, SnapshotCopies
  PROVE  IInv'
  <1> DEFINE t == Min(Uncopied)
             source == IF scan.replaced = Nothing THEN file[scan.account].rows ELSE scan.replaced
             copied == With(scan.copied, t, source[t])
  <1>1. /\ scan.at = "copy" /\ Uncopied # {}
        /\ UNCHANGED <<appVars, copy, draft>> /\ file' = file /\ now' = now
        /\ scan' = [scan EXCEPT !.copied = With(@, t, source[t])]
    BY DEF SnapshotCopies, appVars
  <1>2. /\ CopyingTrue /\ scan \in Copying
        /\ scan.q.accounts \subseteq Account
        /\ scan.left # {} /\ scan.left \subseteq scan.q.accounts
        /\ DOMAIN scan.copies = scan.q.accounts \ scan.left
        /\ \A a \in DOMAIN scan.copies : scan.copies[a] = scan.truth[a]
        /\ file[scan.account].rows \in Rows
    BY <1>1, CopyingFacts
  <1>3. /\ scan.replaced \in Rows \cup {Nothing} /\ scan.copied \in Partial(Thread, Row)
    BY <1>2 DEF Copying
  <1>4. t \in Thread
    <2>1. Uncopied \in SUBSET Nat
      BY ScanAssumption DEF Uncopied
    <2>2. t \in Uncopied
      BY <1>1, <2>1, MinIsLeast
    <2>3. QED
      BY <2>2 DEF Uncopied
  <1>5. source \in Rows /\ (scan.replaced = Nothing => source = file[scan.account].rows)
    BY <1>2, <1>3
  <1>6. source[t] \in Row
    BY <1>4, <1>5 DEF Rows
  <1>7. /\ copied \in Partial(Thread, Row) /\ DOMAIN copied = DOMAIN scan.copied \cup {t}
        /\ copied[t] = source[t]
        /\ \A u \in DOMAIN scan.copied : u # t => copied[u] = scan.copied[u]
    <2>1. scan.copied \in Partial(Thread, Row)
      BY <1>3
    <2>2. copied \in Partial(Thread, Row)
      BY <1>4, <1>6, <2>1, WithIsPartial
    <2>3. QED
      BY <2>2 DEF With
  <1> HIDE DEF copied, source, t
  <1>8. /\ scan' \in Copying /\ scan'.at = scan.at
        /\ scan'.q = scan.q /\ scan'.left = scan.left /\ scan'.copies = scan.copies
        /\ scan'.truth = scan.truth /\ scan'.account = scan.account
        /\ scan'.before = scan.before /\ scan'.copied = copied /\ scan'.replaced = scan.replaced
    <2>1. scan' = [scan EXCEPT !.copied = copied]
      BY <1>1 DEF copied
    <2>2. QED
      BY <1>2, <1>7, <2>1 DEF Copying
  <1>9. Stable' <=> Stable
    BY <1>1, <1>8 DEF Stable, Identity
  <1>10. ASSUME Stable, NEW u \in DOMAIN copied PROVE copied[u] = file[scan.account].rows[u]
    <2>1. CASE u = t
      BY <1>5, <1>7, <1>10, <2>1 DEF Stable
    <2>2. CASE u # t
      BY <1>2, <1>7, <1>10, <2>2 DEF CopyingTrue
    <2>3. QED
      BY <2>1, <2>2
  <1>11. CopyingTrue'
    BY <1>1, <1>2, <1>8, <1>9, <1>10 DEF CopyingTrue
  <1>12. ScanTrue'
    BY <1>2, <1>8, <1>11 DEF ScanTrue
  <1>13. QED
    BY <1>1, <1>12, Scanned

\* What a scan takes of an account is what its file held when it was opened.
LEMMA CopyIsTrue ==
  ASSUME IInv, SnapshotTaken
  PROVE  scan.copied \in Rows /\ scan.copied = scan.truth[scan.account]
  <1>1. /\ CopyingTrue /\ scan \in Copying
        /\ file[scan.account].rows \in Rows
        /\ Stable /\ Uncopied = {}
    BY CopyingFacts DEF SnapshotTaken
  <1>2. scan.copied \in Partial(Thread, Row)
    BY <1>1 DEF Copying
  <1>3. scan.truth[scan.account] = file[scan.account].rows
    BY <1>1 DEF CopyingTrue
  <1>4. PICK E \in SUBSET Thread : scan.copied \in [E -> Row]
    BY <1>2 DEF Partial
  <1>5. E = Thread
    BY <1>1, <1>4 DEF Uncopied
  <1>6. \A t \in Thread : scan.copied[t] = file[scan.account].rows[t]
    BY <1>1, <1>4, <1>5 DEF CopyingTrue
  <1>7. scan.copied \in [Thread -> Row] /\ file[scan.account].rows \in [Thread -> Row]
    BY <1>1, <1>4, <1>5 DEF Rows
  <1>8. scan.copied = file[scan.account].rows
    BY <1>6, <1>7
  <1>9. QED
    BY <1>1, <1>3, <1>8

\* A scan that takes the copy of its last account has all files as they were opened.
LEMMA AllAsOpened ==
  ASSUME IInv, SnapshotTaken, scan.left \ {scan.account} = {}
  PROVE  With(scan.copies, scan.account, scan.copied) = scan.truth
  <1>1. /\ scan \in Copying
        /\ DOMAIN scan.copies = scan.q.accounts \ scan.left
        /\ \A a \in DOMAIN scan.copies : scan.copies[a] = scan.truth[a]
        /\ DOMAIN scan.truth = (scan.q.accounts \ scan.left) \cup {scan.account}
        /\ scan.account \in scan.left
    BY CopyingFacts DEF SnapshotTaken
  <1>2. scan.truth \in Snapshots
    BY <1>1 DEF Copying
  <1>3. scan.copied = scan.truth[scan.account]
    BY CopyIsTrue
  <1>4. PICK E \in SUBSET Account : scan.truth \in [E -> Rows]
    BY <1>2 DEF Snapshots, Partial
  <1>5. E = DOMAIN scan.copies \cup {scan.account}
    BY <1>1, <1>4
  <1>6. \A a \in E : scan.truth[a] = IF a = scan.account THEN scan.copied ELSE scan.copies[a]
    BY <1>1, <1>3, <1>5
  <1>7. scan.truth = [a \in E |-> scan.truth[a]]
    BY <1>4
  <1>8. QED
    BY <1>5, <1>6, <1>7 DEF With

\* It takes the copy of an account.
LEMMA TakenKeeps ==
  ASSUME IInv, SnapshotTaken
  PROVE  IInv'
  <1> DEFINE copies == With(scan.copies, scan.account, scan.copied)
             left == scan.left \ {scan.account}
  <1>1. /\ scan.at = "copy" /\ UNCHANGED <<appVars, copy, draft>> /\ Stable /\ Uncopied = {}
        /\ left = {} => scan' = Idle
        /\ left # {} => scan' = [at |-> "open", q |-> scan.q, left |-> left, copies |-> copies,
                                 truth |-> scan.truth]
    BY DEF SnapshotTaken
  <1>2. CASE left = {}
    <2>1. ScanTrue'
      BY <1>1, <1>2 DEF ScanTrue
    <2>2. QED
      BY <1>1, <2>1, Scanned
  <1>3. CASE left # {}
    <2>1. /\ CopyingTrue /\ scan \in Copying
          /\ scan.q.accounts \subseteq Account
          /\ scan.left # {} /\ scan.left \subseteq scan.q.accounts
          /\ DOMAIN scan.copies = scan.q.accounts \ scan.left
          /\ \A a \in DOMAIN scan.copies : scan.copies[a] = scan.truth[a]
          /\ DOMAIN scan.truth = (scan.q.accounts \ scan.left) \cup {scan.account}
          /\ scan.account \in scan.left /\ scan.account \in Account
      BY <1>1, CopyingFacts
    <2>2. /\ scan.truth \in Snapshots /\ scan.copies \in Snapshots /\ scan.q \in Request
          /\ scan.left \in SUBSET Account
      BY <2>1 DEF Copying
    <2>3. scan.copied \in Rows /\ scan.copied = scan.truth[scan.account]
      BY CopyIsTrue
    <2>4. copies \in Snapshots
      BY <2>1, <2>2, <2>3, WithIsPartial DEF Snapshots
    <2>5. DOMAIN copies = scan.q.accounts \ left
      BY <2>1 DEF With
    <2>6. \A a \in DOMAIN copies : copies[a] = scan.truth[a]
      BY <2>1, <2>3 DEF With
    <2> HIDE DEF copies
    <2>7. left \in SUBSET Account /\ left \subseteq scan.q.accounts
          /\ (scan.q.accounts \ scan.left) \cup {scan.account} = scan.q.accounts \ left
      BY <2>1, <2>2
    <2> HIDE DEF left
    <2>8. scan' \in Opened /\ DOMAIN scan'.truth = scan'.q.accounts \ scan'.left
      BY <1>1, <1>3, <2>1, <2>2, <2>4, <2>7 DEF Opened
    <2>9. ScanTrue'
      BY <1>1, <1>3, <2>1, <2>5, <2>6, <2>7, <2>8 DEF ScanTrue, OpenedTrue
    <2>10. QED
      BY <1>1, <2>9, Scanned
  <1>4. QED
    BY <1>2, <1>3

(***************************************************************************)
(* Theorems.                                                               *)
(***************************************************************************)
\* Every step keeps the invariant.
LEMMA NextKeeps ==
  ASSUME IInv, [Next]_vars
  PROVE  IInv'
  <1>1. CASE App
    BY <1>1, AppKeeps
  <1>2. ASSUME NEW p \in Process, Drafting(p) PROVE IInv'
    BY <1>2, DraftingKeeps
  <1>3. CASE Scanning
    <2>1. ASSUME scan' = Idle, UNCHANGED <<appVars, copy, draft>> PROVE IInv'
      <3>1. ScanTrue'
        BY <2>1 DEF ScanTrue
      <3>2. QED
        BY <2>1, <3>1, Scanned
    <2>2. ASSUME NEW q \in Request, ScanRefused(q) \/ ScanStarts(q) PROVE IInv'
      BY <2>1, <2>2, StartKeeps DEF ScanRefused, ScanFails
    <2>3. CASE SnapshotChanged
      BY <2>1, <2>3 DEF SnapshotChanged, ScanFails
    <2>4. QED
      BY <1>3, <2>2, <2>3, OpensKeeps, CopiesKeeps, TakenKeeps DEF Scanning
  <1>4. ASSUME UNCHANGED <<appVars, copy, draft, scan>> PROVE IInv'
    <2>1. scan' = scan /\ file' = file /\ now' = now
      BY <1>4 DEF appVars
    <2>2. ScanTrue'
      BY <2>1 DEF IInv, ScanTrue, OpenedTrue, CopyingTrue, Stable, Identity
    <2>3. QED
      BY <1>4, <2>2, Scanned
  <1>5. ASSUME NEW stored, NEW raises, ReadMany(stored, raises) PROVE IInv'
    BY <1>4, <1>5 DEF ReadMany
  <1>6. CASE UNCHANGED vars
    BY <1>4, <1>6 DEF vars
  <1>7. QED
    BY <1>1, <1>2, <1>3, <1>5, <1>6 DEF Next

\* It holds always.
LEMMA Invariance == Spec => []IInv
  <1>1. Init => IInv
    BY InitIsTrue
  <1>2. IInv /\ [Next]_vars => IInv'
    BY NextKeeps
  <1>3. QED
    BY <1>1, <1>2, PTL DEF Spec

\* The state keeps its shape: times never pass the clock, what a process has in
\* hand belongs to its step, and a scan's copies are those of the accounts done.
THEOREM TypeCorrect == Spec => []TypeOK
  <1>1. IInv => TypeOK
    <2> SUFFICES ASSUME IInv PROVE TypeOK
      OBVIOUS
    <2>1. /\ now \in 0..MaxWrites /\ now \in Nat /\ shrunk \in BOOLEAN
          /\ file \in [Account -> File]
          /\ \A a \in Account : file[a].ino <= now /\ file[a].mtime <= now
      BY ReadsAssumption DEF IInv, FileTrue
    <2>2. \A a \in Account : file[a].mtime \in 0..now /\ file[a].ino \in 0..now
      BY <2>1 DEF File
    <2>3. copy = Nothing \/ copy.mtime \in 0..now
      BY <2>1 DEF IInv, CopyTrue, Made, Copy
    <2>4. DraftTypeOK
      <3> SUFFICES ASSUME NEW p \in Process, draft[p] # Idle
                   PROVE  /\ draft[p].at \in DraftStep
                          /\ draft[p].thread \in Thread
                          /\ draft[p].purpose \in {"reply", "forward"}
                          /\ draft[p].first = Nothing \/ draft[p].purpose = "forward"
                          /\ draft[p].at \in {"truncate", "fill"} <=> draft[p].hand # Nothing
        BY DEF DraftTypeOK
      <3>1. DoingTrue(draft[p])
        BY DEF IInv, DraftTrue
      <3>2. QED
        BY <3>1 DEF DoingTrue, Doing
    <2>5. ScanTypeOK
      <3>1. CASE scan = Idle
        BY <3>1 DEF ScanTypeOK
      <3>2. CASE scan # Idle /\ OpenedTrue
        BY <3>2 DEF IInv, ScanTrue, OpenedTrue, Opened, ScanTypeOK
      <3>3. CASE scan # Idle /\ CopyingTrue
        <4>1. scan.q \in Request /\ scan.copied \in Partial(Thread, Row)
          BY <3>3 DEF CopyingTrue, Copying
        <4>2. DOMAIN scan.copied \subseteq Thread
          BY <4>1 DEF Partial
        <4>3. QED
          BY <3>3, <4>1, <4>2 DEF IInv, ScanTrue, CopyingTrue, ScanTypeOK
      <3>4. QED
        BY <3>1, <3>2, <3>3 DEF IInv, ScanTrue
    <2>6. QED
      BY <2>1, <2>2, <2>3, <2>4, <2>5 DEF TypeOK
  <1>2. QED
    BY <1>1, Invariance, PTL

\* The answers of all steps but CreateReply, CreateForward and ReadMany.
LEMMA OtherAnswers ==
  ASSUME Next
  PROVE  \/ \E p \in Process : CreateReply(p) \/ CreateForward(p)
         \/ \E stored, raises : ReadMany(stored, raises)
         \/ answer' = Nothing
         \/ answer'.kind \in {"draft", "scan"}
  <1>1. ASSUME NEW p \in Process, Drafting(p), ~CreateReply(p), ~CreateForward(p)
        PROVE  answer' = Nothing \/ answer'.kind = "draft"
    BY <1>1 DEF Drafting, CreateStarts, CopyChecks, CopyReads, CopyTruncates, CopyFills, CreateFails,
         ForwardFinds, Dies, Ends
  <1>2. ASSUME App PROVE answer' = Nothing
    BY <1>2 DEF App, Replaces, Arrives, Withdraws, Garbles, Write, WritesOnce
  <1>3. ASSUME Scanning PROVE answer' = Nothing \/ answer'.kind = "scan"
    BY <1>3 DEF Scanning, ScanRefused, ScanStarts, ScanFails, SnapshotOpens, SnapshotCopies,
         SnapshotChanged, SnapshotTaken, Reported
  <1>4. QED
    BY <1>1, <1>2, <1>3 DEF Next

\* ReadMany answers a read of comments.
LEMMA CommentsAnswer ==
  ASSUME NEW stored, NEW raises, ReadMany(stored, raises)
  PROVE  answer'.kind = "comments"
  BY DEF ReadMany

\* A reply is addressed and threaded rightly, whatever the thread is like and
\* whatever other processes do to the copy it is read from.
THEOREM EveryReplyRight == Spec => []ReplyRight
  <1>1. Init => ReplyRight
    BY DEF Init, ReplyRight, Answered
  <1>2. IInv /\ ReplyRight /\ [Next]_vars => ReplyRight'
    <2> SUFFICES ASSUME IInv, ReplyRight, [Next]_vars PROVE ReplyRight'
      OBVIOUS
    <2>1. CASE UNCHANGED vars
      BY <2>1 DEF vars, ReplyRight, Answered
    <2>2. ASSUME NEW p \in Process, CreateReply(p) PROVE ReplyRight'
      <3>1. PICK messages \in Readable(p) \ {<< >>}, all \in BOOLEAN :
              answer' = [kind |-> "reply", ok |-> TRUE, messages |-> messages,
                         reply |-> Reply(messages, all)]
        BY <2>2 DEF CreateReply, Ends
      <3>2. messages \in Seq(Message) /\ messages # << >>
        BY <2>2, <3>1, ReadableIs DEF CreateReply
      <3>3. RepliesRightly(messages, Reply(messages, all))
        BY <3>2, RepliesAreRight
      <3>4. QED
        BY <3>1, <3>3 DEF ReplyRight
    <2>3. ASSUME NEW p \in Process, CreateForward(p) PROVE ReplyRight'
      BY <2>3 DEF CreateForward, Ends, Quoted, ReplyRight, Answered
    <2>4. CASE answer' = Nothing \/ answer'.kind \in {"draft", "scan", "comments"}
      BY <2>4 DEF ReplyRight, Answered
    <2>5. QED
      BY <2>1, <2>2, <2>3, <2>4, OtherAnswers, CommentsAnswer
  <1>3. QED
    BY <1>1, <1>2, Invariance, PTL DEF Spec

\* A forward is of one message, up to the search for its text: what the two
\* readings found is at the same place of threads one of which begins the other.
THEOREM EveryForwardOneMessage == Spec => []ForwardOneMessage
  <1>1. Init => ForwardOneMessage
    BY DEF Init, ForwardOneMessage, Answered
  <1>2. IInv /\ ForwardOneMessage /\ [Next]_vars => ForwardOneMessage'
    <2> SUFFICES ASSUME IInv, ForwardOneMessage, [Next]_vars PROVE ForwardOneMessage'
      OBVIOUS
    <2>1. CASE UNCHANGED vars
      BY <2>1 DEF vars, appVars, ForwardOneMessage, Answered
    <2>2. ASSUME NEW p \in Process, CreateReply(p) PROVE ForwardOneMessage'
      BY <2>2 DEF CreateReply, Ends, ForwardOneMessage, Answered
    <2>3. ASSUME NEW p \in Process, CreateForward(p) PROVE ForwardOneMessage'
      <3> DEFINE m(rendered) == RenderedAt(rendered, draft[p].first.index)
      <3>1. PICK rendered \in Readable(p), segments \in SUBSET Message :
              \E body \in Bodies(draft[p].first.message, m(rendered), segments) :
                answer' = Quoted(draft[p].first.message, body)
        BY <2>3 DEF CreateForward, Ends
      <3>2. /\ draft[p].at = "read" /\ draft[p].first # Nothing /\ shrunk' = shrunk
        BY <2>3 DEF CreateForward, Ends, appVars
      <3>3. /\ DoingTrue(draft[p]) /\ draft[p].thread \in Thread
            /\ copy \in Copy /\ IsOld(copy.rows)
            /\ rendered = << >> \/ rendered = copy.rows[draft[p].thread].messages
        BY <3>2, ReadableIs
      <3>4. InPlace(draft[p].thread, draft[p].first)
        BY <3>2, <3>3 DEF DoingTrue
      <3>5. ASSUME ~shrunk PROVE RenderedAt(rendered, draft[p].first.index) \in {draft[p].first.message, Nothing}
        <4> DEFINE thread == file[Own].rows[draft[p].thread].messages
                   index == draft[p].first.index
        <4>1. index \in 1..Len(thread) /\ thread[index] = draft[p].first.message
          BY <3>4, <3>5 DEF InPlace
        <4>2. file[Own].rows \in Rows
          BY ReadsAssumption DEF IInv, FileTrue, File
        <4>3. Len(thread) \in Nat
          BY <3>3, <4>2, LengthOfThread
        <4> HIDE DEF thread, index
        <4>4. CASE rendered = << >>
          <5>1. ~(index <= Len(rendered))
            BY <4>1, <4>3, <4>4
          <5>2. QED
            BY <5>1 DEF RenderedAt, index
        <4>5. CASE rendered = copy.rows[draft[p].thread].messages
          <5>1. Begins(rendered, thread)
            BY <3>3, <3>5, <4>5 DEF IsOld, Older, thread
          <5>2. index <= Len(rendered) => rendered[index] = thread[index]
            <6>1. index \in Int /\ 1 <= index
              BY <4>1, <4>3
            <6>2. copy.rows \in Rows
              BY <3>3 DEF Copy
            <6>3. Len(rendered) \in Nat
              BY <3>3, <4>5, <6>2, LengthOfThread
            <6>4. index <= Len(rendered) => index \in 1..Len(rendered)
              BY <6>1, <6>3
            <6>5. QED
              BY <5>1, <6>4 DEF Begins
          <5>3. QED
            BY <4>1, <5>2 DEF RenderedAt, index
        <4>6. QED
          BY <3>3, <4>4, <4>5
      <3>6. /\ answer'.headers = draft[p].first.message
            /\ answer'.body \in Bodies(draft[p].first.message, m(rendered), segments)
        BY <3>1 DEF Quoted
      <3> HIDE DEF m
      <3>7. ASSUME ~shrunk
            PROVE  \/ answer'.body = answer'.headers
                   \/ answer'.headers \notin Html /\ answer'.body \in Sharing[answer'.headers]
        <4>1. m(rendered) \in {answer'.headers, Nothing}
          BY <3>5, <3>6, <3>7 DEF m
        <4>2. QED
          BY <3>6, <4>1 DEF Bodies, TextsOf
      <3>8. QED
        BY <3>2, <3>7 DEF ForwardOneMessage
    <2>4. CASE answer' = Nothing \/ answer'.kind \in {"draft", "scan", "comments"}
      BY <2>4 DEF ForwardOneMessage, Answered
    <2>5. QED
      BY <2>1, <2>2, <2>3, <2>4, OtherAnswers, CommentsAnswer
  <1>3. QED
    BY <1>1, <1>2, Invariance, PTL DEF Spec

\* A scan that ends fails or answers what it would had each file been read whole
\* at the moment it was opened, though it is read block by block while the
\* application writes it and puts another in its place.
OneMoment ==
  scan # Idle /\ scan' = Idle =>
    \/ answer' = [kind |-> "scan", ok |-> FALSE]
    \/ answer' = Reported(Scan(scan.q, scan.truth))

\* For any files, writes, limits and requests.
THEOREM ScanIsOfOneMoment == Spec => [][OneMoment]_vars
  <1>1. IInv /\ [Next]_vars => [OneMoment]_vars
    <2> SUFFICES ASSUME IInv, Next, scan # Idle, scan' = Idle
                 PROVE  \/ answer' = [kind |-> "scan", ok |-> FALSE]
                        \/ answer' = Reported(Scan(scan.q, scan.truth))
      BY DEF OneMoment
    <2>1. scan.at \in {"open", "copy"} /\ Idle.at = "idle"
      BY DEF IInv, ScanTrue, OpenedTrue, CopyingTrue, Opened, Copying, Idle
    <2>2. ~App
      <3>1. ASSUME NEW a PROVE ~Replaces(a)
        <4>1. CASE scan' = scan
          BY <4>1
        <4>2. CASE scan.at = "copy" /\ scan' = [scan EXCEPT !.replaced = file[a].rows]
          <5>1. scan \in Copying
            BY <4>2, CopyingFacts
          <5>2. scan'.at = "copy"
            BY <4>2, <5>1 DEF Copying
          <5>3. QED
            BY <2>1, <5>2
        <4>3. QED
          BY <4>1, <4>2 DEF Replaces, Freeze
      <3>2. ASSUME NEW a, NEW t, NEW row PROVE ~Write(a, t, row)
        BY DEF Write
      <3>3. QED
        BY <3>1, <3>2 DEF App, Arrives, Withdraws, Garbles
    <2>3. ASSUME NEW p \in Process PROVE ~Drafting(p)
      BY DEF Drafting, CreateStarts, CopyChecks, CopyReads, CopyTruncates, CopyFills, CreateFails,
         CreateReply, ForwardFinds, CreateForward, Dies, Ends
    <2>4. ASSUME NEW stored, NEW raises PROVE ~ReadMany(stored, raises)
      BY DEF ReadMany
    <2>5. ASSUME NEW q \in Request PROVE ~ScanRefused(q) /\ ~ScanStarts(q)
      BY DEF ScanRefused, ScanStarts
    <2>6. ~SnapshotOpens
      BY <2>1 DEF SnapshotOpens
    <2>7. ~SnapshotCopies
      <3> SUFFICES ASSUME SnapshotCopies PROVE FALSE
        OBVIOUS
      <3>1. scan \in Copying
        BY CopyingFacts DEF SnapshotCopies
      <3>2. scan'.at = "copy"
        BY <3>1 DEF SnapshotCopies, Copying
      <3>3. QED
        BY <2>1, <3>2
    <2>8. CASE SnapshotChanged
      BY <2>8 DEF SnapshotChanged, ScanFails
    <2>9. CASE SnapshotTaken
      <3>1. scan.left \ {scan.account} = {}
        BY <2>1, <2>9 DEF SnapshotTaken
      <3>2. With(scan.copies, scan.account, scan.copied) = scan.truth
        BY <2>9, <3>1, AllAsOpened
      <3>3. QED
        BY <2>9, <3>1, <3>2 DEF SnapshotTaken
    <2>10. QED
      BY <2>2, <2>3, <2>4, <2>5, <2>6, <2>7, <2>8, <2>9 DEF Next, Scanning
  <1>2. QED
    BY <1>1, Invariance, PTL DEF Spec

\* A read of comments that succeeds has those of every thread asked for, in
\* whatever order, with or without paths, and how incomplete the backend answers.
LEMMA ReadIsWhole ==
  ASSUME NEW stored, NEW batches, batches = Batches(Asked),
         NEW given, \A b \in DOMAIN batches : given[b] \in BackendAnswers(batches[b], stored),
         NEW parts, parts = [b \in DOMAIN batches |-> ReadBatch(batches[b], given[b])],
         \A b \in DOMAIN batches : parts[b].failed = {},
         NEW t \in ToSet(Asked)
  PROVE  /\ t \in DOMAIN AllRead(parts)
         /\ t \notin UNION {Untold(batches[b], given[b]) : b \in DOMAIN batches} =>
              AllRead(parts)[t] = StoredValue(stored, t)
  <1> DEFINE X == ToSet(Asked)
  <1>1. Unnamed \notin X /\ Asked \in Seq(X)
    BY ReadsAssumption
  <1> HIDE DEF X
  <1>2. /\ \E size \in Nat : DOMAIN batches = 1..size
        /\ \A b \in DOMAIN batches : batches[b] \in Seq(X)
        /\ \A u \in ToSet(Asked) : \E b \in DOMAIN batches : u \in ToSet(batches[b])
    BY <1>1, BatchesCover
  <1>3. PICK size \in Nat : DOMAIN batches = 1..size
    BY <1>2
  <1>4. DOMAIN parts = 1..size
    BY <1>3
  <1>5. ASSUME NEW b \in 1..size
        PROVE  /\ DOMAIN parts[b].read = ToSet(batches[b])
               /\ \A u \in ToSet(batches[b]) :
                    u \notin Untold(batches[b], given[b]) => parts[b].read[u] = StoredValue(stored, u)
    <2>1. /\ batches[b] \in Seq(X) /\ given[b] \in BackendAnswers(batches[b], stored)
          /\ parts[b] = ReadBatch(batches[b], given[b]) /\ parts[b].failed = {}
      BY <1>2, <1>3
    <2> DEFINE batch == batches[b]
               answered == given[b]
               part == parts[b]
    <2>2. /\ batch \in Seq(X) /\ answered \in BackendAnswers(batch, stored)
          /\ part = ReadBatch(batch, answered) /\ part.failed = {}
      BY <2>1
    <2> HIDE DEF batch, answered, part
    <2>3. /\ DOMAIN part.read = ToSet(batch)
          /\ \A u \in ToSet(batch) : u \notin Untold(batch, answered) => part.read[u] = StoredValue(stored, u)
      BY <1>1, <2>2, BatchRead
    <2>4. QED
      BY <2>3 DEF batch, answered, part
  <1>6. PICK b \in 1..size : t \in DOMAIN parts[b].read
    BY <1>2, <1>3, <1>5
  <1> DEFINE all == AllRead(parts)
  <1>7. t \in DOMAIN all /\ \E c \in 1..size : t \in DOMAIN parts[c].read /\ all[t] = parts[c].read[t]
    <2> DEFINE of == {c \in DOMAIN parts : t \in DOMAIN parts[c].read}
    <2>1. of \in SUBSET (1..size) /\ of # {}
      BY <1>4, <1>6
    <2>2. Max(of) \in of
      BY <2>1, MaxIsGreatest
    <2>3. t \in UNION {DOMAIN parts[c].read : c \in DOMAIN parts}
      BY <1>4, <1>6
    <2>4. t \in DOMAIN all /\ all[t] = parts[Max(of)].read[t]
      BY <2>3 DEF AllRead
    <2>5. QED
      BY <2>1, <2>2, <2>4
  <1>8. PICK c \in 1..size : t \in DOMAIN parts[c].read /\ all[t] = parts[c].read[t]
    BY <1>7
  <1>9. ASSUME t \notin UNION {Untold(batches[d], given[d]) : d \in DOMAIN batches}
        PROVE  AllRead(parts)[t] = StoredValue(stored, t)
    <2>1. t \notin Untold(batches[c], given[c])
      BY <1>3, <1>9
    <2>2. QED
      BY <1>5, <1>8, <2>1
  <1>10. QED
    BY <1>7, <1>9

\* A batched read of comments that succeeds leaves no thread out and gives each
\* what is stored of it.
THEOREM EveryReadWhole == Spec => []CommentsWhole
  <1>1. Init => CommentsWhole
    BY DEF Init, CommentsWhole, Answered
  <1>2. CommentsWhole /\ [Next]_vars => CommentsWhole'
    <2> SUFFICES ASSUME CommentsWhole, [Next]_vars PROVE CommentsWhole'
      OBVIOUS
    <2>1. CASE UNCHANGED vars
      BY <2>1 DEF vars, CommentsWhole, Answered
    <2>2. ASSUME NEW stored, NEW raises, ReadMany(stored, raises) PROVE CommentsWhole'
      <3> DEFINE batches == Batches(Asked)
                 possible == [b \in DOMAIN batches |-> BackendAnswers(batches[b], stored)]
      <3>1. PICK given \in {g \in [DOMAIN batches -> UNION Range(possible)] :
                              \A b \in DOMAIN batches : g[b] \in possible[b]} :
              LET parts == [b \in DOMAIN batches |-> ReadBatch(batches[b], given[b])]
              IN answer' = [kind |-> "comments", stored |-> stored,
                            ok |-> ~raises /\ \A b \in DOMAIN batches : parts[b].failed = {},
                            read |-> AllRead(parts),
                            untold |-> UNION {Untold(batches[b], given[b]) : b \in DOMAIN batches}]
        BY <2>2 DEF ReadMany
      <3> DEFINE parts == [b \in DOMAIN batches |-> ReadBatch(batches[b], given[b])]
      <3>2. \A b \in DOMAIN batches : given[b] \in BackendAnswers(batches[b], stored)
        BY <3>1
      <3>3. /\ answer'.kind = "comments" /\ answer'.stored = stored
            /\ answer'.ok => \A b \in DOMAIN batches : parts[b].failed = {}
            /\ answer'.read = AllRead(parts)
            /\ answer'.untold = UNION {Untold(batches[b], given[b]) : b \in DOMAIN batches}
        BY <3>1
      <3> HIDE DEF parts
      <3>4. parts = [b \in DOMAIN batches |-> ReadBatch(batches[b], given[b])]
        BY DEF parts
      <3>5. batches = Batches(Asked)
        OBVIOUS
      <3> HIDE DEF batches
      <3>6. ASSUME answer'.ok, NEW t \in ToSet(Asked)
            PROVE  /\ t \in DOMAIN answer'.read
                   /\ t \notin answer'.untold => answer'.read[t] = StoredValue(answer'.stored, t)
        <4>1. \A b \in DOMAIN batches : parts[b].failed = {}
          BY <3>3, <3>6
        <4>2. /\ t \in DOMAIN AllRead(parts)
              /\ t \notin UNION {Untold(batches[b], given[b]) : b \in DOMAIN batches} =>
                   AllRead(parts)[t] = StoredValue(stored, t)
          BY <3>2, <3>4, <3>5, <4>1, ReadIsWhole
        <4>3. QED
          BY <3>3, <4>2
      <3>7. QED
        BY <3>6 DEF CommentsWhole, Answered
    <2>3. ASSUME NEW p \in Process, CreateReply(p) \/ CreateForward(p) PROVE CommentsWhole'
      BY <2>3 DEF CreateReply, CreateForward, Ends, Quoted, CommentsWhole, Answered
    <2>4. CASE answer' = Nothing \/ answer'.kind \in {"draft", "scan"}
      BY <2>4 DEF CommentsWhole, Answered
    <2>5. QED
      BY <2>1, <2>2, <2>3, <2>4, OtherAnswers
  <1>3. QED
    BY <1>1, <1>2, PTL DEF Spec

(***************************************************************************)
(* What a scan answers.                                                    *)
(***************************************************************************)

\* An answer of scan is what Scan makes of the rows of the files opened.
LEMMA ScanAnswers ==
  ASSUME IInv, Next, Answered("scan")'
  PROVE  \E q \in Request : \E truth \in [q.accounts -> ScanRows] :
           /\ q.accounts \in SUBSET Account /\ q.since \in Nat
           /\ Scan(q, truth).ok
           /\ answer' = [kind |-> "scan", ok |-> Scan(q, truth).ok, result |-> Scan(q, truth),
                         q |-> q, truth |-> truth]
  <1>1. answer' # Nothing /\ answer'.kind = "scan" /\ answer'.ok
    BY DEF Answered
  <1>2. ASSUME NEW p \in Process, Drafting(p) PROVE FALSE
    BY <1>1, <1>2 DEF Drafting, CreateStarts, CopyChecks, CopyReads, CopyTruncates, CopyFills, CreateFails,
         CreateReply, CreateForward, Quoted, ForwardFinds, Dies, Ends
  <1>3. ASSUME App PROVE FALSE
    BY <1>1, <1>3 DEF App, Replaces, Arrives, Withdraws, Garbles, Write, WritesOnce
  <1>4. ASSUME NEW stored, NEW raises, ReadMany(stored, raises) PROVE FALSE
    BY <1>1, <1>4, CommentsAnswer
  <1>5. ASSUME ScanFails PROVE FALSE
    BY <1>1, <1>5 DEF ScanFails
  <1>6. SnapshotTaken
    BY <1>1, <1>2, <1>3, <1>4, <1>5 DEF Next, Scanning, ScanRefused, ScanStarts, SnapshotOpens, SnapshotCopies,
         SnapshotChanged
  <1>7. scan.left \ {scan.account} = {} /\ answer' = Reported(Scan(scan.q, With(scan.copies, scan.account, scan.copied)))
    BY <1>1, <1>6 DEF SnapshotTaken
  <1>8. answer' = Reported(Scan(scan.q, scan.truth))
    BY <1>6, <1>7, AllAsOpened
  <1>9. /\ scan \in Copying /\ scan.q.accounts \subseteq Account
        /\ scan.left \subseteq scan.q.accounts /\ scan.account \in scan.left
        /\ DOMAIN scan.truth = (scan.q.accounts \ scan.left) \cup {scan.account}
    BY <1>6, CopyingFacts DEF SnapshotTaken
  <1>10. scan.q \in Request /\ scan.truth \in Snapshots
    BY <1>9 DEF Copying
  <1>11. DOMAIN scan.truth = scan.q.accounts
    BY <1>7, <1>9
  <1>12. PICK E \in SUBSET Account : scan.truth \in [E -> Rows]
    BY <1>10 DEF Snapshots, Partial
  <1>13. scan.truth \in [scan.q.accounts -> ScanRows]
    BY <1>11, <1>12 DEF ScanRows, Rows
  <1>14. scan.q.since \in Nat
    BY <1>10, ReadsAssumption
  <1>15. Scan(scan.q, scan.truth).ok
    BY <1>1, <1>8 DEF Reported
  <1>16. QED
    BY <1>8, <1>9, <1>10, <1>13, <1>14, <1>15 DEF Reported

\* What is wanted is what is asked for.
LEMMA WantedIsAsked ==
  ASSUME NEW q, NEW truth, NEW w
  PROVE  /\ w \in Wanted(q, truth) =>
              /\ Asks(q, truth, w.account, w.thread, w.message)
              /\ w = [account |-> w.account, thread |-> w.thread, message |-> w.message]
         /\ Asks(q, truth, w.account, w.thread, w.message)
            /\ w = [account |-> w.account, thread |-> w.thread, message |-> w.message] => w \in Wanted(q, truth)
  <1> DEFINE of(a, t) == {[account |-> a, thread |-> t, message |-> m] :
                            m \in {x \in ToSet(truth[a][t].messages) : Eligible(q, x)}}
             threads == {x \in Thread : Selected(q.threads, {x})}
  <1>1. w \in Wanted(q, truth) <=> \E a \in q.accounts, t \in threads : w \in of(a, t)
    <2>1. Wanted(q, truth) = UNION {of(a, t) : a \in q.accounts, t \in threads}
      BY DEF Wanted
    <2> HIDE DEF of, threads
    <2>2. QED
      BY <2>1
  <1>2. ASSUME NEW a \in q.accounts, NEW t \in threads, w \in of(a, t)
        PROVE  /\ Asks(q, truth, w.account, w.thread, w.message)
               /\ w = [account |-> w.account, thread |-> w.thread, message |-> w.message]
    <2>1. PICK m \in ToSet(truth[a][t].messages) :
            Eligible(q, m) /\ w = [account |-> a, thread |-> t, message |-> m]
      BY <1>2
    <2>2. w.account = a /\ w.thread = t /\ w.message = m
      BY <2>1
    <2>3. QED
      BY <2>1, <2>2 DEF Asks
  <1>3. ASSUME Asks(q, truth, w.account, w.thread, w.message),
               w = [account |-> w.account, thread |-> w.thread, message |-> w.message]
        PROVE  \E a \in q.accounts, t \in threads : w \in of(a, t)
    <2>1. w.account \in q.accounts /\ w.thread \in threads
      BY <1>3 DEF Asks
    <2>2. w \in of(w.account, w.thread)
      BY <1>3 DEF Asks
    <2>3. QED
      BY <2>1, <2>2
  <1> HIDE DEF of, threads
  <1>4. QED
    BY <1>1, <1>2, <1>3

\* A scan that claims complete coverage has it: whatever the limits, the request,
\* the caches and the writes during the copy, an answer without a reason is all
\* that was asked for of one moment, uncut, and nothing else.
THEOREM EveryScanTruthful == Spec => []ScanTruthful
  <1>1. Init => ScanTruthful
    BY DEF Init, ScanTruthful, Answered
  <1>2. IInv /\ ScanTruthful /\ [Next]_vars => ScanTruthful'
    <2> SUFFICES ASSUME IInv, ScanTruthful, [Next]_vars PROVE ScanTruthful'
      OBVIOUS
    <2>1. CASE UNCHANGED vars
      BY <2>1 DEF vars, ScanTruthful, Answered, Shown
    <2>2. CASE Next
      <3> SUFFICES ASSUME Answered("scan")', answer'.result.reasons = {}
                   PROVE  /\ Shown' = Wanted(answer'.q, answer'.truth)
                          /\ \A r \in answer'.result.records : r.amount = Amount[r.message]
                          /\ \A w \in Shown' : ~answer'.truth[w.account][w.thread].garbled
        BY DEF ScanTruthful
      <3>1. PICK q \in Request : \E truth \in [q.accounts -> ScanRows] :
              /\ q.accounts \in SUBSET Account /\ q.since \in Nat
              /\ Scan(q, truth).ok
              /\ answer' = [kind |-> "scan", ok |-> Scan(q, truth).ok, result |-> Scan(q, truth),
                            q |-> q, truth |-> truth]
        BY <2>2, ScanAnswers
      <3>2. PICK truth \in [q.accounts -> ScanRows] :
              /\ q.accounts \in SUBSET Account /\ q.since \in Nat
              /\ Scan(q, truth).ok
              /\ answer' = [kind |-> "scan", ok |-> Scan(q, truth).ok, result |-> Scan(q, truth),
                            q |-> q, truth |-> truth]
        BY <3>1
      <3> DEFINE records == Scan(q, truth).records
                 name(r) == [account |-> r.account, thread |-> r.thread, message |-> r.message]
      <3>3. /\ answer'.q = q /\ answer'.truth = truth /\ answer'.result.records = records
            /\ Scan(q, truth).reasons = {}
        BY <3>2
      <3>4. Shown' = {name(r) : r \in records}
        BY <3>3 DEF Shown
      <3>5. /\ \A r \in records : Asks(q, truth, r.account, r.thread, r.message) /\ r.amount = Amount[r.message]
            /\ \A a, t, m : Asks(q, truth, a, t, m) =>
                 /\ ~truth[a][t].garbled
                 /\ \E r \in records : r.account = a /\ r.thread = t /\ r.message = m
        BY <3>2, <3>3, ScanAssumption, ScanTells
      <3> HIDE DEF records
      <3>6. ASSUME NEW r \in records PROVE name(r) \in Wanted(q, truth)
        <4>1. name(r).account = r.account /\ name(r).thread = r.thread /\ name(r).message = r.message
          OBVIOUS
        <4> HIDE DEF name
        <4>2. Asks(q, truth, name(r).account, name(r).thread, name(r).message)
          BY <3>5, <4>1
        <4>3. name(r) = [account |-> name(r).account, thread |-> name(r).thread, message |-> name(r).message]
          BY <4>1 DEF name
        <4>4. QED
          BY <4>2, <4>3, WantedIsAsked
      <3>7. ASSUME NEW w \in Wanted(q, truth) PROVE \E r \in records : w = name(r)
        <4>1. /\ Asks(q, truth, w.account, w.thread, w.message)
              /\ w = [account |-> w.account, thread |-> w.thread, message |-> w.message]
          BY WantedIsAsked
        <4>2. PICK r \in records : r.account = w.account /\ r.thread = w.thread /\ r.message = w.message
          BY <3>5, <4>1
        <4>3. QED
          BY <4>1, <4>2
      <3>8. Shown' = Wanted(q, truth)
        <4> HIDE DEF name
        <4>1. QED
          BY <3>4, <3>6, <3>7
      <3>9. ASSUME NEW w \in Wanted(q, truth) PROVE ~truth[w.account][w.thread].garbled
        BY <3>5, WantedIsAsked
      <3>10. QED
        BY <3>3, <3>5, <3>8, <3>9
    <2>3. QED
      BY <2>1, <2>2
  <1>3. QED
    BY <1>1, <1>2, Invariance, PTL DEF Spec

\* A limit costs the oldest, whatever the limits, the request and the caches:
\* cutting per account, then over all, then the output, no step drops a message
\* and goes on to show an older one, unless another account was cut.
THEOREM EveryScanKeepsNewest == Spec => []ScanKeepsNewest
  <1>1. Init => ScanKeepsNewest
    BY DEF Init, ScanKeepsNewest, Answered
  <1>2. IInv /\ ScanKeepsNewest /\ [Next]_vars => ScanKeepsNewest'
    <2> SUFFICES ASSUME IInv, ScanKeepsNewest, [Next]_vars PROVE ScanKeepsNewest'
      OBVIOUS
    <2>1. CASE UNCHANGED vars
      BY <2>1 DEF vars, ScanKeepsNewest, Answered, Shown
    <2>2. CASE Next
      <3> SUFFICES ASSUME Answered("scan")',
                          answer'.result.reasons \cap {"THREAD_LIMIT", "MESSAGE_SCAN_LIMIT"} = {},
                          NEW w \in Wanted(answer'.q, answer'.truth) \ Shown', NEW s \in Shown',
                          ~answer'.truth[w.account][w.thread].garbled,
                          s.account = w.account \/ "ACCOUNT_MESSAGE_LIMIT" \notin answer'.result.reasons
                   PROVE  Date[w.message] <= Date[s.message]
        BY DEF ScanKeepsNewest
      <3>1. PICK q \in Request : \E truth \in [q.accounts -> ScanRows] :
              /\ q.accounts \in SUBSET Account /\ q.since \in Nat
              /\ Scan(q, truth).ok
              /\ answer' = [kind |-> "scan", ok |-> Scan(q, truth).ok, result |-> Scan(q, truth),
                            q |-> q, truth |-> truth]
        BY <2>2, ScanAnswers
      <3>2. PICK truth \in [q.accounts -> ScanRows] :
              /\ q.accounts \in SUBSET Account /\ q.since \in Nat
              /\ Scan(q, truth).ok
              /\ answer' = [kind |-> "scan", ok |-> Scan(q, truth).ok, result |-> Scan(q, truth),
                            q |-> q, truth |-> truth]
        BY <3>1
      <3> DEFINE records == Scan(q, truth).records
                 reasons == Scan(q, truth).reasons
                 name(r) == [account |-> r.account, thread |-> r.thread, message |-> r.message]
      <3>3. /\ answer'.q = q /\ answer'.truth = truth
            /\ answer'.result.records = records /\ answer'.result.reasons = reasons
        BY <3>2
      <3>4. Shown' = {name(r) : r \in records}
        BY <3>3 DEF Shown
      <3>5. w \in Wanted(q, truth) /\ ~truth[w.account][w.thread].garbled
        BY <3>3
      <3>6. /\ Asks(q, truth, w.account, w.thread, w.message)
            /\ w = [account |-> w.account, thread |-> w.thread, message |-> w.message]
        BY <3>5, WantedIsAsked
      <3>7. PICK r \in records : s = name(r)
        BY <3>4
      <3>8. "THREAD_LIMIT" \notin reasons /\ "MESSAGE_SCAN_LIMIT" \notin reasons
        BY <3>3
      <3>9. r.account = w.account \/ "ACCOUNT_MESSAGE_LIMIT" \notin reasons
        BY <3>3, <3>7
      <3>10. \A u \in records : ~(u.account = w.account /\ u.thread = w.thread /\ u.message = w.message)
        BY <3>4, <3>6
      <3>11. Date[w.message] <= Date[r.message]
        BY <3>2, <3>5, <3>6, <3>8, <3>9, <3>10, ScanAssumption, ScanKeeps
      <3>12. QED
        BY <3>7, <3>11
    <2>3. QED
      BY <2>1, <2>2
  <1>3. QED
    BY <1>1, <1>2, Invariance, PTL DEF Spec

\* An answer keeps within every limit: the data of one message and the messages
\* of one account, then the records, the data and the bytes of all together,
\* though each is cut on its own and the one before may have left less.
ScanWithinLimits ==
  Answered("scan") =>
    LET records == answer.result.records
    IN /\ \A r \in records : r.amount <= MaxPerMessage
       /\ \A a \in Account : Cardinality({r \in records : r.account = a}) <= MaxPerAccount
       /\ Cardinality(records) <= MaxRecords
       /\ Weight(records) <= MaxTotal
       /\ Bytes(records) <= MaxBytes

\* For any limits, requests and caches.
THEOREM EveryScanWithinLimits == Spec => []ScanWithinLimits
  <1>1. Init => ScanWithinLimits
    BY DEF Init, ScanWithinLimits, Answered
  <1>2. IInv /\ ScanWithinLimits /\ [Next]_vars => ScanWithinLimits'
    <2> SUFFICES ASSUME IInv, ScanWithinLimits, [Next]_vars PROVE ScanWithinLimits'
      OBVIOUS
    <2>1. CASE UNCHANGED vars
      BY <2>1 DEF vars, ScanWithinLimits, Answered
    <2>2. CASE Next
      <3> SUFFICES ASSUME Answered("scan")' PROVE ScanWithinLimits'
        BY DEF ScanWithinLimits
      <3>1. PICK q \in Request : \E truth \in [q.accounts -> ScanRows] :
              /\ q.accounts \in SUBSET Account /\ q.since \in Nat
              /\ Scan(q, truth).ok
              /\ answer' = [kind |-> "scan", ok |-> Scan(q, truth).ok, result |-> Scan(q, truth),
                            q |-> q, truth |-> truth]
        BY <2>2, ScanAnswers
      <3>2. PICK truth \in [q.accounts -> ScanRows] :
              /\ q.accounts \in SUBSET Account /\ Scan(q, truth).ok
              /\ answer' = [kind |-> "scan", ok |-> Scan(q, truth).ok, result |-> Scan(q, truth),
                            q |-> q, truth |-> truth]
        BY <3>1
      <3>3. answer'.result.records = Scan(q, truth).records
        BY <3>2
      <3>4. LET records == Scan(q, truth).records
            IN /\ \A r \in records : r.amount <= MaxPerMessage
               /\ \A a \in Account : Cardinality({r \in records : r.account = a}) <= MaxPerAccount
               /\ Cardinality(records) <= MaxRecords
               /\ Weight(records) <= MaxTotal
               /\ Bytes(records) <= MaxBytes
        BY <3>2, ScanAssumption, ScanIsLimited
      <3>5. QED
        BY <3>3, <3>4 DEF ScanWithinLimits
    <2>3. QED
      BY <2>1, <2>2
  <1>3. QED
    BY <1>1, <1>2, Invariance, PTL DEF Spec
=============================================================================
