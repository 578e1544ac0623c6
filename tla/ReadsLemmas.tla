---------------------------- MODULE ReadsLemmas ----------------------------
(***************************************************************************)
(* What replies, batched reads of comments and scans compute, for every    *)
(* thread, every list of threads, every answer of the backend, and every   *)
(* request, cache and limit.                                               *)
(***************************************************************************)
EXTENDS Replies, CommentRead, ReaderScan, FiniteSetTheorems, WellFoundedInduction, TLAPS

(***************************************************************************)
(* Extremal numbers.                                                       *)
(***************************************************************************)

\* A set of naturals that is not empty has a least member.
LEMMA Least ==
  ASSUME NEW T \in SUBSET Nat, T # {}
  PROVE  \E x \in T : \A y \in T : x <= y
  <1>1. PICK x \in T : \A y \in T : ~(<<y, x>> \in OpToRel(<, Nat))
    BY NatLessThanWellFounded, WFMin
  <1>2. \A y \in T : ~(y < x)
    BY <1>1 DEF OpToRel
  <1>3. QED
    BY <1>2

\* So Min is what it says.
LEMMA MinIsLeast ==
  ASSUME NEW T \in SUBSET Nat, T # {}
  PROVE  Min(T) \in T /\ \A y \in T : Min(T) <= y
  BY Least DEF Min

\* One that is bounded has a greatest.
LEMMA MaxIsGreatest ==
  ASSUME NEW n \in Nat, NEW T \in SUBSET (1..n), T # {}
  PROVE  Max(T) \in T /\ \A y \in T : y <= Max(T)
  <1> DEFINE Bounds == {b \in Nat : \A y \in T : y <= b}
  <1>1. n \in Bounds
    OBVIOUS
  <1>2. PICK b \in Bounds : \A c \in Bounds : b <= c
    BY <1>1, Least
  <1>3. b \in T
    <2> SUFFICES ASSUME b \notin T PROVE FALSE
      OBVIOUS
    <2>1. PICK y \in T : TRUE
      OBVIOUS
    <2>2. \A x \in T : x <= b - 1
      OBVIOUS
    <2>3. b - 1 \in Bounds
      BY <2>1, <2>2
    <2>4. QED
      BY <1>2, <2>3
  <1>4. QED
    BY <1>3 DEF Max

(***************************************************************************)
(* Replies.                                                                *)
(***************************************************************************)

\* What a search from the end finds.
Searched(found, messages, I) ==
  /\ found \in Nat
  /\ found = 0 => I = {}
  /\ found # 0 => found \in I /\ found \in 1..Len(messages)
  /\ \A i \in I : i <= found

\* A search from the end finds the last that is searched for.
LEMMA SearchFinds ==
  ASSUME NEW M, NEW messages \in Seq(M), NEW I \in SUBSET (1..Len(messages)), NEW found,
         found = IF I # {} THEN Max(I) ELSE 0
  PROVE  Searched(found, messages, I)
  <1>1. CASE I = {}
    BY <1>1 DEF Searched
  <1>2. CASE I # {}
    <2>1. Len(messages) \in Nat
      OBVIOUS
    <2>2. Max(I) \in I /\ \A i \in I : i <= Max(I)
      BY <1>2, <2>1, MaxIsGreatest
    <2>3. Max(I) \in 1..Len(messages)
      BY <2>2
    <2>4. QED
      BY <1>2, <2>2, <2>3 DEF Searched
  <1>3. QED
    BY <1>1, <1>2

\* The searches of the replies.
LEMMA LastNonSystemFinds ==
  ASSUME NEW M, NEW messages \in Seq(M)
  PROVE  Searched(LastNonSystem(messages), messages, {i \in 1..Len(messages) : ~IsSystemSender(messages[i])})
  BY SearchFinds DEF LastNonSystem, SelectLastInSeq

\* The last message that outsiders saw.
LEMMA LastVisibleFinds ==
  ASSUME NEW M, NEW messages \in Seq(M)
  PROVE  Searched(LastVisible(messages), messages, {i \in 1..Len(messages) : Visible(messages, messages[i])})
  BY SearchFinds DEF LastVisible, SelectLastInSeq

LastOfOthers(messages) == SelectLastInSeq(messages, LAMBDA m : Visible(messages, m) /\ From[m] # Me)

\* The last of them that is not our own.
LEMMA LastOfOthersFinds ==
  ASSUME NEW M, NEW messages \in Seq(M)
  PROVE  Searched(LastOfOthers(messages), messages,
                  {i \in 1..Len(messages) : Visible(messages, messages[i]) /\ From[messages[i]] # Me})
  BY SearchFinds DEF LastOfOthers, SelectLastInSeq

\* The last place of a message.
LEMMA IndexOfFinds ==
  ASSUME NEW M, NEW messages \in Seq(M), NEW m
  PROVE  Searched(IndexOf(messages, m), messages, {i \in 1..Len(messages) : messages[i] = m})
  BY SearchFinds DEF IndexOf, SelectLastInSeq

\* The first search that found something decides.
LEMMA FirstOfThree ==
  ASSUME NEW messages, NEW i \in Nat, NEW j \in Nat, NEW k \in Nat
  PROVE  FirstFound(messages, <<i, j, k>>) =
           messages[IF i # 0 THEN i ELSE IF j # 0 THEN j ELSE IF k # 0 THEN k ELSE Len(messages)]
  <1> DEFINE I == {n \in 1..3 : <<i, j, k>>[n] > 0}
  <1>1. FirstFound(messages, <<i, j, k>>) =
          IF (IF I # {} THEN Min(I) ELSE 0) = 0 THEN messages[Len(messages)]
          ELSE messages[<<i, j, k>>[IF I # {} THEN Min(I) ELSE 0]]
    BY DEF FirstFound, SelectInSeq
  <1>2. I # {} => Min(I) \in I /\ \A n \in I : Min(I) <= n
    BY MinIsLeast
  <1>3. /\ 1 \in I <=> i # 0
        /\ 2 \in I <=> j # 0
        /\ 3 \in I <=> k # 0
        /\ I \subseteq 1..3
    OBVIOUS
  <1>4. <<i, j, k>>[1] = i /\ <<i, j, k>>[2] = j /\ <<i, j, k>>[3] = k
    OBVIOUS
  <1> HIDE DEF I
  <1>5. CASE I = {}
    BY <1>1, <1>3, <1>5
  <1>6. CASE I # {}
    <2>1. /\ Min(I) = 1 \/ Min(I) = 2 \/ Min(I) = 3
          /\ Min(I) \in I /\ (1 \in I => Min(I) <= 1) /\ (2 \in I => Min(I) <= 2)
      <3>1. Min(I) \in I /\ \A n \in I : Min(I) <= n
        BY <1>2, <1>6
      <3>2. Min(I) \in 1..3
        BY <1>3, <3>1
      <3>3. QED
        BY <3>1, <3>2
    <2>2. \/ Min(I) = 1 /\ i # 0
          \/ Min(I) = 2 /\ i = 0 /\ j # 0
          \/ Min(I) = 3 /\ i = 0 /\ j = 0 /\ k # 0
      BY <1>3, <2>1
    <2>3. FirstFound(messages, <<i, j, k>>) = messages[<<i, j, k>>[Min(I)]]
      BY <1>1, <1>6, <2>2
    <2>4. QED
      BY <1>4, <2>2, <2>3
  <1>7. QED
    BY <1>5, <1>6

\* Of two searches as well.
LEMMA FirstOfTwo ==
  ASSUME NEW messages, NEW i \in Nat, NEW j \in Nat
  PROVE  FirstFound(messages, <<i, j>>) =
           messages[IF i # 0 THEN i ELSE IF j # 0 THEN j ELSE Len(messages)]
  <1> DEFINE I == {n \in 1..2 : <<i, j>>[n] > 0}
  <1>1. FirstFound(messages, <<i, j>>) =
          IF (IF I # {} THEN Min(I) ELSE 0) = 0 THEN messages[Len(messages)]
          ELSE messages[<<i, j>>[IF I # {} THEN Min(I) ELSE 0]]
    BY DEF FirstFound, SelectInSeq
  <1>2. I # {} => Min(I) \in I /\ \A n \in I : Min(I) <= n
    BY MinIsLeast
  <1>3. /\ 1 \in I <=> i # 0
        /\ 2 \in I <=> j # 0
        /\ I \subseteq 1..2
    OBVIOUS
  <1>4. <<i, j>>[1] = i /\ <<i, j>>[2] = j
    OBVIOUS
  <1> HIDE DEF I
  <1>5. CASE I = {}
    BY <1>1, <1>3, <1>5
  <1>6. CASE I # {}
    <2>1. /\ Min(I) = 1 \/ Min(I) = 2
          /\ Min(I) \in I /\ (1 \in I => Min(I) <= 1)
      <3>1. Min(I) \in I /\ \A n \in I : Min(I) <= n
        BY <1>2, <1>6
      <3>2. Min(I) \in 1..2
        BY <1>3, <3>1
      <3>3. QED
        BY <3>1, <3>2
    <2>2. \/ Min(I) = 1 /\ i # 0
          \/ Min(I) = 2 /\ i = 0 /\ j # 0
      BY <1>3, <2>1
    <2>3. FirstFound(messages, <<i, j>>) = messages[<<i, j>>[Min(I)]]
      BY <1>1, <1>6, <2>2
    <2>4. QED
      BY <1>4, <2>2, <2>3
  <1>7. QED
    BY <1>5, <1>6

\* What an answer to a thread finds: the place of the message answered, k, and of
\* the one it is threaded to, v.
LEMMA ReplyPlaces ==
  ASSUME NEW M, NEW messages \in Seq(M), messages # << >>
  PROVE  \E k, v \in 1..Len(messages) :
           /\ FindReplyMessage(messages) = messages[k]
           /\ FindThreadingMessage(messages) = messages[v]
           /\ \A i \in 1..Len(messages) :
                Visible(messages, messages[i]) => Visible(messages, messages[v]) /\ i <= v
           /\ \/ k = v
              \/ Visible(messages, messages[k]) /\ From[messages[k]] # Me
           /\ \A i \in 1..Len(messages) :
                Visible(messages, messages[i]) /\ From[messages[i]] # Me => i <= k
  <1> DEFINE a == LastOfOthers(messages)
             b == LastVisible(messages)
             c == LastNonSystem(messages)
             k == IF a # 0 THEN a ELSE IF b # 0 THEN b ELSE IF c # 0 THEN c ELSE Len(messages)
             v == IF b # 0 THEN b ELSE IF c # 0 THEN c ELSE Len(messages)
  <1>1. Len(messages) \in 1..Len(messages)
    OBVIOUS
  <1>2. Searched(a, messages, {i \in 1..Len(messages) : Visible(messages, messages[i]) /\ From[messages[i]] # Me})
    BY LastOfOthersFinds
  <1>3. Searched(b, messages, {i \in 1..Len(messages) : Visible(messages, messages[i])})
    BY LastVisibleFinds
  <1>4. Searched(c, messages, {i \in 1..Len(messages) : ~IsSystemSender(messages[i])})
    BY LastNonSystemFinds
  <1>5. a \in Nat /\ b \in Nat /\ c \in Nat
    BY <1>2, <1>3, <1>4 DEF Searched
  <1>6. FindReplyMessage(messages) = messages[k]
    BY <1>5, FirstOfThree DEF FindReplyMessage, LastOfOthers
  <1>7. FindThreadingMessage(messages) = messages[v]
    BY <1>5, FirstOfTwo DEF FindThreadingMessage
  <1>8. k \in 1..Len(messages) /\ v \in 1..Len(messages)
    BY <1>1, <1>2, <1>3, <1>4 DEF Searched
  <1>9. \A i \in 1..Len(messages) : Visible(messages, messages[i]) => Visible(messages, messages[v]) /\ i <= v
    BY <1>3 DEF Searched
  <1>10. k = v \/ (Visible(messages, messages[k]) /\ From[messages[k]] # Me)
    <2>1. CASE a = 0
      BY <2>1
    <2>2. CASE a # 0
      <3>1. a \in {i \in 1..Len(messages) : Visible(messages, messages[i]) /\ From[messages[i]] # Me}
        BY <1>2, <2>2 DEF Searched
      <3>2. k = a
        BY <2>2
      <3>3. QED
        BY <3>1, <3>2
    <2>3. QED
      BY <2>1, <2>2
  <1>11. \A i \in 1..Len(messages) : Visible(messages, messages[i]) /\ From[messages[i]] # Me => i <= k
    BY <1>2 DEF Searched
  <1>12. QED
    BY <1>6, <1>7, <1>8, <1>9, <1>10, <1>11

\* Everything that is asked of a reply, for every thread.
LEMMA RepliesAreRight ==
  ASSUME NEW M, NEW messages \in Seq(M), messages # << >>, NEW all \in BOOLEAN
  PROVE  RepliesRightly(messages, Reply(messages, all))
  <1> DEFINE answered == FindReplyMessage(messages)
             threaded == FindThreadingMessage(messages)
             r == Reply(messages, all)
  <1>1. /\ r.answered = answered /\ r.inReplyTo = threaded /\ r.all = all
        /\ r.to = ReplyTargets(answered, all).to /\ r.cc = ReplyTargets(answered, all).cc
    BY DEF Reply
  <1>2. PICK k, v \in 1..Len(messages) :
           /\ answered = messages[k]
           /\ threaded = messages[v]
           /\ \A i \in 1..Len(messages) :
                Visible(messages, messages[i]) => Visible(messages, messages[v]) /\ i <= v
           /\ \/ k = v
              \/ Visible(messages, messages[k]) /\ From[messages[k]] # Me
           /\ \A i \in 1..Len(messages) :
                Visible(messages, messages[i]) /\ From[messages[i]] # Me => i <= k
    BY ReplyPlaces
  <1> HIDE DEF answered, threaded, r
  <1>3. ThreadHasExternal(messages) => ~IsInternalOnly(answered) /\ ~IsInternalOnly(threaded)
    <2> SUFFICES ASSUME ThreadHasExternal(messages)
                 PROVE  ~IsInternalOnly(answered) /\ ~IsInternalOnly(threaded)
      OBVIOUS
    <2>1. PICK m \in ToSet(messages) : ~IsSystemSender(m) /\ ~(Participants(m) \subseteq Internal \cup System)
      BY DEF ThreadHasExternal
    <2>2. PICK i \in 1..Len(messages) : messages[i] = m
      BY DEF ToSet
    <2>3. Visible(messages, m)
      BY <2>1 DEF Visible, IsInternalOnly
    <2>4. Visible(messages, messages[v])
      BY <1>2, <2>2, <2>3
    <2>5. Visible(messages, messages[k])
      BY <1>2, <2>4
    <2>6. QED
      BY <1>2, <2>4, <2>5 DEF Visible
  <1>4. Me \notin r.to \cup r.cc
    BY <1>1 DEF ReplyTargets
  <1>5. r.all => r.to \cup r.cc = Participants(answered) \ {Me}
    BY <1>1 DEF ReplyTargets, Participants
  <1>6. Searched(IndexOf(messages, answered), messages, {i \in 1..Len(messages) : messages[i] = answered})
    BY IndexOfFinds
  <1>7. Searched(IndexOf(messages, threaded), messages, {i \in 1..Len(messages) : messages[i] = threaded})
    BY IndexOfFinds
  <1>8. k <= IndexOf(messages, answered) /\ v <= IndexOf(messages, threaded)
    BY <1>2, <1>6, <1>7 DEF Searched
  <1>9. /\ IndexOf(messages, answered) \in 1..Len(messages)
        /\ messages[IndexOf(messages, answered)] = answered
    BY <1>2, <1>6 DEF Searched
  <1>10. ASSUME NEW i \in IndexOf(messages, answered) + 1 .. Len(messages),
                messages[i] # answered, ~IsSystemSender(messages[i]), ~IsInternalOnly(messages[i])
         PROVE  From[messages[i]] = Me
    <2>1. i \in 1..Len(messages) /\ ~(i <= k)
      BY <1>8, <1>9
    <2>2. Visible(messages, messages[i])
      BY <1>10 DEF Visible
    <2>3. QED
      BY <1>2, <2>1, <2>2
  <1>11. IndexOf(messages, answered) <= IndexOf(messages, threaded)
    <2>1. CASE k = v
      BY <1>2, <1>9, <2>1
    <2>2. CASE Visible(messages, messages[k])
      <3>1. Visible(messages, messages[IndexOf(messages, answered)])
        BY <1>2, <1>9, <2>2
      <3>2. IndexOf(messages, answered) <= v
        BY <1>2, <1>9, <3>1
      <3>3. IndexOf(messages, threaded) \in Nat
        BY <1>7 DEF Searched
      <3>4. QED
        BY <1>8, <1>9, <3>2, <3>3
    <2>3. QED
      BY <1>2, <2>1, <2>2
  <1>12. QED
    BY <1>1, <1>3, <1>4, <1>5, <1>10, <1>11 DEF RepliesRightly, r

\* A forward quotes a message of the thread.
LEMMA ForwardPlace ==
  ASSUME NEW M, NEW messages \in Seq(M), messages # << >>
  PROVE  FindForwardMessage(messages) \in 1..Len(messages)
  <1>1. Searched(LastNonSystem(messages), messages, {i \in 1..Len(messages) : ~IsSystemSender(messages[i])})
    BY LastNonSystemFinds
  <1>2. Len(messages) \in 1..Len(messages)
    OBVIOUS
  <1>3. QED
    BY <1>1, <1>2 DEF Searched, FindForwardMessage

(***************************************************************************)
(* Comments.                                                               *)
(***************************************************************************)

\* What is found for a thread is what one of its results holds, and nothing only
\* when all of them are no objects.
LEMMA ByThreadGives ==
  ASSUME NEW batch, NEW results, NEW n \in Nat, DOMAIN results = 1..n, NEW t, t # Unnamed
  PROVE  /\ t \in DOMAIN ByThread(batch, results) =>
              \E i \in 1..n : /\ ThreadOf(batch, results, i) = t
                              /\ ByThread(batch, results)[t] = results[i].value
         /\ t \notin DOMAIN ByThread(batch, results) =>
              \A i \in 1..n : ThreadOf(batch, results, i) = t => results[i].value = "junk"
  <1> DEFINE objects == {i \in DOMAIN results : results[i].value # "junk"}
             of == {i \in objects : ThreadOf(batch, results, i) = t}
  <1>1. DOMAIN ByThread(batch, results) = {ThreadOf(batch, results, i) : i \in objects} \ {Unnamed}
    BY DEF ByThread
  <1>2. ASSUME t \in DOMAIN ByThread(batch, results)
        PROVE  \E i \in 1..n : /\ ThreadOf(batch, results, i) = t
                               /\ ByThread(batch, results)[t] = results[i].value
    <2>1. ByThread(batch, results)[t] = results[Max(of)].value
      BY <1>2 DEF ByThread
    <2>2. of \in SUBSET (1..n) /\ of # {}
      BY <1>1, <1>2
    <2>3. Max(of) \in of
      BY <2>2, MaxIsGreatest
    <2>4. QED
      BY <2>1, <2>3
  <1>3. ASSUME t \notin DOMAIN ByThread(batch, results),
               NEW i \in 1..n, ThreadOf(batch, results, i) = t
        PROVE  results[i].value = "junk"
    BY <1>1, <1>3
  <1>4. QED
    BY <1>2, <1>3

\* Some result of thread t has been given, and every one has the value of t.
Answers(batch, results, stored, v) ==
  \E n \in Nat :
    /\ DOMAIN results = 1..n
    /\ \A t \in ToSet(batch) :
         /\ t \in stored => \E i \in 1..n : ThreadOf(batch, results, i) = t
         /\ \A i \in 1..n : ThreadOf(batch, results, i) = t =>
              /\ results[i].value = Held(stored, v, t)
              /\ results[i].value = "junk" => t \in Junk(batch, [ok |-> TRUE, results |-> results])

\* The backend answers so.
LEMMA BackendAnswersSo ==
  ASSUME NEW X, Unnamed \notin X, NEW batch \in Seq(X), NEW stored,
         NEW answer \in BackendAnswers(batch, stored), answer.ok, ~Ambiguous(batch, answer)
  PROVE  /\ answer = [ok |-> TRUE, results |-> answer.results]
         /\ \E v \in [ToSet(batch) -> {"stored", "invalid", "junk"}] :
              Answers(batch, answer.results, stored, v)
  <1> DEFINE orders == {s \in SetToAllKPermutations(ToSet(batch)) : stored \cap ToSet(batch) \subseteq ToSet(s)}
             values == [ToSet(batch) -> {"stored", "invalid", "junk"}]
             inOrder(s, v) == [i \in DOMAIN s |-> [path |-> s[i], value |-> Held(stored, v, s[i])]]
             named == {inOrder(s, v) : s \in orders, v \in values}
             short == {s \in orders : /\ DOMAIN s # DOMAIN batch
                                      /\ s = SelectSeq(batch, LAMBDA t : t \in ToSet(s))}
             unnamed == {[i \in DOMAIN s |-> [path |-> Unnamed, value |-> Held(stored, v, s[i])]] :
                           s \in {batch} \cup short, v \in values}
             results == answer.results
  <1>1. BackendAnswers(batch, stored) =
          [ok : {FALSE}, results : {NoResults}] \cup [ok : {TRUE}, results : named \cup unnamed]
    BY DEF BackendAnswers
  <1> HIDE DEF named, unnamed
  <1>2. answer \in [ok : {TRUE}, results : named \cup unnamed]
    BY <1>1
  <1>3. answer = [ok |-> TRUE, results |-> results] /\ results \in named \cup unnamed
    BY <1>2
  <1> HIDE DEF results
  <1>4. ToSet(batch) \subseteq X
    BY DEF ToSet
  <1>5. ASSUME results \in named
        PROVE  \E v \in values : Answers(batch, results, stored, v)
    <2>1. PICK s \in orders, v \in values :
             results = [i \in DOMAIN s |-> [path |-> s[i], value |-> Held(stored, v, s[i])]]
      BY <1>5 DEF named
    <2>2. PICK T \in SUBSET ToSet(batch) : s \in SetToSeqs(T)
      BY <2>1 DEF SetToAllKPermutations
    <2>3. s \in [1..Cardinality(T) -> T]
      BY <2>2 DEF SetToSeqs
    <2>4. Cardinality(T) \in Nat
      <3>1. DOMAIN batch = 1..Len(batch) /\ Len(batch) \in Nat
        OBVIOUS
      <3>2. IsFiniteSet(DOMAIN batch)
        BY <3>1, FS_Interval
      <3>3. IsFiniteSet(ToSet(batch))
        <4>1. batch \in Surjection(DOMAIN batch, ToSet(batch))
          BY DEF Surjection, ToSet
        <4>2. QED
          BY <3>2, <4>1, FS_Surjection
      <3>4. QED
        BY <3>3, FS_Subset, FS_CardinalityType
    <2>5. ASSUME NEW i \in DOMAIN s
          PROVE  /\ s[i] \in ToSet(batch) /\ ThreadOf(batch, results, i) = s[i]
                 /\ results[i].path = s[i] /\ results[i].value = Held(stored, v, s[i])
      <3>1. s[i] \in ToSet(batch) /\ s[i] # Unnamed
        BY <1>4, <2>2, <2>3
      <3>2. results[i].path = s[i] /\ results[i].value = Held(stored, v, s[i])
        BY <2>1
      <3>3. QED
        BY <3>1, <3>2 DEF ThreadOf
    <2>6. ASSUME NEW i \in DOMAIN s, results[i].value = "junk"
          PROVE  s[i] \in Junk(batch, [ok |-> TRUE, results |-> results])
      <3>1. results[i] \in ToSet(results)
        BY <2>1 DEF ToSet
      <3>2. results[i].path = s[i]
        BY <2>5
      <3>3. QED
        BY <2>6, <3>1, <3>2 DEF Junk
    <2>7. ASSUME NEW t \in ToSet(batch), t \in stored
          PROVE  \E i \in DOMAIN s : ThreadOf(batch, results, i) = t
      <3>1. t \in ToSet(s)
        BY <2>1, <2>7
      <3>2. QED
        BY <2>5, <3>1 DEF ToSet
    <2>8. DOMAIN results = 1..Cardinality(T) /\ DOMAIN s = 1..Cardinality(T)
      BY <2>1, <2>3
    <2>9. ASSUME NEW t \in ToSet(batch), NEW i \in DOMAIN s, ThreadOf(batch, results, i) = t
          PROVE  /\ results[i].value = Held(stored, v, t)
                 /\ results[i].value = "junk" => t \in Junk(batch, [ok |-> TRUE, results |-> results])
      <3>1. t = s[i]
        BY <2>5, <2>9
      <3>2. QED
        BY <2>5, <2>6, <3>1
    <2>10. Answers(batch, results, stored, v)
      <3> DEFINE n == Cardinality(T)
      <3>1. n \in Nat /\ DOMAIN results = 1..n /\ DOMAIN s = 1..n
        BY <2>4, <2>8
      <3> HIDE DEF n
      <3>2. ASSUME NEW t \in ToSet(batch)
            PROVE  /\ t \in stored => \E i \in 1..n : ThreadOf(batch, results, i) = t
                   /\ \A i \in 1..n : ThreadOf(batch, results, i) = t =>
                        /\ results[i].value = Held(stored, v, t)
                        /\ results[i].value = "junk" => t \in Junk(batch, [ok |-> TRUE, results |-> results])
        <4>1. t \in stored => \E i \in 1..n : ThreadOf(batch, results, i) = t
          BY <2>7, <3>1
        <4>2. ASSUME NEW i \in 1..n, ThreadOf(batch, results, i) = t
              PROVE  /\ results[i].value = Held(stored, v, t)
                     /\ results[i].value = "junk" => t \in Junk(batch, [ok |-> TRUE, results |-> results])
          BY <2>9, <3>1, <4>2
        <4>3. QED
          BY <4>1, <4>2
      <3>3. QED
        BY <3>1, <3>2 DEF Answers
    <2>11. QED
      BY <2>1, <2>10
  <1>6. ASSUME NEW v \in values,
               results = [i \in DOMAIN batch |-> [path |-> Unnamed, value |-> Held(stored, v, batch[i])]]
        PROVE  Answers(batch, results, stored, v)
    <2>1. results = [i \in DOMAIN batch |-> [path |-> Unnamed, value |-> Held(stored, v, batch[i])]]
      BY <1>6
    <2>2. DOMAIN batch = 1..Len(batch) /\ Len(batch) \in Nat
      OBVIOUS
    <2>3. ASSUME NEW i \in DOMAIN batch
          PROVE  /\ ThreadOf(batch, results, i) = batch[i]
                 /\ results[i].path = Unnamed /\ results[i].value = Held(stored, v, batch[i])
      <3>1. results[i].path = Unnamed /\ results[i].value = Held(stored, v, batch[i])
        BY <2>1
      <3>2. i <= Len(batch)
        BY <2>2
      <3>3. QED
        BY <3>1, <3>2 DEF ThreadOf
    <2>4. DOMAIN results = DOMAIN batch
      BY <2>1
    <2>5. ASSUME NEW i \in DOMAIN batch, results[i].value = "junk"
          PROVE  batch[i] \in Junk(batch, [ok |-> TRUE, results |-> results])
      BY <2>4, <2>5 DEF Junk
    <2>6. ASSUME NEW t \in ToSet(batch) PROVE \E i \in DOMAIN batch : ThreadOf(batch, results, i) = t
      BY <2>3 DEF ToSet
    <2>7. ASSUME NEW t \in ToSet(batch), NEW i \in DOMAIN batch, ThreadOf(batch, results, i) = t
          PROVE  /\ results[i].value = Held(stored, v, t)
                 /\ results[i].value = "junk" => t \in Junk(batch, [ok |-> TRUE, results |-> results])
      <3>1. t = batch[i]
        BY <2>3, <2>7
      <3>2. QED
        BY <2>3, <2>5, <3>1
    <2>8. Answers(batch, results, stored, v)
      <3> DEFINE n == Len(batch)
      <3>1. n \in Nat /\ DOMAIN results = 1..n /\ DOMAIN batch = 1..n
        BY <2>2, <2>4
      <3> HIDE DEF n
      <3>2. ASSUME NEW t \in ToSet(batch)
            PROVE  /\ t \in stored => \E i \in 1..n : ThreadOf(batch, results, i) = t
                   /\ \A i \in 1..n : ThreadOf(batch, results, i) = t =>
                        /\ results[i].value = Held(stored, v, t)
                        /\ results[i].value = "junk" => t \in Junk(batch, [ok |-> TRUE, results |-> results])
        <4>1. t \in stored => \E i \in 1..n : ThreadOf(batch, results, i) = t
          BY <2>6, <3>1
        <4>2. ASSUME NEW i \in 1..n, ThreadOf(batch, results, i) = t
              PROVE  /\ results[i].value = Held(stored, v, t)
                     /\ results[i].value = "junk" => t \in Junk(batch, [ok |-> TRUE, results |-> results])
          BY <2>7, <3>1, <4>2
        <4>3. QED
          BY <4>1, <4>2
      <3>3. QED
        BY <3>1, <3>2 DEF Answers
    <2>9. QED
      BY <2>8
  <1>7. ASSUME NEW s \in short, NEW v \in values,
               results = [i \in DOMAIN s |-> [path |-> Unnamed, value |-> Held(stored, v, s[i])]]
        PROVE  Answers(batch, results, stored, v)
    <2>1. DOMAIN results = DOMAIN s /\ DOMAIN s # DOMAIN batch /\ stored \cap ToSet(batch) \subseteq ToSet(s)
      BY <1>7
    <2>2. ~ \E r \in ToSet(results) : r.path = Unnamed
      BY <2>1 DEF Ambiguous, results
    <2>3. DOMAIN s = {}
      <3>1. ASSUME NEW i \in DOMAIN s PROVE results[i] \in ToSet(results) /\ results[i].path = Unnamed
        BY <1>7, <2>1 DEF ToSet
      <3>2. QED
        BY <2>2, <3>1
    <2>4. ToSet(s) = {}
      BY <2>3 DEF ToSet
    <2> HIDE DEF short, values
    <2>5. DOMAIN results = 1..0 /\ 1..0 = {}
      BY <2>1, <2>3
    <2>6. ASSUME NEW t \in ToSet(batch) PROVE t \notin stored
      BY <2>1, <2>4
    <2>7. \A i \in 1..0 : FALSE
      BY <2>5
    <2>8. QED
      BY <2>5, <2>6, <2>7, 0 \in Nat, Zenon DEF Answers
  <1>8. ASSUME results \in unnamed
        PROVE  \E v \in values : Answers(batch, results, stored, v)
    <2> HIDE DEF short, values
    <2>1. PICK s \in {batch} \cup short, v \in values :
            results = [i \in DOMAIN s |-> [path |-> Unnamed, value |-> Held(stored, v, s[i])]]
      BY <1>8 DEF unnamed
    <2>2. CASE s = batch
      BY <1>6, <2>1, <2>2
    <2>3. CASE s \in short
      BY <1>7, <2>1, <2>3
    <2>4. QED
      BY <2>1, <2>2, <2>3
  <1>9. QED
    BY <1>3, <1>5, <1>8

\* A batch read without a failure has the comments of each of its threads.
LEMMA BatchRead ==
  ASSUME NEW X, Unnamed \notin X, NEW batch \in Seq(X), NEW stored,
         NEW answer \in BackendAnswers(batch, stored),
         NEW part, part = ReadBatch(batch, answer), part.failed = {}
  PROVE  /\ DOMAIN part.read = ToSet(batch)
         /\ \A t \in ToSet(batch) :
              t \notin Untold(batch, answer) => part.read[t] = StoredValue(stored, t)
  <1> DEFINE given == ByThread(batch, answer.results)
             valueOf(t) == IF t \in DOMAIN given THEN given[t] ELSE "none"
             bad == {t \in ToSet(batch) : valueOf(t) = "invalid"}
  <1>1. ASSUME ~answer.ok
        PROVE  /\ part.read = << >>
               /\ ToSet(batch) = {}
    BY <1>1 DEF ReadBatch
  <1>2. ASSUME answer.ok
        PROVE  /\ part.read = [t \in ToSet(batch) \ bad |-> valueOf(t)]
               /\ bad = {}
    BY <1>2 DEF ReadBatch
  <1>3. ASSUME answer.ok, NEW t \in ToSet(batch), t \notin Untold(batch, answer), valueOf(t) # "invalid"
        PROVE  valueOf(t) = StoredValue(stored, t)
    <2> DEFINE results == answer.results
    <2>0. t \notin Junk(batch, answer) /\ ~Ambiguous(batch, answer)
      BY <1>3 DEF Untold
    <2>1. answer = [ok |-> TRUE, results |-> results]
      BY <1>3, <2>0, BackendAnswersSo
    <2>2. PICK v \in [ToSet(batch) -> {"stored", "invalid", "junk"}] : Answers(batch, results, stored, v)
      BY <1>3, <2>0, BackendAnswersSo
    <2> HIDE DEF results
    <2>3. PICK n \in Nat :
            /\ DOMAIN results = 1..n
            /\ t \in stored => \E i \in 1..n : ThreadOf(batch, results, i) = t
            /\ \A i \in 1..n : ThreadOf(batch, results, i) = t =>
                 /\ results[i].value = Held(stored, v, t)
                 /\ results[i].value = "junk" => t \in Junk(batch, [ok |-> TRUE, results |-> results])
      BY <1>3, <2>2 DEF Answers
    <2>4. \A i \in 1..n : ThreadOf(batch, results, i) = t => results[i].value # "junk"
      BY <2>0, <2>1, <2>3
    <2>5. t # Unnamed
      BY DEF ToSet
    <2>6. /\ t \in DOMAIN ByThread(batch, results) =>
               \E i \in 1..n : /\ ThreadOf(batch, results, i) = t
                               /\ ByThread(batch, results)[t] = results[i].value
          /\ t \notin DOMAIN ByThread(batch, results) =>
               \A i \in 1..n : ThreadOf(batch, results, i) = t => results[i].value = "junk"
      <3>1. DOMAIN results = 1..n
        BY <2>3
      <3>2. QED
        BY <2>5, <3>1, ByThreadGives
    <2>7. given = ByThread(batch, results)
      BY DEF results
    <2>8. CASE t \in DOMAIN given
      <3>1. PICK i \in 1..n : ThreadOf(batch, results, i) = t /\ valueOf(t) = results[i].value
        BY <2>6, <2>7, <2>8
      <3>2. results[i].value = Held(stored, v, t) /\ results[i].value # "junk"
        BY <2>3, <2>4, <3>1
      <3>3. Held(stored, v, t) # "junk" /\ Held(stored, v, t) # "invalid"
        BY <1>3, <3>1, <3>2
      <3>4. v[t] \in {"stored", "invalid", "junk"}
        OBVIOUS
      <3>5. QED
        BY <3>1, <3>2, <3>3, <3>4 DEF Held
    <2>9. CASE t \notin DOMAIN given
      <3>1. t \notin stored
        BY <2>3, <2>4, <2>6, <2>7, <2>9
      <3>2. QED
        BY <2>9, <3>1 DEF StoredValue
    <2>10. QED
      BY <2>8, <2>9
  <1> HIDE DEF given
  <1>4. CASE ~answer.ok
    <2>1. DOMAIN << >> = {}
      OBVIOUS
    <2>2. DOMAIN part.read = ToSet(batch) /\ ToSet(batch) = {}
      BY <1>1, <1>4, <2>1
    <2>3. QED
      BY <2>2
  <1>5. CASE answer.ok
    <2>1. DOMAIN part.read = ToSet(batch)
      BY <1>2, <1>5
    <2>2. ASSUME NEW t \in ToSet(batch), t \notin Untold(batch, answer)
          PROVE  part.read[t] = StoredValue(stored, t)
      <3>1. valueOf(t) # "invalid"
        BY <1>2, <1>5
      <3>2. part.read[t] = valueOf(t)
        BY <1>2, <1>5
      <3>3. QED
        BY <1>3, <1>5, <2>2, <3>1, <3>2
    <2>3. QED
      BY <2>1, <2>2
  <1>6. QED
    BY <1>4, <1>5

\* Of two numbers Min takes the smaller.
LEMMA MinOfTwo ==
  ASSUME NEW a \in Nat, NEW b \in Nat
  PROVE  Min({a, b}) = IF a <= b THEN a ELSE b
  <1>1. Min({a, b}) \in {a, b} /\ \A x \in {a, b} : Min({a, b}) <= x
    BY MinIsLeast
  <1>2. QED
    BY <1>1

\* The batches are parts of the list of threads, and no thread is left out.
LEMMA BatchesCover ==
  ASSUME NEW X, NEW threads \in Seq(X)
  PROVE  /\ \E size \in Nat : DOMAIN Batches(threads) = 1..size
         /\ \A b \in DOMAIN Batches(threads) : Batches(threads)[b] \in Seq(X)
         /\ \A t \in ToSet(threads) : \E b \in DOMAIN Batches(threads) : t \in ToSet(Batches(threads)[b])
  <1> DEFINE length == Len(threads)
             size == (length + BatchSize - 1) \div BatchSize
             from(b) == (b - 1) * BatchSize + 1
             to(b) == Min({b * BatchSize, length})
  <1>1. BatchSize \in 1..2 /\ length \in Nat /\ DOMAIN threads = 1..length
    BY CommentReadAssumption
  <1>2. Batches(threads) = [b \in 1..size |-> SubSeq(threads, from(b), to(b))]
    BY DEF Batches
  <1>3. size \in Nat
    <2>1. CASE BatchSize = 1
      BY <1>1, <2>1
    <2>2. CASE BatchSize = 2
      BY <1>1, <2>2
    <2>3. QED
      BY <1>1, <2>1, <2>2
  <1> HIDE DEF length, size
  <1>4. ASSUME NEW b \in 1..size
        PROVE  /\ from(b) \in Nat \ {0} /\ to(b) \in 0..length
               /\ to(b) = IF b * BatchSize <= length THEN b * BatchSize ELSE length
    <2>1. b * BatchSize \in Nat /\ from(b) \in Nat \ {0}
      <3>1. CASE BatchSize = 1
        BY <1>3, <3>1
      <3>2. CASE BatchSize = 2
        BY <1>3, <3>2
      <3>3. QED
        BY <1>1, <3>1, <3>2
    <2>2. QED
      BY <1>1, <2>1, MinOfTwo
  <1> HIDE DEF from, to
  <1>5. ASSUME NEW b \in 1..size
        PROVE  SubSeq(threads, from(b), to(b)) \in Seq(X)
    <2>1. from(b) \in Nat \ {0} /\ to(b) \in 0..length
      BY <1>4
    <2>2. QED
      BY <1>1, <2>1 DEF length
  <1>6. ASSUME NEW i \in 1..length
        PROVE  \E b \in 1..size : threads[i] \in ToSet(SubSeq(threads, from(b), to(b)))
    <2> DEFINE b == (i + BatchSize - 1) \div BatchSize
    <2>1. b \in 1..size /\ (b - 1) * BatchSize + 1 <= i /\ i <= b * BatchSize
      <3>1. CASE BatchSize = 1
        BY <1>1, <3>1 DEF size
      <3>2. CASE BatchSize = 2
        BY <1>1, <3>2 DEF size
      <3>3. QED
        BY <1>1, <3>1, <3>2
    <2> HIDE DEF b
    <2>2. from(b) <= i /\ i <= to(b)
      BY <1>1, <1>4, <2>1 DEF from
    <2>3. from(b) \in Nat \ {0} /\ to(b) \in 0..length
      BY <1>4, <2>1
    <2> DEFINE part == SubSeq(threads, from(b), to(b))
    <2>4. /\ i - from(b) + 1 \in DOMAIN part
          /\ part[i - from(b) + 1] = threads[i]
      BY <1>1, <2>2, <2>3
    <2>5. threads[i] \in ToSet(part)
      BY <2>4 DEF ToSet
    <2>6. QED
      BY <2>1, <2>5
  <1>7. DOMAIN Batches(threads) = 1..size
    BY <1>2
  <1>8. \A b \in 1..size : Batches(threads)[b] \in Seq(X)
    BY <1>2, <1>5
  <1>9. ASSUME NEW t \in ToSet(threads) PROVE \E b \in 1..size : t \in ToSet(Batches(threads)[b])
    <2>1. PICK i \in 1..length : t = threads[i]
      BY <1>1 DEF ToSet
    <2>2. PICK b \in 1..size : threads[i] \in ToSet(SubSeq(threads, from(b), to(b)))
      BY <1>6
    <2>3. QED
      BY <1>2, <2>1, <2>2
  <1>10. QED
    BY <1>3, <1>7, <1>8, <1>9

(***************************************************************************)
(* Scans: sets in an order, and what is cut from them.                     *)
(***************************************************************************)
Irreflexive(S, before) == \A x \in S : <<x, x>> \notin before

TransitiveOn(S, before) ==
  \A x, y, z \in S : <<x, y>> \in before /\ <<y, z>> \in before => <<x, z>> \in before

TotalOn(S, before) == \A x, y \in S : x = y \/ <<x, y>> \in before \/ <<y, x>> \in before

\* Those in S before x.
Ahead(S, before, x) == {y \in S : <<y, x>> \in before}

\* A part of a finite set can be counted.
LEMMA AheadIsFinite ==
  ASSUME NEW S, IsFiniteSet(S), NEW before, NEW x
  PROVE  IsFiniteSet(Ahead(S, before, x)) /\ Cardinality(Ahead(S, before, x)) \in Nat
  <1>1. Ahead(S, before, x) \in SUBSET S
    BY DEF Ahead
  <1>2. QED
    BY <1>1, FS_Subset, FS_CardinalityType

\* A cut that there is room for takes nothing away.
LEMMA LeadingIsAll ==
  ASSUME NEW S, IsFiniteSet(S), NEW before, Irreflexive(S, before),
         NEW n \in Nat, Cardinality(S) <= n
  PROVE  Leading(S, before, n) = S
  <1> SUFFICES ASSUME NEW x \in S PROVE Cardinality(Ahead(S, before, x)) < n
    BY DEF Leading, Ahead
  <1>1. Ahead(S, before, x) \in SUBSET (S \ {x})
    BY DEF Ahead, Irreflexive
  <1>2. IsFiniteSet(S \ {x}) /\ Cardinality(S \ {x}) = Cardinality(S) - 1
    BY FS_RemoveElement
  <1>3. Cardinality(Ahead(S, before, x)) <= Cardinality(S) - 1
    BY <1>1, <1>2, FS_Subset
  <1>4. Cardinality(S) \in Nat /\ Cardinality(Ahead(S, before, x)) \in Nat
    BY FS_CardinalityType, AheadIsFinite
  <1>5. QED
    BY <1>3, <1>4

\* What comes first has less before it.
LEMMA AheadGrows ==
  ASSUME NEW S, IsFiniteSet(S), NEW before, Irreflexive(S, before), TransitiveOn(S, before),
         NEW x \in S, NEW y \in S, <<y, x>> \in before
  PROVE  Cardinality(Ahead(S, before, y)) < Cardinality(Ahead(S, before, x))
  <1>1. Ahead(S, before, y) \in SUBSET (Ahead(S, before, x) \ {y})
    BY DEF Ahead, Irreflexive, TransitiveOn
  <1>2. y \in Ahead(S, before, x)
    BY DEF Ahead
  <1>3. /\ IsFiniteSet(Ahead(S, before, x)) /\ Cardinality(Ahead(S, before, x)) \in Nat
        /\ Cardinality(Ahead(S, before, y)) \in Nat
    BY AheadIsFinite
  <1>4. /\ IsFiniteSet(Ahead(S, before, x) \ {y})
        /\ Cardinality(Ahead(S, before, x) \ {y}) = Cardinality(Ahead(S, before, x)) - 1
    BY <1>2, <1>3, FS_RemoveElement
  <1>5. Cardinality(Ahead(S, before, y)) <= Cardinality(Ahead(S, before, x)) - 1
    BY <1>1, <1>4, FS_Subset
  <1>6. QED
    BY <1>3, <1>5

\* What comes before something that is left is left.
LEMMA LeadingIsClosed ==
  ASSUME NEW S, IsFiniteSet(S), NEW before, Irreflexive(S, before), TransitiveOn(S, before),
         NEW n \in Nat, NEW x \in Leading(S, before, n), NEW y \in S, <<y, x>> \in before
  PROVE  y \in Leading(S, before, n)
  <1>1. x \in S /\ Cardinality(Ahead(S, before, x)) < n
    BY DEF Leading, Ahead
  <1>2. Cardinality(Ahead(S, before, y)) < Cardinality(Ahead(S, before, x))
    BY <1>1, AheadGrows
  <1>3. Cardinality(Ahead(S, before, x)) \in Nat /\ Cardinality(Ahead(S, before, y)) \in Nat
    BY AheadIsFinite
  <1>4. QED
    BY <1>1, <1>2, <1>3 DEF Leading, Ahead

\* A cut leaves no more than it says.
LEMMA LeadingIsShort ==
  ASSUME NEW S, IsFiniteSet(S), NEW before, Irreflexive(S, before), TransitiveOn(S, before),
         TotalOn(S, before), NEW n \in Nat
  PROVE  /\ IsFiniteSet(Leading(S, before, n))
         /\ Cardinality(Leading(S, before, n)) <= n
  <1> DEFINE L == Leading(S, before, n)
             place == [x \in L |-> Cardinality(Ahead(S, before, x)) + 1]
  <1>1. \A x \in L : /\ x \in S
                     /\ Cardinality(Ahead(S, before, x)) \in Nat
                     /\ Cardinality(Ahead(S, before, x)) < n
    BY AheadIsFinite DEF Leading, Ahead
  <1>2. place \in [L -> 1..n]
    BY <1>1
  <1>3. ASSUME NEW x \in L, NEW y \in L, x # y PROVE place[x] # place[y]
    <2>1. CASE <<x, y>> \in before
      <3>1. Cardinality(Ahead(S, before, x)) < Cardinality(Ahead(S, before, y))
        BY <1>1, <2>1, AheadGrows
      <3>2. QED
        BY <1>1, <3>1
    <2>2. CASE <<y, x>> \in before
      <3>1. Cardinality(Ahead(S, before, y)) < Cardinality(Ahead(S, before, x))
        BY <1>1, <2>2, AheadGrows
      <3>2. QED
        BY <1>1, <3>1
    <2>3. QED
      BY <1>1, <1>3, <2>1, <2>2 DEF TotalOn
  <1>4. place \in Injection(L, 1..n)
    BY <1>2, <1>3 DEF Injection, IsInjective
  <1>5. IsFiniteSet(1..n) /\ Cardinality(1..n) = n
    BY FS_Interval
  <1>6. QED
    BY <1>4, <1>5, FS_Injection

\* A finite set that is not empty has a last member.
LEMMA LastOf ==
  ASSUME NEW S, IsFiniteSet(S), S # {}, NEW before,
         Irreflexive(S, before), TransitiveOn(S, before), TotalOn(S, before)
  PROVE  \E x \in S : \A y \in S : y = x \/ <<y, x>> \in before
  <1> DEFINE place(x) == Cardinality(Ahead(S, before, x)) + 1
             used == {place(x) : x \in S}
  <1>1. Cardinality(S) \in Nat
    BY FS_CardinalityType
  <1>2. ASSUME NEW x \in S PROVE place(x) \in 1..(Cardinality(S) + 1) /\ place(x) \in Nat
    <2>1. Ahead(S, before, x) \in SUBSET S
      BY DEF Ahead
    <2>2. Cardinality(Ahead(S, before, x)) <= Cardinality(S)
      BY <2>1, FS_Subset
    <2>3. Cardinality(Ahead(S, before, x)) \in Nat
      BY AheadIsFinite
    <2>4. QED
      BY <1>1, <2>2, <2>3
  <1>3. used \in SUBSET (1..(Cardinality(S) + 1)) /\ used # {}
    BY <1>2
  <1>4. PICK x \in S : \A y \in S : place(y) <= place(x)
    <2>1. Max(used) \in used /\ \A k \in used : k <= Max(used)
      <3> HIDE DEF used
      <3>1. Cardinality(S) + 1 \in Nat
        BY <1>1
      <3>2. QED
        BY <1>3, <3>1, MaxIsGreatest
    <2>2. QED
      BY <2>1
  <1>5. ASSUME NEW y \in S PROVE y = x \/ <<y, x>> \in before
    <2>1. ASSUME <<x, y>> \in before PROVE FALSE
      <3>1. Cardinality(Ahead(S, before, x)) < Cardinality(Ahead(S, before, y))
        BY <2>1, AheadGrows
      <3>2. place(y) <= place(x)
        BY <1>4
      <3>3. QED
        BY <3>1, <3>2, AheadIsFinite
    <2>2. QED
      BY <2>1 DEF TotalOn
  <1>6. QED
    BY <1>5

\* The values of a function on a finite set.
LEMMA RangeIsFinite ==
  ASSUME NEW S, IsFiniteSet(S), NEW f, S = DOMAIN f
  PROVE  IsFiniteSet({f[x] : x \in S})
  <1> DEFINE T == {f[x] : x \in S}
  <1> DEFINE g == [x \in S |-> f[x]]
  <1>1. g \in Surjection(S, T)
    BY DEF Surjection
  <1>2. QED
    BY <1>1, FS_Surjection

(***************************************************************************)
(* The orders of records, rows and places.                                 *)
(***************************************************************************)
ScanRecord == [account : Account, thread : Thread, message : Message, amount : Nat]

\* Newest first, then by the numbers.
LEMMA NewerMeans ==
  ASSUME NEW r, NEW s
  PROVE  Newer(r, s) <=>
           \/ -Date[r.message] < -Date[s.message]
           \/ /\ -Date[r.message] = -Date[s.message]
              /\ \/ r.account < s.account
                 \/ /\ r.account = s.account
                    /\ \/ r.thread < s.thread
                       \/ r.thread = s.thread /\ r.message < s.message
  <1> DEFINE key(x) == << -Date[x.message], x.account, x.thread, x.message >>
             differ(i) == key(r)[i] < key(s)[i] /\ \A j \in 1..(i - 1) : key(r)[j] = key(s)[j]
  <1>1. Newer(r, s) <=> \E i \in 1..4 : differ(i)
    BY DEF Newer
  <1>2. (\E i \in 1..4 : differ(i)) <=> differ(1) \/ differ(2) \/ differ(3) \/ differ(4)
    <2> HIDE DEF differ
    <2>1. 1..4 = {1, 2, 3, 4}
      OBVIOUS
    <2>2. QED
      BY <2>1
  <1>3. /\ key(r)[1] = -Date[r.message] /\ key(s)[1] = -Date[s.message]
        /\ key(r)[2] = r.account /\ key(s)[2] = s.account
        /\ key(r)[3] = r.thread /\ key(s)[3] = s.thread
        /\ key(r)[4] = r.message /\ key(s)[4] = s.message
    OBVIOUS
  <1>4. 1..(1 - 1) = {} /\ 1..(2 - 1) = {1} /\ 1..(3 - 1) = {1, 2} /\ 1..(4 - 1) = {1, 2, 3}
    OBVIOUS
  <1>5. /\ differ(1) <=> key(r)[1] < key(s)[1]
        /\ differ(2) <=> key(r)[2] < key(s)[2] /\ key(r)[1] = key(s)[1]
        /\ differ(3) <=> key(r)[3] < key(s)[3] /\ key(r)[1] = key(s)[1] /\ key(r)[2] = key(s)[2]
        /\ differ(4) <=> /\ key(r)[4] < key(s)[4] /\ key(r)[1] = key(s)[1]
                         /\ key(r)[2] = key(s)[2] /\ key(r)[3] = key(s)[3]
    <2> HIDE DEF key
    <2>1. QED
      BY <1>4
  <1> HIDE DEF differ, key
  <1>6. QED
    BY <1>1, <1>2, <1>3, <1>5

\* So records have an order, by what they are of.
LEMMA NewerOrders ==
  ASSUME ScanAssumption, NEW R \in SUBSET ScanRecord
  PROVE  /\ \A r \in R : ~Newer(r, r)
         /\ \A r, s, u \in R : Newer(r, s) /\ Newer(s, u) => Newer(r, u)
         /\ \A r, s \in R : \/ Newer(r, s) \/ Newer(s, r)
                            \/ r.account = s.account /\ r.thread = s.thread /\ r.message = s.message
         /\ \A r, s \in R : Newer(r, s) => Date[r.message] >= Date[s.message]
         /\ \A r, s \in R : ~Newer(r, s) => Date[r.message] <= Date[s.message]
  <1>1. \A r \in R : r.account \in Nat /\ r.thread \in Nat /\ r.message \in Nat /\ Date[r.message] \in Nat
    BY DEF ScanAssumption, ScanRecord
  <1> DEFINE date(r) == Date[r.message]
  <1>2. ASSUME NEW r \in R, NEW s \in R
        PROVE  Newer(r, s) <=>
           \/ date(r) > date(s)
           \/ /\ date(r) = date(s)
              /\ \/ r.account < s.account
                 \/ /\ r.account = s.account
                    /\ \/ r.thread < s.thread
                       \/ r.thread = s.thread /\ r.message < s.message
    <2>1. date(r) \in Nat /\ date(s) \in Nat
      BY <1>1
    <2>2. (-date(r) < -date(s) <=> date(r) > date(s)) /\ (-date(r) = -date(s) <=> date(r) = date(s))
      BY <2>1
    <2>3. QED
      BY <2>2, NewerMeans
  <1>3. \A r \in R : date(r) \in Nat
    BY <1>1
  <1>4. \A r \in R : ~Newer(r, r)
    BY <1>1, <1>2, <1>3
  <1>5. ASSUME NEW r \in R, NEW s \in R, NEW u \in R, Newer(r, s), Newer(s, u) PROVE Newer(r, u)
    BY <1>1, <1>2, <1>3, <1>5
  <1>6. ASSUME NEW r \in R, NEW s \in R
        PROVE  /\ \/ Newer(r, s) \/ Newer(s, r)
                  \/ r.account = s.account /\ r.thread = s.thread /\ r.message = s.message
               /\ Newer(r, s) => Date[r.message] >= Date[s.message]
               /\ ~Newer(r, s) => Date[r.message] <= Date[s.message]
    BY <1>1, <1>2, <1>3, <1>6
  <1>7. QED
    BY <1>4, <1>5, <1>6

\* Records that differ in what they are of.
Distinct(R) ==
  \A r, s \in R : r.account = s.account /\ r.thread = s.thread /\ r.message = s.message => r = s

\* Their order by pairs.
LEMMA RecordsAreOrdered ==
  ASSUME ScanAssumption, NEW R \in SUBSET ScanRecord
  PROVE  /\ Irreflexive(R, RecordOrder(R)) /\ TransitiveOn(R, RecordOrder(R))
         /\ Distinct(R) => TotalOn(R, RecordOrder(R))
         /\ \A r, s \in R : <<r, s>> \in RecordOrder(R) <=> Newer(r, s)
  <1>1. \A r, s \in R : <<r, s>> \in RecordOrder(R) <=> Newer(r, s)
    BY DEF RecordOrder
  <1>2. Irreflexive(R, RecordOrder(R))
    BY <1>1, NewerOrders DEF Irreflexive
  <1>3. TransitiveOn(R, RecordOrder(R))
    BY <1>1, NewerOrders DEF TransitiveOn
  <1>4. Distinct(R) => TotalOn(R, RecordOrder(R))
    <2> SUFFICES ASSUME Distinct(R), NEW r \in R, NEW s \in R
                 PROVE  r = s \/ <<r, s>> \in RecordOrder(R) \/ <<s, r>> \in RecordOrder(R)
      BY DEF TotalOn
    <2>1. Newer(r, s) \/ Newer(s, r) \/ r = s
      BY NewerOrders DEF Distinct
    <2>2. QED
      BY <1>1, <2>1
  <1>5. QED
    BY <1>1, <1>2, <1>3, <1>4

\* A finite set of naturals has a greatest member.
LEMMA Greatest ==
  ASSUME NEW S \in SUBSET Nat, IsFiniteSet(S), S # {}
  PROVE  \E x \in S : \A y \in S : y <= x
  <1> DEFINE under == {p \in S \X S : p[1] < p[2]}
  <1>1. \A x, y \in S : <<x, y>> \in under <=> x < y
    OBVIOUS
  <1>2. \A x \in S : x \in Nat
    OBVIOUS
  <1> HIDE DEF under
  <1>3. Irreflexive(S, under)
    BY <1>1, <1>2 DEF Irreflexive
  <1>4. TransitiveOn(S, under)
    BY <1>1, <1>2 DEF TransitiveOn
  <1>5. TotalOn(S, under)
    <2> SUFFICES ASSUME NEW x \in S, NEW y \in S
                 PROVE  x = y \/ <<x, y>> \in under \/ <<y, x>> \in under
      BY DEF TotalOn
    <2>1. x \in Nat /\ y \in Nat
      OBVIOUS
    <2>2. x = y \/ x < y \/ y < x
      BY <2>1
    <2>3. QED
      BY <1>1, <2>2
  <1>6. \E x \in S : \A y \in S : y = x \/ <<y, x>> \in under
    BY <1>3, <1>4, <1>5, LastOf
  <1>7. PICK x \in S : \A y \in S : y = x \/ <<y, x>> \in under
    BY <1>6
  <1>8. ASSUME NEW y \in S PROVE y <= x
    <2>1. y = x \/ y < x
      BY <1>1, <1>7
    <2>2. x \in Nat /\ y \in Nat
      OBVIOUS
    <2>3. QED
      BY <2>1, <2>2
  <1>9. QED
    BY <1>8

\* The sort column is a date, and of no message a later one.
LEMMA SortIsNewest ==
  ASSUME ScanAssumption, NEW row \in Row, row # Empty
  PROVE  Sort(row) \in Nat /\ \A m \in ToSet(row.messages) : Date[m] <= Sort(row)
  <1>1. row.messages \in Seq(Message) /\ row.messages # << >>
    BY DEF Row
  <1> DEFINE s == row.messages
             dates == {Date[m] : m \in ToSet(s)}
  <1>2. Len(s) \in Nat /\ DOMAIN s = 1..Len(s) /\ Len(s) # 0
    BY <1>1
  <1>3. ToSet(s) \in SUBSET Message /\ ToSet(s) # {}
    <2>1. 1 \in DOMAIN s /\ \A i \in DOMAIN s : s[i] \in Message
      BY <1>1, <1>2
    <2>2. QED
      BY <2>1 DEF ToSet
  <1>4. IsFiniteSet(ToSet(s))
    <2>1. IsFiniteSet(1..Len(s))
      <3>1. \A n \in Nat : IsFiniteSet(1..n)
        BY FS_Interval
      <3>2. QED
        BY <1>2, <3>1
    <2>2. ToSet(s) = {s[i] : i \in 1..Len(s)}
      BY <1>2 DEF ToSet
    <2>3. QED
      BY <1>2, <2>1, <2>2, RangeIsFinite
  <1>5. IsFiniteSet(dates) /\ dates \in SUBSET Nat /\ dates # {}
    <2> DEFINE f == [m \in ToSet(s) |-> Date[m]]
    <2>1. IsFiniteSet({f[m] : m \in ToSet(s)})
      <3> HIDE DEF s
      <3>1. DOMAIN f = ToSet(s)
        OBVIOUS
      <3> HIDE DEF f
      <3>2. QED
        BY <1>4, <3>1, RangeIsFinite
    <2>2. {f[m] : m \in ToSet(s)} = dates
      OBVIOUS
    <2>3. dates \in SUBSET Nat /\ dates # {}
      BY <1>3 DEF ScanAssumption
    <2>4. QED
      BY <2>1, <2>2, <2>3
  <1>6. \E x \in dates : \A y \in dates : y <= x
    <2> HIDE DEF dates
    <2>1. QED
      BY <1>5, Greatest
  <1>7. PICK x \in dates : \A y \in dates : y <= x
    BY <1>6
  <1>8. Max(dates) \in dates /\ \A y \in dates : y <= Max(dates)
    BY <1>6, <1>7 DEF Max
  <1>9. QED
    BY <1>5, <1>8 DEF Sort

\* Rows are reached in an order.
LEMMA SoonerOrders ==
  ASSUME ScanAssumption, NEW rows \in [Thread -> Row], NEW T \in SUBSET {t \in Thread : rows[t] # Empty}
  PROVE  \A s, t \in T : /\ ~Sooner(rows, t, t)
                         /\ \A u \in T : Sooner(rows, s, t) /\ Sooner(rows, t, u) => Sooner(rows, s, u)
                         /\ s = t \/ Sooner(rows, s, t) \/ Sooner(rows, t, s)
  <1>1. \A t \in T : Sort(rows[t]) \in Nat /\ t \in Nat
    BY SortIsNewest DEF ScanAssumption
  <1>2. QED
    BY <1>1 DEF Sooner

(***************************************************************************)
(* What is looked at in one account.                                       *)
(***************************************************************************)
ScanRows == [Thread -> Row]

\* The threads that have a row.
Filled(rows) == {t \in Thread : rows[t] # Empty}

\* The messages of a row.
LEMMA FilledRow ==
  ASSUME NEW rows \in ScanRows, NEW t \in Filled(rows)
  PROVE  /\ rows[t].messages \in Seq(Message)
         /\ Len(rows[t].messages) \in Nat
         /\ DOMAIN rows[t].messages = 1..Len(rows[t].messages)
         /\ IsFiniteSet(1..Len(rows[t].messages))
  <1>1. rows[t] \in Row /\ rows[t] # Empty
    BY DEF ScanRows, Filled
  <1>2. rows[t].messages \in Seq(Message)
    BY <1>1 DEF Row
  <1>3. Len(rows[t].messages) \in Nat /\ DOMAIN rows[t].messages = 1..Len(rows[t].messages)
    BY <1>2
  <1>4. \A n \in Nat : IsFiniteSet(1..n)
    BY FS_Interval
  <1>5. QED
    BY <1>2, <1>3, <1>4

\* The places are those of the messages.
LEMMA PlacesAre ==
  ASSUME NEW rows \in ScanRows, NEW T \in SUBSET Filled(rows)
  PROVE  /\ \A p \in Places(rows, T) :
              /\ p[1] \in T /\ p[2] \in Nat
              /\ MessageAt(rows, p) \in ToSet(rows[p[1]].messages)
              /\ MessageAt(rows, p) \in Message
         /\ \A t \in T : \A m \in ToSet(rows[t].messages) :
              \E p \in Places(rows, T) : p[1] = t /\ MessageAt(rows, p) = m
  <1>1. ASSUME NEW p \in Places(rows, T)
        PROVE  /\ p[1] \in T /\ p[2] \in Nat
               /\ MessageAt(rows, p) \in ToSet(rows[p[1]].messages)
               /\ MessageAt(rows, p) \in Message
    <2>1. PICK t \in T : p \in {t} \X (1..Len(rows[t].messages))
      BY DEF Places
    <2>2. p[1] = t /\ p[2] \in 1..Len(rows[t].messages)
      BY <2>1
    <2>3. p[2] \in DOMAIN rows[t].messages /\ p[2] \in Nat
      BY <2>2, FilledRow
    <2>4. rows[t].messages[p[2]] \in Message
      BY <2>3, FilledRow
    <2>5. QED
      BY <2>2, <2>3, <2>4 DEF MessageAt, ToSet
  <1>2. ASSUME NEW t \in T, NEW m \in ToSet(rows[t].messages)
        PROVE  \E p \in Places(rows, T) : p[1] = t /\ MessageAt(rows, p) = m
    <2>1. PICK i \in DOMAIN rows[t].messages : m = rows[t].messages[i]
      BY DEF ToSet
    <2>2. i \in 1..Len(rows[t].messages)
      BY <2>1, FilledRow
    <2>3. <<t, i>> \in Places(rows, T)
      BY <2>2 DEF Places
    <2>4. QED
      BY <2>1, <2>3 DEF MessageAt
  <1>3. QED
    BY <1>1, <1>2

\* There are finitely many.
LEMMA PlacesAreFinite ==
  ASSUME ScanAssumption, NEW rows \in ScanRows, NEW T \in SUBSET Filled(rows)
  PROVE  IsFiniteSet(Places(rows, T))
  <1> DEFINE f == [t \in T |-> {t} \X (1..Len(rows[t].messages))]
             parts == {f[t] : t \in T}
  <1>1. IsFiniteSet(T)
    <2>1. T \in SUBSET Thread
      BY DEF Filled
    <2>2. QED
      BY <2>1, FS_Subset DEF ScanAssumption
  <1>2. \A t \in T : IsFiniteSet(f[t])
    <2> SUFFICES ASSUME NEW t \in T PROVE IsFiniteSet({t} \X (1..Len(rows[t].messages)))
      OBVIOUS
    <2>1. IsFiniteSet({t}) /\ IsFiniteSet(1..Len(rows[t].messages))
      BY FilledRow, FS_Singleton
    <2>2. QED
      BY <2>1, FS_Product
  <1>3. Places(rows, T) = UNION parts
    BY DEF Places
  <1>4. DOMAIN f = T
    OBVIOUS
  <1> HIDE DEF f
  <1>5. IsFiniteSet(parts)
    BY <1>1, <1>4, RangeIsFinite
  <1>6. \A part \in parts : IsFiniteSet(part)
    BY <1>2
  <1> HIDE DEF parts
  <1>7. QED
    BY <1>3, <1>5, <1>6, FS_UNION

\* No place is reached before itself.
LEMMA PlacesAreOrdered ==
  ASSUME ScanAssumption, NEW rows \in ScanRows, NEW T \in SUBSET Filled(rows)
  PROVE  Irreflexive(Places(rows, T), PlaceOrder(rows, Places(rows, T)))
  <1> DEFINE places == Places(rows, T)
  <1> SUFFICES ASSUME NEW p \in places, <<p, p>> \in PlaceOrder(rows, places) PROVE FALSE
    BY DEF Irreflexive
  <1>1. p[1] \in T /\ p[2] \in Nat
    BY PlacesAre
  <1>2. Sooner(rows, p[1], p[1]) \/ p[2] < p[2]
    BY DEF PlaceOrder
  <1>3. rows \in [Thread -> Row] /\ T \in SUBSET {t \in Thread : rows[t] # Empty}
    BY DEF ScanRows, Filled
  <1>4. \A t \in T : ~Sooner(rows, t, t)
    BY <1>3, SoonerOrders
  <1>5. QED
    BY <1>1, <1>2, <1>4

\* What is inspected was asked for.
LEMMA InspectionIs ==
  ASSUME ScanAssumption, NEW rows \in ScanRows, NEW q
  PROVE  LET open == {t \in Selects(q, rows) : ~rows[t].garbled}
         IN /\ open \in SUBSET Filled(rows)
            /\ Inspection(q, rows).inspected \in SUBSET Places(rows, open)
            /\ IsFiniteSet(Inspection(q, rows).inspected)
  <1> DEFINE open == {t \in Selects(q, rows) : ~rows[t].garbled}
             read == Leading(Selects(q, rows), ThreadOrder(rows), MaxThreads)
             places == Places(rows, {t \in read : ~rows[t].garbled})
  <1>1. open \in SUBSET Filled(rows)
    BY DEF Selects, Filled
  <1>2. read \in SUBSET Selects(q, rows)
    BY DEF Leading
  <1>3. places \in SUBSET Places(rows, open)
    BY <1>2 DEF Places
  <1>4. Inspection(q, rows).inspected \in SUBSET places
    BY DEF Inspection, Leading
  <1>5. IsFiniteSet(Places(rows, open))
    BY <1>1, PlacesAreFinite
  <1>6. QED
    BY <1>1, <1>3, <1>4, <1>5, FS_Subset

\* With room for all of it, all of what was asked for is inspected.
LEMMA InspectionIsWhole ==
  ASSUME ScanAssumption, NEW rows \in ScanRows, NEW q,
         ~(Cardinality(Selects(q, rows)) > MaxThreads), ~Inspection(q, rows).limited
  PROVE  LET open == {t \in Selects(q, rows) : ~rows[t].garbled}
         IN /\ Inspection(q, rows).inspected = Places(rows, open)
            /\ Inspection(q, rows).skipped = {t \in Selects(q, rows) : rows[t].garbled}
  <1> DEFINE chosen == Selects(q, rows)
             open == {t \in chosen : ~rows[t].garbled}
             read == Leading(chosen, ThreadOrder(rows), MaxThreads)
             places == Places(rows, {t \in read : ~rows[t].garbled})
             visited == {t \in read : Cardinality({p \in places : Sooner(rows, p[1], t)}) < MaxInspected}
  <1>1. MaxThreads \in Nat /\ MaxInspected \in Nat
    BY DEF ScanAssumption
  <1>2. IsFiniteSet(chosen) /\ Cardinality(chosen) \in Nat /\ chosen \in SUBSET Filled(rows)
    <2>1. chosen \in SUBSET Thread /\ chosen \in SUBSET Filled(rows)
      BY DEF Selects, Filled
    <2>2. QED
      BY <2>1, FS_Subset, FS_CardinalityType DEF ScanAssumption
  <1>3. Irreflexive(chosen, ThreadOrder(rows))
    <2>1. rows \in [Thread -> Row] /\ chosen \in SUBSET {t \in Thread : rows[t] # Empty}
      BY <1>2 DEF ScanRows, Filled
    <2> HIDE DEF chosen
    <2>2. \A t \in chosen : ~Sooner(rows, t, t)
      BY <2>1, SoonerOrders
    <2>3. QED
      BY <2>2 DEF Irreflexive, ThreadOrder
  <1>4. read = chosen
    <2>1. Cardinality(chosen) <= MaxThreads
      BY <1>1, <1>2
    <2> HIDE DEF chosen
    <2>2. QED
      BY <1>1, <1>2, <1>3, <2>1, LeadingIsAll
  <1>5. /\ Inspection(q, rows).inspected = Leading(places, PlaceOrder(rows, places), MaxInspected)
        /\ Inspection(q, rows).skipped = {t \in visited : rows[t].garbled}
        /\ Inspection(q, rows).limited = (visited # read \/ Cardinality(places) > MaxInspected)
    BY DEF Inspection
  <1>6. visited = read /\ ~(Cardinality(places) > MaxInspected)
    BY <1>5
  <1>7. open \in SUBSET Filled(rows) /\ places = Places(rows, open)
    BY <1>2, <1>4
  <1>8. Leading(places, PlaceOrder(rows, places), MaxInspected) = places
    <2> HIDE DEF open, places
    <2>1. IsFiniteSet(places) /\ Irreflexive(places, PlaceOrder(rows, places))
      BY <1>7, PlacesAreFinite, PlacesAreOrdered
    <2>2. Cardinality(places) <= MaxInspected
      BY <1>1, <1>6, <2>1, FS_CardinalityType
    <2>3. QED
      BY <1>1, <2>1, <2>2, LeadingIsAll
  <1>9. QED
    BY <1>4, <1>5, <1>6, <1>7, <1>8

\* A thread with a message that was asked for is looked at.
LEMMA WantedIsSelected ==
  ASSUME ScanAssumption, NEW rows \in ScanRows, NEW q, q.since \in Nat,
         NEW t \in Thread, Selected(q.threads, {t}),
         NEW m \in ToSet(rows[t].messages), Eligible(q, m)
  PROVE  t \in Selects(q, rows)
  <1>1. rows[t] # Empty
    BY DEF Empty, ToSet
  <1>2. t \in Filled(rows) /\ rows[t] \in Row
    BY <1>1 DEF Filled, ScanRows
  <1>3. Sort(rows[t]) \in Nat /\ Date[m] <= Sort(rows[t])
    BY <1>1, <1>2, SortIsNewest
  <1>4. m \in Message
    <2>1. rows[t].messages \in Seq(Message)
      BY <1>2, FilledRow
    <2>2. QED
      BY <2>1 DEF ToSet
  <1>5. Date[m] \in Nat /\ q.since <= Date[m]
    BY <1>4 DEF ScanAssumption, Eligible, InWindow
  <1>6. Sort(rows[t]) >= q.since
    BY <1>3, <1>5
  <1>7. QED
    BY <1>1, <1>6 DEF Selects

\* What a record of a message is.
LEMMA RecordIs ==
  ASSUME ScanAssumption, NEW a \in Account, NEW t \in Thread, NEW m \in Message
  PROVE  /\ Record(a, t, m) \in ScanRecord
         /\ Record(a, t, m).account = a /\ Record(a, t, m).thread = t /\ Record(a, t, m).message = m
         /\ Record(a, t, m).amount = IF Amount[m] <= MaxPerMessage THEN Amount[m] ELSE MaxPerMessage
         /\ Record(a, t, m).amount <= MaxPerMessage
  <1>1. Amount[m] \in Nat /\ MaxPerMessage \in Nat
    BY DEF ScanAssumption
  <1>2. Min({Amount[m], MaxPerMessage}) = IF Amount[m] <= MaxPerMessage THEN Amount[m] ELSE MaxPerMessage
    BY <1>1, MinOfTwo
  <1>3. QED
    BY <1>1, <1>2 DEF Record, ScanRecord

\* A candidate of thread t for message m.
IsCandidate(q, a, rows, r) ==
  /\ r = Record(a, r.thread, r.message)
  /\ r \in ScanRecord
  /\ r.thread \in Selects(q, rows)
  /\ ~rows[r.thread].garbled
  /\ r.message \in ToSet(rows[r.thread].messages)
  /\ Eligible(q, r.message)

\* Every candidate is of a message that was asked for.
LEMMA CandidatesAre ==
  ASSUME ScanAssumption, NEW rows \in ScanRows, NEW q, NEW a \in Account
  PROVE  /\ IsFiniteSet(Candidates(q, a, rows))
         /\ \A r \in Candidates(q, a, rows) : IsCandidate(q, a, rows, r)
  <1> DEFINE seen == Inspection(q, rows).inspected
             chosen == {x \in seen : Eligible(q, MessageAt(rows, x))}
             f == [p \in chosen |-> Record(a, p[1], MessageAt(rows, p))]
             open == {t \in Selects(q, rows) : ~rows[t].garbled}
  <1>1. /\ open \in SUBSET Filled(rows) /\ seen \in SUBSET Places(rows, open)
        /\ IsFiniteSet(seen)
    BY InspectionIs
  <1>2. Candidates(q, a, rows) = {f[p] : p \in chosen}
    BY DEF Candidates
  <1>3. IsFiniteSet(chosen)
    <2>1. chosen \in SUBSET seen
      OBVIOUS
    <2>2. QED
      BY <1>1, <2>1, FS_Subset
  <1>4. DOMAIN f = chosen
    OBVIOUS
  <1>5. IsFiniteSet({f[p] : p \in chosen})
    <2> HIDE DEF f, chosen
    <2>1. QED
      BY <1>3, <1>4, RangeIsFinite
  <1>6. ASSUME NEW p \in chosen PROVE IsCandidate(q, a, rows, Record(a, p[1], MessageAt(rows, p)))
    <2>1. p \in Places(rows, open) /\ Eligible(q, MessageAt(rows, p))
      BY <1>1
    <2>2. /\ p[1] \in open /\ MessageAt(rows, p) \in ToSet(rows[p[1]].messages)
          /\ MessageAt(rows, p) \in Message
      <3> HIDE DEF open
      <3>1. QED
        BY <1>1, <2>1, PlacesAre
    <2>3. p[1] \in Thread
      BY <2>2 DEF Selects
    <2> DEFINE r == Record(a, p[1], MessageAt(rows, p))
    <2>4. r \in ScanRecord /\ r.thread = p[1] /\ r.message = MessageAt(rows, p)
      BY <2>2, <2>3, RecordIs
    <2> HIDE DEF r
    <2>5. r = Record(a, r.thread, r.message)
      BY <2>4 DEF r
    <2>6. IsCandidate(q, a, rows, r)
      BY <2>1, <2>2, <2>4, <2>5 DEF IsCandidate
    <2>7. QED
      BY <2>6 DEF r
  <1>7. QED
    BY <1>2, <1>5, <1>6

\* With room for all of it there is one for every message that was asked for.
LEMMA CandidatesAreWhole ==
  ASSUME ScanAssumption, NEW rows \in ScanRows, NEW q, NEW a \in Account,
         ~(Cardinality(Selects(q, rows)) > MaxThreads), ~Inspection(q, rows).limited,
         NEW t \in Selects(q, rows), ~rows[t].garbled,
         NEW m \in ToSet(rows[t].messages), Eligible(q, m)
  PROVE  Record(a, t, m) \in Candidates(q, a, rows)
  <1> DEFINE open == {x \in Selects(q, rows) : ~rows[x].garbled}
  <1>1. Inspection(q, rows).inspected = Places(rows, open)
    BY InspectionIsWhole
  <1>2. t \in open /\ open \in SUBSET Filled(rows)
    BY DEF Selects, Filled
  <1> HIDE DEF open
  <1>3. PICK p \in Places(rows, open) : p[1] = t /\ MessageAt(rows, p) = m
    <2>1. \A x \in open : \A n \in ToSet(rows[x].messages) :
            \E p \in Places(rows, open) : p[1] = x /\ MessageAt(rows, p) = n
      BY <1>2, PlacesAre
    <2>2. QED
      BY <1>2, <2>1
  <1>4. QED
    BY <1>1, <1>3 DEF Candidates

\* Records of different messages differ in what they are of.
LEMMA CandidatesAreDistinct ==
  ASSUME NEW R, \A r \in R : r = Record(r.account, r.thread, r.message)
  PROVE  Distinct(R)
  BY DEF Distinct

(***************************************************************************)
(* The records of one account, and of all.                                 *)
(***************************************************************************)

\* Why records of an account may be missing.
LEMMA AccountReasons ==
  ASSUME NEW q, NEW a, NEW rows
  PROVE  LET reasons == ScanAccount(q, a, rows).reasons
         IN /\ "THREAD_LIMIT" \in reasons <=> Cardinality(Selects(q, rows)) > MaxThreads
            /\ "MESSAGE_SCAN_LIMIT" \in reasons <=> Inspection(q, rows).limited
            /\ "MESSAGE_CONTENT_LIMIT" \in reasons <=>
                 \E r \in Candidates(q, a, rows) : Amount[r.message] > MaxPerMessage
            /\ "ACCOUNT_MESSAGE_LIMIT" \in reasons <=> Cardinality(Candidates(q, a, rows)) > MaxPerAccount
            /\ Inspection(q, rows).skipped # {} => "MALFORMED_CACHE_RECORDS" \in reasons
  <1> DEFINE few == Cardinality(Selects(q, rows)) > MaxThreads
             limited == Inspection(q, rows).limited
             long == \E r \in Candidates(q, a, rows) : Amount[r.message] > MaxPerMessage
             many == Cardinality(Candidates(q, a, rows)) > MaxPerAccount
             seen == Inspection(q, rows)
             bad == seen.skipped # {} \/ {p \in seen.inspected : ~Rejected(MessageAt(rows, p))} # seen.inspected
  <1>1. ScanAccount(q, a, rows).reasons =
          Reason(few, "THREAD_LIMIT") \cup Reason(limited, "MESSAGE_SCAN_LIMIT")
          \cup Reason(long, "MESSAGE_CONTENT_LIMIT") \cup Reason(many, "ACCOUNT_MESSAGE_LIMIT")
          \cup Reason(bad, "MALFORMED_CACHE_RECORDS")
    BY DEF ScanAccount
  <1>2. Inspection(q, rows).skipped # {} => bad
    OBVIOUS
  <1> HIDE DEF few, limited, long, many, bad
  <1>3. LET reasons == ScanAccount(q, a, rows).reasons
        IN /\ "THREAD_LIMIT" \in reasons <=> few
           /\ "MESSAGE_SCAN_LIMIT" \in reasons <=> limited
           /\ "MESSAGE_CONTENT_LIMIT" \in reasons <=> long
           /\ "ACCOUNT_MESSAGE_LIMIT" \in reasons <=> many
           /\ bad => "MALFORMED_CACHE_RECORDS" \in reasons
    BY <1>1 DEF Reason
  <1>4. QED
    BY <1>2, <1>3 DEF few, limited, long, many

\* The candidates of an account, as a set of records.
LEMMA CandidatesAreRecords ==
  ASSUME ScanAssumption, NEW rows \in ScanRows, NEW q, NEW a \in Account
  PROVE  LET E == Candidates(q, a, rows)
         IN /\ IsFiniteSet(E) /\ E \in SUBSET ScanRecord /\ Distinct(E)
            /\ \A r \in E : r.account = a
  <1> DEFINE E == Candidates(q, a, rows)
  <1>1. IsFiniteSet(E) /\ \A r \in E : IsCandidate(q, a, rows, r)
    BY CandidatesAre
  <1>2. ASSUME NEW r \in E
        PROVE  r \in ScanRecord /\ r.account = a /\ r = Record(r.account, r.thread, r.message)
    <2>1. r = Record(a, r.thread, r.message) /\ r \in ScanRecord
      BY <1>1 DEF IsCandidate
    <2>2. Record(a, r.thread, r.message).account = a
      BY DEF Record
    <2>3. QED
      BY <2>1, <2>2
  <1>3. Distinct(E)
    BY <1>2, CandidatesAreDistinct
  <1>4. QED
    BY <1>1, <1>2, <1>3

\* The records of an account are its newest candidates, and all of them if the
\* limit of the account is not named.
LEMMA AccountKeepsNewest ==
  ASSUME ScanAssumption, NEW rows \in ScanRows, NEW q, NEW a \in Account
  PROVE  LET E == Candidates(q, a, rows)
             given == ScanAccount(q, a, rows)
         IN /\ given.records \in SUBSET E
            /\ \A r \in given.records, s \in E : Newer(s, r) => s \in given.records
            /\ "ACCOUNT_MESSAGE_LIMIT" \notin given.reasons => given.records = E
            /\ Cardinality(given.records) <= MaxPerAccount
  <1> DEFINE E == Candidates(q, a, rows)
             given == ScanAccount(q, a, rows)
  <1>1. IsFiniteSet(E) /\ E \in SUBSET ScanRecord /\ Distinct(E)
    BY CandidatesAreRecords
  <1>2. "ACCOUNT_MESSAGE_LIMIT" \in given.reasons <=> Cardinality(E) > MaxPerAccount
    BY AccountReasons
  <1>3. given.records = Leading(E, RecordOrder(E), MaxPerAccount)
    BY DEF ScanAccount
  <1>4. MaxPerAccount \in Nat
    BY DEF ScanAssumption
  <1> HIDE DEF E, given
  <1>5. /\ Irreflexive(E, RecordOrder(E)) /\ TransitiveOn(E, RecordOrder(E)) /\ TotalOn(E, RecordOrder(E))
        /\ \A r, s \in E : <<r, s>> \in RecordOrder(E) <=> Newer(r, s)
    BY <1>1, RecordsAreOrdered
  <1>6. given.records \in SUBSET E
    BY <1>3 DEF Leading
  <1>7. ASSUME NEW r \in given.records, NEW s \in E, Newer(s, r) PROVE s \in given.records
    <2>1. <<s, r>> \in RecordOrder(E)
      BY <1>5, <1>6, <1>7
    <2>2. QED
      BY <1>1, <1>3, <1>4, <1>5, <2>1, LeadingIsClosed
  <1>8. ASSUME "ACCOUNT_MESSAGE_LIMIT" \notin given.reasons PROVE given.records = E
    <2>1. Cardinality(E) <= MaxPerAccount
      BY <1>1, <1>2, <1>4, <1>8, FS_CardinalityType
    <2>2. QED
      BY <1>1, <1>3, <1>4, <1>5, <2>1, LeadingIsAll
  <1>9. Cardinality(given.records) <= MaxPerAccount
    BY <1>1, <1>3, <1>4, <1>5, LeadingIsShort
  <1>10. QED
    BY <1>6, <1>7, <1>8, <1>9 DEF E, given

\* The records of all accounts are those of each.
LEMMA CollectedAre ==
  ASSUME ScanAssumption, NEW q, q.accounts \in SUBSET Account, NEW copies \in [q.accounts -> ScanRows]
  PROVE  LET all == Collected(q, copies)
         IN /\ IsFiniteSet(all) /\ all \in SUBSET ScanRecord /\ Distinct(all)
            /\ \A r \in all : /\ r.account \in q.accounts
                              /\ r \in ScanAccount(q, r.account, copies[r.account]).records
                              /\ IsCandidate(q, r.account, copies[r.account], r)
            /\ \A a \in q.accounts : ScanAccount(q, a, copies[a]).records \in SUBSET all
  <1> DEFINE all == Collected(q, copies)
             f == [a \in q.accounts |-> ScanAccount(q, a, copies[a]).records]
             parts == {f[a] : a \in q.accounts}
  <1>1. all = UNION parts
    BY DEF Collected
  <1>2. ASSUME NEW a \in q.accounts
        PROVE  /\ f[a] \in SUBSET Candidates(q, a, copies[a]) /\ IsFiniteSet(f[a])
               /\ \A r \in f[a] : r.account = a /\ r \in ScanRecord /\ IsCandidate(q, a, copies[a], r)
    <2>1. copies[a] \in ScanRows /\ a \in Account
      OBVIOUS
    <2>2. f[a] \in SUBSET Candidates(q, a, copies[a])
      BY <2>1, AccountKeepsNewest
    <2>3. IsFiniteSet(Candidates(q, a, copies[a])) /\ \A r \in Candidates(q, a, copies[a]) : r.account = a
      BY <2>1, CandidatesAreRecords
    <2>4. \A r \in Candidates(q, a, copies[a]) : r \in ScanRecord /\ IsCandidate(q, a, copies[a], r)
      BY <2>1, CandidatesAre DEF IsCandidate
    <2>5. IsFiniteSet(f[a])
      <3> HIDE DEF f
      <3>1. QED
        BY <2>2, <2>3, FS_Subset
    <2>6. QED
      BY <2>2, <2>3, <2>4, <2>5
  <1>3. \A a \in q.accounts : f[a] = ScanAccount(q, a, copies[a]).records
    OBVIOUS
  <1>4. IsFiniteSet(q.accounts) /\ DOMAIN f = q.accounts
    BY FS_Subset DEF ScanAssumption
  <1> HIDE DEF f, all
  <1>5. IsFiniteSet(all)
    <2>1. IsFiniteSet(parts)
      BY <1>4, RangeIsFinite
    <2>2. \A part \in parts : IsFiniteSet(part)
      BY <1>2
    <2> HIDE DEF parts
    <2>3. QED
      BY <1>1, <2>1, <2>2, FS_UNION
  <1>6. ASSUME NEW r \in all
        PROVE  /\ r.account \in q.accounts /\ r \in f[r.account] /\ r \in ScanRecord
               /\ IsCandidate(q, r.account, copies[r.account], r)
    <2>1. PICK a \in q.accounts : r \in f[a]
      BY <1>1
    <2>2. QED
      BY <1>2, <2>1
  <1>7. Distinct(all)
    <2>1. \A r \in all : r = Record(r.account, r.thread, r.message)
      BY <1>6 DEF IsCandidate
    <2>2. QED
      BY <2>1, CandidatesAreDistinct
  <1>8. \A a \in q.accounts : f[a] \in SUBSET all
    BY <1>1
  <1>9. QED
    BY <1>3, <1>5, <1>6, <1>7, <1>8 DEF all

(***************************************************************************)
(* The caps over all records.                                              *)
(***************************************************************************)
Units(records) == {x \in records \X (1..MaxPerMessage) : x[2] <= x[1].amount}

\* The weight is a number, and that of a part no greater.
LEMMA WeightIsCounted ==
  ASSUME ScanAssumption, NEW R, IsFiniteSet(R), NEW S \in SUBSET R
  PROVE  /\ IsFiniteSet(Units(R)) /\ Weight(R) = Cardinality(Units(R)) /\ Weight(R) \in Nat
         /\ Weight(S) \in Nat /\ Weight(S) <= Weight(R)
         /\ IsFiniteSet(S) /\ Bytes(R) \in Nat /\ Bytes(S) \in Nat /\ Bytes(S) <= Bytes(R)
  <1>1. MaxPerMessage \in Nat
    BY DEF ScanAssumption
  <1>2. IsFiniteSet(1..MaxPerMessage)
    BY <1>1, FS_Interval
  <1>3. IsFiniteSet(R \X (1..MaxPerMessage))
    BY <1>2, FS_Product
  <1>4. Units(R) \in SUBSET (R \X (1..MaxPerMessage)) /\ Units(S) \in SUBSET Units(R)
    BY DEF Units
  <1>5. IsFiniteSet(Units(R))
    BY <1>3, <1>4, FS_Subset
  <1>6. IsFiniteSet(Units(S)) /\ Cardinality(Units(S)) <= Cardinality(Units(R))
    BY <1>4, <1>5, FS_Subset
  <1>7. Weight(R) = Cardinality(Units(R)) /\ Weight(S) = Cardinality(Units(S))
    BY DEF Weight, Units
  <1>8. Cardinality(Units(R)) \in Nat /\ Cardinality(Units(S)) \in Nat
    BY <1>5, <1>6, FS_CardinalityType
  <1>9. IsFiniteSet(S) /\ Cardinality(S) <= Cardinality(R) /\ Cardinality(S) \in Nat /\ Cardinality(R) \in Nat
    BY FS_Subset, FS_CardinalityType
  <1>10. /\ Bytes(R) = Cardinality(R) + Weight(R) /\ Bytes(S) = Cardinality(S) + Weight(S)
    BY DEF Bytes
  <1>11. QED
    BY <1>5, <1>6, <1>7, <1>8, <1>9, <1>10

\* A record keeps of its amount what is left.
LEMMA KeptIs ==
  ASSUME ScanAssumption, NEW R \in SUBSET ScanRecord, IsFiniteSet(R), NEW r \in R
  PROVE  LET used == Weight({s \in R : Newer(s, r)})
         IN /\ used \in Nat
            /\ Kept(R, r) \in Nat /\ Kept(R, r) <= r.amount
            /\ used < MaxTotal => Kept(R, r) <= MaxTotal - used
            /\ ~(used < MaxTotal) => Kept(R, r) = 0
  <1> DEFINE used == Weight({s \in R : Newer(s, r)})
  <1>1. {s \in R : Newer(s, r)} \in SUBSET R
    OBVIOUS
  <1>2. used \in Nat
    BY <1>1, WeightIsCounted
  <1>3. r.amount \in Nat /\ MaxTotal \in Nat
    BY DEF ScanRecord, ScanAssumption
  <1>4. Kept(R, r) = IF used >= MaxTotal THEN 0 ELSE Min({r.amount, MaxTotal - used})
    BY DEF Kept
  <1> HIDE DEF used
  <1>5. ASSUME used >= MaxTotal PROVE Kept(R, r) = 0 /\ ~(used < MaxTotal)
    BY <1>2, <1>3, <1>4, <1>5
  <1>6. ASSUME ~(used >= MaxTotal)
        PROVE  Kept(R, r) \in Nat /\ Kept(R, r) <= r.amount /\ Kept(R, r) <= MaxTotal - used /\ used < MaxTotal
    <2>1. MaxTotal - used \in Nat
      BY <1>2, <1>3, <1>6
    <2>2. Kept(R, r) = IF r.amount <= MaxTotal - used THEN r.amount ELSE MaxTotal - used
      BY <1>3, <1>4, <1>6, <2>1, MinOfTwo
    <2>3. QED
      BY <1>2, <1>3, <1>6, <2>1, <2>2
  <1>7. /\ Kept(R, r) \in Nat /\ Kept(R, r) <= r.amount
        /\ used < MaxTotal => Kept(R, r) <= MaxTotal - used
        /\ ~(used < MaxTotal) => Kept(R, r) = 0
    BY <1>3, <1>5, <1>6
  <1>8. QED
    BY <1>2, <1>7 DEF used

\* What a record is of.
Same(r, s) == r.account = s.account /\ r.thread = s.thread /\ r.message = s.message

Capped(R, r) == [r EXCEPT !.amount = Kept(R, r)]

\* The caps change amounts, and nothing that orders the records.
LEMMA CappedAre ==
  ASSUME ScanAssumption, NEW R \in SUBSET ScanRecord, IsFiniteSet(R)
  PROVE  LET C == ApplyGlobalCaps(R)
         IN /\ IsFiniteSet(C) /\ C \in SUBSET ScanRecord
            /\ Distinct(R) => Distinct(C)
            /\ C = {Capped(R, r) : r \in R}
            /\ \A r \in R : /\ Capped(R, r) \in ScanRecord /\ Same(Capped(R, r), r)
                            /\ Capped(R, r).amount = Kept(R, r)
                            /\ Kept(R, r) = r.amount => Capped(R, r) = r
  <1> DEFINE C == ApplyGlobalCaps(R)
             f == [r \in R |-> Capped(R, r)]
  <1>1. C = {Capped(R, r) : r \in R}
    BY DEF ApplyGlobalCaps, Capped
  <1>2. ASSUME NEW r \in R
        PROVE  /\ Capped(R, r) \in ScanRecord /\ Same(Capped(R, r), r)
               /\ Capped(R, r).amount = Kept(R, r)
               /\ Kept(R, r) = r.amount => Capped(R, r) = r
    <2>1. Kept(R, r) \in Nat
      BY KeptIs
    <2>2. r \in ScanRecord
      OBVIOUS
    <2>3. QED
      BY <2>1, <2>2 DEF Capped, ScanRecord, Same
  <1>3. IsFiniteSet(C)
    <2>1. C = {f[r] : r \in R} /\ DOMAIN f = R
      BY <1>1
    <2> HIDE DEF f, C
    <2>2. QED
      BY <2>1, RangeIsFinite
  <1>4. C \in SUBSET ScanRecord
    BY <1>1, <1>2
  <1>5. ASSUME Distinct(R) PROVE Distinct(C)
    <2> SUFFICES ASSUME NEW r \in R, NEW s \in R, Same(Capped(R, r), Capped(R, s))
                 PROVE  Capped(R, r) = Capped(R, s)
      BY <1>1 DEF Distinct, Same
    <2>1. Same(Capped(R, r), r) /\ Same(Capped(R, s), s)
      BY <1>2
    <2>2. r = s
      BY <1>5, <2>1 DEF Same, Distinct
    <2>3. QED
      BY <2>2
  <1>6. QED
    BY <1>1, <1>2, <1>3, <1>4, <1>5

\* Records of the same are ordered in the same way.
LEMMA SameOrder ==
  ASSUME NEW r, NEW s, NEW u, NEW v, Same(r, u), Same(s, v)
  PROVE  Newer(r, s) <=> Newer(u, v)
  BY NewerMeans DEF Same

\* What is newer than something that fits in the output fits.
LEMMA FittingIsClosed ==
  ASSUME ScanAssumption, NEW R \in SUBSET ScanRecord, IsFiniteSet(R),
         NEW r \in Fitting(R), NEW s \in R, Newer(s, r)
  PROVE  s \in Fitting(R)
  <1> DEFINE upto(x) == {y \in R : y = x \/ Newer(y, x)}
  <1>1. r \in R /\ Bytes(upto(r)) <= MaxBytes
    BY DEF Fitting
  <1>2. upto(s) \in SUBSET upto(r)
    <2>1. \A x, y, z \in R : Newer(x, y) /\ Newer(y, z) => Newer(x, z)
      BY NewerOrders
    <2>2. QED
      BY <1>1, <2>1
  <1>3. upto(r) \in SUBSET R
    OBVIOUS
  <1> HIDE DEF upto
  <1>4. IsFiniteSet(upto(r))
    BY <1>3, FS_Subset
  <1>5. Bytes(upto(s)) \in Nat /\ Bytes(upto(r)) \in Nat /\ Bytes(upto(s)) <= Bytes(upto(r))
    BY <1>2, <1>4, WeightIsCounted
  <1>6. MaxBytes \in Nat
    BY DEF ScanAssumption
  <1>7. Bytes(upto(s)) <= MaxBytes
    BY <1>1, <1>5, <1>6
  <1>8. QED
    BY <1>7 DEF Fitting, upto

(***************************************************************************)
(* The answer.                                                             *)
(***************************************************************************)

\* Request q asks for message m of thread t of account a.
Asks(q, copies, a, t, m) ==
  /\ a \in q.accounts /\ t \in Thread /\ Selected(q.threads, {t})
  /\ m \in ToSet(copies[a][t].messages) /\ Eligible(q, m)

\* The records taken, newest first, from those of all accounts.
Taken(q, copies) ==
  Leading(Collected(q, copies), RecordOrder(Collected(q, copies)), MaxRecords)

\* What an answer is made of, and why something may be missing from it.
LEMMA ScanIs ==
  ASSUME NEW q, NEW copies, Scan(q, copies).ok
  PROVE  LET taken == Taken(q, copies)
             result == Scan(q, copies)
         IN /\ result.records = Fitting(ApplyGlobalCaps(taken))
            /\ \A a \in q.accounts : ScanAccount(q, a, copies[a]).reasons \in SUBSET result.reasons
            /\ Cardinality(Collected(q, copies)) > MaxRecords => "RECORD_LIMIT" \in result.reasons
            /\ (\E r \in taken : Kept(taken, r) < r.amount) => "GLOBAL_CONTENT_LIMIT" \in result.reasons
            /\ result.records # ApplyGlobalCaps(taken) => "OUTPUT_BYTE_LIMIT" \in result.reasons
  <1> DEFINE part == [a \in q.accounts |-> ScanAccount(q, a, copies[a])]
             taken == Taken(q, copies)
             capped == ApplyGlobalCaps(taken)
             shown == Fitting(capped)
             parts == UNION {part[a].reasons : a \in q.accounts}
             many == Cardinality(Collected(q, copies)) > MaxRecords
             long == \E r \in taken : Kept(taken, r) < r.amount
             cut == shown # capped
             reasons == parts \cup Reason(many, "RECORD_LIMIT") \cup Reason(long, "GLOBAL_CONTENT_LIMIT")
                          \cup Reason(cut, "OUTPUT_BYTE_LIMIT")
             whole == [ok |-> TRUE, records |-> shown, reasons |-> reasons]
             ambiguous == \E a \in q.accounts : part[a].ambiguous
  <1>1. Scan(q, copies) = IF ambiguous THEN Failed ELSE whole
    BY DEF Scan, Taken
  <1>2. \A a \in q.accounts : ScanAccount(q, a, copies[a]).reasons \in SUBSET parts
    OBVIOUS
  <1>3. /\ parts \in SUBSET reasons
        /\ many => "RECORD_LIMIT" \in reasons
        /\ long => "GLOBAL_CONTENT_LIMIT" \in reasons
        /\ cut => "OUTPUT_BYTE_LIMIT" \in reasons
    <2> HIDE DEF parts, many, long, cut
    <2>1. QED
      BY DEF Reason
  <1> HIDE DEF ambiguous, reasons, parts, many, long, cut, shown, capped
  <1>4. Scan(q, copies) = whole
    BY <1>1 DEF Failed
  <1>5. Scan(q, copies).records = shown /\ Scan(q, copies).reasons = reasons
    BY <1>4
  <1>6. QED
    BY <1>2, <1>3, <1>5 DEF many, long, cut, shown, capped

\* The records taken are the newest of all, and all of them if there is room.
LEMMA TakenAre ==
  ASSUME ScanAssumption, NEW q, q.accounts \in SUBSET Account, NEW copies \in [q.accounts -> ScanRows]
  PROVE  LET all == Collected(q, copies)
             taken == Taken(q, copies)
         IN /\ taken \in SUBSET all /\ taken \in SUBSET ScanRecord
            /\ IsFiniteSet(taken) /\ Distinct(taken)
            /\ Cardinality(taken) <= MaxRecords
            /\ \A r \in taken, s \in all : Newer(s, r) => s \in taken
            /\ ~(Cardinality(all) > MaxRecords) => taken = all
  <1> DEFINE all == Collected(q, copies)
             taken == Taken(q, copies)
  <1>1. IsFiniteSet(all) /\ all \in SUBSET ScanRecord /\ Distinct(all)
    BY CollectedAre
  <1>2. taken = Leading(all, RecordOrder(all), MaxRecords)
    BY DEF Taken
  <1>3. MaxRecords \in Nat
    BY DEF ScanAssumption
  <1> HIDE DEF all, taken
  <1>4. /\ Irreflexive(all, RecordOrder(all)) /\ TransitiveOn(all, RecordOrder(all)) /\ TotalOn(all, RecordOrder(all))
        /\ \A r, s \in all : <<r, s>> \in RecordOrder(all) <=> Newer(r, s)
    BY <1>1, RecordsAreOrdered
  <1>5. taken \in SUBSET all
    BY <1>2 DEF Leading
  <1>6. Distinct(taken) /\ taken \in SUBSET ScanRecord
    BY <1>1, <1>5 DEF Distinct
  <1>7. IsFiniteSet(taken) /\ Cardinality(taken) <= MaxRecords
    BY <1>1, <1>2, <1>3, <1>4, LeadingIsShort
  <1>8. ASSUME NEW r \in taken, NEW s \in all, Newer(s, r) PROVE s \in taken
    <2>1. <<s, r>> \in RecordOrder(all)
      BY <1>4, <1>5, <1>8
    <2>2. QED
      BY <1>1, <1>2, <1>3, <1>4, <2>1, LeadingIsClosed
  <1>9. ASSUME ~(Cardinality(all) > MaxRecords) PROVE taken = all
    <2>1. Cardinality(all) <= MaxRecords
      BY <1>1, <1>3, <1>9, FS_CardinalityType
    <2>2. QED
      BY <1>1, <1>2, <1>3, <1>4, <2>1, LeadingIsAll
  <1>10. QED
    BY <1>5, <1>6, <1>7, <1>8, <1>9 DEF all, taken

\* A message that was asked for, of a thread that can be read, is a candidate,
\* unless an account has too many threads or messages to look at.
LEMMA AskedIsCandidate ==
  ASSUME ScanAssumption, NEW q, q.accounts \in SUBSET Account, q.since \in Nat,
         NEW copies \in [q.accounts -> ScanRows],
         NEW a, NEW t, NEW m, Asks(q, copies, a, t, m), ~copies[a][t].garbled,
         "THREAD_LIMIT" \notin ScanAccount(q, a, copies[a]).reasons,
         "MESSAGE_SCAN_LIMIT" \notin ScanAccount(q, a, copies[a]).reasons
  PROVE  Record(a, t, m) \in Candidates(q, a, copies[a])
  <1> DEFINE rows == copies[a]
  <1>1. rows \in ScanRows /\ a \in Account
    BY DEF Asks
  <1>2. ~(Cardinality(Selects(q, rows)) > MaxThreads) /\ ~Inspection(q, rows).limited
    BY AccountReasons
  <1>3. t \in Thread /\ Selected(q.threads, {t}) /\ m \in ToSet(rows[t].messages) /\ Eligible(q, m)
    BY DEF Asks
  <1> HIDE DEF rows
  <1>4. t \in Selects(q, rows)
    BY <1>1, <1>3, WantedIsSelected
  <1>5. ~rows[t].garbled
    BY DEF rows
  <1>6. Record(a, t, m) \in Candidates(q, a, rows)
    BY <1>1, <1>2, <1>3, <1>4, <1>5, CandidatesAreWhole
  <1>7. QED
    BY <1>6 DEF rows

\* A candidate was asked for.
LEMMA CandidateIsAsked ==
  ASSUME ScanAssumption, NEW q, q.accounts \in SUBSET Account, NEW copies \in [q.accounts -> ScanRows],
         NEW r \in Collected(q, copies)
  PROVE  /\ Asks(q, copies, r.account, r.thread, r.message)
         /\ ~copies[r.account][r.thread].garbled
         /\ r.amount = IF Amount[r.message] <= MaxPerMessage THEN Amount[r.message] ELSE MaxPerMessage
  <1>1. r.account \in q.accounts /\ IsCandidate(q, r.account, copies[r.account], r) /\ r \in ScanRecord
    BY CollectedAre
  <1>2. /\ r = Record(r.account, r.thread, r.message)
        /\ r.thread \in Selects(q, copies[r.account]) /\ ~copies[r.account][r.thread].garbled
        /\ r.message \in ToSet(copies[r.account][r.thread].messages) /\ Eligible(q, r.message)
    BY <1>1 DEF IsCandidate
  <1>3. r.account \in Account /\ r.thread \in Thread /\ r.message \in Message
    BY <1>1 DEF ScanRecord
  <1>4. Selected(q.threads, {r.thread})
    BY <1>2 DEF Selects
  <1>5. r.amount = IF Amount[r.message] <= MaxPerMessage THEN Amount[r.message] ELSE MaxPerMessage
    <2>1. Record(r.account, r.thread, r.message).amount = Min({Amount[r.message], MaxPerMessage})
      BY DEF Record
    <2>2. Amount[r.message] \in Nat /\ MaxPerMessage \in Nat
      BY <1>3 DEF ScanAssumption
    <2>3. QED
      BY <1>2, <2>1, <2>2, MinOfTwo
  <1>6. QED
    BY <1>1, <1>2, <1>3, <1>4, <1>5 DEF Asks

\* An answer that names no reason has everything that was asked for.
LEMMA ScanTells ==
  ASSUME ScanAssumption, NEW q, q.accounts \in SUBSET Account, q.since \in Nat,
         NEW copies \in [q.accounts -> ScanRows],
         Scan(q, copies).ok, Scan(q, copies).reasons = {}
  PROVE  LET records == Scan(q, copies).records
         IN /\ \A r \in records : /\ Asks(q, copies, r.account, r.thread, r.message)
                                  /\ r.amount = Amount[r.message]
            /\ \A a, t, m : Asks(q, copies, a, t, m) =>
                 /\ ~copies[a][t].garbled
                 /\ \E r \in records : r.account = a /\ r.thread = t /\ r.message = m
  <1> DEFINE all == Collected(q, copies)
             taken == Taken(q, copies)
             capped == ApplyGlobalCaps(taken)
             records == Scan(q, copies).records
             none(a) == ScanAccount(q, a, copies[a])
  <1>1. \A a \in q.accounts : none(a).reasons = {} /\ a \in Account /\ copies[a] \in ScanRows
    BY ScanIs
  <1>2. taken = all /\ IsFiniteSet(taken) /\ taken \in SUBSET ScanRecord
    <2>1. ~(Cardinality(all) > MaxRecords)
      BY ScanIs
    <2>2. QED
      BY <2>1, TakenAre
  <1>3. records = capped /\ \A r \in taken : ~(Kept(taken, r) < r.amount)
    BY ScanIs
  <1>4. \A r \in taken : Capped(taken, r) = r
    <2> HIDE DEF taken
    <2> SUFFICES ASSUME NEW r \in taken PROVE Capped(taken, r) = r
      OBVIOUS
    <2>1. r.amount \in Nat
      BY <1>2 DEF ScanRecord
    <2>2. Kept(taken, r) \in Nat /\ Kept(taken, r) <= r.amount
      BY <1>2, KeptIs
    <2>3. Kept(taken, r) = r.amount
      BY <1>3, <2>1, <2>2
    <2>4. QED
      BY <1>2, <2>3, CappedAre
  <1>5. records = all
    <2>1. capped = {Capped(taken, r) : r \in taken}
      <3> HIDE DEF taken
      <3>1. QED
        BY <1>2, CappedAre
    <2>2. QED
      BY <1>2, <1>3, <1>4, <2>1
  <1>6. \A a \in q.accounts : none(a).records = Candidates(q, a, copies[a])
    BY <1>1, AccountKeepsNewest
  <1>7. ASSUME NEW r \in all
        PROVE  Asks(q, copies, r.account, r.thread, r.message) /\ r.amount = Amount[r.message]
    <2>1. /\ Asks(q, copies, r.account, r.thread, r.message)
          /\ r.amount = IF Amount[r.message] <= MaxPerMessage THEN Amount[r.message] ELSE MaxPerMessage
      BY CandidateIsAsked
    <2>2. /\ r.account \in q.accounts /\ r.message \in Message
          /\ r \in Candidates(q, r.account, copies[r.account])
      <3>1. r.account \in q.accounts /\ r \in none(r.account).records /\ r \in ScanRecord
        BY CollectedAre
      <3>2. QED
        BY <1>6, <3>1 DEF ScanRecord
    <2>3. ~(Amount[r.message] > MaxPerMessage)
      BY <1>1, <2>2, AccountReasons
    <2>4. Amount[r.message] \in Nat /\ MaxPerMessage \in Nat
      BY <2>2 DEF ScanAssumption
    <2>5. QED
      BY <2>1, <2>3, <2>4
  <1>8. ASSUME NEW a, NEW t, NEW m, Asks(q, copies, a, t, m)
        PROVE  /\ ~copies[a][t].garbled
               /\ \E r \in all : r.account = a /\ r.thread = t /\ r.message = m
    <2> DEFINE rows == copies[a]
    <2>1. a \in q.accounts /\ a \in Account /\ rows \in ScanRows /\ none(a).reasons = {}
      BY <1>1, <1>8 DEF Asks
    <2>2. /\ ~(Cardinality(Selects(q, rows)) > MaxThreads)
          /\ ~Inspection(q, rows).limited
          /\ ~(Inspection(q, rows).skipped # {})
      BY <2>1, AccountReasons
    <2>3. t \in Thread /\ Selected(q.threads, {t}) /\ m \in ToSet(rows[t].messages) /\ Eligible(q, m)
      BY <1>8 DEF Asks
    <2> HIDE DEF rows
    <2>4. t \in Selects(q, rows)
      BY <2>1, <2>3, WantedIsSelected
    <2>5. Inspection(q, rows).skipped = {x \in Selects(q, rows) : rows[x].garbled}
      BY <2>1, <2>2, InspectionIsWhole
    <2>6. ~rows[t].garbled
      BY <2>2, <2>4, <2>5
    <2>7. Record(a, t, m) \in Candidates(q, a, rows)
      BY <2>1, <2>2, <2>3, <2>4, <2>6, CandidatesAreWhole
    <2>8. Record(a, t, m) \in all
      <3>1. Record(a, t, m) \in none(a).records
        BY <1>6, <2>1, <2>7 DEF rows
      <3>2. none(a).records \in SUBSET all
        BY <2>1, CollectedAre
      <3>3. QED
        BY <3>1, <3>2
    <2>9. Record(a, t, m).account = a /\ Record(a, t, m).thread = t /\ Record(a, t, m).message = m
      BY DEF Record
    <2>10. QED
      BY <2>6, <2>8, <2>9 DEF rows
  <1>9. QED
    BY <1>5, <1>7, <1>8

\* A record taken for a message is shown as it was capped.
LEMMA ShownAre ==
  ASSUME ScanAssumption, NEW q, q.accounts \in SUBSET Account,
         NEW copies \in [q.accounts -> ScanRows], Scan(q, copies).ok
  PROVE  LET taken == Taken(q, copies)
             records == Scan(q, copies).records
         IN /\ \A r \in records : \E s \in taken : r = Capped(taken, s) /\ Same(r, s)
            /\ \A r \in records, s \in taken : Newer(s, r) => Capped(taken, s) \in records
  <1> DEFINE taken == Taken(q, copies)
             capped == ApplyGlobalCaps(taken)
             records == Scan(q, copies).records
  <1>1. records = Fitting(capped)
    BY ScanIs
  <1>2. IsFiniteSet(taken) /\ taken \in SUBSET ScanRecord
    BY TakenAre
  <1> HIDE DEF taken, records
  <1>3. /\ IsFiniteSet(capped) /\ capped \in SUBSET ScanRecord
        /\ capped = {Capped(taken, s) : s \in taken}
        /\ \A s \in taken : Same(Capped(taken, s), s)
    BY <1>2, CappedAre
  <1> HIDE DEF capped
  <1>4. records \in SUBSET capped
    BY <1>1 DEF Fitting
  <1>5. \A r \in records : \E s \in taken : r = Capped(taken, s) /\ Same(r, s)
    BY <1>3, <1>4
  <1>6. ASSUME NEW r \in records, NEW s \in taken, Newer(s, r) PROVE Capped(taken, s) \in records
    <2>1. Capped(taken, s) \in capped /\ Same(Capped(taken, s), s)
      BY <1>3
    <2>2. Newer(Capped(taken, s), r)
      BY <1>6, <2>1, SameOrder DEF Same
    <2>3. QED
      BY <1>1, <1>3, <2>1, <2>2, FittingIsClosed
  <1>7. QED
    BY <1>5, <1>6 DEF taken, records

\* What is asked for and not given is not newer than what is given: of the same
\* account or, if no account was cut, of any.
LEMMA ScanKeeps ==
  ASSUME ScanAssumption, NEW q, q.accounts \in SUBSET Account, q.since \in Nat,
         NEW copies \in [q.accounts -> ScanRows], Scan(q, copies).ok,
         "THREAD_LIMIT" \notin Scan(q, copies).reasons,
         "MESSAGE_SCAN_LIMIT" \notin Scan(q, copies).reasons,
         NEW a, NEW t, NEW m, Asks(q, copies, a, t, m), ~copies[a][t].garbled,
         \A s \in Scan(q, copies).records : ~(s.account = a /\ s.thread = t /\ s.message = m),
         NEW r \in Scan(q, copies).records,
         r.account = a \/ "ACCOUNT_MESSAGE_LIMIT" \notin Scan(q, copies).reasons
  PROVE  Date[m] <= Date[r.message]
  <1> DEFINE w == Record(a, t, m)
             E == Candidates(q, a, copies[a])
             given == ScanAccount(q, a, copies[a])
             all == Collected(q, copies)
             taken == Taken(q, copies)
  <1>1. a \in q.accounts /\ a \in Account /\ copies[a] \in ScanRows
    BY DEF Asks
  <1>2. given.reasons \in SUBSET Scan(q, copies).reasons
    BY <1>1, ScanIs
  <1>3. w \in E
    BY <1>2, AskedIsCandidate
  <1>4. w.account = a /\ w.thread = t /\ w.message = m
    BY DEF Record
  <1>5. PICK s \in taken : r = Capped(taken, s) /\ Same(r, s)
    BY ShownAre
  <1>6. taken \in SUBSET all /\ all \in SUBSET ScanRecord
    BY TakenAre, CollectedAre
  <1>7. E \in SUBSET ScanRecord
    BY <1>1, CandidatesAreRecords
  <1>8. ASSUME Newer(w, s) PROVE FALSE
    <2>1. w \in given.records
      <3>1. CASE "ACCOUNT_MESSAGE_LIMIT" \notin given.reasons
        BY <1>1, <1>3, <3>1, AccountKeepsNewest
      <3>2. CASE "ACCOUNT_MESSAGE_LIMIT" \in given.reasons
        <4>1. s.account = a
          BY <1>2, <1>5, <3>2 DEF Same
        <4>2. s \in given.records
          BY <1>5, <1>6, <4>1, CollectedAre
        <4>3. \A x \in given.records, y \in E : Newer(y, x) => y \in given.records
          BY <1>1, AccountKeepsNewest
        <4>4. QED
          BY <1>3, <1>8, <4>2, <4>3
      <3>3. QED
        BY <3>1, <3>2
    <2>2. w \in all
      <3>1. given.records \in SUBSET all
        BY <1>1, CollectedAre
      <3>2. QED
        BY <2>1, <3>1
    <2>3. w \in taken
      <3>1. \A x \in taken, y \in all : Newer(y, x) => y \in taken
        BY TakenAre
      <3>2. QED
        BY <1>5, <1>8, <2>2, <3>1
    <2>4. Same(w, w)
      BY DEF Same
    <2>5. Newer(w, r)
      BY <1>5, <1>8, <2>4, SameOrder DEF Same
    <2>6. Capped(taken, w) \in Scan(q, copies).records
      BY <2>3, <2>5, ShownAre
    <2>7. Same(Capped(taken, w), w)
      <3>1. taken \in SUBSET ScanRecord /\ IsFiniteSet(taken)
        BY TakenAre
      <3> HIDE DEF taken, w
      <3>2. QED
        BY <2>3, <3>1, CappedAre
    <2>8. QED
      BY <1>4, <2>6, <2>7 DEF Same
  <1>9. Date[w.message] <= Date[s.message]
    <2> DEFINE R == {w, s}
    <2>1. R \in SUBSET ScanRecord
      BY <1>3, <1>5, <1>6, <1>7
    <2>2. w \in R /\ s \in R
      OBVIOUS
    <2> HIDE DEF R, w, taken
    <2>3. \A x, y \in R : ~Newer(x, y) => Date[x.message] <= Date[y.message]
      BY <2>1, NewerOrders
    <2>4. QED
      BY <1>8, <2>2, <2>3
  <1>10. QED
    BY <1>4, <1>5, <1>9 DEF Same

(***************************************************************************)
(* The limits hold.                                                        *)
(***************************************************************************)

\* The numbers up to n are n.
LEMMA CountTo ==
  ASSUME NEW n \in Nat
  PROVE  IsFiniteSet(1..n) /\ Cardinality(1..n) = n
  BY FS_Interval

\* A record more weighs what it carries more.
LEMMA OneMore ==
  ASSUME ScanAssumption, NEW R, IsFiniteSet(R), NEW r, r.amount \in 0..MaxPerMessage
  PROVE  Weight(R \cup {r}) <= Weight(R) + r.amount
  <1> DEFINE more == {r} \X (1..r.amount)
  <1>1. MaxPerMessage \in Nat /\ r.amount \in Nat /\ r.amount <= MaxPerMessage
    BY DEF ScanAssumption
  <1>2. IsFiniteSet(1..r.amount) /\ Cardinality(1..r.amount) = r.amount
    <2>1. \A n \in Nat : IsFiniteSet(1..n) /\ Cardinality(1..n) = n
      BY CountTo
    <2>2. QED
      BY <1>1, <2>1
  <1>3. IsFiniteSet(more) /\ Cardinality(more) = r.amount
    <2> DEFINE f == [x \in 1..r.amount |-> <<r, x>>]
    <2>1. f \in [1..r.amount -> more]
      OBVIOUS
    <2>2. \A x, y \in 1..r.amount : f[x] = f[y] => x = y
      OBVIOUS
    <2>3. \A z \in more : \E x \in 1..r.amount : f[x] = z
      OBVIOUS
    <2> HIDE DEF f, more
    <2>4. f \in Bijection(1..r.amount, more)
      BY <2>1, <2>2, <2>3 DEF Bijection, Injection, IsInjective, Surjection
    <2>5. ExistsBijection(1..r.amount, more)
      BY <2>4 DEF ExistsBijection
    <2>6. QED
      BY <1>2, <2>5, FS_Bijection
  <1>4. /\ IsFiniteSet(R \cup {r})
        /\ IsFiniteSet(Units(R)) /\ Weight(R) = Cardinality(Units(R)) /\ Weight(R) \in Nat
    BY WeightIsCounted, FS_AddElement
  <1>5. Weight(R \cup {r}) = Cardinality(Units(R \cup {r}))
    BY <1>4, WeightIsCounted
  <1>6. Units(R \cup {r}) \in SUBSET (Units(R) \cup more)
    <2> SUFFICES ASSUME NEW x \in Units(R \cup {r}), x \notin Units(R) PROVE x \in more
      OBVIOUS
    <2>1. x \in (R \cup {r}) \X (1..MaxPerMessage) /\ x[2] <= x[1].amount
      BY DEF Units
    <2>2. x[1] = r
      BY <2>1 DEF Units
    <2>3. x = <<r, x[2]>> /\ x[2] \in 1..MaxPerMessage /\ x[2] <= r.amount
      BY <2>1, <2>2
    <2>4. x[2] \in 1..r.amount
      BY <1>1, <2>3
    <2>5. QED
      BY <2>3, <2>4
  <1> HIDE DEF more
  <1>7. /\ IsFiniteSet(Units(R) \cup more)
        /\ Cardinality(Units(R) \cup more) =
             Cardinality(Units(R)) + Cardinality(more) - Cardinality(Units(R) \cap more)
    BY <1>3, <1>4, FS_Union
  <1>8. Cardinality(Units(R \cup {r})) <= Cardinality(Units(R) \cup more)
    BY <1>6, <1>7, FS_Subset
  <1>9. Cardinality(Units(R) \cap more) \in Nat /\ Cardinality(Units(R \cup {r})) \in Nat
    <2>1. IsFiniteSet(Units(R) \cap more)
      BY <1>4, FS_Intersection
    <2>2. IsFiniteSet(Units(R \cup {r}))
      BY <1>6, <1>7, FS_Subset
    <2>3. QED
      BY <2>1, <2>2, FS_CardinalityType
  <1>10. QED
    BY <1>1, <1>3, <1>4, <1>5, <1>7, <1>8, <1>9

\* What carries less, record by record, weighs less.
LEMMA WeighsLess ==
  ASSUME ScanAssumption, NEW A, NEW B, IsFiniteSet(B), NEW f \in Injection(A, B),
         \A x \in A : x.amount \in Nat /\ f[x].amount \in Nat /\ x.amount <= f[x].amount
  PROVE  Weight(A) <= Weight(B)
  <1> DEFINE g == [u \in Units(A) |-> <<f[u[1]], u[2]>>]
  <1>1. f \in [A -> B] /\ \A x, y \in A : f[x] = f[y] => x = y
    BY DEF Injection, IsInjective
  <1>2. ASSUME NEW u \in Units(A)
        PROVE  /\ u = <<u[1], u[2]>> /\ u[1] \in A /\ u[2] \in 1..MaxPerMessage
               /\ <<f[u[1]], u[2]>> \in Units(B)
    <2>1. u = <<u[1], u[2]>> /\ u[1] \in A /\ u[2] \in 1..MaxPerMessage /\ u[2] <= u[1].amount
      BY DEF Units
    <2>2. f[u[1]] \in B /\ u[2] <= f[u[1]].amount
      BY <1>1, <2>1
    <2>3. QED
      BY <2>1, <2>2 DEF Units
  <1>3. g \in [Units(A) -> Units(B)]
    BY <1>2
  <1>4. ASSUME NEW u \in Units(A), NEW v \in Units(A), g[u] = g[v] PROVE u = v
    <2>1. f[u[1]] = f[v[1]] /\ u[2] = v[2]
      BY <1>4
    <2>2. u[1] = v[1]
      BY <1>1, <1>2, <2>1
    <2>3. QED
      BY <1>2, <2>1, <2>2
  <1> HIDE DEF g
  <1>5. g \in Injection(Units(A), Units(B))
    BY <1>3, <1>4 DEF Injection, IsInjective
  <1>6. IsFiniteSet(Units(B)) /\ Weight(B) = Cardinality(Units(B))
    BY WeightIsCounted
  <1>7. Cardinality(Units(A)) <= Cardinality(Units(B))
    BY <1>5, <1>6, FS_Injection
  <1>8. Weight(A) = Cardinality(Units(A))
    BY DEF Weight, Units
  <1>9. QED
    BY <1>6, <1>7, <1>8

\* What is kept of all amounts together is no more than the limit.
LEMMA CappedWeight ==
  ASSUME ScanAssumption, NEW R \in SUBSET ScanRecord, IsFiniteSet(R), Distinct(R),
         \A r \in R : r.amount <= MaxPerMessage
  PROVE  Weight(ApplyGlobalCaps(R)) <= MaxTotal
  <1> DEFINE C == ApplyGlobalCaps(R)
             heavy == {s \in R : Kept(R, s) > 0}
             D == {c \in C : c.amount > 0}
  <1>1. \A s \in R : Kept(R, s) \in Nat /\ Kept(R, s) <= s.amount /\ s.amount \in Nat
    <2> SUFFICES ASSUME NEW s \in R PROVE Kept(R, s) \in Nat /\ Kept(R, s) <= s.amount /\ s.amount \in Nat
      OBVIOUS
    <2>1. Kept(R, s) \in Nat /\ Kept(R, s) <= s.amount
      BY KeptIs
    <2>2. QED
      BY <2>1 DEF ScanRecord
  <1>2. /\ IsFiniteSet(C) /\ C = {Capped(R, s) : s \in R}
        /\ \A s \in R : Capped(R, s).amount = Kept(R, s) /\ Same(Capped(R, s), s)
    BY CappedAre
  <1>3. MaxTotal \in Nat /\ MaxPerMessage \in Nat
    BY DEF ScanAssumption
  <1> HIDE DEF C
  <1>4. Weight(C) = Weight(D)
    <2>1. Units(C) = Units(D)
      <3>1. \A c \in C : c.amount \in Nat
        BY <1>1, <1>2
      <3>2. QED
        BY <3>1, <1>3 DEF Units
    <2>2. Weight(C) = Cardinality(Units(C)) /\ Weight(D) = Cardinality(Units(D))
      BY DEF Weight, Units
    <2>3. QED
      BY <2>1, <2>2
  <1>5. \A c \in D : \E s \in heavy : c = Capped(R, s)
    BY <1>2
  <1>6. CASE heavy = {}
    <2>1. D = {}
      BY <1>5, <1>6
    <2>2. Units(D) = {}
      BY <2>1 DEF Units
    <2>3. Weight(D) = Cardinality(Units(D))
      BY DEF Weight, Units
    <2>4. Weight(D) = 0
      BY <2>2, <2>3, FS_EmptySet
    <2>5. QED
      BY <1>3, <1>4, <2>4 DEF C
  <1>7. CASE heavy # {}
    <2>1. heavy \in SUBSET R /\ heavy \in SUBSET ScanRecord /\ IsFiniteSet(heavy) /\ Distinct(heavy)
      <3>1. heavy \in SUBSET R
        OBVIOUS
      <3>2. QED
        BY <3>1, FS_Subset DEF Distinct
    <2>2. PICK r \in heavy : \A s \in heavy : s = r \/ Newer(s, r)
      <3> HIDE DEF heavy
      <3>1. /\ Irreflexive(heavy, RecordOrder(heavy)) /\ TransitiveOn(heavy, RecordOrder(heavy))
            /\ TotalOn(heavy, RecordOrder(heavy))
            /\ \A x, y \in heavy : <<x, y>> \in RecordOrder(heavy) <=> Newer(x, y)
        BY <2>1, RecordsAreOrdered
      <3>2. \E x \in heavy : \A y \in heavy : y = x \/ <<y, x>> \in RecordOrder(heavy)
        BY <1>7, <2>1, <3>1, LastOf
      <3>3. QED
        BY <3>1, <3>2
    <2> DEFINE front == {s \in R : Newer(s, r)}
               last == Capped(R, r)
    <2>3. r \in R /\ Kept(R, r) > 0
      OBVIOUS
    <2>4. Weight(front) \in Nat /\ Weight(front) + Kept(R, r) <= MaxTotal
      <3>1. /\ Weight(front) \in Nat
            /\ Weight(front) < MaxTotal => Kept(R, r) <= MaxTotal - Weight(front)
            /\ ~(Weight(front) < MaxTotal) => Kept(R, r) = 0
        BY <2>3, KeptIs
      <3> HIDE DEF front
      <3>2. Kept(R, r) \in Nat
        BY <1>1, <2>3
      <3>3. QED
        BY <1>3, <2>3, <3>1, <3>2
    <2>5. front \in SUBSET R /\ IsFiniteSet(front)
      <3>1. front \in SUBSET R
        OBVIOUS
      <3> HIDE DEF front
      <3>2. QED
        BY <3>1, FS_Subset
    <2>6. last \notin front
      <3> SUFFICES ASSUME last \in front PROVE FALSE
        OBVIOUS
      <3>1. Same(last, r) /\ last \in R /\ Newer(last, r)
        BY <1>2, <2>3
      <3>2. last = r
        BY <2>3, <3>1 DEF Distinct, Same
      <3>3. ~Newer(r, r)
        BY <2>3, NewerOrders
      <3>4. QED
        BY <3>1, <3>2, <3>3
    <2>7. ASSUME NEW c \in D, c # last PROVE \E s \in front : c = Capped(R, s)
      <3>1. PICK s \in heavy : c = Capped(R, s)
        BY <1>5
      <3>2. s # r
        BY <2>7, <3>1
      <3>3. QED
        BY <2>2, <3>1, <3>2
    <2> DEFINE of(c) == CHOOSE s \in front : c = Capped(R, s)
               f == [c \in D |-> IF c = last THEN last ELSE of(c)]
    <2>8. ASSUME NEW c \in D, c # last PROVE of(c) \in front /\ c = Capped(R, of(c))
      <3> HIDE DEF front
      <3>1. QED
        BY <2>7, <2>8
    <2>9. last.amount = Kept(R, r) /\ Kept(R, r) \in Nat
      BY <1>1, <1>2, <2>3
    <2> HIDE DEF front, last, of
    <2>10. f \in [D -> front \cup {last}]
      BY <2>8
    <2>11. ASSUME NEW c \in D, NEW d \in D, f[c] = f[d] PROVE c = d
      BY <2>6, <2>8, <2>11
    <2>12. f \in Injection(D, front \cup {last})
      BY <2>10, <2>11 DEF Injection, IsInjective
    <2>13. ASSUME NEW c \in D
           PROVE  c.amount \in Nat /\ f[c].amount \in Nat /\ c.amount <= f[c].amount
      <3>1. CASE c = last
        BY <2>9, <3>1
      <3>2. CASE c # last
        <4>1. f[c] = of(c) /\ of(c) \in R /\ c = Capped(R, of(c))
          BY <2>5, <2>8, <3>2
        <4>2. c.amount = Kept(R, of(c))
          BY <1>2, <4>1
        <4>3. QED
          BY <1>1, <4>1, <4>2
      <3>3. QED
        BY <3>1, <3>2
    <2> HIDE DEF f, D
    <2>14. IsFiniteSet(front \cup {last})
      BY <2>5, FS_AddElement
    <2>15. Weight(D) <= Weight(front \cup {last})
      BY <2>12, <2>13, <2>14, WeighsLess
    <2>16. Weight(front \cup {last}) <= Weight(front) + last.amount
      <3>1. last.amount \in 0..MaxPerMessage
        BY <1>1, <1>3, <2>3, <2>9
      <3>2. QED
        BY <2>5, <3>1, OneMore
    <2>17. Weight(D) \in Nat /\ Weight(front \cup {last}) \in Nat
      <3>1. IsFiniteSet(D)
        <4>1. D \in SUBSET C
          BY DEF D
        <4>2. QED
          BY <1>2, <4>1, FS_Subset
      <3>2. QED
        BY <2>14, <3>1, WeightIsCounted
    <2>18. QED
      BY <1>3, <1>4, <2>4, <2>9, <2>15, <2>16, <2>17 DEF C
  <1>8. QED
    BY <1>6, <1>7

\* What is shown fits in the output.
LEMMA FittingFits ==
  ASSUME ScanAssumption, NEW R \in SUBSET ScanRecord, IsFiniteSet(R), Distinct(R)
  PROVE  Bytes(Fitting(R)) <= MaxBytes
  <1> DEFINE F == Fitting(R)
             upto(x) == {y \in R : y = x \/ Newer(y, x)}
  <1>1. F \in SUBSET R /\ \A x \in F : Bytes(upto(x)) <= MaxBytes
    BY DEF Fitting
  <1>2. MaxBytes \in Nat
    BY DEF ScanAssumption
  <1> HIDE DEF F
  <1>3. IsFiniteSet(F) /\ F \in SUBSET ScanRecord /\ Distinct(F)
    BY <1>1, FS_Subset DEF Distinct
  <1>4. CASE F = {}
    <2>1. Units(F) = {}
      BY <1>4 DEF Units
    <2>2. Bytes(F) = Cardinality(F) + Cardinality(Units(F))
      BY DEF Bytes, Weight, Units
    <2>3. Bytes(F) = 0
      BY <1>4, <2>1, <2>2, FS_EmptySet
    <2>4. QED
      BY <1>2, <2>3 DEF F
  <1>5. CASE F # {}
    <2>1. /\ Irreflexive(F, RecordOrder(F)) /\ TransitiveOn(F, RecordOrder(F)) /\ TotalOn(F, RecordOrder(F))
          /\ \A x, y \in F : <<x, y>> \in RecordOrder(F) <=> Newer(x, y)
      BY <1>3, RecordsAreOrdered
    <2>2. \E x \in F : \A y \in F : y = x \/ <<y, x>> \in RecordOrder(F)
      BY <1>3, <1>5, <2>1, LastOf
    <2>3. PICK x \in F : \A y \in F : y = x \/ Newer(y, x)
      BY <2>1, <2>2
    <2>4. F \in SUBSET upto(x) /\ upto(x) \in SUBSET R
      BY <1>1, <2>3
    <2>5. Bytes(upto(x)) <= MaxBytes
      BY <1>1
    <2> HIDE DEF upto
    <2>6. IsFiniteSet(upto(x))
      BY <2>4, FS_Subset
    <2>7. Bytes(F) \in Nat /\ Bytes(upto(x)) \in Nat /\ Bytes(F) <= Bytes(upto(x))
      BY <2>4, <2>6, WeightIsCounted
    <2>8. QED
      BY <1>2, <2>5, <2>7 DEF F
  <1>6. QED
    BY <1>4, <1>5

\* Records that are taken from others are no more than these.
LEMMA NoMore ==
  ASSUME ScanAssumption, NEW A \in SUBSET ScanRecord, NEW B \in SUBSET ScanRecord, IsFiniteSet(B),
         Distinct(A), \A x \in A : \E y \in B : Same(x, y)
  PROVE  IsFiniteSet(A) /\ Cardinality(A) <= Cardinality(B)
  <1> DEFINE of(x) == CHOOSE y \in B : Same(x, y)
             f == [x \in A |-> of(x)]
  <1>1. \A x \in A : of(x) \in B /\ Same(x, of(x))
    OBVIOUS
  <1> HIDE DEF of
  <1>2. f \in [A -> B]
    BY <1>1
  <1>3. ASSUME NEW x \in A, NEW y \in A, f[x] = f[y] PROVE x = y
    <2>1. Same(x, of(x)) /\ Same(y, of(y)) /\ of(x) = of(y)
      BY <1>1, <1>3
    <2>2. QED
      BY <2>1 DEF Same, Distinct
  <1>4. f \in Injection(A, B)
    BY <1>2, <1>3 DEF Injection, IsInjective
  <1>5. QED
    BY <1>4, FS_Injection

\* An answer keeps within every limit.
LEMMA ScanIsLimited ==
  ASSUME ScanAssumption, NEW q, q.accounts \in SUBSET Account,
         NEW copies \in [q.accounts -> ScanRows], Scan(q, copies).ok
  PROVE  LET records == Scan(q, copies).records
         IN /\ \A r \in records : r.amount <= MaxPerMessage
            /\ \A a \in Account : Cardinality({r \in records : r.account = a}) <= MaxPerAccount
            /\ Cardinality(records) <= MaxRecords
            /\ Weight(records) <= MaxTotal
            /\ Bytes(records) <= MaxBytes
  <1> DEFINE taken == Taken(q, copies)
             capped == ApplyGlobalCaps(taken)
             records == Scan(q, copies).records
  <1>1. /\ IsFiniteSet(taken) /\ taken \in SUBSET ScanRecord /\ Distinct(taken)
        /\ Cardinality(taken) <= MaxRecords /\ taken \in SUBSET Collected(q, copies)
    BY TakenAre
  <1>2. \A s \in taken : s.amount <= MaxPerMessage
    <2> SUFFICES ASSUME NEW s \in taken PROVE s.amount <= MaxPerMessage
      OBVIOUS
    <2>1. s.amount = IF Amount[s.message] <= MaxPerMessage THEN Amount[s.message] ELSE MaxPerMessage
      BY <1>1, CandidateIsAsked
    <2>2. s.message \in Message
      BY <1>1 DEF ScanRecord
    <2>3. Amount[s.message] \in Nat /\ MaxPerMessage \in Nat
      BY <2>2 DEF ScanAssumption
    <2>4. QED
      BY <2>1, <2>3
  <1>3. records = Fitting(capped)
    BY ScanIs
  <1>4. \A r \in records : \E s \in taken : r = Capped(taken, s) /\ Same(r, s)
    BY ShownAre
  <1>5. Weight(capped) <= MaxTotal
    <2> HIDE DEF taken
    <2>1. QED
      BY <1>1, <1>2, CappedWeight
  <1> HIDE DEF taken, records
  <1>6. IsFiniteSet(capped) /\ capped \in SUBSET ScanRecord /\ Distinct(capped)
    BY <1>1, CappedAre
  <1> HIDE DEF capped
  <1>7. records \in SUBSET capped /\ records \in SUBSET ScanRecord /\ Distinct(records)
    BY <1>3, <1>6 DEF Fitting, Distinct
  <1>8. MaxTotal \in Nat /\ MaxRecords \in Nat /\ MaxPerAccount \in Nat /\ MaxPerMessage \in Nat
    BY DEF ScanAssumption
  <1>9. Weight(records) <= MaxTotal
    <2>1. Weight(records) \in Nat /\ Weight(capped) \in Nat /\ Weight(records) <= Weight(capped)
      BY <1>6, <1>7, WeightIsCounted
    <2>2. QED
      BY <1>5, <1>8, <2>1
  <1>10. Cardinality(records) <= MaxRecords
    <2>1. IsFiniteSet(records) /\ Cardinality(records) <= Cardinality(taken)
      BY <1>1, <1>4, <1>7, NoMore
    <2>2. Cardinality(records) \in Nat /\ Cardinality(taken) \in Nat
      BY <1>1, <2>1, FS_CardinalityType
    <2>3. QED
      BY <1>1, <1>8, <2>1, <2>2
  <1>11. Bytes(records) <= MaxBytes
    BY <1>3, <1>6, FittingFits
  <1>12. ASSUME NEW r \in records PROVE r.amount <= MaxPerMessage
    <2>1. PICK s \in taken : r = Capped(taken, s)
      BY <1>4
    <2>2. r.amount = Kept(taken, s)
      BY <1>1, <2>1, CappedAre
    <2>3. Kept(taken, s) \in Nat /\ Kept(taken, s) <= s.amount
      BY <1>1, KeptIs
    <2>4. s.amount \in Nat
      BY <1>1 DEF ScanRecord
    <2>5. QED
      BY <1>2, <1>8, <2>2, <2>3, <2>4
  <1>13. ASSUME NEW a \in Account PROVE Cardinality({r \in records : r.account = a}) <= MaxPerAccount
    <2> DEFINE mine == {r \in records : r.account = a}
               given == ScanAccount(q, a, copies[a])
    <2>1. CASE a \in q.accounts
      <3>1. copies[a] \in ScanRows
        BY <2>1
      <3>2. given.records \in SUBSET Candidates(q, a, copies[a]) /\ Cardinality(given.records) <= MaxPerAccount
        BY <3>1, AccountKeepsNewest
      <3>3. IsFiniteSet(Candidates(q, a, copies[a])) /\ Candidates(q, a, copies[a]) \in SUBSET ScanRecord
        BY <3>1, CandidatesAreRecords
      <3>4. ASSUME NEW r \in mine PROVE \E s \in given.records : Same(r, s)
        <4>1. PICK s \in taken : Same(r, s)
          BY <1>4
        <4>2. s.account = a
          BY <4>1 DEF Same
        <4>3. s \in given.records
          BY <1>1, <4>2, CollectedAre
        <4>4. QED
          BY <4>1, <4>3
      <3>5. mine \in SUBSET ScanRecord /\ Distinct(mine)
        BY <1>7 DEF Distinct
      <3> HIDE DEF mine, given
      <3>6. IsFiniteSet(given.records) /\ given.records \in SUBSET ScanRecord
        BY <3>2, <3>3, FS_Subset
      <3>7. IsFiniteSet(mine) /\ Cardinality(mine) <= Cardinality(given.records)
        BY <3>4, <3>5, <3>6, NoMore
      <3>8. Cardinality(mine) \in Nat /\ Cardinality(given.records) \in Nat
        BY <3>6, <3>7, FS_CardinalityType
      <3>9. Cardinality(mine) <= MaxPerAccount
        BY <1>8, <3>2, <3>7, <3>8
      <3>10. QED
        BY <3>9 DEF mine
    <2>2. CASE a \notin q.accounts
      <3>1. mine = {}
        <4> SUFFICES ASSUME NEW r \in mine PROVE FALSE
          OBVIOUS
        <4>1. PICK s \in taken : Same(r, s)
          BY <1>4
        <4>2. s.account \in q.accounts
          BY <1>1, CollectedAre
        <4>3. QED
          BY <2>2, <4>1, <4>2 DEF Same
      <3> HIDE DEF mine
      <3>2. Cardinality(mine) = 0
        BY <3>1, FS_EmptySet
      <3>3. QED
        BY <1>8, <3>2 DEF mine
    <2>3. QED
      BY <2>1, <2>2
  <1>14. QED
    BY <1>9, <1>10, <1>11, <1>12, <1>13 DEF records
=============================================================================
