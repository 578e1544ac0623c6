---------------------------- MODULE CommentRead ----------------------------
(***************************************************************************)
(* Reading the comments of many threads in batches of at most two          *)
(* (superhuman_mail/comment.py, read_many).  A backend answer is none (the *)
(* request failed), a body without a list of results, or a sequence of     *)
(* results: each names its thread by its path, or has none, and holds the  *)
(* comments of the thread (named by it), no value or an invalid one.       *)
(* Entries that are no objects ("junk") are passed over.                   *)
(***************************************************************************)
EXTENDS Integers, SequencesExt

CONSTANTS
  BatchSize,
  Unnamed  \* a result without a path

ASSUME CommentReadAssumption == BatchSize \in 1..2

NoResults == << >>

Batches(threads) ==
  LET size == (Len(threads) + BatchSize - 1) \div BatchSize
  IN [b \in 1..size |-> SubSeq(threads, (b - 1) * BatchSize + 1, Min({b * BatchSize, Len(threads)}))]

\* Mutant: results are taken in the order of the request.
Mutant_ByThread(batch, results) ==
  [t \in {batch[i] : i \in DOMAIN results \cap DOMAIN batch} |->
     results[SelectInSeq(batch, LAMBDA x : x = t)].value]

\* A result without a path is that of the thread asked for at its place.
ThreadOf(batch, results, i) ==
  IF results[i].path # Unnamed THEN results[i].path
  ELSE IF i <= Len(batch) THEN batch[i] ELSE Unnamed

\* The results by thread; of two for one thread the later counts.
ByThread(batch, results) ==
  LET objects == {i \in DOMAIN results : results[i].value # "junk"}
      of(t) == {i \in objects : ThreadOf(batch, results, i) = t}
  IN [t \in {ThreadOf(batch, results, i) : i \in objects} \ {Unnamed} |-> results[Max(of(t))].value]

\* What one batch adds: the comments read by thread and the threads that failed.
\* A thread without a result, or without a value, has no comments.
ReadBatch(batch, answer) ==
  IF ~answer.ok THEN [read |-> << >>, failed |-> ToSet(batch)]
  ELSE LET given == ByThread(batch, answer.results)
           valueOf(t) == IF t \in DOMAIN given THEN given[t] ELSE "none"
           bad == {t \in ToSet(batch) : valueOf(t) = "invalid"}
       IN [read |-> [t \in ToSet(batch) \ bad |-> valueOf(t)], failed |-> bad]

\* What all batches read; a later one would count.
AllRead(parts) ==
  LET of(t) == {b \in DOMAIN parts : t \in DOMAIN parts[b].read}
  IN [t \in UNION {DOMAIN parts[b].read : b \in DOMAIN parts} |-> parts[Max(of(t))].read[t]]

(***************************************************************************)
(* The backend.                                                            *)
(***************************************************************************)
StoredValue(stored, t) == IF t \in stored THEN t ELSE "none"

\* What a result for t holds, when v says what became of each.
Held(stored, v, t) == IF v[t] = "stored" THEN StoredValue(stored, t) ELSE v[t]

\* What it can answer when the threads in stored have userdata; the others may
\* be left out.  Results with paths come in any order, those without in the
\* order of the request.  An answer has paths throughout or not at all.
BackendAnswers(batch, stored) ==
  LET orders == {s \in SetToAllKPermutations(ToSet(batch)) :
                   stored \cap ToSet(batch) \subseteq ToSet(s)}
      values == [ToSet(batch) -> {"stored", "invalid", "junk"}]
      results(s, v) == [i \in DOMAIN s |-> [path |-> s[i], value |-> Held(stored, v, s[i])]]
      named == {results(s, v) : s \in orders, v \in values}
      short == {s \in orders : /\ DOMAIN s # DOMAIN batch
                               /\ s = SelectSeq(batch, LAMBDA t : t \in ToSet(s))}
      unnamed == {[i \in DOMAIN s |-> [path |-> Unnamed, value |-> Held(stored, v, s[i])]] :
                    s \in {batch} \cup short, v \in values}
  IN [ok : {FALSE}, results : {NoResults}] \cup [ok : {TRUE}, results : named \cup unnamed]

\* The threads of a batch whose result is no object.
Junk(batch, answer) ==
  {batch[i] : i \in {j \in DOMAIN batch \cap DOMAIN answer.results : answer.results[j].value = "junk"}}
  \cup {r.path : r \in {x \in ToSet(answer.results) : x.value = "junk"}}

\* An answer without paths that leaves threads out: its results may be given to
\* the wrong ones.
Ambiguous(batch, answer) ==
  /\ DOMAIN answer.results # DOMAIN batch
  /\ \E r \in ToSet(answer.results) : r.path = Unnamed

\* The threads of a batch whose comments an answer does not tell.
Untold(batch, answer) ==
  Junk(batch, answer) \cup IF Ambiguous(batch, answer) THEN ToSet(batch) ELSE {}
=============================================================================
