----------------------------- MODULE ReaderScan -----------------------------
(***************************************************************************)
(* What `shm reader scan` makes of the cached threads of the accounts it   *)
(* copied (superhuman_mail/reader.py, _scan_account to scan).              *)
(*                                                                         *)
(* A message carries an amount of data that is cut to a limit, first per   *)
(* message and then over all records: the amount stands for participants,  *)
(* attachments and characters, which the code cuts in the same way.  Its   *)
(* bytes are what the record itself and that amount take in the output.    *)
(*                                                                         *)
(* The code sorts lists and cuts them.  Here they are sets with an order,  *)
(* and what a cut leaves is counted: the members with fewer than so many   *)
(* others before them.                                                     *)
(***************************************************************************)
EXTENDS Integers, FiniteSetsExt, SequencesExt

CONSTANTS
  Account, Thread, Message,  \* numbers: they order what is equally old
  Date,         \* when each message was sent
  Amount,       \* how much data each message carries
  Party,        \* who is on each message
  Invalid,      \* the messages _message rejects
  MaxThreads, MaxInspected, MaxPerAccount,  \* per account
  MaxPerMessage, MaxRecords, MaxTotal, MaxBytes

ASSUME ScanAssumption ==
  /\ Account \subseteq Nat /\ Thread \subseteq Nat /\ Message \subseteq Nat
  /\ IsFiniteSet(Account) /\ IsFiniteSet(Thread)
  /\ Date \in [Message -> Nat] /\ Amount \in [Message -> Nat]
  /\ Invalid \subseteq Message
  /\ {MaxThreads, MaxInspected, MaxPerAccount, MaxPerMessage} \subseteq Nat \ {0}
  /\ {MaxRecords, MaxTotal, MaxBytes} \subseteq Nat

\* A row of the table of threads: the messages of its JSON, or a JSON that
\* cannot be decoded.  An account has no row for a thread without messages.
Empty == [messages |-> << >>, garbled |-> FALSE]
Row == {Empty} \cup [messages : Seq(Message) \ {<< >>}, garbled : BOOLEAN]

\* The application keeps the date of the newest message in the sort column.
Sort(row) == Max({Date[m] : m \in ToSet(row.messages)})

ValidRequest(q) == q.since < q.before /\ q.accounts \subseteq Account

\* A category without selectors selects everything.
Selected(selector, values) == selector = {} \/ selector \cap values # {}

\* The first n of S, in the order of the pairs in before.
Leading(S, before, n) == {x \in S : Cardinality({y \in S : <<y, x>> \in before}) < n}

Selects(q, rows) ==
  {t \in Thread : /\ rows[t] # Empty
                  /\ Sort(rows[t]) >= q.since
                  /\ Selected(q.threads, {t})}

\* Rows are read newest thread first.
Sooner(rows, s, t) ==
  \/ Sort(rows[s]) > Sort(rows[t])
  \/ Sort(rows[s]) = Sort(rows[t]) /\ s < t

ThreadOrder(rows) == {p \in Thread \X Thread : Sooner(rows, p[1], p[2])}

\* The places of messages in the threads T, and the order they are reached in.
Places(rows, T) == UNION {{t} \X (1..Len(rows[t].messages)) : t \in T}

MessageAt(rows, p) == rows[p[1]].messages[p[2]]

PlaceOrder(rows, places) ==
  {p \in places \X places :
     \/ Sooner(rows, p[1][1], p[2][1])
     \/ p[1][1] = p[2][1] /\ p[1][2] < p[2][2]}

\* Mutant: messages that found no room are not told of.
Mutant_Inspection(q, rows) ==
  LET read == Leading(Selects(q, rows), ThreadOrder(rows), MaxThreads)
      places == Places(rows, {t \in read : ~rows[t].garbled})
  IN [inspected |-> Leading(places, PlaceOrder(rows, places), MaxInspected),
      skipped |-> {t \in read : rows[t].garbled},
      limited |-> FALSE]

\* Row by row, an undecodable one is skipped; of another one the messages that
\* the budget of the account leaves room for are inspected.  Rows that are not
\* visited, or only in part, are told of.
Inspection(q, rows) ==
  LET read == Leading(Selects(q, rows), ThreadOrder(rows), MaxThreads)
      places == Places(rows, {t \in read : ~rows[t].garbled})
      visited == {t \in read : Cardinality({p \in places : Sooner(rows, p[1], t)}) < MaxInspected}
  IN [inspected |-> Leading(places, PlaceOrder(rows, places), MaxInspected),
      skipped |-> {t \in visited : rows[t].garbled},
      limited |-> visited # read \/ Cardinality(places) > MaxInspected]

\* What the code finds malformed: addresses, attachments, labels, the date or
\* the id of a message.
Rejected(m) == m \in Invalid

InWindow(q, m) == q.since <= Date[m] /\ Date[m] < q.before

Eligible(q, m) == ~Rejected(m) /\ InWindow(q, m) /\ Selected(q.people, Party[m])

\* Mutant: the sort forgets that dates are descending.
Mutant_Newer(r, s) ==
  LET key(x) == << Date[x.message], x.account, x.thread, x.message >>
  IN \E i \in 1..4 : /\ key(r)[i] < key(s)[i]
                     /\ \A j \in 1..(i - 1) : key(r)[j] = key(s)[j]

\* Newest first, then by account, thread and message.
Newer(r, s) ==
  LET key(x) == << -Date[x.message], x.account, x.thread, x.message >>
  IN \E i \in 1..4 : /\ key(r)[i] < key(s)[i]
                     /\ \A j \in 1..(i - 1) : key(r)[j] = key(s)[j]

RecordOrder(records) == {p \in records \X records : Newer(p[1], p[2])}

Reason(condition, name) == IF condition THEN {name} ELSE {}

\* What a message carries is cut to the limits of one message.
Record(a, t, m) ==
  [account |-> a, thread |-> t, message |-> m, amount |-> Min({Amount[m], MaxPerMessage})]

Candidates(q, a, rows) ==
  {Record(a, p[1], MessageAt(rows, p)) :
     p \in {x \in Inspection(q, rows).inspected : Eligible(q, MessageAt(rows, x))}}

\* One account: its records, and why some may be missing.
ScanAccount(q, a, rows) ==
  LET seen == Inspection(q, rows)
      valid == {p \in seen.inspected : ~Rejected(MessageAt(rows, p))}
      eligible == Candidates(q, a, rows)
  IN [ambiguous |-> \E p, o \in valid : p # o /\ p[1] = o[1] /\ MessageAt(rows, p) = MessageAt(rows, o),
      records |-> Leading(eligible, RecordOrder(eligible), MaxPerAccount),
      reasons |->
        Reason(Cardinality(Selects(q, rows)) > MaxThreads, "THREAD_LIMIT")
        \cup Reason(seen.limited, "MESSAGE_SCAN_LIMIT")
        \cup Reason(\E r \in eligible : Amount[r.message] > MaxPerMessage, "MESSAGE_CONTENT_LIMIT")
        \cup Reason(Cardinality(eligible) > MaxPerAccount, "ACCOUNT_MESSAGE_LIMIT")
        \cup Reason(seen.skipped # {} \/ valid # seen.inspected, "MALFORMED_CACHE_RECORDS")]

\* The amounts of the records together, each counted unit by unit.
Weight(records) == Cardinality({x \in records \X (1..MaxPerMessage) : x[2] <= x[1].amount})

\* The data that all records may carry together, handed out newest first.
Kept(records, r) ==
  LET used == Weight({s \in records : Newer(s, r)})
  IN IF used >= MaxTotal THEN 0 ELSE Min({r.amount, MaxTotal - used})

ApplyGlobalCaps(records) == {[r EXCEPT !.amount = Kept(records, r)] : r \in records}

Bytes(records) == Cardinality(records) + Weight(records)

\* Records are dropped from the end until the output is small enough.
Fitting(records) ==
  {r \in records : Bytes({s \in records : s = r \/ Newer(s, r)}) <= MaxBytes}

Failed == [ok |-> FALSE]

Collected(q, copies) == UNION {ScanAccount(q, a, copies[a]).records : a \in q.accounts}

\* The answer to request q from the copies of the accounts it names; its records
\* are listed newest first.
Scan(q, copies) ==
  LET part == [a \in q.accounts |-> ScanAccount(q, a, copies[a])]
      all == Collected(q, copies)
      taken == Leading(all, RecordOrder(all), MaxRecords)
      capped == ApplyGlobalCaps(taken)
      shown == Fitting(capped)
  IN IF \E a \in q.accounts : part[a].ambiguous THEN Failed
     ELSE [ok |-> TRUE, records |-> shown,
           reasons |-> (UNION {part[a].reasons : a \in q.accounts})
             \cup Reason(Cardinality(all) > MaxRecords, "RECORD_LIMIT")
             \cup Reason(\E r \in taken : Kept(taken, r) < r.amount, "GLOBAL_CONTENT_LIMIT")
             \cup Reason(shown # capped, "OUTPUT_BYTE_LIMIT")]
=============================================================================
