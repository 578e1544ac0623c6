----------------------------- MODULE LocalReads -----------------------------
(***************************************************************************)
(* The commands that read the application's cache, and the comments, while *)
(* the application goes on.  The cache of an account is one file; the scan *)
(* copies it block by block to an anonymous file and compares the file's   *)
(* identity before and after (reader.py).  Everything else reads through   *)
(* one copy at a fixed path that all processes share, made anew when the   *)
(* file is younger (_local.py): replies and forwards (draft.py).           *)
(*                                                                         *)
(* A block holds the row of one thread.  Every write moves the clock that  *)
(* stamps files: modification times are taken to be fine enough to tell    *)
(* two writes apart.                                                       *)
(***************************************************************************)
EXTENDS ReaderScan, Replies, CommentRead

CONSTANTS
  Process,      \* the processes that create drafts
  Own,          \* the account their drafts are of
  Edited,       \* the threads they create drafts in
  Request,      \* the scans that are asked for; one that names no account is of
                \* all configured ones
  Asked,        \* the threads whose comments are asked for, in order
  Html,         \* the messages whose HTML can be quoted as it is
  Sharing,      \* the messages whose searchable text holds the first words of each
  InitialCache, \* what the caches may hold in the beginning
  MaxWrites,    \* bound on the writes of the application
  Nothing

Rows == [Thread -> Row]

ASSUME ReadsAssumption ==
  /\ Own \in Account
  /\ Edited \subseteq Thread
  /\ Html \subseteq Message /\ Sharing \in [Message -> SUBSET Message]
  /\ \A q \in Request : q.accounts # {} /\ q.since \in Nat /\ q.before \in Nat
  /\ InitialCache \subseteq [Account -> Rows]
  /\ MaxWrites \in Nat
  /\ Nothing \notin Rows
  /\ Asked \in Seq(ToSet(Asked)) /\ Unnamed \notin ToSet(Asked)

VARIABLES
  file,    \* the cache of each account: rows, inode and modification time
  now,     \* the clock, in writes of the application
  shrunk,  \* whether a message was ever taken out of a thread
  copy,    \* the shared copy: rows, whether they are all there, its time
  draft,   \* what each process is doing
  scan,    \* the scan in progress
  answer   \* the answer given in this step

appVars == <<file, now, shrunk>>
vars == <<appVars, copy, draft, scan, answer>>

Identity(f) == <<f.ino, f.mtime>>

\* f with v at x.
With(f, x, v) == [y \in DOMAIN f \cup {x} |-> IF y = x THEN v ELSE f[y]]

Idle == [at |-> "idle"]

\* The steps of get_db_path and of the query that follows it, once for a reply
\* and twice for a forward.
DraftStep == {"check", "source", "truncate", "fill", "read"}

DraftTypeOK ==
  \A p \in Process :
    \/ draft[p] = Idle
    \/ /\ draft[p].at \in DraftStep
       /\ draft[p].thread \in Thread
       /\ draft[p].purpose \in {"reply", "forward"}
       /\ draft[p].first = Nothing \/ draft[p].purpose = "forward"
       /\ draft[p].at \in {"truncate", "fill"} <=> draft[p].hand # Nothing

ScanTypeOK ==
  \/ scan = Idle
  \/ /\ scan.q \in Request
     /\ scan.left # {}
     /\ scan.at = "copy" => scan.account \in scan.left /\ DOMAIN scan.copied \subseteq Thread
     /\ DOMAIN scan.copies = scan.q.accounts \ scan.left

TypeOK ==
  /\ now \in 0..MaxWrites
  /\ shrunk \in BOOLEAN
  /\ \A a \in Account : file[a].mtime \in 0..now /\ file[a].ino \in 0..now
  /\ copy = Nothing \/ copy.mtime \in 0..now
  /\ DraftTypeOK
  /\ ScanTypeOK

Init ==
  /\ \E rows \in InitialCache :
       file = [a \in Account |-> [rows |-> rows[a], ino |-> 0, mtime |-> 0]]
  /\ now = 0
  /\ shrunk = FALSE
  /\ copy = Nothing
  /\ draft = [p \in Process |-> Idle]
  /\ scan = Idle
  /\ answer = Nothing

(***************************************************************************)
(* The application.                                                        *)
(***************************************************************************)

\* A file opened by the scan and then replaced keeps what it had.
Freeze(a) ==
  IF scan.at = "copy" /\ scan.account = a /\ scan.replaced = Nothing
  THEN [scan EXCEPT !.replaced = file[a].rows] ELSE scan

WritesOnce ==
  /\ now < MaxWrites
  /\ now' = now + 1
  /\ answer' = Nothing
  /\ UNCHANGED <<copy, draft>>

Write(a, t, row) ==
  /\ WritesOnce
  /\ file' = [file EXCEPT ![a].rows[t] = row, ![a].mtime = now']
  /\ UNCHANGED scan

\* Another file takes the place of the cache.
Replaces(a) ==
  /\ WritesOnce
  /\ file' = [file EXCEPT ![a].ino = now', ![a].mtime = now']
  /\ scan' = Freeze(a)
  /\ UNCHANGED shrunk

Arrives(a, t, m) ==
  LET row == file[a].rows[t]
  IN /\ Write(a, t, [row EXCEPT !.messages = Append(@, m)])
     /\ UNCHANGED shrunk

\* A draft is discarded, or the JSON of a thread is no longer what it was.
Withdraws(a, t) ==
  LET row == file[a].rows[t]
  IN /\ row.messages # << >>
     /\ Write(a, t, IF Len(row.messages) = 1 THEN Empty
                    ELSE [row EXCEPT !.messages = Front(@)])
     /\ shrunk' = TRUE

Garbles(a, t) ==
  LET row == file[a].rows[t]
  IN /\ row # Empty
     /\ Write(a, t, [row EXCEPT !.garbled = TRUE])
     /\ UNCHANGED shrunk

(***************************************************************************)
(* The shared copy.                                                        *)
(***************************************************************************)

\* The scan does not use the shared copy and meets the other commands nowhere:
\* it runs while there is no copy and they are idle.
NoScan == scan = Idle
NoDraft == copy = Nothing /\ \A p \in Process : draft[p] = Idle

Go(p, step) == [draft EXCEPT ![p].at = step]

CreateStarts(p, t, purpose) ==
  /\ NoScan
  /\ draft[p] = Idle
  /\ draft' = [draft EXCEPT ![p] = [at |-> "check", purpose |-> purpose, thread |-> t,
                                    first |-> Nothing, hand |-> Nothing]]
  /\ UNCHANGED <<appVars, copy, scan>>
  /\ answer' = Nothing

Fresh == copy # Nothing /\ file[Own].mtime <= copy.mtime

\* Mutant: the copy is truncated before the file is read.
Mutant_CopyChecks(p) ==
  /\ draft[p].at = "check"
  /\ draft' = Go(p, IF Fresh THEN "read" ELSE "truncate")
  /\ UNCHANGED <<appVars, copy, scan>>
  /\ answer' = Nothing

CopyChecks(p) ==
  /\ draft[p].at = "check"
  /\ draft' = Go(p, IF Fresh THEN "read" ELSE "source")
  /\ UNCHANGED <<appVars, copy, scan>>
  /\ answer' = Nothing

CopyReads(p) ==
  /\ draft[p].at = "source"
  /\ draft' = [draft EXCEPT ![p].at = "truncate", ![p].hand = file[Own].rows]
  /\ UNCHANGED <<appVars, copy, scan>>
  /\ answer' = Nothing

CopyTruncates(p) ==
  /\ draft[p].at = "truncate"
  /\ copy' = [rows |-> draft[p].hand, whole |-> FALSE, mtime |-> now]
  /\ draft' = Go(p, "fill")
  /\ UNCHANGED <<appVars, scan>>
  /\ answer' = Nothing

CopyFills(p) ==
  /\ draft[p].at = "fill"
  /\ copy' = [rows |-> draft[p].hand, whole |-> TRUE, mtime |-> now]
  /\ draft' = [draft EXCEPT ![p].at = "read", ![p].hand = Nothing]
  /\ UNCHANGED <<appVars, scan>>
  /\ answer' = Nothing

\* A copy that is being written, or was never finished, can be read as far as
\* it goes or not at all.
Readable(p) ==
  LET row == copy.rows[draft[p].thread]
  IN IF row = Empty \/ row.garbled THEN {<< >>}
     ELSE {row.messages} \cup IF copy.whole THEN {} ELSE {<< >>}

Dies(p) ==
  /\ draft[p] # Idle
  /\ draft' = [draft EXCEPT ![p] = Idle]
  /\ UNCHANGED <<appVars, copy, scan>>
  /\ answer' = Nothing

(***************************************************************************)
(* Replies and forwards.                                                   *)
(***************************************************************************)
Ends(p, given) ==
  /\ draft' = [draft EXCEPT ![p] = Idle]
  /\ answer' = given
  /\ UNCHANGED <<appVars, copy, scan>>

\* The thread cannot be read, or the backend does not take the draft.
CreateFails(p) ==
  /\ draft[p].at = "read"
  /\ \/ draft[p].first = Nothing /\ << >> \in Readable(p)
     \/ draft[p].first # Nothing \/ draft[p].purpose = "reply"
  /\ Ends(p, [kind |-> "draft", ok |-> FALSE])

CreateReply(p) ==
  /\ draft[p].at = "read"
  /\ draft[p].purpose = "reply"
  /\ \E messages \in Readable(p) \ {<< >>}, all \in BOOLEAN :
       Ends(p, [kind |-> "reply", ok |-> TRUE, messages |-> messages,
                reply |-> Reply(messages, all)])

\* The message a forward quotes is found in the raw thread ...
ForwardFinds(p) ==
  /\ draft[p].at = "read"
  /\ draft[p].purpose = "forward"
  /\ draft[p].first = Nothing
  /\ \E messages \in Readable(p) \ {<< >>} :
       LET i == FindForwardMessage(messages)
       IN draft' = [draft EXCEPT ![p].at = "check", ![p].first = [index |-> i, message |-> messages[i]]]
  /\ UNCHANGED <<appVars, copy, scan>>
  /\ answer' = Nothing

\* Mutant: the body is that of the last rendered message.
Mutant_RenderedAt(rendered, i) ==
  IF rendered = << >> THEN Nothing ELSE rendered[Len(rendered)]

RenderedAt(rendered, i) == IF i <= Len(rendered) THEN rendered[i] ELSE Nothing

\* The text of a rendered message is its own or a segment of the thread's
\* searchable text that holds its first words, even if another message's.  Which
\* of them is a matter of their lengths, their order and what they begin with,
\* and is left open.
TextsOf(m, segments) == {m} \cup (Sharing[m] \cap segments)

\* The body a forward quotes: the HTML of the rendered message, its text, or what
\* the raw message has when there is no rendered one.
Bodies(raw, m, segments) ==
  IF m = Nothing THEN {raw} ELSE IF m \in Html THEN {m} ELSE TextsOf(m, segments)

\* The headers are those of the raw message.
Quoted(raw, body) == [kind |-> "forward", ok |-> TRUE, headers |-> raw, body |-> body]

\* ... and its body is taken from a second reading, which may fail.  That is two
\* queries: the second finds the texts of whatever messages the application has
\* put there, or of none.
CreateForward(p) ==
  /\ draft[p].at = "read"
  /\ draft[p].first # Nothing
  /\ LET first == draft[p].first
     IN \E rendered \in Readable(p), segments \in SUBSET Message :
          \E body \in Bodies(first.message, RenderedAt(rendered, first.index), segments) :
            Ends(p, Quoted(first.message, body))

(***************************************************************************)
(* The scan.                                                               *)
(***************************************************************************)
ScanFails ==
  /\ scan' = Idle
  /\ answer' = [kind |-> "scan", ok |-> FALSE]
  /\ UNCHANGED <<appVars, copy, draft>>

\* A bad request is refused before any file is touched.
ScanRefused(q) ==
  /\ NoDraft
  /\ scan = Idle
  /\ ~ValidRequest(q)
  /\ ScanFails

ScanStarts(q) ==
  /\ NoDraft
  /\ scan = Idle
  /\ ValidRequest(q)
  /\ scan' = [at |-> "open", q |-> q, left |-> q.accounts, copies |-> << >>, truth |-> << >>]
  /\ UNCHANGED <<appVars, copy, draft>>
  /\ answer' = Nothing

\* The accounts are copied one by one; a request may name them in any order.
\* truth keeps what the file held at this moment.
SnapshotOpens ==
  /\ scan.at = "open"
  /\ \E a \in scan.left :
       scan' = [at |-> "copy", q |-> scan.q, left |-> scan.left, copies |-> scan.copies,
                truth |-> With(scan.truth, a, file[a].rows), account |-> a,
                before |-> Identity(file[a]), copied |-> << >>, replaced |-> Nothing]
  /\ UNCHANGED <<appVars, copy, draft>>
  /\ answer' = Nothing

Uncopied == Thread \ DOMAIN scan.copied

SnapshotCopies ==
  /\ scan.at = "copy"
  /\ Uncopied # {}
  /\ LET t == Min(Uncopied)
         source == IF scan.replaced = Nothing THEN file[scan.account].rows ELSE scan.replaced
     IN scan' = [scan EXCEPT !.copied = With(@, t, source[t])]
  /\ UNCHANGED <<appVars, copy, draft>>
  /\ answer' = Nothing

\* Mutant: only the file at the path is compared.
Mutant_Stable == scan.replaced = Nothing

\* The file that was read and the one at its path are those of the beginning.
Stable == scan.replaced = Nothing /\ Identity(file[scan.account]) = scan.before

SnapshotChanged ==
  /\ scan.at = "copy"
  /\ Uncopied = {}
  /\ ~Stable
  /\ ScanFails

Reported(result) ==
  [kind |-> "scan", ok |-> result.ok, result |-> result, q |-> scan.q, truth |-> scan.truth]

\* The copy of an account is queried; the answer is given with that of the last.
SnapshotTaken ==
  /\ scan.at = "copy"
  /\ Uncopied = {}
  /\ Stable
  /\ LET copies == With(scan.copies, scan.account, scan.copied)
         left == scan.left \ {scan.account}
     IN IF left = {}
        THEN /\ scan' = Idle
             /\ answer' = Reported(Scan(scan.q, copies))
        ELSE /\ scan' = [at |-> "open", q |-> scan.q, left |-> left, copies |-> copies,
                         truth |-> scan.truth]
             /\ answer' = Nothing
  /\ UNCHANGED <<appVars, copy, draft>>

(***************************************************************************)
(* Comments.  They are not in the cache: the model reads them while that   *)
(* is empty, before anything else.                                         *)
(***************************************************************************)

\* raises: something fails while an answer is looked through.
ReadMany(stored, raises) ==
  LET batches == Batches(Asked)
      possible == [b \in DOMAIN batches |-> BackendAnswers(batches[b], stored)]
  IN /\ NoScan
     /\ NoDraft
     /\ now = 0 /\ answer = Nothing
     /\ \A a \in Account, t \in Thread : file[a].rows[t] = Empty
     /\ \E given \in {g \in [DOMAIN batches -> UNION Range(possible)] :
                        \A b \in DOMAIN batches : g[b] \in possible[b]} :
          LET parts == [b \in DOMAIN batches |-> ReadBatch(batches[b], given[b])]
          IN answer' = [kind |-> "comments", stored |-> stored,
                        ok |-> ~raises /\ \A b \in DOMAIN batches : parts[b].failed = {},
                        read |-> AllRead(parts),
                        untold |-> UNION {Untold(batches[b], given[b]) : b \in DOMAIN batches}]
     /\ UNCHANGED <<appVars, copy, draft, scan>>

(***************************************************************************)
(* Specification.                                                          *)
(***************************************************************************)
\* What is written elsewhere does not meet a draft in the making.
App ==
  \E a \in IF NoDraft THEN Account ELSE {Own} :
    \/ NoDraft /\ Replaces(a)
    \/ \E t \in IF NoDraft THEN Thread ELSE Edited :
         \/ \E m \in Message : Arrives(a, t, m)
         \/ Withdraws(a, t)
         \/ Garbles(a, t)

Drafting(p) ==
  \/ \E t \in Edited, purpose \in {"reply", "forward"} : CreateStarts(p, t, purpose)
  \/ CopyChecks(p)
  \/ CopyReads(p)
  \/ CopyTruncates(p)
  \/ CopyFills(p)
  \/ CreateFails(p)
  \/ CreateReply(p)
  \/ ForwardFinds(p)
  \/ CreateForward(p)
  \/ Dies(p)

Scanning ==
  \/ \E q \in Request : ScanRefused(q) \/ ScanStarts(q)
  \/ SnapshotOpens
  \/ SnapshotCopies
  \/ SnapshotChanged
  \/ SnapshotTaken

Next ==
  \/ App
  \/ \E p \in Process : Drafting(p)
  \/ Scanning
  \/ \E stored \in SUBSET ToSet(Asked), raises \in BOOLEAN : ReadMany(stored, raises)

Spec == Init /\ [][Next]_vars

(***************************************************************************)
(* Properties.                                                             *)
(***************************************************************************)
Answered(kind) == answer # Nothing /\ answer.kind = kind /\ answer.ok

\* What request q asks for among the rows of the accounts.
Wanted(q, rows) ==
  UNION {{[account |-> a, thread |-> t, message |-> m] :
            m \in {x \in ToSet(rows[a][t].messages) : Eligible(q, x)}} :
           a \in q.accounts, t \in {x \in Thread : Selected(q.threads, {x})}}

Shown == {[account |-> r.account, thread |-> r.thread, message |-> r.message] : r \in answer.result.records}

\* A scan that claims complete coverage gives every message that was asked for,
\* whole, as all files named held them when they were opened: nothing cut by a
\* limit, skipped, or torn by a write during the copy goes unreported
\* (README.md, Production reader contract).
ScanTruthful ==
  Answered("scan") /\ answer.result.reasons = {} =>
    /\ Shown = Wanted(answer.q, answer.truth)
    /\ \A r \in answer.result.records : r.amount = Amount[r.message]
    /\ \A w \in Shown : ~answer.truth[w.account][w.thread].garbled

\* A limit costs the oldest: what is left out is not newer than what is given,
\* of the same account or, if no account was cut, of any (unless rows or
\* messages were not even looked at).
ScanKeepsNewest ==
  Answered("scan") /\ answer.result.reasons \cap {"THREAD_LIMIT", "MESSAGE_SCAN_LIMIT"} = {} =>
    \A w \in Wanted(answer.q, answer.truth) \ Shown, r \in Shown :
      \/ Date[w.message] <= Date[r.message]
      \/ answer.truth[w.account][w.thread].garbled
      \/ r.account # w.account /\ "ACCOUNT_MESSAGE_LIMIT" \in answer.result.reasons

\* A reply is addressed and threaded rightly, whatever the thread is like.
ReplyRight == Answered("reply") => RepliesRightly(answer.messages, answer.reply)

\* The headers and the body that a forward quotes are of one message, though
\* they are read one after the other, from a copy that other processes renew
\* and set back; provided no message was taken out of the thread.  The search for
\* the text is all that can put another's body there: of a message without HTML,
\* and only of one that holds its first words.
ForwardOneMessage ==
  Answered("forward") /\ ~shrunk =>
    \/ answer.body = answer.headers
    \/ answer.headers \notin Html /\ answer.body \in Sharing[answer.headers]

\* A read that succeeds has the comments of each thread asked for under that
\* thread, a late failure included; except that a result that is no object passes
\* for a thread without comments, and that results without paths are given to
\* the wrong threads when some are left out.
CommentsWhole ==
  Answered("comments") =>
    \A t \in ToSet(Asked) :
      /\ t \in DOMAIN answer.read
      /\ t \notin answer.untold => answer.read[t] = StoredValue(answer.stored, t)
=============================================================================
