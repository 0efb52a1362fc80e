---------------------------- MODULE MessageStore ----------------------------
(***************************************************************************)
(* The way of a message from its sender to the database, and the three     *)
(* layers that keep it from being stored twice: the id the sender reuses   *)
(* when it tries again, the ids a backend remembers (seenIds), and the     *)
(* select-then-insert of the database service.                             *)
(*                                                                         *)
(* An attempt <<m, k>> is the k-th request of message m.  A client that    *)
(* tries again does not know what became of its earlier requests, and      *)
(* scripts/dedup_test.py sends several at once on purpose, so attempts are *)
(* not ordered.  Requests to the database are POSTs of one entry, which    *)
(* db() sends a second time when the first fails, or of a batch, which it  *)
(* does not.                                                               *)
(*                                                                         *)
(* seenIds is a map from ids to numbers; which of its entries is evicted   *)
(* is left open, as no property depends on it.  The rows of a transaction  *)
(* are applied one step at a time so that the database can fail between    *)
(* any two of them; the single thread of that process does nothing else    *)
(* meanwhile.  MaxFaults bounds what goes wrong.                           *)
(*                                                                         *)
(* Left out: the lookup of the session and the room before the POST (the   *)
(* wire delays a POST just as well), requests refused with a 4xx, the      *)
(* fallback for a database without the batch route, roomCount, which is    *)
(* maintained by the line before the one that maintains totalRows.         *)
(***************************************************************************)
EXTENDS Integers, Sequences, FiniteSets

CONSTANTS Msgs,        \* message ids
          PublicMsgs,  \* those sent to /message; the others to /api/messages
          RoomOf,      \* the room of each
          Backends,
          MaxTries,    \* requests a client makes with one id
          LruSize,     \* DEDUP_LRU_SIZE
          BatchMax,    \* APPEND_BATCH_MAX
          MaxFaults

ASSUME MsgsAssumption   == IsFiniteSet(Msgs)
ASSUME PublicAssumption == PublicMsgs \subseteq Msgs
ASSUME SizesAssumption  == /\ LruSize \in Nat \ {0} /\ BatchMax \in Nat \ {0}
                           /\ MaxTries \in Nat /\ MaxFaults \in Nat

VARIABLES tries,    \* the requests made for each message
          told,     \* the numbers its sender was answered
          open,     \* <<attempt, backend>>: the handlers that await an append
          queue,    \* appendQueue of each backend
          lru,      \* seenIds of each backend: a number for an id, or 0
          fire,     \* frames of the firehose on their way to each backend
          linked,   \* the backends subscribed to the firehose
          posts,    \* the POSTs whose answer some backend awaits
          wire,     \* the POSTs the database has not received yet
          replies,  \* its answers on their way back
          pending,  \* the POSTs whose entries are in the database's pending
          batch,    \* those of the open batch not finished yet
          out,      \* the numbers of the first entries of the first of them
          done,     \* those finished, with their answers
          tx,       \* "none", "open", or "auto" once SQLite has rolled back
          work,     \* the table as the transaction sees it
          rows,     \* the table as committed: a number for an id, or 0
          total,    \* totalRows
          faults

dbVars   == <<pending, batch, out, done, tx, work, rows, total>>
netVars  == <<posts, wire, replies>>
pubVars  == <<fire, linked>>
vars     == <<tries, told, open, queue, lru, pubVars, netVars, dbVars, faults>>

Attempts == Msgs \X (1..MaxTries)
Posts    == [from : Backends, jobs : Seq(Attempts) \ {<< >>}, again : BOOLEAN]
Replies  == {r \in [post : Posts, res : Seq(Nat)] : Len(r.res) = Len(r.post.jobs)}
Numbers  == [Msgs -> Nat]
Nothing  == [m \in Msgs |-> 0]
Known(f) == {m \in Msgs : f[m] # 0}
InRoom(r) == {m \in Msgs : RoomOf[m] = r}

Post(b, jobs)   == [from |-> b, jobs |-> jobs, again |-> FALSE]
Rejected(p)     == [post |-> p, res |-> [i \in 1..Len(p.jobs) |-> 0]]

Init == /\ tries = [m \in Msgs |-> 0]
        /\ told = [m \in Msgs |-> {}]
        /\ open = {}
        /\ queue = [b \in Backends |-> << >>]
        /\ lru = [b \in Backends |-> Nothing]
        /\ fire = [b \in Backends |-> {}]
        /\ linked = Backends
        /\ posts = {} /\ wire = {} /\ replies = {}
        /\ pending = << >> /\ batch = << >> /\ out = << >> /\ done = {}
        /\ tx = "none"
        /\ work = Nothing /\ rows = Nothing
        /\ total = 0
        /\ faults = 0

Fault == faults < MaxFaults /\ faults' = faults + 1

(* remember for every id of new: what seenIds may be afterwards. *)
Remembered(l, new) ==
  LET all  == [m \in Msgs |-> IF new[m] # 0 THEN new[m] ELSE l[m]]
      size == Cardinality(Known(all))
  IN  {[m \in Msgs |-> IF m \in kept THEN all[m] ELSE 0] :
         kept \in {S \in SUBSET Known(all) :
                     Cardinality(S) = IF size > LruSize THEN LruSize ELSE size}}
-----------------------------------------------------------------------------
(* The backend's handlers. *)

(* A request whose id the backend remembers is answered from memory. *)
AnswerFromMemory(m, b) ==
  /\ tries[m] < MaxTries /\ lru[b][m] # 0
  /\ tries' = [tries EXCEPT ![m] = @ + 1]
  /\ told' = [told EXCEPT ![m] = @ \union {lru[b][m]}]
  /\ UNCHANGED <<open, queue, lru, pubVars, netVars, dbVars, faults>>

(* The wrong form in which a sender never gives up. *)
QueueAppendAlways(m, b) ==
  /\ lru[b][m] = 0 /\ m \in PublicMsgs
  /\ tries' = [tries EXCEPT ![m] = @ + 1]
  /\ queue' = [queue EXCEPT ![b] = Append(@, <<m, tries[m] + 1>>)]
  /\ open' = open \union {<< <<m, tries[m] + 1>>, b>>}
  /\ UNCHANGED <<told, lru, pubVars, netVars, dbVars, faults>>

(* /message: the entry is queued with those of the same tick. *)
QueueAppend(m, b) ==
  /\ tries[m] < MaxTries /\ lru[b][m] = 0 /\ m \in PublicMsgs
  /\ tries' = [tries EXCEPT ![m] = @ + 1]
  /\ queue' = [queue EXCEPT ![b] = Append(@, <<m, tries[m] + 1>>)]
  /\ open' = open \union {<< <<m, tries[m] + 1>>, b>>}
  /\ UNCHANGED <<told, lru, pubVars, netVars, dbVars, faults>>

(* /api/messages: the entry is POSTed by itself. *)
PostEntry(m, b) ==
  /\ tries[m] < MaxTries /\ lru[b][m] = 0 /\ m \notin PublicMsgs
  /\ tries' = [tries EXCEPT ![m] = @ + 1]
  /\ LET p == Post(b, << <<m, tries[m] + 1>> >>)
     IN  posts' = posts \union {p} /\ wire' = wire \union {p}
  /\ open' = open \union {<< <<m, tries[m] + 1>>, b>>}
  /\ UNCHANGED <<told, queue, lru, pubVars, replies, dbVars, faults>>

(* One entry goes by itself, more go as a batch. *)
FlushQueue(b) ==
  /\ queue[b] # << >>
  /\ LET n == IF Len(queue[b]) > BatchMax THEN BatchMax ELSE Len(queue[b])
         p == Post(b, SubSeq(queue[b], 1, n))
     IN  /\ queue' = [queue EXCEPT ![b] = SubSeq(@, n + 1, Len(@))]
         /\ posts' = posts \union {p} /\ wire' = wire \union {p}
  /\ UNCHANGED <<tries, told, open, lru, pubVars, replies, dbVars, faults>>

(* What becomes of a POST that failed: db() sends a single entry once more. *)
Resent(p) == IF Len(p.jobs) = 1 /\ ~p.again THEN {[p EXCEPT !.again = TRUE]} ELSE {}

(* The wrong form that forgets all handlers of a batch but the first. *)
FirstHandler(p) == {<<p.jobs[1], p.from>>}

(* The handlers whose entries a POST carries. *)
Handlers(p) == {<<p.jobs[i], p.from>> : i \in 1..Len(p.jobs)}

(* The wrong form in which an entry that failed is taken for one stored. *)
ResultsUnchecked(r) ==
  [m \in Msgs |-> LET is == {i \in 1..Len(r.res) : r.post.jobs[i][1] = m}
                  IN  IF is = {} THEN 0
                      ELSE LET s == r.res[CHOOSE i \in is : TRUE] IN IF s = 0 THEN 1 ELSE s]

(* The numbers an answer has for the messages of its POST. *)
Results(r) ==
  [m \in Msgs |-> LET is == {i \in 1..Len(r.res) : r.post.jobs[i][1] = m /\ r.res[i] # 0}
                  IN  IF is = {} THEN 0 ELSE r.res[CHOOSE i \in is : TRUE]]

(* The answer to a POST.  Every entry that has a number is remembered and    *)
(* its sender is told; the senders of the others get a 500.                  *)
PostReturns(r) ==
  LET p        == r.post
      new      == Results(r)
      failed   == Len(p.jobs) = 1 /\ r.res[1] = 0
      resent   == IF failed THEN Resent(p) ELSE {}
  IN  /\ replies' = replies \ {r}
      /\ posts' = (posts \ {p}) \union resent
      /\ wire' = wire \union resent
      /\ told' = [m \in Msgs |-> IF new[m] # 0 THEN told[m] \union {new[m]} ELSE told[m]]
      /\ \E l \in Remembered(lru[p.from], new) : lru' = [lru EXCEPT ![p.from] = l]
      /\ open' = IF resent = {} THEN open \ Handlers(p) ELSE open
      /\ UNCHANGED <<tries, queue, pubVars, dbVars, faults>>

InDatabase == {pending[i] : i \in 1..Len(pending)} \union {batch[i] : i \in 1..Len(batch)}
              \union {d.post : d \in done}

(* No answer to this POST can come any more: only its timeout is left. *)
Stranded(p) == p \notin wire \union InDatabase \union {r.post : r \in replies}

(* The POST fails at the backend, which learns nothing of what the database  *)
(* did or will do with it: the connection broke, before or after the request *)
(* got through, or the answer is later than the timeout.                     *)
PostFails(p) ==
  /\ \/ Stranded(p) /\ UNCHANGED faults
     \/ ~Stranded(p) /\ Fault
  /\ posts' = (posts \ {p}) \union Resent(p)
  /\ \E w \in {wire, wire \ {p}} : wire' = w \union Resent(p)
  /\ replies' = {r \in replies : r.post # p}
  /\ open' = IF Resent(p) = {} THEN open \ Handlers(p) ELSE open
  /\ UNCHANGED <<tries, told, queue, lru, pubVars, dbVars>>

(* onFirehoseEntry for the entries of one frame. *)
FrameArrives(b, f) ==
  /\ fire' = [fire EXCEPT ![b] = @ \ {f}]
  /\ \E l \in Remembered(lru[b], f) : lru' = [lru EXCEPT ![b] = l]
  /\ UNCHANGED <<tries, told, open, queue, linked, netVars, dbVars, faults>>

LinkLost(b) ==
  /\ b \in linked /\ Fault
  /\ linked' = linked \ {b}
  /\ fire' = [fire EXCEPT ![b] = {}]
  /\ UNCHANGED <<tries, told, open, queue, lru, netVars, dbVars>>

LinkRestored(b) ==
  /\ b \notin linked
  /\ linked' = linked \union {b}
  /\ UNCHANGED <<tries, told, open, queue, lru, fire, netVars, dbVars, faults>>

(* The process of the backend ends and is started again. *)
BackendCrash(b) ==
  /\ Fault
  /\ open' = {h \in open : h[2] # b}
  /\ queue' = [queue EXCEPT ![b] = << >>]
  /\ lru' = [lru EXCEPT ![b] = Nothing]
  /\ fire' = [fire EXCEPT ![b] = {}]
  /\ linked' = linked \ {b}
  /\ posts' = {p \in posts : p.from # b}
  /\ replies' = {r \in replies : r.post.from # b}
  /\ UNCHANGED <<tries, told, wire, dbVars>>
-----------------------------------------------------------------------------
(* The database service. *)

(* The route handler puts every entry of a POST in pending, in one tick. *)
DbReceive(p) ==
  /\ tx = "none"
  /\ wire' = wire \ {p}
  /\ pending' = Append(pending, p)
  /\ UNCHANGED <<tries, told, open, queue, lru, pubVars, posts, replies, batch, out, done,
                 tx, work, rows, total, faults>>

(* flushAppends takes everything that is pending and opens a transaction. *)
TxBegin ==
  /\ tx = "none" /\ pending # << >>
  /\ tx' = "open"
  /\ batch' = pending
  /\ pending' = << >>
  /\ UNCHANGED <<tries, told, open, queue, lru, pubVars, netVars, out, done, work, rows,
                 total, faults>>

(* The wrong form that takes the next number from the maintained count. *)
NextOfTotal(f, r) == total + 1

(* nextSeq: COALESCE(MAX(seq), 0) + 1. *)
NextSeq(f, r) ==
  1 + CHOOSE n \in {0} \union {f[m] : m \in InRoom(r)} : \A m \in InRoom(r) : f[m] <= n

(* The outcome s of the next entry is recorded. *)
Outcome(s) ==
  LET p   == Head(batch)
      res == Append(out, s)
  IN  IF Len(res) = Len(p.jobs)
      THEN /\ done' = done \union {[post |-> p, res |-> res]}
           /\ batch' = Tail(batch)
           /\ out' = << >>
      ELSE out' = res /\ UNCHANGED <<done, batch>>

NextMsg == Head(batch).jobs[Len(out) + 1][1]

(* appendOne: an id that is in the table is reported with its number, and    *)
(* otherwise takes the next one of its room.  Once SQLite has rolled the     *)
(* transaction back, every statement commits by itself.                      *)
SeqOf(m) == IF work[m] # 0 THEN work[m] ELSE NextSeq(work, RoomOf[m])

Inserts(m) ==
  /\ work' = [work EXCEPT ![m] = SeqOf(m)]
  /\ rows' = IF tx = "auto" THEN work' ELSE rows
  /\ total' = IF work[m] # 0 THEN total ELSE total + 1

AppendOne ==
  /\ tx # "none" /\ batch # << >>
  /\ Inserts(NextMsg) /\ Outcome(SeqOf(NextMsg))
  /\ UNCHANGED <<tries, told, open, queue, lru, pubVars, netVars, pending, tx, faults>>

(* A statement of appendOne fails.  It concerns this entry only, which may   *)
(* be in the table by then; or it makes SQLite roll the transaction back (a  *)
(* full disk, an I/O error), before or after the entry was counted.          *)
RowFails ==
  /\ tx # "none" /\ batch # << >> /\ Fault
  /\ Outcome(0)
  /\ \/ UNCHANGED <<tx, work, rows, total>>
     \/ Inserts(NextMsg) /\ UNCHANGED tx
     \/ tx' = "auto" /\ work' = rows /\ total' \in {total, total + 1} /\ UNCHANGED rows
  /\ UNCHANGED <<tries, told, open, queue, lru, pubVars, netVars, pending>>

(* The answers to the POSTs of the batch; those nobody awaits are dropped.   *)
Answer(ds) == replies' = replies \union {d \in ds : d.post \in posts}

(* COMMIT: the new rows are on disk, a frame with those of each room goes to *)
(* every subscriber and every POST is answered.  No frame has a row whose    *)
(* entry failed after its INSERT.                                            *)
Reported(m) == \E d \in done : \E i \in 1..Len(d.res) : d.post.jobs[i][1] = m /\ d.res[i] # 0

Commit ==
  /\ tx = "open" /\ batch = << >>
  /\ tx' = "none"
  /\ rows' = work
  /\ LET new    == {m \in Msgs : rows[m] # work[m] /\ Reported(m)}
         frames == {[m \in Msgs |-> IF m \in new /\ RoomOf[m] = r THEN work[m] ELSE 0] :
                      r \in {RoomOf[m] : m \in new}}
     IN  fire' = [b \in Backends |-> IF b \in linked THEN fire[b] \union frames ELSE fire[b]]
  /\ Answer(done)
  /\ done' = {}
  /\ UNCHANGED <<tries, told, open, queue, lru, linked, posts, wire, pending, batch, out,
                 work, total, faults>>

(* What the POSTs are answered whose batch was rolled back, and a wrong form *)
(* that keeps the answers of the transaction.                                *)
KeptAnswers(ds) == ds
Failed(ds)      == {Rejected(d.post) : d \in ds}

(* COMMIT fails, because the disk does or because SQLite has rolled back     *)
(* already: every entry of the batch is rejected.                            *)
CommitFails ==
  /\ batch = << >>
  /\ \/ tx = "auto" /\ UNCHANGED faults
     \/ tx = "open" /\ Fault
  /\ tx' = "none"
  /\ work' = rows
  /\ Answer(Failed(done))
  /\ done' = {}
  /\ UNCHANGED <<tries, told, open, queue, lru, pubVars, posts, wire, pending, batch, out,
                 rows, total>>

(* SELECT COUNT( * ), and a wrong form that starts from an empty count. *)
NoCount(f)   == 0
CountRows(f) == Cardinality(Known(f))

(* The process ends, also by the exception of a BEGIN that fails, which      *)
(* nothing catches.  On restart totalRows is read from the table.            *)
DbCrash ==
  /\ Fault
  /\ wire' = {} /\ replies' = {}
  /\ pending' = << >> /\ batch' = << >> /\ out' = << >> /\ done' = {}
  /\ tx' = "none"
  /\ work' = rows
  /\ total' = CountRows(rows)
  /\ linked' = {}
  /\ fire' = [b \in Backends |-> {}]
  /\ UNCHANGED <<tries, told, open, queue, lru, posts, rows>>
-----------------------------------------------------------------------------
Next ==
  \/ \E b \in Backends :
       \/ \E m \in Msgs : AnswerFromMemory(m, b) \/ QueueAppend(m, b) \/ PostEntry(m, b)
       \/ FlushQueue(b) \/ LinkLost(b) \/ LinkRestored(b) \/ BackendCrash(b)
       \/ \E f \in fire[b] : FrameArrives(b, f)
  \/ \E r \in replies : PostReturns(r)
  \/ \E p \in posts : PostFails(p)
  \/ \E p \in wire : DbReceive(p)
  \/ TxBegin \/ AppendOne \/ RowFails \/ Commit \/ CommitFails \/ DbCrash

Spec == Init /\ [][Next]_vars

(* setImmediate runs what it was given, the network delivers or the timeout  *)
(* of dbOnce fires, and the database finishes what it has begun.             *)
Fairness ==
  /\ \A b \in Backends : WF_vars(FlushQueue(b))
  /\ WF_vars(\E r \in replies : PostReturns(r))
  /\ WF_vars(\E p \in posts : Stranded(p) /\ PostFails(p))
  /\ WF_vars(\E p \in wire : DbReceive(p))
  /\ WF_vars(TxBegin) /\ WF_vars(AppendOne) /\ WF_vars(Commit \/ CommitFails)

FairSpec == Spec /\ Fairness
-----------------------------------------------------------------------------
TypeOK == /\ tries \in [Msgs -> 0..MaxTries]
          /\ told \in [Msgs -> SUBSET Nat]
          /\ open \subseteq Attempts \X Backends
          /\ queue \in [Backends -> Seq(Attempts)]
          /\ lru \in [Backends -> Numbers]
          /\ fire \in [Backends -> SUBSET Numbers]
          /\ linked \subseteq Backends
          /\ posts \subseteq Posts /\ wire \subseteq Posts
          /\ replies \subseteq Replies
          /\ pending \in Seq(Posts) /\ batch \in Seq(Posts)
          /\ out \in Seq(Nat)
          /\ done \subseteq Replies
          /\ tx \in {"none", "open", "auto"}
          /\ work \in Numbers /\ rows \in Numbers
          /\ total \in Nat
          /\ faults \in 0..MaxFaults

Storage == INSTANCE Ledger WITH log <- rows

(* The numbers of a room are 1, 2, 3 without a gap and none is used twice,   *)
(* as the schema says of seq, in the committed table as in the one an open   *)
(* transaction sees, whatever failed or was rolled back before.              *)
Numbering == /\ Storage!Distinct(rows) /\ Storage!GapFree(rows)
             /\ Storage!Distinct(work) /\ Storage!GapFree(work)

(* A sender that was told its message is stored was told the truth: the      *)
(* message is in the table, under that number and no other, and stays there, *)
(* although answers come from the database, from its duplicate check and     *)
(* from the memory of any backend.                                           *)
AckedIsStored == \A m \in Msgs : told[m] \subseteq {rows[m]} \ {0}

(* Whatever a backend remembers, or a frame on its way tells it, is          *)
(* committed under the same number, so the first layer of the duplicate      *)
(* guard never suppresses a message that is not stored.                      *)
MemoryIsTrue ==
  \A b \in Backends : \A f \in fire[b] \union {lru[b]} :
    \A m \in Msgs : f[m] \in {0, rows[m]}

(* totalRows never reports fewer messages than are stored. *)
CountNeverShort == total >= Cardinality(Known(rows))

(* Every request is answered or fails: its handler is not left waiting by a  *)
(* batch, a transaction or a process that failed on the way.                 *)
EveryAttemptEnds == \A a \in Attempts, b \in Backends :
                      <<a, b>> \in open ~> <<a, b>> \notin open

(* The message path implements the Ledger. *)
LedgerSpec == Storage!Spec
=============================================================================
