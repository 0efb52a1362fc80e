----------------------------- MODULE FeedReplica -----------------------------
(***************************************************************************)
(* The copy of the public room that a backend (app/server.js) keeps in     *)
(* memory and serves as /feed.  Rows reach it on three ways that overtake  *)
(* each other: the firehose, pushed by the database with every commit; the *)
(* poll, every FEED_POLL_MS, from a cursor of its own; and a load, at boot *)
(* and after each reconnection of the firehose.  A row is named by its     *)
(* sequence number in the room.                                            *)
(*                                                                         *)
(* A request is answered with what the database holds when it gets there,  *)
(* and the answer is handled when it gets back.  A batch frame is handled  *)
(* row by row.  MaxRows and MaxFaults bound the run, Faulty names what may *)
(* go wrong in it.                                                         *)
(*                                                                         *)
(* Left out: the bytes of the rows; feedTotal, which is only shown in the  *)
(* answers; tailCache, whose stale answer is one the database gave         *)
(* earlier; the compressed copies; a restart of the backend, which is Init *)
(* with another number of rows.                                            *)
(***************************************************************************)
EXTENDS Integers, Sequences, Functions

CONSTANTS MaxRows,    \* rows the room ever gets
          FeedMax,    \* FEED_MAX
          PageMax,    \* FEED_PAGE_MAX of the database
          MaxFaults,
          Faulty      \* of "drop" (the link), "frame", "poll", "load" (requests)

ASSUME FeedAssumption == /\ MaxRows \in Nat /\ FeedMax \in Nat \ {0}
                         /\ PageMax \in Nat \ {0} /\ MaxFaults \in Nat
                         /\ Faulty \subseteq {"drop", "frame", "poll", "load"}

VARIABLES last,     \* rows 1..last are in the database
          linked,   \* the firehose is connected
          links,    \* how often it was connected
          hose,     \* rows on their way through it
          asked,    \* requests on their way to the database
          answers,  \* answers on their way back
          feed,     \* the buffer: rows, ids seen, feedLastSeq
          pollSeq,  \* feedPollSeq
          polling,  \* feedPolling
          ready,    \* feedReady
          faults

vars == <<last, linked, links, hose, asked, answers, feed, pollSeq, polling, ready, faults>>

Larger(a, b)  == IF a > b THEN a ELSE b
Smaller(a, b) == IF a < b THEN a ELSE b

Poll(since)    == [kind |-> "poll", n |-> 0, since |-> since]
Tail0(n)       == [kind |-> "tail", n |-> n, since |-> 0]
After(n, since) == [kind |-> "after", n |-> n, since |-> since]

(* feedLoad(catchUp), of the n-th connection, or 0 at boot. *)
Load(n) == IF n > 0 /\ feed.last > 0 THEN After(n, feed.last) ELSE Tail0(n)

Init == /\ last \in 0..MaxRows
        /\ linked = FALSE /\ links = 0 /\ hose = << >>
        /\ asked = {Tail0(0)} /\ answers = {}
        /\ feed = [buf |-> << >>, seen |-> << >>, last |-> 0]
        /\ pollSeq = 0 /\ polling = FALSE /\ ready = FALSE
        /\ faults = 0

Fault(what) == what \in Faulty /\ faults < MaxFaults /\ faults' = faults + 1

LastOf(s, n) == SubSeq(s, Larger(1, Len(s) - n + 1), Len(s))

(* The wrong form in which the ids are all forgotten when they are too many. *)
FeedTrimForgets(f) ==
  [f EXCEPT !.buf  = IF Len(@) > FeedMax + FeedMax \div 16 THEN LastOf(@, FeedMax) ELSE @,
            !.seen = IF Len(@) > 2 * FeedMax THEN << >> ELSE @]

(* feedTrim cuts the rows back to the last FeedMax, once there are a         *)
(* sixteenth more, and the end of feedAppend the ids that were seen.         *)
FeedTrim(f) ==
  [f EXCEPT !.buf  = IF Len(@) > FeedMax + FeedMax \div 16 THEN LastOf(@, FeedMax) ELSE @,
            !.seen = IF Len(@) > 2 * FeedMax THEN LastOf(@, FeedMax) ELSE @]

(* feedAppend: a row whose id was seen is dropped. *)
FeedAppend(f, s) ==
  IF s \in Range(f.seen) THEN f
  ELSE FeedTrim([buf  |-> Append(f.buf, s),
                 seen |-> Append(f.seen, s),
                 last |-> Larger(f.last, s)])

(* The loop over the rows of an answer, oldest first. *)
AppendAll(f, rows) ==
  LET after[i \in 0..Len(rows)] == IF i = 0 THEN f ELSE FeedAppend(after[i - 1], rows[i])
  IN  after[Len(rows)]

Cursor(c, rows) == IF rows = << >> THEN c ELSE Larger(c, rows[Len(rows)])
-----------------------------------------------------------------------------
(* The database commits a row and pushes it to its subscribers. *)
Commit ==
  /\ last < MaxRows
  /\ last' = last + 1
  /\ hose' = IF linked THEN Append(hose, last + 1) ELSE hose
  /\ UNCHANGED <<linked, links, asked, answers, feed, pollSeq, polling, ready, faults>>

(* GET /feed: the rows after since, oldest first, or the newest ones. *)
Rows(q) ==
  LET from == IF q.kind = "tail" THEN Larger(0, last - FeedMax) ELSE Smaller(q.since, last)
      page == IF q.kind = "tail" THEN FeedMax
              ELSE IF q.kind = "after" THEN Smaller(PageMax, FeedMax) ELSE PageMax
  IN  [i \in 1..Smaller(page, last - from) |-> from + i]

DbAnswers(q) ==
  /\ asked' = asked \ {q}
  /\ answers' = answers \union
       {[to |-> q, rows |-> Rows(q), more |-> Len(Rows(q)) = PageMax]}
  /\ UNCHANGED <<last, linked, links, hose, feed, pollSeq, polling, ready, faults>>

(* The wrong form in which the cursor jumps to whatever the firehose brings. *)
HoseArrivesJumps ==
  /\ hose # << >>
  /\ hose' = Tail(hose)
  /\ feed' = FeedAppend(feed, Head(hose))
  /\ pollSeq' = IF ready THEN Larger(pollSeq, Head(hose)) ELSE pollSeq
  /\ UNCHANGED <<last, linked, links, asked, answers, polling, ready, faults>>

(* onFirehoseEntry: the cursor advances only over the very next row. *)
HoseArrives ==
  /\ hose # << >>
  /\ hose' = Tail(hose)
  /\ feed' = FeedAppend(feed, Head(hose))
  /\ pollSeq' = IF ready /\ Head(hose) = pollSeq + 1 THEN Head(hose) ELSE pollSeq
  /\ UNCHANGED <<last, linked, links, asked, answers, polling, ready, faults>>

(* A frame is lost: the handler swallows whatever its entries throw. *)
FrameLost ==
  /\ hose # << >> /\ Fault("frame")
  /\ hose' = Tail(hose)
  /\ UNCHANGED <<last, linked, links, asked, answers, feed, pollSeq, polling, ready>>

LinkLost ==
  /\ linked /\ Fault("drop")
  /\ linked' = FALSE
  /\ hose' = << >>
  /\ UNCHANGED <<last, links, asked, answers, feed, pollSeq, polling, ready>>

(* The firehose is open, and what was missed is asked for. *)
LinkUp ==
  /\ ~linked
  /\ linked' = TRUE
  /\ links' = links + 1
  /\ asked' = IF ready THEN asked \union {Load(links + 1)} ELSE asked
  /\ UNCHANGED <<last, hose, answers, feed, pollSeq, polling, ready, faults>>

(* feedPollOnce. *)
PollStarts ==
  /\ ready /\ ~polling
  /\ polling' = TRUE
  /\ asked' = asked \union {Poll(pollSeq)}
  /\ UNCHANGED <<last, linked, links, hose, answers, feed, pollSeq, ready, faults>>

(* A full page is followed by the next poll at once: setImmediate runs it    *)
(* before any timer, and nothing but the interval's timer would start a poll *)
(* in between, when feedPolling is false for a moment.                       *)
PollReturns(a) ==
  /\ a.to.kind = "poll"
  /\ answers' = answers \ {a}
  /\ feed' = AppendAll(feed, a.rows)
  /\ pollSeq' = Cursor(pollSeq, a.rows)
  /\ polling' = a.more
  /\ asked' = IF a.more THEN asked \union {Poll(pollSeq')} ELSE asked
  /\ UNCHANGED <<last, linked, links, hose, ready, faults>>

(* Both tries of db() failed; the next round polls again. *)
PollFails(q) ==
  /\ q.kind = "poll" /\ Fault("poll")
  /\ asked' = asked \ {q}
  /\ polling' = FALSE
  /\ UNCHANGED <<last, linked, links, hose, answers, feed, pollSeq, ready>>

(* feedLoad has its answer. *)
LoadReturns(a) ==
  /\ a.to.kind # "poll"
  /\ answers' = answers \ {a}
  /\ feed' = AppendAll(feed, a.rows)
  /\ pollSeq' = Cursor(pollSeq, a.rows)
  /\ ready' = TRUE
  /\ UNCHANGED <<last, linked, links, hose, asked, polling, faults>>

(* feedLoad failed and runs again: it asks for what is newer than the        *)
(* newest row held by then.                                                  *)
LoadFails(q) ==
  /\ q.kind # "poll" /\ Fault("load")
  /\ asked' = (asked \ {q}) \union {Load(q.n)}
  /\ UNCHANGED <<last, linked, links, hose, answers, feed, pollSeq, polling, ready>>

Next == \/ Commit \/ HoseArrives \/ FrameLost \/ LinkLost \/ LinkUp \/ PollStarts
        \/ \E q \in asked : DbAnswers(q) \/ PollFails(q) \/ LoadFails(q)
        \/ \E a \in answers : PollReturns(a) \/ LoadReturns(a)

Spec == Init /\ [][Next]_vars

(* The interval of the poll fires, requests are answered or time out.  The   *)
(* number of failures is bounded, so each of these is tried until it works.  *)
Fairness == /\ WF_vars(PollStarts)
            /\ WF_vars(\E q \in asked : DbAnswers(q))
            /\ WF_vars(\E a \in answers : PollReturns(a) \/ LoadReturns(a))

FairSpec == Spec /\ Fairness
-----------------------------------------------------------------------------
Requests == [kind : {"poll", "tail", "after"}, n : 0..(MaxFaults + 1), since : 0..MaxRows]

TypeOK == /\ last \in 0..MaxRows
          /\ linked \in BOOLEAN /\ links \in 0..(MaxFaults + 1)
          /\ hose \in Seq(1..MaxRows)
          /\ asked \subseteq Requests
          /\ \A a \in answers : /\ a.to \in Requests /\ a.rows \in Seq(1..MaxRows)
                                /\ a.more \in BOOLEAN
          /\ feed.buf \in Seq(1..MaxRows) /\ feed.seen \in Seq(1..MaxRows)
          /\ feed.last \in 0..MaxRows
          /\ pollSeq \in 0..MaxRows
          /\ polling \in BOOLEAN /\ ready \in BOOLEAN
          /\ faults \in 0..MaxFaults

Held == Range(feed.buf)
Seen == Range(feed.seen)

(* Rows a request of this backend will still bring. *)
OnTheWay(s) == \/ \E q \in asked : q.kind = "tail" \/ q.since < s
               \/ \E a \in answers : \E i \in 1..Len(a.rows) : a.rows[i] = s

(* The poll asks for what is after its cursor, so a row the cursor has       *)
(* passed must be in the buffer or on its way: nothing would ever bring it.  *)
(* For rooms that fit into the buffer.                                       *)
NothingSkipped == \A s \in 1..pollSeq : s \in Seen \/ OnTheWay(s)

(* No message is twice among the newest FeedMax rows of the feed, although   *)
(* the firehose, the poll and the loads bring the same rows, also when old   *)
(* ids and rows are dropped.  A larger buffer may hold a sixteenth more rows *)
(* until it is cut, whose ids may be forgotten already.                      *)
NoDuplicates ==
  \A i, j \in Larger(1, Len(feed.buf) - FeedMax + 1)..Len(feed.buf) :
    feed.buf[i] = feed.buf[j] => i = j

(* In the end the feed has every message, whatever frames the firehose lost  *)
(* and whatever polls failed before.                                         *)
Converges == <>[](Held = 1..last)
=============================================================================
