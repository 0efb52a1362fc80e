-------------------------- MODULE FeedReplicaProofs --------------------------
(***************************************************************************)
(* What the feed of a backend guarantees for rooms, buffers and pages of   *)
(* any size.  An answer's rows are appended in a loop, so most proofs rest *)
(* on what the loop preserves and collects.  The library's induction over  *)
(* the naturals has an operator as a parameter; the form used here, about  *)
(* a set, follows from its theorem on minimal elements.                    *)
(***************************************************************************)
EXTENDS FeedReplica, WellFoundedInduction, FiniteSetTheorems, TLAPS

Feeds == [buf : Seq(1..MaxRows), seen : Seq(1..MaxRows), last : 0..MaxRows]

Distinct(q) == \A i, j \in 1..Len(q) : q[i] = q[j] => i = j

(* The newest rows of the buffer are the ids seen last, in the same order. *)
NewestSeen(f) ==
  \A k \in 0..(FeedMax - 1) :
    k < Len(f.buf) => k < Len(f.seen) /\ f.buf[Len(f.buf) - k] = f.seen[Len(f.seen) - k]

GoodFeeds == {f \in Feeds : Distinct(f.seen) /\ NewestSeen(f)}

Answers == [to : Requests, rows : Seq(1..MaxRows), more : BOOLEAN]

(* The firehose was connected once, and once more for each time it was lost. *)
LinksInv == links + (IF linked THEN 0 ELSE 1) <= faults + 1

IInv == TypeOK /\ feed \in GoodFeeds /\ answers \subseteq Answers /\ LinksInv
-----------------------------------------------------------------------------
LEMMA Induction ==
  ASSUME NEW S, 0 \in S, \A n \in Nat : n \in S => n + 1 \in S
  PROVE  Nat \subseteq S
<1> DEFINE R == OpToRel(<, Nat)
           T == Nat \ S
<1>1. ASSUME T # {} PROVE FALSE
  <2>1. IsWellFoundedOn(R, Nat) /\ T \subseteq Nat
    BY NatLessThanWellFounded
  <2>2. PICK x \in T : \A y \in T : ~(<<y, x>> \in R)
    <3> HIDE DEF T, R
    <3> QED BY <1>1, <2>1, WFMin
  <2>3. \A y \in Nat : y < x => <<y, x>> \in R
    BY DEF OpToRel
  <2>4. x \in Nat /\ x # 0 /\ x - 1 \in Nat /\ x - 1 < x
    OBVIOUS
  <2>5. x - 1 \in S
    BY <2>2, <2>3, <2>4
  <2> QED BY <2>4, <2>5
<1> QED BY <1>1

(* The loop: the feeds it goes through. *)
Through(g, f, rows, n) ==
  g = [i \in 0..n |-> IF i = 0 THEN f ELSE FeedAppend(g[i - 1], rows[i])]

LEMMA LoopDefined ==
  ASSUME NEW f, NEW rows, Len(rows) \in Nat
  PROVE  \E g : Through(g, f, rows, Len(rows)) /\ AppendAll(f, rows) = g[Len(rows)]
<1> DEFINE S == {n \in Nat : \E g : Through(g, f, rows, n)}
<1>1. 0 \in S
  <2>1. Through([i \in 0..0 |-> f], f, rows, 0)
    BY DEF Through
  <2> QED BY <2>1
<1>2. ASSUME NEW n \in Nat, n \in S PROVE n + 1 \in S
  <2>1. PICK g : Through(g, f, rows, n)
    BY <1>2
  <2> DEFINE h == [i \in 0..(n + 1) |-> IF i = n + 1 THEN FeedAppend(g[n], rows[n + 1])
                                        ELSE g[i]]
  <2>2. \A i \in 0..n : h[i] = g[i]
    OBVIOUS
  <2>3. \A i \in 0..n : g[i] = IF i = 0 THEN f ELSE FeedAppend(g[i - 1], rows[i])
    BY <2>1 DEF Through
  <2>4. \A i \in 0..(n + 1) : h[i] = IF i = 0 THEN f ELSE FeedAppend(h[i - 1], rows[i])
    <3> SUFFICES ASSUME NEW i \in 0..(n + 1)
                 PROVE  h[i] = IF i = 0 THEN f ELSE FeedAppend(h[i - 1], rows[i])
      OBVIOUS
    <3>1. CASE i = n + 1
      <4>1. h[i] = FeedAppend(g[n], rows[n + 1]) /\ h[n] = g[n] /\ i - 1 = n /\ i # 0
        BY <3>1, <2>2
      <4> HIDE DEF h
      <4> QED BY <3>1, <4>1
    <3>2. CASE i \in 0..n
      <4>1. h[i] = g[i] /\ (i # 0 => i - 1 \in 0..n)
        BY <3>2, <2>2
      <4>2. i # 0 => h[i - 1] = g[i - 1]
        BY <4>1, <2>2
      <4> HIDE DEF h
      <4> QED BY <3>2, <4>1, <4>2, <2>3
    <3> QED BY <3>1, <3>2
  <2>5. h = [i \in 0..(n + 1) |-> h[i]]
    OBVIOUS
  <2> HIDE DEF h
  <2>6. Through(h, f, rows, n + 1)
    BY <2>4, <2>5 DEF Through
  <2> QED BY <2>6
<1>3. Nat \subseteq S
  <2> HIDE DEF S
  <2> QED BY <1>1, <1>2, Induction
<1>4. \E g : Through(g, f, rows, Len(rows))
  BY <1>3
<1>5. AppendAll(f, rows) = (CHOOSE g : Through(g, f, rows, Len(rows)))[Len(rows)]
  BY DEF AppendAll, Through
<1> QED BY <1>4, <1>5

(* A set of feeds that no single row leaves is not left by the loop. *)
LEMMA LoopStays ==
  ASSUME NEW R, NEW rows \in Seq(R), NEW G, NEW f \in G,
         \A g \in G, s \in R : FeedAppend(g, s) \in G
  PROVE  AppendAll(f, rows) \in G
<1>1. Len(rows) \in Nat /\ \A i \in 1..Len(rows) : rows[i] \in R
  OBVIOUS
<1>2. PICK g : Through(g, f, rows, Len(rows)) /\ AppendAll(f, rows) = g[Len(rows)]
  BY <1>1, LoopDefined
<1>3. \A i \in 0..Len(rows) : g[i] = IF i = 0 THEN f ELSE FeedAppend(g[i - 1], rows[i])
  BY <1>2 DEF Through
<1> DEFINE S == {n \in Nat : n <= Len(rows) => g[n] \in G}
<1>4. 0 \in S
  BY <1>1, <1>3
<1>5. ASSUME NEW n \in Nat, n \in S PROVE n + 1 \in S
  <2>1. CASE n + 1 <= Len(rows)
    <3>1. n + 1 \in 0..Len(rows) /\ n + 1 \in 1..Len(rows) /\ g[n] \in G
          /\ n + 1 # 0 /\ (n + 1) - 1 = n
      BY <1>1, <1>5, <2>1
    <3>2. g[n + 1] = FeedAppend(g[n], rows[n + 1])
      BY <3>1, <1>3
    <3> QED BY <1>1, <3>1, <3>2
  <2>2. CASE ~(n + 1 <= Len(rows))
    BY <2>2
  <2> QED BY <2>1, <2>2
<1>6. Nat \subseteq S
  <2> HIDE DEF S
  <2> QED BY <1>4, <1>5, Induction
<1> QED BY <1>1, <1>2, <1>6

(* Every row adds its id to those seen, and nothing is taken away. *)
KeepsSeen(G, R) ==
  \A g \in G, s \in R : /\ FeedAppend(g, s) \in G
                         /\ Range(g.seen) \union {s} \subseteq Range(FeedAppend(g, s).seen)
                         /\ FeedAppend(g, s).last \in {g.last, s}

Collected(f, rows, h) ==
  /\ Range(f.seen) \subseteq Range(h.seen)
  /\ \A i \in 1..Len(rows) : rows[i] \in Range(h.seen)
  /\ h.last = f.last \/ \E i \in 1..Len(rows) : h.last = rows[i]

(* ... so that all of them are there at the end. *)
LEMMA LoopCollects ==
  ASSUME NEW R, NEW rows \in Seq(R), NEW G, NEW f \in G, KeepsSeen(G, R)
  PROVE  Collected(f, rows, AppendAll(f, rows))
<1>1. Len(rows) \in Nat /\ \A i \in 1..Len(rows) : rows[i] \in R
  OBVIOUS
<1>2. PICK g : Through(g, f, rows, Len(rows)) /\ AppendAll(f, rows) = g[Len(rows)]
  BY <1>1, LoopDefined
<1>3. \A i \in 0..Len(rows) : g[i] = IF i = 0 THEN f ELSE FeedAppend(g[i - 1], rows[i])
  BY <1>2 DEF Through
<1> DEFINE Upto(n) == /\ g[n] \in G
                      /\ Range(f.seen) \subseteq Range(g[n].seen)
                      /\ \A i \in 1..n : rows[i] \in Range(g[n].seen)
                      /\ g[n].last = f.last \/ \E i \in 1..n : g[n].last = rows[i]
           S == {n \in Nat : n <= Len(rows) => Upto(n)}
<1>4. 0 \in S
  BY <1>1, <1>3
<1>5. ASSUME NEW n \in Nat, n \in S PROVE n + 1 \in S
  <2>0. SUFFICES ASSUME n + 1 <= Len(rows) PROVE Upto(n + 1)
    <3> HIDE DEF Upto
    <3> QED OBVIOUS
  <2>1. n + 1 <= Len(rows)
    BY <2>0
  <2>2. Upto(n)
    <3> HIDE DEF Upto
    <3> QED BY <1>1, <1>5, <2>1
  <2>3. /\ n + 1 \in 0..Len(rows) /\ n + 1 \in 1..Len(rows)
        /\ n + 1 # 0 /\ (n + 1) - 1 = n
    BY <1>1, <2>1
  <2>4. g[n + 1] = FeedAppend(g[n], rows[n + 1]) /\ rows[n + 1] \in R /\ g[n] \in G
    BY <1>1, <1>3, <2>2, <2>3
  <2>5. /\ g[n + 1] \in G
        /\ Range(g[n].seen) \union {rows[n + 1]} \subseteq Range(g[n + 1].seen)
        /\ g[n + 1].last \in {g[n].last, rows[n + 1]}
    BY <2>4 DEF KeepsSeen
  <2>6. \A i \in 1..(n + 1) : i \in 1..n \/ i = n + 1
    OBVIOUS
  <2>7. \A i \in 1..(n + 1) : rows[i] \in Range(g[n + 1].seen)
    BY <2>2, <2>5, <2>6
  <2>8. g[n + 1].last = f.last \/ \E i \in 1..(n + 1) : g[n + 1].last = rows[i]
    <3>1. CASE g[n + 1].last = g[n].last
      BY <2>2, <2>6, <3>1
    <3>2. CASE g[n + 1].last = rows[n + 1]
      <4>1. n + 1 \in 1..(n + 1)
        OBVIOUS
      <4> QED BY <3>2, <4>1
    <3> QED BY <2>5, <3>1, <3>2
  <2> QED BY <2>2, <2>5, <2>7, <2>8
<1>6. Nat \subseteq S
  <2> HIDE DEF S
  <2> QED BY <1>4, <1>5, Induction
<1>7. Upto(Len(rows))
  <2> HIDE DEF Upto
  <2> QED BY <1>1, <1>6
<1> QED BY <1>2, <1>7 DEF Collected
-----------------------------------------------------------------------------
LEMMA LastOfLemma ==
  ASSUME NEW S, NEW q \in Seq(S), NEW n \in Nat, n < Len(q)
  PROVE  /\ LastOf(q, n) \in Seq(S) /\ Len(LastOf(q, n)) = n
         /\ \A i \in 1..n : LastOf(q, n)[i] = q[Len(q) - n + i]
<1>1. Len(q) \in Nat /\ Larger(1, Len(q) - n + 1) = Len(q) - n + 1
  BY DEF Larger
<1>2. LastOf(q, n) = SubSeq(q, Len(q) - n + 1, Len(q))
  BY <1>1 DEF LastOf
<1>3. Len(q) - n + 1 \in 1..(Len(q) + 1)
  BY <1>1
<1> QED BY <1>1, <1>2, <1>3

(* A new row is the newest of the buffer and the last of the ids. *)
LEMMA AddsRow ==
  ASSUME NEW f \in GoodFeeds, NEW s \in 1..MaxRows, s \notin Range(f.seen)
  PROVE  [buf |-> Append(f.buf, s), seen |-> Append(f.seen, s), last |-> Larger(f.last, s)]
           \in GoodFeeds
<1> DEFINE b == Append(f.buf, s)
           e == Append(f.seen, s)
           h == [buf |-> b, seen |-> e, last |-> Larger(f.last, s)]
<1>1. /\ f.buf \in Seq(1..MaxRows) /\ f.seen \in Seq(1..MaxRows) /\ f.last \in 0..MaxRows
      /\ Distinct(f.seen) /\ NewestSeen(f)
  BY DEF GoodFeeds, Feeds
<1>2. /\ b \in Seq(1..MaxRows) /\ Len(b) = Len(f.buf) + 1 /\ b[Len(b)] = s
      /\ \A i \in 1..Len(f.buf) : b[i] = f.buf[i]
      /\ e \in Seq(1..MaxRows) /\ Len(e) = Len(f.seen) + 1 /\ e[Len(e)] = s
      /\ \A i \in 1..Len(f.seen) : e[i] = f.seen[i]
      /\ Len(f.buf) \in Nat /\ Len(f.seen) \in Nat
  BY <1>1
<1>3. Larger(f.last, s) \in 0..MaxRows
  BY <1>1 DEF Larger
<1>4. \A i \in 1..Len(f.seen) : f.seen[i] # s
  BY <1>1 DEF Range
<1> HIDE DEF b, e
<1>5. h \in Feeds
  BY <1>2, <1>3 DEF Feeds
<1>6. Distinct(e)
  <2> SUFFICES ASSUME NEW i \in 1..Len(e), NEW j \in 1..Len(e), e[i] = e[j]
               PROVE  i = j
    BY DEF Distinct
  <2>1. /\ i \in 1..Len(f.seen) \/ i = Len(e)
        /\ j \in 1..Len(f.seen) \/ j = Len(e)
    BY <1>2
  <2>2. \A k \in 1..Len(f.seen) : e[k] # s
    BY <1>2, <1>4
  <2>3. CASE i \in 1..Len(f.seen) /\ j \in 1..Len(f.seen)
    <3>1. f.seen[i] = f.seen[j]
      BY <1>2, <2>3
    <3> QED BY <1>1, <2>3, <3>1 DEF Distinct
  <2> QED BY <1>2, <2>1, <2>2, <2>3
<1>7. NewestSeen(h)
  <2> SUFFICES ASSUME NEW k \in 0..(FeedMax - 1), k < Len(b)
               PROVE  k < Len(e) /\ b[Len(b) - k] = e[Len(e) - k]
    BY DEF NewestSeen
  <2>1. CASE k = 0
    BY <1>2, <2>1
  <2>2. CASE k # 0
    <3>1. k - 1 \in 0..(FeedMax - 1) /\ k - 1 < Len(f.buf)
      BY <1>2, <2>2, FeedAssumption
    <3>2. k - 1 < Len(f.seen) /\ f.buf[Len(f.buf) - (k - 1)] = f.seen[Len(f.seen) - (k - 1)]
      BY <1>1, <3>1 DEF NewestSeen
    <3>3. /\ Len(b) - k = Len(f.buf) - (k - 1) /\ Len(e) - k = Len(f.seen) - (k - 1)
          /\ Len(b) - k \in 1..Len(f.buf) /\ Len(e) - k \in 1..Len(f.seen)
      BY <1>2, <2>2, <3>1, <3>2
    <3>4. /\ b[Len(b) - k] = f.buf[Len(f.buf) - (k - 1)]
          /\ e[Len(e) - k] = f.seen[Len(f.seen) - (k - 1)]
      BY <1>2, <3>3
    <3>5. k < Len(e)
      BY <1>2, <3>1, <3>2
    <3> QED BY <3>2, <3>4, <3>5
  <2> QED BY <2>1, <2>2
<1> QED BY <1>5, <1>6, <1>7 DEF GoodFeeds, b, e

(* Cutting the rows and the ids back keeps the newest of both. *)
LEMMA TrimsBoth ==
  ASSUME NEW f \in GoodFeeds
  PROVE  FeedTrim(f) \in GoodFeeds
<1> DEFINE b == IF Len(f.buf) > FeedMax + FeedMax \div 16 THEN LastOf(f.buf, FeedMax)
                ELSE f.buf
           e == IF Len(f.seen) > 2 * FeedMax THEN LastOf(f.seen, FeedMax) ELSE f.seen
           h == [buf |-> b, seen |-> e, last |-> f.last]
<1>1. /\ f = [buf |-> f.buf, seen |-> f.seen, last |-> f.last]
      /\ f.buf \in Seq(1..MaxRows) /\ f.seen \in Seq(1..MaxRows) /\ f.last \in 0..MaxRows
      /\ Distinct(f.seen) /\ NewestSeen(f)
  BY DEF GoodFeeds, Feeds
<1>2. FeedTrim(f) = h
  <2>1. FeedTrim(f) = [f EXCEPT !.buf = b, !.seen = e]
    BY DEF FeedTrim
  <2>2. f \in Feeds
    BY DEF GoodFeeds
  <2> HIDE DEF b, e
  <2> QED BY <2>1, <2>2 DEF Feeds
<1>3. Len(f.buf) \in Nat /\ Len(f.seen) \in Nat /\ FeedMax \in Nat \ {0}
  BY <1>1, FeedAssumption
<1>4. /\ b \in Seq(1..MaxRows) /\ Len(b) <= Len(f.buf) /\ Len(b) \in Nat
      /\ \A k \in 0..(FeedMax - 1) : k < Len(b) => b[Len(b) - k] = f.buf[Len(f.buf) - k]
  <2>1. CASE Len(f.buf) > FeedMax + FeedMax \div 16
    <3>1. FeedMax < Len(f.buf)
      BY <1>3, <2>1
    <3>2. /\ b \in Seq(1..MaxRows) /\ Len(b) = FeedMax
          /\ \A i \in 1..FeedMax : b[i] = f.buf[Len(f.buf) - FeedMax + i]
      BY <1>1, <1>3, <2>1, <3>1, LastOfLemma
    <3> HIDE DEF b
    <3>3. \A k \in 0..(FeedMax - 1) : /\ FeedMax - k \in 1..FeedMax
                                       /\ Len(f.buf) - FeedMax + (FeedMax - k) = Len(f.buf) - k
      BY <1>3
    <3> QED BY <1>3, <3>1, <3>2, <3>3
  <2>2. CASE ~(Len(f.buf) > FeedMax + FeedMax \div 16)
    BY <1>1, <1>3, <2>2
  <2> QED BY <2>1, <2>2
<1>5. /\ e \in Seq(1..MaxRows) /\ Len(e) \in Nat
      /\ \A k \in 0..(FeedMax - 1) :
           k < Len(f.seen) => k < Len(e) /\ e[Len(e) - k] = f.seen[Len(f.seen) - k]
      /\ Distinct(e)
  <2>1. CASE Len(f.seen) > 2 * FeedMax
    <3>1. FeedMax < Len(f.seen)
      BY <1>3, <2>1
    <3>2. /\ e \in Seq(1..MaxRows) /\ Len(e) = FeedMax
          /\ \A i \in 1..FeedMax : e[i] = f.seen[Len(f.seen) - FeedMax + i]
      BY <1>1, <1>3, <2>1, <3>1, LastOfLemma
    <3> HIDE DEF e
    <3>3. \A k \in 0..(FeedMax - 1) : /\ FeedMax - k \in 1..FeedMax
                                       /\ Len(f.seen) - FeedMax + (FeedMax - k) = Len(f.seen) - k
      BY <1>3
    <3>4. \A i \in 1..FeedMax : Len(f.seen) - FeedMax + i \in 1..Len(f.seen)
      BY <1>3, <3>1
    <3>5. Distinct(e)
      <4> SUFFICES ASSUME NEW i \in 1..Len(e), NEW j \in 1..Len(e), e[i] = e[j]
                   PROVE  i = j
        BY DEF Distinct
      <4>1. /\ Len(f.seen) - FeedMax + i \in 1..Len(f.seen)
            /\ Len(f.seen) - FeedMax + j \in 1..Len(f.seen)
            /\ f.seen[Len(f.seen) - FeedMax + i] = f.seen[Len(f.seen) - FeedMax + j]
        BY <3>2, <3>4
      <4>2. Len(f.seen) - FeedMax + i = Len(f.seen) - FeedMax + j
        BY <1>1, <4>1 DEF Distinct
      <4> QED BY <1>3, <3>2, <4>2
    <3> QED BY <1>3, <3>1, <3>2, <3>3, <3>5
  <2>2. CASE ~(Len(f.seen) > 2 * FeedMax)
    BY <1>1, <1>3, <2>2
  <2> QED BY <2>1, <2>2
<1> HIDE DEF b, e
<1>6. h \in Feeds
  BY <1>1, <1>4, <1>5 DEF Feeds
<1>7. NewestSeen(h)
  BY <1>1, <1>3, <1>4, <1>5 DEF NewestSeen
<1> QED BY <1>2, <1>5, <1>6, <1>7 DEF GoodFeeds

LEMMA AppendsOne ==
  ASSUME NEW f \in GoodFeeds, NEW s \in 1..MaxRows
  PROVE  FeedAppend(f, s) \in GoodFeeds
BY AddsRow, TrimsBoth DEF FeedAppend

LEMMA AppendsAll ==
  ASSUME NEW f \in GoodFeeds, NEW rows \in Seq(1..MaxRows)
  PROVE  AppendAll(f, rows) \in GoodFeeds
<1>1. \A g \in GoodFeeds, s \in 1..MaxRows : FeedAppend(g, s) \in GoodFeeds
  BY AppendsOne
<1> QED BY <1>1, LoopStays

-----------------------------------------------------------------------------
(* A page is in order and without a gap, from where it was asked for. *)
LEMMA RowsLemma ==
  ASSUME NEW q \in Requests, last \in 0..MaxRows
  PROVE  /\ Rows(q) \in Seq(1..MaxRows)
         /\ \A i \in 1..Len(Rows(q)) : Rows(q)[i] <= last
         /\ MaxRows <= FeedMax /\ (q.kind = "tail" => q.since = 0) =>
              \A i \in 1..Len(Rows(q)) : Rows(q)[i] = q.since + i
<1> DEFINE from == IF q.kind = "tail" THEN Larger(0, last - FeedMax) ELSE Smaller(q.since, last)
           page == IF q.kind = "tail" THEN FeedMax
                   ELSE IF q.kind = "after" THEN Smaller(PageMax, FeedMax) ELSE PageMax
           n    == Smaller(page, last - from)
<1>1. Rows(q) = [i \in 1..n |-> from + i]
  BY DEF Rows
<1>2. q.since \in 0..MaxRows /\ MaxRows \in Nat /\ FeedMax \in Nat /\ PageMax \in Nat
  BY FeedAssumption DEF Requests
<1>3. from \in 0..last /\ (MaxRows <= FeedMax /\ q.kind = "tail" => from = 0)
  BY <1>2 DEF Larger, Smaller
<1>4. q.kind # "tail" => from = q.since \/ (from = last /\ last < q.since)
  BY <1>2 DEF Smaller
<1>5. page \in Nat
  BY <1>2 DEF Smaller
<1> HIDE DEF from, page
<1>6. n \in 0..(last - from)
  BY <1>2, <1>3, <1>5 DEF Smaller
<1> HIDE DEF n
<1>7. /\ n \in Nat
      /\ \A i \in 1..n : from + i \in 1..MaxRows /\ from + i <= last
  BY <1>2, <1>3, <1>6
<1>8. Rows(q) \in Seq(1..MaxRows) /\ Len(Rows(q)) = n
  BY <1>1, <1>7
<1>9. \A i \in 1..n : Rows(q)[i] = from + i
  BY <1>1
<1>10. ASSUME MaxRows <= FeedMax, q.kind = "tail" => q.since = 0
       PROVE  \A i \in 1..n : from + i = q.since + i
  <2>1. CASE q.kind = "tail"
    BY <1>3, <1>10, <2>1
  <2>2. CASE q.kind # "tail" /\ from = q.since
    BY <2>2
  <2>3. CASE from = last
    <3>1. n = 0
      BY <1>2, <1>3, <1>6, <2>3
    <3> QED BY <3>1
  <2> QED BY <1>4, <2>1, <2>2, <2>3
<1> QED BY <1>7, <1>8, <1>9, <1>10

LEMMA SeqEnds ==
  ASSUME NEW S, NEW q \in Seq(S), q # << >>
  PROVE  /\ Head(q) \in S /\ Tail(q) \in Seq(S)
         /\ Len(q) \in 1..Len(q) /\ q[Len(q)] \in S
  OBVIOUS

LEMMA SeqGrows ==
  ASSUME NEW S, NEW q \in Seq(S), NEW x \in S
  PROVE  Append(q, x) \in Seq(S)
  OBVIOUS

LEMMA FaultCounted ==
  ASSUME NEW what, Fault(what), faults \in 0..MaxFaults
  PROVE  faults' = faults + 1 /\ faults' \in 0..MaxFaults
BY FeedAssumption DEF Fault

LEMMA InitLemma == Init => IInv
<1> SUFFICES ASSUME Init PROVE IInv
  OBVIOUS
<1>1. feed \in GoodFeeds
  BY FeedAssumption DEF Init, GoodFeeds, Feeds, Distinct, NewestSeen
<1>2. Tail0(0) \in Requests
  BY FeedAssumption DEF Tail0, Requests
<1>3. TypeOK
  <2>1. << >> \in Seq(1..MaxRows)
    OBVIOUS
  <2>2. feed.buf = << >> /\ feed.seen = << >> /\ feed.last = 0 /\ hose = << >>
    BY DEF Init
  <2>3. 0 \in 0..MaxRows /\ 0 \in 0..(MaxFaults + 1) /\ 0 \in 0..MaxFaults
    BY FeedAssumption
  <2>4. /\ last \in 0..MaxRows /\ linked = FALSE /\ links = 0 /\ asked = {Tail0(0)}
        /\ answers = {} /\ pollSeq = 0 /\ polling = FALSE /\ ready = FALSE /\ faults = 0
    BY DEF Init
  <2> QED BY <1>2, <2>1, <2>2, <2>3, <2>4 DEF TypeOK
<1>4. LinksInv /\ answers \subseteq Answers
  BY DEF Init, LinksInv
<1> QED BY <1>1, <1>3, <1>4 DEF IInv

LEMMA LoadTypes ==
  ASSUME IInv, NEW n \in 0..(MaxFaults + 1)
  PROVE  Load(n) \in Requests
BY FeedAssumption DEF IInv, GoodFeeds, Feeds, Load, After, Tail0, Requests

(* An answer moves the cursor to its last row, or not at all. *)
LEMMA CursorTypes ==
  ASSUME NEW c \in 0..MaxRows, NEW rows \in Seq(1..MaxRows)
  PROVE  /\ Cursor(c, rows) \in 0..MaxRows
         /\ Cursor(c, rows) = c \/ \E i \in 1..Len(rows) : Cursor(c, rows) = rows[i]
<1>1. CASE rows = << >>
  BY <1>1 DEF Cursor
<1>2. CASE rows # << >>
  <2>1. Len(rows) \in 1..Len(rows) /\ rows[Len(rows)] \in 1..MaxRows
    BY <1>2, SeqEnds
  <2>2. Cursor(c, rows) = Larger(c, rows[Len(rows)])
    BY <1>2 DEF Cursor
  <2> QED BY <2>1, <2>2, FeedAssumption DEF Larger
<1> QED BY <1>1, <1>2

LEMMA Step == IInv /\ [Next]_vars => IInv'
<1> SUFFICES ASSUME IInv, [Next]_vars PROVE IInv'
  OBVIOUS
<1> USE DEF IInv
<1>0. /\ feed \in Feeds /\ MaxRows \in Nat /\ MaxFaults \in Nat
      /\ \A a \in answers : a.to \in Requests /\ a.rows \in Seq(1..MaxRows) /\ a.more \in BOOLEAN
  BY FeedAssumption DEF GoodFeeds, Answers
<1>1. CASE Commit
  <2>1. last' \in 0..MaxRows /\ hose' \in Seq(1..MaxRows)
    <3>1. last + 1 \in 1..MaxRows
      BY <1>0, <1>1 DEF Commit, TypeOK
    <3>2. Append(hose, last + 1) \in Seq(1..MaxRows)
      BY <3>1, SeqGrows DEF TypeOK
    <3>3. last' = last + 1 /\ hose' \in {hose, Append(hose, last + 1)}
      BY <1>1 DEF Commit
    <3>4. hose \in Seq(1..MaxRows) /\ last + 1 \in 0..MaxRows
      BY <3>1 DEF TypeOK
    <3> QED BY <3>2, <3>3, <3>4
  <2> QED BY <1>1, <2>1 DEF Commit, TypeOK, LinksInv
<1>2. CASE HoseArrives
  <2>1. Head(hose) \in 1..MaxRows /\ Tail(hose) \in Seq(1..MaxRows)
    BY <1>2, SeqEnds DEF HoseArrives, TypeOK
  <2>2. feed' \in GoodFeeds
    BY <1>2, <2>1, AppendsOne DEF HoseArrives
  <2>3. pollSeq' \in 0..MaxRows
    BY <1>0, <1>2, <2>1 DEF HoseArrives, TypeOK
  <2> QED BY <1>2, <2>1, <2>2, <2>3 DEF HoseArrives, TypeOK, LinksInv, GoodFeeds, Feeds
<1>3. CASE FrameLost
  <2>1. Tail(hose) \in Seq(1..MaxRows)
    BY <1>3, SeqEnds DEF FrameLost, TypeOK
  <2>2. faults' = faults + 1 /\ faults' \in 0..MaxFaults
    BY <1>3, FaultCounted DEF FrameLost, TypeOK
  <2> QED BY <1>0, <1>3, <2>1, <2>2 DEF FrameLost, TypeOK, LinksInv
<1>4. CASE LinkLost
  <2>1. faults' = faults + 1 /\ faults' \in 0..MaxFaults
    BY <1>4, FaultCounted DEF LinkLost, TypeOK
  <2>2. linked /\ linked' = FALSE /\ hose' = << >>
        /\ UNCHANGED <<last, links, asked, answers, feed, pollSeq, polling, ready>>
    BY <1>4 DEF LinkLost
  <2>3. LinksInv'
    BY <1>0, <2>1, <2>2 DEF LinksInv, TypeOK
  <2>4. hose' \in Seq(1..MaxRows)
    BY <2>2
  <2> QED BY <2>1, <2>2, <2>3, <2>4 DEF TypeOK
<1>5. CASE LinkUp
  <2>1. links + 1 \in 0..(MaxFaults + 1) /\ links + 1 <= faults + 1
    BY <1>0, <1>5 DEF LinkUp, TypeOK, LinksInv
  <2>2. asked' \subseteq Requests
    BY <1>5, <2>1, LoadTypes DEF LinkUp, TypeOK
  <2> QED BY <1>5, <2>1, <2>2 DEF LinkUp, TypeOK, LinksInv
<1>6. CASE PollStarts
  <2>1. Poll(pollSeq) \in Requests
    BY <1>0 DEF TypeOK, Poll, Requests
  <2> QED BY <1>6, <2>1 DEF PollStarts, TypeOK, LinksInv
<1>7. ASSUME NEW q \in asked, DbAnswers(q) PROVE IInv'
  <2>1. q \in Requests /\ Rows(q) \in Seq(1..MaxRows)
    BY RowsLemma DEF TypeOK
  <2>2. [to |-> q, rows |-> Rows(q), more |-> Len(Rows(q)) = PageMax] \in Answers
    BY <2>1 DEF Answers
  <2>3. answers' \subseteq Answers
    BY <1>7, <2>2 DEF DbAnswers
  <2>4. \A a \in answers' : a.to \in Requests /\ a.rows \in Seq(1..MaxRows) /\ a.more \in BOOLEAN
    BY <2>3 DEF Answers
  <2> QED BY <1>7, <2>3, <2>4 DEF DbAnswers, TypeOK, LinksInv
<1>8. ASSUME NEW q \in asked, PollFails(q) PROVE IInv'
  <2>1. faults' = faults + 1 /\ faults' \in 0..MaxFaults
    BY <1>8, FaultCounted DEF PollFails, TypeOK
  <2>2. asked' \subseteq asked /\ polling' = FALSE
        /\ UNCHANGED <<last, linked, links, hose, answers, feed, pollSeq, ready>>
    BY <1>8 DEF PollFails
  <2>3. LinksInv'
    BY <1>0, <2>1, <2>2 DEF LinksInv, TypeOK
  <2> QED BY <2>1, <2>2, <2>3 DEF TypeOK
<1>9. ASSUME NEW q \in asked, LoadFails(q) PROVE IInv'
  <2>1. q.n \in 0..(MaxFaults + 1)
    BY DEF TypeOK, Requests
  <2>2. Load(q.n) \in Requests
    BY <2>1, LoadTypes
  <2>3. faults' = faults + 1 /\ faults' \in 0..MaxFaults
    BY <1>9, FaultCounted DEF LoadFails, TypeOK
  <2>4. asked' \subseteq asked \union {Load(q.n)}
        /\ UNCHANGED <<last, linked, links, hose, answers, feed, pollSeq, polling, ready>>
    BY <1>9 DEF LoadFails
  <2>5. LinksInv'
    BY <1>0, <2>3, <2>4 DEF LinksInv, TypeOK
  <2> QED BY <2>2, <2>3, <2>4, <2>5 DEF TypeOK
<1>10. ASSUME NEW a \in answers, PollReturns(a) \/ LoadReturns(a) PROVE IInv'
  <2>1. feed' \in GoodFeeds
    BY <1>0, <1>10, AppendsAll DEF PollReturns, LoadReturns
  <2>2. pollSeq' \in 0..MaxRows
    BY <1>0, <1>10, CursorTypes DEF PollReturns, LoadReturns, TypeOK
  <2>3. Poll(pollSeq') \in Requests
    BY <1>0, <2>2 DEF Poll, Requests
  <2>4. asked' \subseteq Requests /\ answers' \subseteq answers
    BY <1>10, <2>3 DEF PollReturns, LoadReturns, TypeOK
  <2>5. polling' \in BOOLEAN /\ ready' \in BOOLEAN
    BY <1>0, <1>10 DEF PollReturns, LoadReturns, TypeOK
  <2>6. UNCHANGED <<last, linked, links, hose, faults>>
    BY <1>10 DEF PollReturns, LoadReturns
  <2> QED BY <2>1, <2>2, <2>4, <2>5, <2>6 DEF TypeOK, LinksInv, GoodFeeds, Feeds
<1>11. CASE UNCHANGED vars
  BY <1>11 DEF vars, TypeOK, LinksInv
<1> HIDE DEF IInv
<1> QED BY <1>1, <1>2, <1>3, <1>4, <1>5, <1>6, <1>7, <1>8, <1>9, <1>10, <1>11 DEF Next

(* The inductive invariant. *)
THEOREM Invariant == Spec => []IInv
BY InitLemma, Step, PTL DEF Spec

(* Every variable keeps its type: the buffer, the ids and the cursors only   *)
(* ever name rows the room may have, whatever fails.                         *)
THEOREM TypeCorrect == Spec => []TypeOK
<1>1. IInv => TypeOK
  BY DEF IInv
<1> QED BY <1>1, Invariant, PTL

(* feedAppend never lets a message in that is among the newest FEED_MAX rows *)
(* of the buffer, for any FEED_MAX: ids and rows are cut at different        *)
(* lengths, but the ids kept always cover those rows.                        *)
THEOREM FeedHasNoDuplicates == Spec => []NoDuplicates
<1>1. IInv => NoDuplicates
  <2> SUFFICES ASSUME IInv,
                      NEW i \in Larger(1, Len(feed.buf) - FeedMax + 1)..Len(feed.buf),
                      NEW j \in Larger(1, Len(feed.buf) - FeedMax + 1)..Len(feed.buf),
                      feed.buf[i] = feed.buf[j]
               PROVE  i = j
    BY DEF NoDuplicates
  <2> DEFINE n == Len(feed.buf)
             m == Len(feed.seen)
  <2>1. n \in Nat /\ m \in Nat /\ FeedMax \in Nat \ {0}
        /\ Distinct(feed.seen) /\ NewestSeen(feed)
    BY FeedAssumption DEF IInv, GoodFeeds, Feeds
  <2>2. /\ n - i \in 0..(FeedMax - 1) /\ n - i < n /\ n - (n - i) = i
        /\ n - j \in 0..(FeedMax - 1) /\ n - j < n /\ n - (n - j) = j
    <3> DEFINE lo == Larger(1, n - FeedMax + 1)
    <3>1. lo \in Nat /\ 1 <= lo /\ n - FeedMax + 1 <= lo
      <4> HIDE DEF n
      <4> QED BY <2>1 DEF Larger
    <3>2. i \in lo..n /\ j \in lo..n
      OBVIOUS
    <3> HIDE DEF n, lo
    <3> QED BY <2>1, <3>1, <3>2
  <2>3. /\ n - i < m /\ feed.buf[i] = feed.seen[m - (n - i)]
        /\ n - j < m /\ feed.buf[j] = feed.seen[m - (n - j)]
    BY <2>1, <2>2 DEF NewestSeen
  <2>4. m - (n - i) \in 1..m /\ m - (n - j) \in 1..m
    <3>1. n - i \in Nat /\ n - j \in Nat /\ n - i < m /\ n - j < m /\ m \in Nat
      BY <2>1, <2>2, <2>3
    <3> HIDE DEF n, m
    <3> QED BY <3>1
  <2>5. m - (n - i) = m - (n - j)
    <3> HIDE DEF n, m
    <3>1. feed.seen[m - (n - i)] = feed.seen[m - (n - j)]
      BY <2>3
    <3> QED BY <2>1, <2>4, <3>1 DEF Distinct, m
  <2> HIDE DEF n, m
  <2>6. n - i \in Nat /\ n - j \in Nat
    BY <2>2
  <2> QED BY <2>1, <2>2, <2>5, <2>6
<1> QED BY <1>1, Invariant, PTL

-----------------------------------------------------------------------------
(* Rooms that fit into the buffer, and a firehose whose link is never lost.  *)
Whole == MaxRows <= FeedMax /\ Faulty \cap {"drop", "load"} = {}

(* What a request is asked for leaves nothing out. *)
Gapless(q) == (q.kind = "tail" => q.since = 0) /\ 1..q.since \subseteq Seen

(* Every row up to a cursor was seen.  Only the firehose brings a row ahead  *)
(* of others, so the one catch-up load, asked for as it opens, starts where  *)
(* nothing is missing.                                                       *)
SkipInv ==
  /\ links \in {0, 1} /\ (linked <=> links = 1)
  /\ links = 0 => hose = << >> /\ 1..feed.last \subseteq Seen
  /\ \A q \in asked : Gapless(q)
  /\ \A a \in answers : /\ Gapless(a.to)
                        /\ \A i \in 1..Len(a.rows) : a.rows[i] = a.to.since + i
  /\ 1..pollSeq \subseteq Seen

LEMMA SeqIsFunction ==
  ASSUME NEW S, NEW q \in Seq(S)
  PROVE  q \in [1..Len(q) -> S] /\ DOMAIN q = 1..Len(q)
  OBVIOUS

LEMMA SeenAreFew ==
  ASSUME NEW q \in Seq(1..MaxRows), Distinct(q)
  PROVE  Len(q) <= MaxRows
<1>1. MaxRows \in Nat /\ Len(q) \in Nat
  BY FeedAssumption
<1>2. \A n \in Nat : IsFiniteSet(1..n) /\ Cardinality(1..n) = n
  <2> TAKE n \in Nat
  <2>1. IsFiniteSet(1..n) /\ Cardinality(1..n) = IF 1 > n THEN 0 ELSE n - 1 + 1
    BY FS_Interval
  <2>2. (IF 1 > n THEN 0 ELSE n - 1 + 1) = n
    OBVIOUS
  <2> QED BY <2>1, <2>2
<1>3. Cardinality(1..Len(q)) = Len(q) /\ Cardinality(1..MaxRows) = MaxRows
      /\ IsFiniteSet(1..MaxRows)
  BY <1>1, <1>2
<1>4. q \in Injection(1..Len(q), 1..MaxRows)
  <2>1. q \in [1..Len(q) -> 1..MaxRows] /\ DOMAIN q = 1..Len(q)
    BY SeqIsFunction
  <2>2. IsInjective(q)
    BY <2>1 DEF Distinct, IsInjective
  <2> QED BY <2>1, <2>2 DEF Injection
<1>5. Cardinality(1..Len(q)) <= Cardinality(1..MaxRows)
  BY <1>3, <1>4, FS_Injection
<1> QED BY <1>3, <1>5

(* In a room that fits into the buffer no id is ever forgotten. *)
LEMMA KeepsIds ==
  ASSUME MaxRows <= FeedMax, NEW f \in GoodFeeds, NEW s \in 1..MaxRows
  PROVE  /\ Range(f.seen) \union {s} \subseteq Range(FeedAppend(f, s).seen)
         /\ FeedAppend(f, s).last \in {f.last, s}
<1>1. CASE s \in Range(f.seen)
  BY <1>1 DEF FeedAppend
<1>2. CASE s \notin Range(f.seen)
  <2> DEFINE e == Append(f.seen, s)
             h == [buf |-> Append(f.buf, s), seen |-> e, last |-> Larger(f.last, s)]
  <2>1. h \in GoodFeeds
    BY <1>2, AddsRow
  <2>2. e \in Seq(1..MaxRows) /\ Distinct(e)
    BY <2>1 DEF GoodFeeds, Feeds
  <2>3. Len(e) <= MaxRows /\ Len(e) \in Nat /\ FeedMax \in Nat /\ MaxRows \in Nat
    <3> HIDE DEF e
    <3> QED BY <2>2, SeenAreFew, FeedAssumption
  <2>4. ~(Len(e) > 2 * FeedMax)
    <3> HIDE DEF e
    <3> QED BY <2>3
  <2>5. FeedTrim(h).seen = e /\ FeedTrim(h).last = Larger(f.last, s)
    <3> HIDE DEF e
    <3> QED BY <2>4 DEF FeedTrim
  <2>6. Range(f.seen) \union {s} \subseteq Range(e)
    <3>1. f.seen \in Seq(1..MaxRows)
      BY DEF GoodFeeds, Feeds
    <3>2. /\ Len(f.seen) \in Nat /\ Len(e) = Len(f.seen) + 1 /\ e[Len(e)] = s
          /\ \A i \in 1..Len(f.seen) : e[i] = f.seen[i]
          /\ DOMAIN e = 1..Len(e) /\ DOMAIN f.seen = 1..Len(f.seen)
      BY <3>1
    <3> HIDE DEF e
    <3>3. 1..Len(f.seen) \subseteq 1..Len(e) /\ Len(e) \in 1..Len(e)
      BY <3>2
    <3> QED BY <3>2, <3>3 DEF Range
  <2>7. Larger(f.last, s) \in {f.last, s}
    BY DEF Larger
  <2>8. FeedAppend(f, s) = FeedTrim(h)
    BY <1>2 DEF FeedAppend
  <2> HIDE DEF e, h
  <2> QED BY <2>5, <2>6, <2>7, <2>8
<1> QED BY <1>1, <1>2

LEMMA KeepsAllIds ==
  ASSUME MaxRows <= FeedMax, NEW f \in GoodFeeds, NEW rows \in Seq(1..MaxRows)
  PROVE  Collected(f, rows, AppendAll(f, rows))
<1>1. KeepsSeen(GoodFeeds, 1..MaxRows)
  BY AppendsOne, KeepsIds DEF KeepsSeen
<1> QED BY <1>1, LoopCollects

(* An answer brings the rows right after what it was asked from. *)
LEMMA AnswerFills ==
  ASSUME Whole, IInv, SkipInv, NEW a \in answers,
         feed' = AppendAll(feed, a.rows), pollSeq' = Cursor(pollSeq, a.rows)
  PROVE  /\ Seen \subseteq Seen' /\ 1..pollSeq' \subseteq Seen'
         /\ 1..feed.last \subseteq Seen => 1..feed'.last \subseteq Seen'
<1>1. /\ feed \in GoodFeeds /\ a.rows \in Seq(1..MaxRows) /\ a.to.since \in 0..MaxRows
      /\ pollSeq \in 0..MaxRows
  BY DEF IInv, TypeOK, Answers, Requests
<1>2. /\ 1..a.to.since \subseteq Seen /\ 1..pollSeq \subseteq Seen
      /\ \A i \in 1..Len(a.rows) : a.rows[i] = a.to.since + i
  BY DEF SkipInv, Gapless
<1>3. Collected(feed, a.rows, feed')
  BY <1>1, KeepsAllIds DEF Whole
<1>4. Seen \subseteq Seen' /\ \A i \in 1..Len(a.rows) : a.rows[i] \in Seen'
  BY <1>3 DEF Collected, Seen
<1>5. ASSUME NEW i \in 1..Len(a.rows) PROVE 1..a.rows[i] \subseteq Seen'
  <2> SUFFICES ASSUME NEW s \in 1..a.rows[i] PROVE s \in Seen'
    OBVIOUS
  <2>1. a.rows[i] = a.to.since + i /\ Len(a.rows) \in Nat
    BY <1>1, <1>2
  <2>2. CASE s <= a.to.since
    <3>1. s \in 1..a.to.since
      BY <1>1, <2>1, <2>2
    <3> QED BY <1>2, <1>4, <3>1
  <2>3. CASE ~(s <= a.to.since)
    <3>1. /\ s - a.to.since \in 1..Len(a.rows)
          /\ a.to.since + (s - a.to.since) = s
      BY <1>1, <2>1, <2>3
    <3>2. a.rows[s - a.to.since] = s
      BY <1>2, <3>1
    <3> QED BY <1>4, <3>1, <3>2
  <2> QED BY <2>2, <2>3
<1>6. 1..pollSeq' \subseteq Seen'
  <2>1. pollSeq' = pollSeq \/ \E i \in 1..Len(a.rows) : pollSeq' = a.rows[i]
    BY <1>1, CursorTypes
  <2> QED BY <1>2, <1>4, <1>5, <2>1
<1>7. ASSUME 1..feed.last \subseteq Seen PROVE 1..feed'.last \subseteq Seen'
  <2>1. feed'.last = feed.last \/ \E i \in 1..Len(a.rows) : feed'.last = a.rows[i]
    BY <1>3 DEF Collected
  <2> QED BY <1>4, <1>5, <1>7, <2>1
<1> QED BY <1>4, <1>6, <1>7

(* What was without a gap stays so while nothing seen is forgotten. *)
LEMMA GaplessStays ==
  ASSUME NEW q, Gapless(q), Seen \subseteq Seen'
  PROVE  (q.kind = "tail" => q.since = 0) /\ 1..q.since \subseteq Seen'
BY DEF Gapless

LEMMA SkipStep ==
  ASSUME Whole, IInv, SkipInv, [Next]_vars
  PROVE  SkipInv'
<1>0. /\ feed \in GoodFeeds /\ MaxRows \in Nat /\ MaxRows <= FeedMax
      /\ links \in Nat /\ pollSeq \in 0..MaxRows /\ hose \in Seq(1..MaxRows)
      /\ asked \subseteq Requests /\ feed.last \in 0..MaxRows
      /\ 1..pollSeq \subseteq Seen
  BY FeedAssumption DEF IInv, TypeOK, Whole, SkipInv
<1>1. CASE Commit
  BY <1>1 DEF Commit, SkipInv, Gapless, Seen
<1>2. CASE HoseArrives
  <2>1. links = 1 /\ linked /\ Head(hose) \in 1..MaxRows
    BY <1>0, <1>2, SeqEnds DEF HoseArrives, SkipInv
  <2>2. Seen \union {Head(hose)} \subseteq Seen'
    BY <1>0, <1>2, <2>1, KeepsIds DEF HoseArrives, Seen
  <2>3. 1..pollSeq' \subseteq Seen'
    <3>1. CASE pollSeq' = pollSeq
      BY <1>0, <2>2, <3>1
    <3>2. CASE pollSeq' = pollSeq + 1 /\ pollSeq + 1 = Head(hose)
      <4>1. \A s \in 1..(pollSeq + 1) : s \in 1..pollSeq \/ s = Head(hose)
        BY <1>0, <3>2
      <4> QED BY <1>0, <2>2, <3>2, <4>1
    <3>3. pollSeq' = IF ready /\ Head(hose) = pollSeq + 1 THEN Head(hose) ELSE pollSeq
      BY <1>2 DEF HoseArrives
    <3> QED BY <3>1, <3>2, <3>3
  <2>4. UNCHANGED <<linked, links, asked, answers>>
    BY <1>2 DEF HoseArrives
  <2>5. /\ \A q \in asked : 1..q.since \subseteq Seen'
        /\ \A a \in answers : 1..a.to.since \subseteq Seen'
    BY <2>2 DEF SkipInv, Gapless
  <2> QED BY <2>1, <2>3, <2>4, <2>5 DEF SkipInv, Gapless
<1>3. CASE FrameLost
  <2>1. hose # << >> /\ UNCHANGED <<linked, links, asked, answers, feed, pollSeq>>
    BY <1>3 DEF FrameLost
  <2>2. links # 0
    BY <2>1 DEF SkipInv
  <2> QED BY <2>1, <2>2 DEF SkipInv, Gapless, Seen
<1>4. CASE LinkLost
  BY <1>4 DEF LinkLost, Fault, Whole
<1>5. CASE LinkUp
  <2>1. links = 0 /\ 1..feed.last \subseteq Seen
    BY <1>5 DEF LinkUp, SkipInv
  <2>2. Gapless(Load(1))
    BY <2>1 DEF Load, After, Tail0, Gapless
  <2>3. /\ linked' = TRUE /\ links' = 1 /\ asked' \subseteq asked \union {Load(1)}
        /\ UNCHANGED <<answers, feed, pollSeq>>
    BY <1>5, <2>1 DEF LinkUp
  <2> QED BY <2>2, <2>3 DEF SkipInv, Gapless, Seen
<1>6. CASE PollStarts
  <2>1. Gapless(Poll(pollSeq))
    BY <1>0 DEF Poll, Gapless
  <2> QED BY <1>6, <2>1 DEF PollStarts, SkipInv, Gapless, Seen
<1>7. ASSUME NEW q \in asked, DbAnswers(q) PROVE SkipInv'
  <2> DEFINE a == [to |-> q, rows |-> Rows(q), more |-> Len(Rows(q)) = PageMax]
  <2>1. \A i \in 1..Len(Rows(q)) : Rows(q)[i] = q.since + i
    <3>1. q \in Requests /\ last \in 0..MaxRows /\ (q.kind = "tail" => q.since = 0)
      BY DEF IInv, TypeOK, SkipInv, Gapless
    <3> QED BY <1>0, <3>1, RowsLemma
  <2>2. Gapless(a.to) /\ \A i \in 1..Len(a.rows) : a.rows[i] = a.to.since + i
    BY <2>1 DEF SkipInv
  <2>3. /\ asked' \subseteq asked /\ answers' = answers \union {a}
        /\ UNCHANGED <<linked, links, hose, feed, pollSeq>>
    BY <1>7 DEF DbAnswers
  <2> HIDE DEF a
  <2> QED BY <2>2, <2>3 DEF SkipInv, Gapless, Seen
<1>8. ASSUME NEW q \in asked, PollFails(q) PROVE SkipInv'
  BY <1>8 DEF PollFails, SkipInv, Gapless, Seen
<1>9. ASSUME NEW q \in asked, LoadFails(q) PROVE SkipInv'
  BY <1>9 DEF LoadFails, Fault, Whole
<1>10. ASSUME NEW a \in answers, PollReturns(a) \/ LoadReturns(a) PROVE SkipInv'
  <2>1. /\ feed' = AppendAll(feed, a.rows) /\ pollSeq' = Cursor(pollSeq, a.rows)
        /\ answers' \subseteq answers /\ asked' \subseteq asked \union {Poll(pollSeq')}
        /\ UNCHANGED <<linked, links, hose>>
    BY <1>10 DEF PollReturns, LoadReturns
  <2>2. /\ Seen \subseteq Seen' /\ 1..pollSeq' \subseteq Seen'
        /\ 1..feed.last \subseteq Seen => 1..feed'.last \subseteq Seen'
    BY <2>1, AnswerFills
  <2>3. Poll(pollSeq').kind = "poll" /\ Poll(pollSeq').since = pollSeq'
    BY DEF Poll
  <2>4. \A q \in asked' : (q.kind = "tail" => q.since = 0) /\ 1..q.since \subseteq Seen'
    BY <2>1, <2>2, <2>3 DEF SkipInv, Gapless
  <2>5. \A b \in answers' :
          /\ (b.to.kind = "tail" => b.to.since = 0) /\ 1..b.to.since \subseteq Seen'
          /\ \A i \in 1..Len(b.rows) : b.rows[i] = b.to.since + i
    BY <2>1, <2>2 DEF SkipInv, Gapless
  <2> QED BY <2>1, <2>2, <2>4, <2>5 DEF SkipInv, Gapless
<1>11. CASE UNCHANGED vars
  BY <1>11 DEF vars, SkipInv, Gapless, Seen
<1> QED BY <1>1, <1>2, <1>3, <1>4, <1>5, <1>6, <1>7, <1>8, <1>9, <1>10, <1>11 DEF Next

(* In a room that fits into the buffer, whatever frames the firehose loses   *)
(* and whatever polls fail, the cursor of the poll never passes a row the    *)
(* feed has not seen.  A lost link and a failed load are left out: there the *)
(* claim is false (FeedReplica_skip), as the catch-up then starts at a       *)
(* newest row that the firehose may have brought over a gap.                 *)
THEOREM NoRowIsSkipped ==
  ASSUME Whole
  PROVE  Spec => []NothingSkipped
<1>1. Init => SkipInv
  <2> SUFFICES ASSUME Init PROVE SkipInv
    OBVIOUS
  <2>1. Gapless(Tail0(0))
    BY DEF Tail0, Gapless
  <2>2. 1..0 = {}
    OBVIOUS
  <2>3. /\ linked = FALSE /\ links = 0 /\ hose = << >> /\ asked = {Tail0(0)}
        /\ answers = {} /\ feed.last = 0 /\ pollSeq = 0
    BY DEF Init
  <2> QED BY <2>1, <2>2, <2>3 DEF SkipInv
<1>2. SkipInv => NothingSkipped
  BY DEF SkipInv, NothingSkipped
<1>3. IInv /\ SkipInv /\ [Next]_vars => SkipInv'
  BY SkipStep
<1> QED BY <1>1, <1>2, <1>3, Invariant, PTL DEF Spec
=============================================================================
