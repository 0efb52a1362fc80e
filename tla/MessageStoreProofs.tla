------------------------- MODULE MessageStoreProofs -------------------------
(***************************************************************************)
(* What MessageStore guarantees for any messages, rooms, backends, sizes   *)
(* and faults.  The core of the inductive invariant is that a number is    *)
(* claimed for a message - in an answer, in a backend's memory, in a frame *)
(* of the firehose - only when it is committed, and that what is committed *)
(* is never taken back.  The answers of an open transaction are true of    *)
(* the table that transaction sees, which extends the committed one.       *)
(***************************************************************************)
EXTENDS MessageStore, FiniteSetTheorems, TLAPS

(* The transaction only adds rows; outside one nothing is uncommitted. *)
WorkExtends == /\ \A m \in Msgs : rows[m] # 0 => work[m] = rows[m]
               /\ tx # "open" => work = rows

(* An answer's numbers are those of the table f. *)
TrueIn(jobs, res, f) == \A i \in 1..Len(res) : res[i] \in {0, f[jobs[i][1]]}

RepliesTrue == \A r \in replies : TrueIn(r.post.jobs, r.res, rows)

DoneTrue == tx = "open" =>
              /\ \A d \in done : TrueIn(d.post.jobs, d.res, work)
              /\ batch # << >> => TrueIn(Head(batch).jobs, out, work)

OutFits == /\ batch = << >> => out = << >>
           /\ batch # << >> => Len(out) < Len(Head(batch).jobs)
           /\ tx = "none" => batch = << >> /\ done = {}

(* MAX(seq) exists. *)
LastExists(f) ==
  \A m \in Msgs : \E n \in {0} \union {f[k] : k \in InRoom(RoomOf[m])} :
                    \A k \in InRoom(RoomOf[m]) : f[k] <= n

Numbered(f) == Storage!Distinct(f) /\ Storage!GapFree(f) /\ LastExists(f)

Claims == MemoryIsTrue /\ AckedIsStored /\ RepliesTrue

IInv == /\ TypeOK /\ OutFits
        /\ WorkExtends /\ Claims /\ DoneTrue
        /\ Numbered(rows) /\ Numbered(work)
-----------------------------------------------------------------------------
(* seenIds only ever holds numbers it was given. *)
LEMMA RememberedLemma ==
  ASSUME NEW l \in Numbers, NEW new \in Numbers, NEW x \in Remembered(l, new)
  PROVE  x \in Numbers /\ \A m \in Msgs : x[m] \in {0, l[m], new[m]}
<1> DEFINE all == [m \in Msgs |-> IF new[m] # 0 THEN new[m] ELSE l[m]]
<1>1. PICK kept \in SUBSET Known(all) : x = [m \in Msgs |-> IF m \in kept THEN all[m] ELSE 0]
  BY DEF Remembered
<1>2. all \in Numbers /\ \A m \in Msgs : all[m] \in {l[m], new[m]}
  BY DEF Numbers
<1> HIDE DEF all
<1> QED BY <1>1, <1>2 DEF Numbers

(* NextSeq is one more than every number of the room, and the number before  *)
(* it is in use.                                                             *)
LEMMA NextSeqLemma ==
  ASSUME NEW f \in Numbers, LastExists(f), NEW m \in Msgs
  PROVE  LET s == NextSeq(f, RoomOf[m])
         IN  /\ s \in Nat \ {0}
             /\ \A k \in InRoom(RoomOf[m]) : f[k] < s
             /\ s = 1 \/ \E k \in InRoom(RoomOf[m]) : f[k] = s - 1
<1> DEFINE In == InRoom(RoomOf[m])
           S == {0} \union {f[k] : k \in In}
           P(n) == \A k \in In : f[k] <= n
           n == CHOOSE x \in S : P(x)
<1>1. \E x \in S : P(x)
  BY DEF LastExists
<1>2. n \in S /\ P(n)
  <2> HIDE DEF P, S
  <2> QED BY <1>1
<1>3. NextSeq(f, RoomOf[m]) = 1 + n
  BY DEF NextSeq
<1>4. In \subseteq Msgs /\ \A k \in In : f[k] \in Nat
  BY DEF InRoom, Numbers
<1> HIDE DEF n
<1>5. n \in Nat
  BY <1>2, <1>4
<1> QED BY <1>2, <1>3, <1>4, <1>5

(* Giving a message the next number of its room keeps the rooms numbered. *)
LEMMA NumberedLemma ==
  ASSUME NEW f \in Numbers, Numbered(f), NEW m \in Msgs, f[m] = 0
  PROVE  Numbered([f EXCEPT ![m] = NextSeq(f, RoomOf[m])])
<1> DEFINE s == NextSeq(f, RoomOf[m])
           g == [f EXCEPT ![m] = s]
<1>1. /\ s \in Nat \ {0}
      /\ \A k \in InRoom(RoomOf[m]) : f[k] < s
      /\ s = 1 \/ \E k \in InRoom(RoomOf[m]) : f[k] = s - 1
  BY NextSeqLemma DEF Numbered
<1> HIDE DEF s
<1>2. /\ g \in Numbers
      /\ g[m] = s
      /\ \A k \in Msgs : k # m => g[k] = f[k]
  BY <1>1 DEF Numbers
<1>3. \A k \in Msgs : f[k] \in Nat /\ g[k] \in Nat
  BY <1>2 DEF Numbers
<1> HIDE DEF g
<1>4. Storage!Distinct(g)
  <2> SUFFICES ASSUME NEW j \in Msgs, NEW k \in Msgs,
                      RoomOf[j] = RoomOf[k], g[j] = g[k], g[j] # 0
               PROVE  j = k
    BY DEF Storage!Distinct
  <2>1. CASE j # m /\ k # m
    BY <2>1, <1>2 DEF Numbered, Storage!Distinct
  <2>2. CASE j = m /\ k # m
    BY <2>2, <1>1, <1>2, <1>3 DEF InRoom
  <2>3. CASE j # m /\ k = m
    BY <2>3, <1>1, <1>2, <1>3 DEF InRoom
  <2> QED BY <2>1, <2>2, <2>3
<1>5. Storage!GapFree(g)
  <2> SUFFICES ASSUME NEW j \in Msgs, NEW i \in 1..g[j]
               PROVE  \E k \in InRoom(RoomOf[j]) : g[k] = i
    BY DEF Storage!GapFree, Storage!InRoom, InRoom
  <2>1. \A q \in Msgs : \A h \in 1..f[q] : \E k \in InRoom(RoomOf[q]) : f[k] = h
    BY DEF Numbered, Storage!GapFree, Storage!InRoom, InRoom
  <2>2. \A k \in Msgs : f[k] # 0 => g[k] = f[k]
    BY <1>2
  <2>3. CASE j # m
    <3>1. PICK k \in InRoom(RoomOf[j]) : f[k] = i
      BY <2>1, <2>3, <1>2
    <3> QED BY <3>1, <2>2, <1>3 DEF InRoom
  <2>4. CASE j = m /\ i = s
    BY <2>4, <1>2 DEF InRoom
  <2>5. CASE j = m /\ i # s
    <3>1. s # 1 /\ i \in 1..(s - 1)
      BY <2>5, <1>1, <1>2
    <3>2. PICK q \in InRoom(RoomOf[m]) : f[q] = s - 1
      BY <3>1, <1>1
    <3>3. PICK k \in InRoom(RoomOf[q]) : f[k] = i
      BY <3>1, <3>2, <2>1 DEF InRoom
    <3> QED BY <3>2, <3>3, <2>2, <2>5, <3>1 DEF InRoom
  <2> QED BY <2>3, <2>4, <2>5
<1>6. LastExists(g)
  <2> SUFFICES ASSUME NEW j \in Msgs
               PROVE  \E n \in {0} \union {g[k] : k \in InRoom(RoomOf[j])} :
                        \A k \in InRoom(RoomOf[j]) : g[k] <= n
    BY DEF LastExists
  <2>1. CASE RoomOf[j] = RoomOf[m]
    <3>1. \A k \in InRoom(RoomOf[j]) : g[k] <= s
      BY <2>1, <1>1, <1>2, <1>3 DEF InRoom
    <3>2. s \in {g[k] : k \in InRoom(RoomOf[j])}
      BY <2>1, <1>2 DEF InRoom
    <3> QED BY <3>1, <3>2
  <2>2. CASE RoomOf[j] # RoomOf[m]
    <3>1. \A k \in InRoom(RoomOf[j]) : g[k] = f[k]
      BY <2>2, <1>2 DEF InRoom
    <3> QED BY <3>1 DEF Numbered, LastExists
  <2> QED BY <2>1, <2>2
<1> QED BY <1>4, <1>5, <1>6 DEF Numbered, g, s
LEMMA ResultsLemma ==
  ASSUME NEW r \in Replies
  PROVE  /\ Results(r) \in Numbers
         /\ \A m \in Msgs : Results(r)[m] # 0 =>
              \E i \in 1..Len(r.res) : r.post.jobs[i][1] = m /\ Results(r)[m] = r.res[i]
<1> SUFFICES ASSUME NEW m \in Msgs
             PROVE  /\ Results(r)[m] \in Nat
                    /\ Results(r)[m] # 0 =>
                         \E i \in 1..Len(r.res) :
                           r.post.jobs[i][1] = m /\ Results(r)[m] = r.res[i]
  BY DEF Results, Numbers
<1> DEFINE is == {i \in 1..Len(r.res) : r.post.jobs[i][1] = m /\ r.res[i] # 0}
<1>1. Results(r)[m] = IF is = {} THEN 0 ELSE r.res[CHOOSE i \in is : TRUE]
  BY DEF Results
<1>2. is # {} => (CHOOSE i \in is : TRUE) \in is
  OBVIOUS
<1>3. r.res \in Seq(Nat)
  BY DEF Replies
<1>4. CASE is = {}
  <2>1. Results(r)[m] = 0
    <3> HIDE DEF is
    <3> QED BY <1>1, <1>4
  <2> QED BY <2>1
<1>5. CASE is # {}
  <2>1. PICK i \in is : Results(r)[m] = r.res[i]
    <3> HIDE DEF is
    <3> QED BY <1>1, <1>2, <1>5
  <2>2. i \in 1..Len(r.res) /\ r.post.jobs[i][1] = m /\ r.res[i] \in Nat
    BY <1>3
  <2> QED BY <2>1, <2>2
<1> QED BY <1>4, <1>5

LEMMA HeadTail ==
  ASSUME NEW S, NEW q \in Seq(S), q # << >>
  PROVE  Head(q) \in S /\ Tail(q) \in Seq(S) /\ Len(q) \in Nat \ {0}
  OBVIOUS

LEMMA Cut ==
  ASSUME NEW S, NEW q \in Seq(S), NEW n \in 1..Len(q)
  PROVE  /\ SubSeq(q, 1, n) \in Seq(S) \ {<< >>}
         /\ SubSeq(q, n + 1, Len(q)) \in Seq(S)
<1>1. Len(q) \in Nat /\ SubSeq(q, 1, n) \in Seq(S) /\ Len(SubSeq(q, 1, n)) = n
  OBVIOUS
<1>2. SubSeq(q, 1, n) # << >>
  BY <1>1
<1>3. SubSeq(q, n + 1, Len(q)) \in Seq(S)
  OBVIOUS
<1> QED BY <1>1, <1>2, <1>3

(* Recording an outcome keeps the shape of the open batch. *)
LEMMA OutcomeType ==
  ASSUME TypeOK, OutFits, batch # << >>, NEW s \in Nat, Outcome(s)
  PROVE  /\ batch' \in Seq(Posts) /\ out' \in Seq(Nat) /\ done' \subseteq Replies
         /\ batch' = << >> => out' = << >>
         /\ batch' # << >> => Len(out') < Len(Head(batch').jobs)
<1> DEFINE p == Head(batch)
           res == Append(out, s)
<1>1. p \in Posts /\ Tail(batch) \in Seq(Posts)
  BY HeadTail DEF TypeOK
<1>2. \A x \in Posts : x.jobs \in Seq(Attempts) /\ Len(x.jobs) \in Nat \ {0}
  BY HeadTail DEF Posts
<1>3. Len(p.jobs) \in Nat
  BY <1>1, <1>2
<1>4. /\ res \in Seq(Nat) /\ Len(res) = Len(out) + 1 /\ Len(out) \in Nat
      /\ Len(res) <= Len(p.jobs)
  BY <1>3 DEF TypeOK, OutFits
<1>5. batch \in Seq(Posts) /\ done \subseteq Replies
  BY DEF TypeOK
<1>6. CASE Len(res) = Len(p.jobs)
  <2>1. [post |-> p, res |-> res] \in Replies
    BY <1>1, <1>4, <1>6 DEF Replies
  <2>2. /\ done' = done \union {[post |-> p, res |-> res]}
        /\ batch' = Tail(batch) /\ out' = << >>
    BY <1>6 DEF Outcome
  <2>3. Tail(batch) # << >> => Head(Tail(batch)) \in Posts
    BY <1>1, HeadTail
  <2>4. batch' # << >> => Len(out') < Len(Head(batch').jobs)
    BY <1>2, <2>2, <2>3
  <2>5. out' \in Seq(Nat) /\ out' = << >>
    BY <2>2
  <2>6. batch' \in Seq(Posts) /\ done' \subseteq Replies
    <3> HIDE DEF p, res
    <3> QED BY <1>1, <1>5, <2>1, <2>2
  <2> QED BY <2>4, <2>5, <2>6
<1>7. CASE Len(res) # Len(p.jobs)
  <2>1. out' = res /\ UNCHANGED <<done, batch>>
    BY <1>7 DEF Outcome
  <2>2. Len(out') < Len(Head(batch').jobs)
    BY <1>3, <1>4, <1>7, <2>1
  <2> HIDE DEF res
  <2> QED BY <1>4, <1>5, <2>1, <2>2
<1> QED BY <1>6, <1>7

LEMMA NextMsgLemma ==
  ASSUME TypeOK, OutFits, batch # << >>
  PROVE  /\ NextMsg \in Msgs
         /\ Head(batch).jobs[Len(out) + 1][1] = NextMsg
<1>1. Head(batch) \in Posts /\ Len(out) \in Nat
  BY DEF TypeOK
<1>2. Head(batch).jobs \in Seq(Attempts) /\ Len(out) + 1 \in 1..Len(Head(batch).jobs)
  BY <1>1 DEF Posts, OutFits
<1> QED BY <1>2 DEF NextMsg, Attempts

-----------------------------------------------------------------------------
(* An insertion numbers its message and changes no other.                    *)
LEMMA InsertsGive ==
  ASSUME TypeOK, Numbered(work), NEW m \in Msgs, Inserts(m)
  PROVE  /\ SeqOf(m) \in Nat /\ work' \in Numbers /\ work'[m] = SeqOf(m)
         /\ work' = [work EXCEPT ![m] = SeqOf(m)]
         /\ rows' = (IF tx = "auto" THEN work' ELSE rows) /\ rows' \in Numbers
         /\ total' = (IF work[m] # 0 THEN total ELSE total + 1) /\ total' \in Nat
         /\ Numbered(work')
         /\ \A k \in Msgs : work[k] # 0 => work'[k] = work[k]
<1> DEFINE n == NextSeq(work, RoomOf[m])
<1>1. n \in Nat
  BY NextSeqLemma DEF TypeOK, Numbered
<1>2. /\ work' = [work EXCEPT ![m] = SeqOf(m)]
      /\ rows' = IF tx = "auto" THEN work' ELSE rows
      /\ total' = IF work[m] # 0 THEN total ELSE total + 1
  BY DEF Inserts
<1>3. SeqOf(m) = IF work[m] # 0 THEN work[m] ELSE n
  BY DEF SeqOf
<1>4. Numbered(work')
  <2>1. CASE work[m] = 0
    BY <1>2, <1>3, <2>1, NumberedLemma DEF TypeOK
  <2>2. CASE work[m] # 0
    <3>1. work' = work
      BY <1>2, <1>3, <2>2 DEF TypeOK, Numbers
    <3> QED
      BY <3>1
  <2> QED
    BY <2>1, <2>2
<1> HIDE DEF n
<1>5. SeqOf(m) \in Nat
  BY <1>1, <1>3 DEF TypeOK, Numbers
<1>6. work' \in Numbers /\ work'[m] = SeqOf(m)
  BY <1>2, <1>5 DEF TypeOK, Numbers
<1>7. \A k \in Msgs : work[k] # 0 => work'[k] = work[k]
  BY <1>2, <1>3 DEF TypeOK, Numbers
<1> QED
  BY <1>2, <1>4, <1>5, <1>6, <1>7 DEF TypeOK

LEMMA InitLemma == Init => IInv
<1> SUFFICES ASSUME Init PROVE IInv
  OBVIOUS
<1> USE DEF Init, Nothing
<1>1. TypeOK
  BY SizesAssumption DEF TypeOK, Numbers
<1>2. OutFits /\ WorkExtends /\ Claims /\ DoneTrue
  BY DEF OutFits, WorkExtends, Claims, DoneTrue, MemoryIsTrue, AckedIsStored, RepliesTrue
<1>3. Numbered(rows) /\ Numbered(work)
  <2>1. rows = work /\ \A m \in Msgs : rows[m] = 0
    OBVIOUS
  <2>2. Storage!Distinct(rows)
    BY <2>1 DEF Storage!Distinct
  <2>3. Storage!GapFree(rows)
    BY <2>1 DEF Storage!GapFree
  <2>4. LastExists(rows)
    BY <2>1 DEF LastExists, InRoom
  <2> QED BY <2>1, <2>2, <2>3, <2>4 DEF Numbered
<1> QED BY <1>1, <1>2, <1>3 DEF IInv

(* The types, one variable at a time where a step changes it. *)
LEMMA TypeStep == IInv /\ [Next]_vars => TypeOK'
<1> SUFFICES ASSUME IInv, [Next]_vars PROVE TypeOK'
  OBVIOUS
<1> USE DEF IInv, TypeOK
<1>1. ASSUME NEW m \in Msgs, NEW b \in Backends, AnswerFromMemory(m, b)
      PROVE  TypeOK'
  <2>1. tries' = [tries EXCEPT ![m] = tries[m] + 1] /\ tries[m] < MaxTries
    BY <1>1 DEF AnswerFromMemory
  <2>2. tries' \in [Msgs -> 0..MaxTries]
    BY <2>1, SizesAssumption
  <2>3. told' = [told EXCEPT ![m] = told[m] \union {lru[b][m]}] /\ lru[b][m] \in Nat
    BY <1>1 DEF AnswerFromMemory, Numbers
  <2>4. told' \in [Msgs -> SUBSET Nat]
    BY <2>3
  <2>5. UNCHANGED <<open, queue, lru, pubVars, netVars, dbVars, faults>>
    BY <1>1 DEF AnswerFromMemory
  <2> QED BY <2>2, <2>4, <2>5 DEF pubVars, netVars, dbVars
<1>2. ASSUME NEW m \in Msgs, NEW b \in Backends, QueueAppend(m, b)
      PROVE  TypeOK'
  <2>1. tries[m] + 1 \in 1..MaxTries /\ <<m, tries[m] + 1>> \in Attempts
    BY <1>2, SizesAssumption DEF QueueAppend, Attempts
  <2>2. /\ queue' \in [Backends -> Seq(Attempts)]
        /\ open' \subseteq Attempts \X Backends
    <3> DEFINE a == <<m, tries[m] + 1>>
    <3>1. queue' = [queue EXCEPT ![b] = Append(@, a)] /\ open' = open \union {<<a, b>>}
      BY <1>2 DEF QueueAppend
    <3>2. a \in Attempts
      BY <2>1
    <3> HIDE DEF a
    <3> QED BY <3>1, <3>2
  <2> QED BY <1>2, <2>1, <2>2 DEF QueueAppend, pubVars, netVars, dbVars
<1>3. ASSUME NEW m \in Msgs, NEW b \in Backends, PostEntry(m, b)
      PROVE  TypeOK'
  <2>1. tries[m] + 1 \in 1..MaxTries /\ <<m, tries[m] + 1>> \in Attempts
    BY <1>3, SizesAssumption DEF PostEntry, Attempts
  <2>2. Post(b, << <<m, tries[m] + 1>> >>) \in Posts
    BY <2>1 DEF Post, Posts
  <2>3. open' \subseteq Attempts \X Backends
    <3> DEFINE a == <<m, tries[m] + 1>>
    <3>1. open' = open \union {<<a, b>>}
      BY <1>3 DEF PostEntry
    <3>2. a \in Attempts
      BY <2>1
    <3> HIDE DEF a
    <3> QED BY <3>1, <3>2
  <2>4. posts' \subseteq Posts /\ wire' \subseteq Posts
    BY <1>3, <2>2 DEF PostEntry
  <2>5. tries' \in [Msgs -> 0..MaxTries]
    BY <1>3, <2>1, SizesAssumption DEF PostEntry
  <2>6. UNCHANGED <<told, queue, lru, pubVars, replies, dbVars, faults>>
    BY <1>3 DEF PostEntry
  <2> QED BY <2>3, <2>4, <2>5, <2>6 DEF pubVars, dbVars
<1>4. ASSUME NEW b \in Backends, FlushQueue(b)
      PROVE  TypeOK'
  <2> DEFINE n == IF Len(queue[b]) > BatchMax THEN BatchMax ELSE Len(queue[b])
             p == Post(b, SubSeq(queue[b], 1, n))
  <2>0. queue[b] \in Seq(Attempts) /\ Len(queue[b]) \in Nat \ {0}
    BY <1>4 DEF FlushQueue
  <2>1. n \in Nat \ {0} /\ n <= Len(queue[b]) /\ queue[b] \in Seq(Attempts)
    BY <2>0, SizesAssumption
  <2>2. /\ SubSeq(queue[b], 1, n) \in Seq(Attempts) \ {<< >>}
        /\ SubSeq(queue[b], n + 1, Len(queue[b])) \in Seq(Attempts)
    <3>1. n \in 1..Len(queue[b]) /\ queue[b] \in Seq(Attempts)
      BY <2>0, <2>1
    <3> HIDE DEF n
    <3> QED BY ONLY <3>1, Cut
  <2>3. p \in Posts
    BY <2>2 DEF Post, Posts
  <2>4. /\ queue' = [queue EXCEPT ![b] = SubSeq(@, n + 1, Len(@))]
        /\ posts' = posts \union {p} /\ wire' = wire \union {p}
        /\ UNCHANGED <<tries, told, open, lru, pubVars, replies, dbVars, faults>>
    BY <1>4 DEF FlushQueue
  <2> HIDE DEF n, p
  <2> QED BY <2>2, <2>3, <2>4 DEF pubVars, dbVars
<1>5. ASSUME NEW b \in Backends, LinkLost(b)
      PROVE  TypeOK'
  BY <1>5, SizesAssumption DEF LinkLost, Fault, netVars, dbVars
<1>6. ASSUME NEW b \in Backends, LinkRestored(b)
      PROVE  TypeOK'
  BY <1>6 DEF LinkRestored, netVars, dbVars
<1>7. ASSUME NEW b \in Backends, BackendCrash(b)
      PROVE  TypeOK'
  BY <1>7, SizesAssumption DEF BackendCrash, Fault, Nothing, Numbers, dbVars
<1>8. ASSUME NEW b \in Backends, NEW f \in fire[b], FrameArrives(b, f)
      PROVE  TypeOK'
  <2>1. PICK l \in Remembered(lru[b], f) : lru' = [lru EXCEPT ![b] = l]
    BY <1>8 DEF FrameArrives
  <2>2. l \in Numbers
    BY RememberedLemma
  <2> QED BY <1>8, <2>1, <2>2 DEF FrameArrives, netVars, dbVars
<1>9. ASSUME NEW r \in replies, PostReturns(r)
      PROVE  TypeOK'
  <2>1. PICK l \in Remembered(lru[r.post.from], Results(r)) :
           lru' = [lru EXCEPT ![r.post.from] = l]
    BY <1>9 DEF PostReturns
  <2>2. r \in Replies /\ r.post \in Posts /\ r.post.from \in Backends
    BY DEF Replies, Posts
  <2>3. Results(r) \in Numbers
    BY <2>2, ResultsLemma
  <2>4. l \in Numbers
    BY <2>2, <2>3, RememberedLemma
  <2>5. Resent(r.post) \subseteq Posts
    BY <2>2 DEF Resent, Posts
  <2>6. told' \in [Msgs -> SUBSET Nat]
    BY <1>9, <2>3 DEF PostReturns, Numbers
  <2>7. /\ replies' \subseteq Replies /\ posts' \subseteq Posts /\ wire' \subseteq Posts
        /\ open' \subseteq Attempts \X Backends
    BY <1>9, <2>5 DEF PostReturns
  <2>8. UNCHANGED <<tries, queue, pubVars, dbVars, faults>>
    BY <1>9 DEF PostReturns
  <2> QED BY <2>1, <2>4, <2>6, <2>7, <2>8 DEF pubVars, dbVars
<1>10. ASSUME NEW p \in posts, PostFails(p)
       PROVE  TypeOK'
  <2>1. Resent(p) \subseteq Posts
    BY DEF Resent, Posts
  <2>2. faults' \in 0..MaxFaults
    BY <1>10, SizesAssumption DEF PostFails, Fault
  <2> QED BY <1>10, <2>1, <2>2 DEF PostFails, pubVars, dbVars
<1>11. ASSUME NEW p \in wire, DbReceive(p)
       PROVE  TypeOK'
  BY <1>11 DEF DbReceive, pubVars
<1>12. CASE TxBegin
  BY <1>12 DEF TxBegin, pubVars, netVars
<1>13. CASE AppendOne
  <2>1. batch # << >> /\ NextMsg \in Msgs /\ Inserts(NextMsg) /\ Outcome(SeqOf(NextMsg))
    BY <1>13, NextMsgLemma DEF AppendOne
  <2>2. work' \in Numbers /\ rows' \in Numbers /\ total' \in Nat /\ SeqOf(NextMsg) \in Nat
    BY <2>1, InsertsGive
  <2>3. batch' \in Seq(Posts) /\ out' \in Seq(Nat) /\ done' \subseteq Replies
    BY <2>1, <2>2, OutcomeType
  <2> QED BY <1>13, <2>2, <2>3 DEF AppendOne, pubVars, netVars
<1>14. CASE RowFails
  <2>1. batch # << >> /\ NextMsg \in Msgs /\ Outcome(0)
    BY <1>14, NextMsgLemma DEF RowFails
  <2>2. batch' \in Seq(Posts) /\ out' \in Seq(Nat) /\ done' \subseteq Replies
    BY <2>1, OutcomeType
  <2>3. faults' \in 0..MaxFaults
    BY <1>14, SizesAssumption DEF RowFails, Fault
  <2>4. work' \in Numbers /\ rows' \in Numbers /\ total' \in Nat /\ tx' \in {"none", "open", "auto"}
    <3>1. CASE Inserts(NextMsg) /\ tx' = tx
      BY <2>1, <3>1, InsertsGive
    <3>2. CASE ~(Inserts(NextMsg) /\ tx' = tx)
      BY <1>14, <3>2 DEF RowFails
    <3> QED BY <3>1, <3>2
  <2> QED BY <1>14, <2>2, <2>3, <2>4 DEF RowFails, pubVars, netVars
<1>15. CASE Commit
  <2>1. fire' \in [Backends -> SUBSET Numbers]
    <3> DEFINE new    == {m \in Msgs : rows[m] # work[m] /\ Reported(m)}
               frames == {[m \in Msgs |-> IF m \in new /\ RoomOf[m] = r THEN work[m] ELSE 0] :
                            r \in {RoomOf[m] : m \in new}}
    <3>1. frames \subseteq Numbers
      <4>1. \A i \in Msgs : work[i] \in Nat
        BY DEF Numbers
      <4>2. SUFFICES ASSUME NEW r \in {RoomOf[i] : i \in new}
                     PROVE  [i \in Msgs |-> IF i \in new /\ RoomOf[i] = r THEN work[i] ELSE 0]
                              \in [Msgs -> Nat]
        BY DEF Numbers
      <4> HIDE DEF new
      <4> QED BY <4>1
    <3>2. fire' = [b \in Backends |-> IF b \in linked THEN fire[b] \union frames ELSE fire[b]]
      BY <1>15 DEF Commit
    <3> HIDE DEF frames
    <3> QED BY <3>1, <3>2
  <2>2. replies' \subseteq Replies
    BY <1>15 DEF Commit, Answer
  <2> QED BY <1>15, <2>1, <2>2 DEF Commit
<1>16. CASE CommitFails
  <2>1. \A d \in done : Rejected(d.post) \in Replies
    <3> SUFFICES ASSUME NEW d \in done PROVE Rejected(d.post) \in Replies
      OBVIOUS
    <3>1. d.post \in Posts /\ Len(d.post.jobs) \in Nat
      BY DEF Replies, Posts
    <3> DEFINE zeros == [i \in 1..Len(d.post.jobs) |-> 0]
    <3>2. zeros \in Seq(Nat) /\ Len(zeros) = Len(d.post.jobs)
      BY <3>1
    <3> QED BY <3>1, <3>2 DEF Rejected, Replies
  <2>2. replies' \subseteq Replies
    BY <1>16, <2>1 DEF CommitFails, Answer, Failed
  <2>3. faults' \in 0..MaxFaults
    BY <1>16, SizesAssumption DEF CommitFails, Fault
  <2> QED BY <1>16, <2>2, <2>3 DEF CommitFails, pubVars
<1>17. CASE DbCrash
  <2>1. total' \in Nat
    BY <1>17, MsgsAssumption, FS_Subset, FS_CardinalityType DEF DbCrash, Known, CountRows
  <2> QED BY <1>17, <2>1, SizesAssumption DEF DbCrash, Fault
<1>18. CASE UNCHANGED vars
  BY <1>18 DEF vars, pubVars, netVars, dbVars
<1> QED BY <1>1, <1>2, <1>3, <1>4, <1>5, <1>6, <1>7, <1>8, <1>9, <1>10, <1>11,
           <1>12, <1>13, <1>14, <1>15, <1>16, <1>17, <1>18 DEF Next
-----------------------------------------------------------------------------
(* The steps outside the database service leave its variables alone. *)
LEMMA DbCases ==
  [Next]_vars => \/ UNCHANGED dbVars
                 \/ \E p \in wire : DbReceive(p)
                 \/ TxBegin \/ AppendOne \/ RowFails \/ Commit \/ CommitFails \/ DbCrash
  BY DEF Next, vars, AnswerFromMemory, QueueAppend, PostEntry, FlushQueue, LinkLost,
         LinkRestored, BackendCrash, FrameArrives, PostReturns, PostFails

(* What an entry's outcome adds to the answers is true if the number is. *)
LEMMA OutcomeTrue ==
  ASSUME TypeOK, OutFits, batch # << >>, NEW s \in Nat, Outcome(s), NEW f \in Numbers,
         s \in {0, f[NextMsg]},
         TrueIn(Head(batch).jobs, out, f),
         \A d \in done : TrueIn(d.post.jobs, d.res, f)
  PROVE  /\ \A d \in done' : TrueIn(d.post.jobs, d.res, f)
         /\ batch' # << >> => TrueIn(Head(batch').jobs, out', f)
<1> DEFINE p == Head(batch)
           res == Append(out, s)
<1>1. Head(batch).jobs[Len(out) + 1][1] = NextMsg
  BY NextMsgLemma
<1>2. TrueIn(p.jobs, res, f)
  <2>1. out \in Seq(Nat)
    BY DEF TypeOK
  <2> SUFFICES ASSUME NEW i \in 1..Len(res) PROVE res[i] \in {0, f[p.jobs[i][1]]}
    BY DEF TrueIn
  <2>2. CASE i = Len(out) + 1
    BY <1>1, <2>1, <2>2
  <2>3. CASE i # Len(out) + 1
    BY <2>1, <2>3 DEF TrueIn
  <2> QED BY <2>2, <2>3
<1>3. CASE Len(res) = Len(p.jobs)
  <2>1. /\ done' = done \union {[post |-> p, res |-> res]}
        /\ batch' = Tail(batch) /\ out' = << >>
    BY <1>3 DEF Outcome
  <2>2. TrueIn(Head(batch').jobs, out', f)
    BY <2>1 DEF TrueIn
  <2> HIDE DEF p, res
  <2> QED BY <1>2, <2>1, <2>2
<1>4. CASE Len(res) # Len(p.jobs)
  <2>1. out' = res /\ UNCHANGED <<done, batch>>
    BY <1>4 DEF Outcome
  <2> QED BY <1>2, <2>1
<1> QED BY <1>3, <1>4

(* An answer that is true stays true when rows are added. *)
LEMMA TrueInGrows ==
  ASSUME NEW f \in Numbers, NEW g \in Numbers, \A m \in Msgs : f[m] # 0 => g[m] = f[m],
         NEW d \in Replies, TrueIn(d.post.jobs, d.res, f)
  PROVE  TrueIn(d.post.jobs, d.res, g)
<1>1. /\ \A i \in 1..Len(d.res) : d.post.jobs[i][1] \in Msgs
  BY DEF Replies, Posts, Attempts
<1> QED BY <1>1 DEF TrueIn, Numbers

LEMMA DbStep ==
  IInv /\ [Next]_vars => /\ OutFits' /\ WorkExtends' /\ DoneTrue'
                         /\ Numbered(rows)' /\ Numbered(work)'
                         /\ \A m \in Msgs : rows[m] # 0 => rows'[m] = rows[m]
<1> DEFINE Goal == /\ OutFits' /\ WorkExtends' /\ DoneTrue'
                   /\ Numbered(rows') /\ Numbered(work')
                   /\ \A m \in Msgs : rows[m] # 0 => rows'[m] = rows[m]
<1> SUFFICES ASSUME IInv, [Next]_vars PROVE Goal
  OBVIOUS
<1>0. TypeOK'
  BY TypeStep
<1> USE DEF IInv
<1>1. CASE UNCHANGED dbVars
  BY <1>1 DEF dbVars, OutFits, WorkExtends, DoneTrue
<1>2. ASSUME NEW p \in wire, DbReceive(p)
      PROVE  Goal
  BY <1>2 DEF DbReceive, OutFits, WorkExtends, DoneTrue
<1>3. CASE TxBegin
  <2>1. Head(pending) \in Posts
    BY <1>3, HeadTail DEF TxBegin, TypeOK
  <2>2. Len(Head(pending).jobs) > 0
    BY <2>1, HeadTail DEF Posts
  <2>3. OutFits' /\ out' = << >> /\ done' = {}
    BY <1>3, <2>2 DEF TxBegin, OutFits
  <2> QED BY <1>3, <2>3 DEF TxBegin, WorkExtends, DoneTrue, TrueIn
<1>4. ASSUME tx # "none", batch # << >>, Inserts(NextMsg), tx' = tx,
             NEW s \in {0, SeqOf(NextMsg)}, Outcome(s)
      PROVE  Goal
  <2> DEFINE m == NextMsg
  <2>1. m \in Msgs /\ batch # << >> /\ tx # "none"
    BY <1>4, NextMsgLemma
  <2>2. /\ SeqOf(m) \in Nat /\ work' \in Numbers /\ work'[m] = SeqOf(m)
        /\ rows' = (IF tx = "auto" THEN work' ELSE rows)
        /\ Numbered(work')
        /\ \A k \in Msgs : work[k] # 0 => work'[k] = work[k]
        /\ Outcome(s) /\ tx' = tx
    BY <1>4, <2>1, InsertsGive
  <2>4. s \in Nat /\ s \in {0, work'[m]}
    BY <1>4, <2>2
  <2>5. \A k \in Msgs : work[k] # 0 => work'[k] = work[k]
    BY <2>2
  <2>6. Numbered(work')
    BY <2>2
  <2>7. Numbered(rows')
    BY <2>2
  <2> HIDE DEF m
  <2>8. OutFits'
    BY <2>1, <2>2, <2>4, OutcomeType DEF OutFits
  <2>9. WorkExtends' /\ \A k \in Msgs : rows[k] # 0 => rows'[k] = rows[k]
    <3>1. CASE tx = "auto"
      BY <2>2, <2>5, <3>1 DEF WorkExtends
    <3>2. CASE tx = "open"
      BY <2>2, <2>5, <3>2 DEF WorkExtends
    <3> QED BY <2>1, <3>1, <3>2 DEF TypeOK
  <2>10. DoneTrue'
    <3> SUFFICES ASSUME tx' = "open"
                 PROVE  /\ \A d \in done' : TrueIn(d.post.jobs, d.res, work')
                        /\ batch' # << >> => TrueIn(Head(batch').jobs, out', work')
      BY DEF DoneTrue
    <3>1. tx = "open"
      BY <2>2
    <3>2. \A d \in done : TrueIn(d.post.jobs, d.res, work')
      BY <2>2, <2>5, <3>1, TrueInGrows DEF DoneTrue, TypeOK
    <3>3. TrueIn(Head(batch).jobs, out, work')
      <4>1. Head(batch) \in Posts /\ out \in Seq(Nat)
        BY <2>1, HeadTail DEF TypeOK
      <4>2. \A i \in 1..Len(out) : Head(batch).jobs[i][1] \in Msgs
        BY <2>1, <4>1 DEF Posts, Attempts, OutFits
      <4>3. TrueIn(Head(batch).jobs, out, work)
        BY <2>1, <3>1 DEF DoneTrue
      <4> QED BY <2>2, <2>5, <4>2, <4>3 DEF TrueIn, TypeOK, Numbers
    <3>4. s \in {0, work'[NextMsg]}
      BY <2>4 DEF m
    <3> QED BY <2>1, <2>2, <2>4, <3>2, <3>3, <3>4, OutcomeTrue
  <2> QED BY <2>6, <2>7, <2>8, <2>9, <2>10
<1>5. ASSUME tx # "none", batch # << >>, Outcome(0), rows' = rows,
             UNCHANGED <<tx, work>> \/ (tx' = "auto" /\ work' = rows)
      PROVE  Goal
  <2>2. OutFits'
    BY <1>5, OutcomeType DEF OutFits
  <2>3. DoneTrue'
    <3>1. CASE tx' = "open"
      <4>1. tx = "open" /\ work' = work
        BY <1>5, <3>1
      <4> QED BY <1>5, <4>1, OutcomeTrue DEF DoneTrue, TypeOK
    <3> QED BY <3>1 DEF DoneTrue
  <2> QED BY <1>5, <2>2, <2>3 DEF WorkExtends
<1>9. CASE AppendOne
  BY <1>4, <1>9 DEF AppendOne
<1>10. CASE RowFails
  BY <1>4, <1>5, <1>10 DEF RowFails
<1>6. CASE Commit
  BY <1>6 DEF Commit, OutFits, WorkExtends, DoneTrue
<1>7. CASE CommitFails
  BY <1>7 DEF CommitFails, OutFits, WorkExtends, DoneTrue
<1>8. CASE DbCrash
  BY <1>8 DEF DbCrash, OutFits, WorkExtends, DoneTrue
<1> QED BY <1>1, <1>2, <1>3, <1>6, <1>7, <1>8, <1>9, <1>10, DbCases

(* What a step adds to the claims about stored messages is true. *)
LEMMA ClaimsStep == IInv /\ [Next]_vars => Claims'
<1> SUFFICES ASSUME IInv, [Next]_vars PROVE Claims'
  OBVIOUS
<1>0. TypeOK'
  BY TypeStep
<1>1. \A m \in Msgs : rows[m] # 0 => rows'[m] = rows[m]
  BY DbStep
<1>2. /\ rows \in Numbers /\ rows' \in Numbers
      /\ \A m \in Msgs : rows[m] \in Nat /\ rows'[m] \in Nat
  BY <1>0 DEF IInv, TypeOK, Numbers
(* A memory or a frame that is true of rows is true of rows'. *)
<1>3. ASSUME NEW f, \A m \in Msgs : f[m] \in {0, rows[m]}
      PROVE  \A m \in Msgs : f[m] \in {0, rows'[m]}
  BY <1>1, <1>3
<1> DEFINE True(f) == \A m \in Msgs : f[m] \in {0, rows'[m]}
<1>4. /\ \A b \in Backends : True(lru[b]) /\ \A f \in fire[b] : True(f)
      /\ \A m \in Msgs : told[m] \subseteq {rows'[m]} \ {0}
  BY <1>1, <1>3 DEF IInv, Claims, MemoryIsTrue, AckedIsStored
<1>5. \A r \in replies : r \in Replies /\ TrueIn(r.post.jobs, r.res, rows')
  <2> SUFFICES ASSUME NEW r \in replies
               PROVE  r \in Replies /\ TrueIn(r.post.jobs, r.res, rows')
    OBVIOUS
  <2>1. r \in Replies /\ TrueIn(r.post.jobs, r.res, rows)
    BY DEF IInv, TypeOK, Claims, RepliesTrue
  <2> QED BY <1>1, <1>2, <2>1, TrueInGrows
<1>6. True(Nothing)
  BY DEF Nothing
(* What a backend remembers is true when the numbers it is given are. *)
<1>7. ASSUME NEW b \in Backends, NEW new \in Numbers, True(new),
             NEW l \in Remembered(lru[b], new)
      PROVE  True(l)
  <2>1. \A m \in Msgs : l[m] \in {0, lru[b][m], new[m]}
    BY RememberedLemma DEF IInv, TypeOK
  <2> QED BY <1>4, <1>7, <2>1
<1> DEFINE Memory == \A b \in Backends : True(lru'[b]) /\ \A f \in fire'[b] : True(f)
           Acked  == \A m \in Msgs : told'[m] \subseteq {rows'[m]} \ {0}
           Answers == \A r \in replies' : TrueIn(r.post.jobs, r.res, rows')
<1> SUFFICES Memory /\ Acked /\ Answers
  BY DEF Claims, MemoryIsTrue, AckedIsStored, RepliesTrue
<1>8. TypeOK
  BY DEF IInv
<1> HIDE DEF True
<1>9. ASSUME NEW m \in Msgs, NEW b \in Backends, AnswerFromMemory(m, b)
      PROVE  Memory /\ Acked /\ Answers
  <2>1. told' = [told EXCEPT ![m] = @ \union {lru[b][m]}] /\ lru[b][m] # 0
        /\ UNCHANGED <<lru, fire, replies>>
    BY <1>9 DEF AnswerFromMemory, pubVars, netVars
  <2>2. lru[b][m] = rows'[m]
    BY <1>4, <2>1 DEF True
  <2>3. Acked
    BY <1>4, <1>8, <2>1, <2>2 DEF TypeOK
  <2> QED BY <1>4, <1>5, <2>1, <2>3
<1>10. ASSUME UNCHANGED <<told, lru, fire, replies>>
       PROVE  Memory /\ Acked /\ Answers
  BY <1>4, <1>5, <1>10
<1>11. ASSUME NEW b \in Backends, LinkLost(b)
       PROVE  Memory /\ Acked /\ Answers
  BY <1>4, <1>5, <1>8, <1>11 DEF LinkLost, TypeOK, netVars
<1>12. ASSUME NEW b \in Backends, BackendCrash(b)
       PROVE  Memory /\ Acked /\ Answers
  BY <1>4, <1>5, <1>6, <1>8, <1>12 DEF BackendCrash, TypeOK
<1>13. ASSUME NEW b \in Backends, NEW f \in fire[b], FrameArrives(b, f)
       PROVE  Memory /\ Acked /\ Answers
  <2>1. PICK l \in Remembered(lru[b], f) : lru' = [lru EXCEPT ![b] = l]
    BY <1>13 DEF FrameArrives
  <2>2. f \in Numbers /\ True(f)
    BY <1>4, <1>8 DEF TypeOK
  <2>3. True(l)
    BY <1>7, <2>2
  <2>4. fire' = [fire EXCEPT ![b] = @ \ {f}] /\ UNCHANGED <<told, replies>>
    BY <1>13 DEF FrameArrives, netVars
  <2>5. Memory
    BY <1>4, <1>8, <2>1, <2>3, <2>4 DEF TypeOK
  <2> QED BY <1>4, <1>5, <2>4, <2>5
<1>14. ASSUME NEW r \in replies, PostReturns(r)
       PROVE  Memory /\ Acked /\ Answers
  <2> DEFINE new == Results(r)
  <2>1. r \in Replies /\ TrueIn(r.post.jobs, r.res, rows') /\ r.post.from \in Backends
    BY <1>5 DEF Replies, Posts
  <2>2. /\ new \in Numbers
        /\ \A m \in Msgs : new[m] # 0 =>
             \E i \in 1..Len(r.res) : r.post.jobs[i][1] = m /\ new[m] = r.res[i]
    BY <2>1, ResultsLemma
  <2>3. PICK l \in Remembered(lru[r.post.from], new) : lru' = [lru EXCEPT ![r.post.from] = l]
    BY <1>14 DEF PostReturns
  <2>4. /\ told' = [m \in Msgs |-> IF new[m] # 0 THEN told[m] \union {new[m]} ELSE told[m]]
        /\ replies' \subseteq replies /\ fire' = fire
    BY <1>14 DEF PostReturns, pubVars
  <2> HIDE DEF new
  <2>5. True(new)
    BY <2>1, <2>2 DEF True, TrueIn
  <2>6. True(l)
    BY <1>7, <2>1, <2>2, <2>5
  <2>7. Memory
    BY <1>4, <1>8, <2>1, <2>3, <2>4, <2>6 DEF TypeOK
  <2>8. Acked
    <3> SUFFICES ASSUME NEW m \in Msgs PROVE told'[m] \subseteq {rows'[m]} \ {0}
      OBVIOUS
    <3>1. new[m] # 0 => new[m] = rows'[m]
      BY <2>5 DEF True
    <3> QED BY <1>4, <2>4, <3>1
  <2> QED BY <1>5, <2>4, <2>7, <2>8
<1>15. ASSUME NEW p \in posts, PostFails(p)
       PROVE  Memory /\ Acked /\ Answers
  BY <1>4, <1>5, <1>15 DEF PostFails, pubVars
<1>16. CASE Commit
  <2> DEFINE new    == {m \in Msgs : rows[m] # work[m] /\ Reported(m)}
             frames == {[m \in Msgs |-> IF m \in new /\ RoomOf[m] = r THEN work[m] ELSE 0] :
                          r \in {RoomOf[m] : m \in new}}
  <2>1. rows' = work /\ UNCHANGED <<told, lru>> /\ replies' = replies \union {d \in done : d.post \in posts}
    BY <1>16 DEF Commit, Answer
  <2>2. fire' = [b \in Backends |-> IF b \in linked THEN fire[b] \union frames ELSE fire[b]]
    BY <1>16 DEF Commit
  <2>3. \A f \in frames : True(f)
    BY <2>1 DEF True
  <2>4. \A d \in done : TrueIn(d.post.jobs, d.res, rows')
    BY <1>16, <2>1 DEF Commit, IInv, DoneTrue
  <2> HIDE DEF frames
  <2> QED BY <1>4, <1>5, <2>1, <2>2, <2>3, <2>4
<1>17. CASE CommitFails
  <2>1. /\ UNCHANGED <<told, lru, fire>>
        /\ replies' = replies \union {d \in {Rejected(x.post) : x \in done} : d.post \in posts}
    BY <1>17 DEF CommitFails, Answer, Failed, pubVars
  <2>2. \A x \in done : TrueIn(Rejected(x.post).post.jobs, Rejected(x.post).res, rows')
    <3> SUFFICES ASSUME NEW x \in done, NEW i \in 1..Len(Rejected(x.post).res)
                 PROVE  Rejected(x.post).res[i] = 0
      BY DEF TrueIn
    <3>1. Len(x.post.jobs) \in Nat
      BY <1>8, HeadTail DEF TypeOK, Replies, Posts
    <3> QED BY <3>1 DEF Rejected
  <2> QED BY <1>4, <1>5, <2>1, <2>2
<1>18. CASE DbCrash
  BY <1>4, <1>8, <1>18 DEF DbCrash, TypeOK
<1> QED
  <2>1. CASE UNCHANGED vars
    BY <1>10, <2>1 DEF vars, pubVars, netVars
  <2>2. ASSUME NEW b \in Backends, \E m \in Msgs : QueueAppend(m, b) \/ PostEntry(m, b)
        PROVE  Memory /\ Acked /\ Answers
    BY <1>10, <2>2 DEF QueueAppend, PostEntry, pubVars, netVars
  <2>3. ASSUME NEW b \in Backends, FlushQueue(b) \/ LinkRestored(b)
        PROVE  Memory /\ Acked /\ Answers
    BY <1>10, <2>3 DEF FlushQueue, LinkRestored, pubVars, netVars
  <2>4. ASSUME NEW p \in wire, DbReceive(p)
        PROVE  Memory /\ Acked /\ Answers
    BY <1>10, <2>4 DEF DbReceive, pubVars
  <2>5. ASSUME TxBegin \/ AppendOne \/ RowFails
        PROVE  Memory /\ Acked /\ Answers
    BY <1>10, <2>5 DEF TxBegin, AppendOne, RowFails, pubVars, netVars
  <2> HIDE DEF Memory, Acked, Answers
  <2> QED BY <1>9, <1>11, <1>12, <1>13, <1>14, <1>15, <1>16, <1>17, <1>18,
             <2>1, <2>2, <2>3, <2>4, <2>5 DEF Next
-----------------------------------------------------------------------------
(* The inductive invariant. *)
THEOREM Invariance == Spec => []IInv
<1>1. IInv /\ [Next]_vars => IInv'
  BY TypeStep, DbStep, ClaimsStep DEF IInv
<1> QED BY InitLemma, <1>1, PTL DEF Spec

(* Every variable keeps its type. *)
THEOREM TypeCorrect == Spec => []TypeOK
<1>1. IInv => TypeOK
  BY DEF IInv
<1> QED BY Invariance, <1>1, PTL

(* The numbers of every room are 1, 2, 3 without a gap or a repetition,      *)
(* whatever fails: seq of db_service.js is "gap-free" as its schema says.    *)
THEOREM RoomsAreNumbered == Spec => []Numbering
<1>1. IInv => Numbering
  BY DEF IInv, Numbering, Numbered
<1> QED BY Invariance, <1>1, PTL

(* Every number a sender is ever told is the one its message is stored       *)
(* under: a retry through any backend never gets another.                    *)
THEOREM AnswersAreTrue == Spec => []AckedIsStored
<1>1. IInv => AckedIsStored
  BY DEF IInv, Claims
<1> QED BY Invariance, <1>1, PTL

(* The first layer of the duplicate guard, seenIds, knows only messages that *)
(* are committed, so it never suppresses one that is not.                    *)
THEOREM MemoriesAreTrue == Spec => []MemoryIsTrue
<1>1. IInv => MemoryIsTrue
  BY DEF IInv, Claims
<1> QED BY Invariance, <1>1, PTL

(* totalRows counts the rows that an open transaction has added already, so  *)
(* a rollback leaves it too high and never too low.                          *)
CountFromWork == total >= Cardinality(Known(work))

LEMMA KnownFinite ==
  ASSUME NEW f
  PROVE  IsFiniteSet(Known(f)) /\ Cardinality(Known(f)) \in Nat
<1>1. Known(f) \subseteq Msgs
  BY DEF Known
<1> QED BY <1>1, MsgsAssumption, FS_Subset, FS_CardinalityType

(* A rollback takes rows away, it never adds one.                            *)
LEMMA RollbackShrinks == IInv => Cardinality(Known(rows)) <= Cardinality(Known(work))
<1> SUFFICES ASSUME IInv PROVE Cardinality(Known(rows)) <= Cardinality(Known(work))
  OBVIOUS
<1>1. Known(rows) \subseteq Known(work)
  BY DEF IInv, WorkExtends, Known
<1> QED BY <1>1, KnownFinite, FS_Subset

LEMMA CountStep == IInv /\ CountFromWork /\ [Next]_vars => CountFromWork'
<1> SUFFICES ASSUME IInv, CountFromWork, [Next]_vars PROVE CountFromWork'
  OBVIOUS
<1>0. /\ total \in Nat /\ work \in Numbers
      /\ total >= Cardinality(Known(work))
      /\ Cardinality(Known(work)) \in Nat /\ Cardinality(Known(rows)) \in Nat
      /\ Cardinality(Known(rows)) <= Cardinality(Known(work))
  BY KnownFinite, RollbackShrinks DEF IInv, TypeOK, CountFromWork
<1>1. CASE UNCHANGED <<work, total>>
  BY <1>0, <1>1 DEF CountFromWork, Known
<1>2. CASE work' = rows /\ total' \in {total, total + 1}
  <2>1. Known(work)' = Known(rows)
    BY <1>2 DEF Known
  <2> QED BY <1>0, <1>2, <2>1 DEF CountFromWork
<1>3. ASSUME batch # << >>, Inserts(NextMsg)
      PROVE  CountFromWork'
  <2> DEFINE m == NextMsg
             s == SeqOf(m)
  <2>1. /\ work' = [work EXCEPT ![m] = s]
        /\ total' = IF work[m] # 0 THEN total ELSE total + 1
    BY <1>3 DEF Inserts
  <2>2. m \in Msgs
    BY <1>3, NextMsgLemma DEF IInv
  <2> HIDE DEF m
  <2>3. CASE work[m] # 0
    <3>1. work' = work /\ total' = total
      BY <1>0, <2>1, <2>2, <2>3 DEF Numbers, SeqOf
    <3> QED BY <1>1, <3>1
  <2>4. CASE work[m] = 0
    <3>1. Known(work)' \subseteq Known(work) \union {m}
      <4> HIDE DEF s
      <4> QED BY <1>0, <2>1, <2>2 DEF Known, Numbers
    <3>2. /\ IsFiniteSet(Known(work) \union {m})
          /\ Cardinality(Known(work) \union {m}) <= Cardinality(Known(work)) + 1
      <4> DEFINE K == Known(work)
      <4>1. IsFiniteSet(K) /\ Cardinality(K) \in Nat
        BY KnownFinite
      <4> HIDE DEF K
      <4>2. /\ IsFiniteSet(K \union {m})
            /\ Cardinality(K \union {m}) =
                 IF m \in K THEN Cardinality(K) ELSE Cardinality(K) + 1
        BY <4>1, FS_AddElement
      <4>3. IsFiniteSet(K \union {m}) /\ Cardinality(K \union {m}) <= Cardinality(K) + 1
        BY <4>1, <4>2
      <4> QED BY <4>3 DEF K
    <3>3. Cardinality(Known(work)') <= Cardinality(Known(work) \union {m})
      BY <3>1, <3>2, FS_Subset
    <3>4. Cardinality(Known(work)') \in Nat /\ Cardinality(Known(work) \union {m}) \in Nat
      BY <3>2, KnownFinite, FS_CardinalityType DEF Known
    <3>5. total' = total + 1
      BY <2>1, <2>4
    <3> QED BY <1>0, <3>2, <3>3, <3>4, <3>5 DEF CountFromWork
  <2> QED BY <2>3, <2>4
<1>4. CASE DbCrash
  <2>1. work' = rows /\ total' = Cardinality(Known(rows))
    BY <1>4 DEF DbCrash, CountRows
  <2>2. Known(work)' = Known(rows)
    BY <2>1 DEF Known
  <2> QED BY <1>0, <2>1, <2>2 DEF CountFromWork
<1>5. CASE CommitFails
  BY <1>2, <1>5 DEF CommitFails
<1>7. CASE AppendOne
  BY <1>3, <1>7 DEF AppendOne
<1>8. CASE RowFails
  BY <1>1, <1>2, <1>3, <1>8 DEF RowFails
<1>6. CASE UNCHANGED dbVars \/ TxBegin \/ Commit \/ \E p \in wire : DbReceive(p)
  BY <1>1, <1>6 DEF dbVars, TxBegin, Commit, DbReceive
<1> QED BY <1>4, <1>5, <1>6, <1>7, <1>8, DbCases

(* The total a client sees next to its messages is never below the number    *)
(* stored: totalRows is incremented with each insert, not read back, and     *)
(* survives failed statements, rollbacks, failed COMMITs and restarts.       *)
THEOREM CountsAreNotShort == Spec => []CountNeverShort
<1>1. Init => CountFromWork
  <2> SUFFICES ASSUME Init PROVE CountFromWork
    OBVIOUS
  <2>1. Known(work) = {} /\ total = 0
    BY DEF Init, Known, Nothing
  <2> QED BY <2>1, FS_EmptySet DEF CountFromWork
<1>2. IInv /\ CountFromWork => CountNeverShort
  BY RollbackShrinks, KnownFinite DEF CountFromWork, CountNeverShort, IInv, TypeOK
<1> QED BY <1>1, <1>2, CountStep, Invariance, PTL DEF Spec

(* A step of the message path is a step of the Ledger. *)
LEMMA LedgerStep == IInv /\ [Next]_vars => [Storage!Next]_(Storage!vars)
<1> SUFFICES ASSUME IInv, [Next]_vars PROVE Storage!Next \/ UNCHANGED Storage!vars
  OBVIOUS
<1>1. /\ TypeOK' /\ Numbered(rows')
      /\ \A m \in Msgs : rows[m] # 0 => rows'[m] = rows[m]
  BY TypeStep, DbStep
<1>2. CASE told' = told
  <2>1. CASE rows' = rows
    BY <1>2, <2>1 DEF Storage!vars
  <2>2. CASE rows' # rows
    <3>1. rows' \in [Msgs -> Nat]
      BY <1>1 DEF TypeOK, Numbers
    <3>2. Storage!Store
      BY <1>1, <1>2, <2>2, <3>1 DEF Storage!Store, Numbered
    <3> QED BY <3>2 DEF Storage!Next
  <2> QED BY <2>1, <2>2
<1>3. ASSUME NEW m \in Msgs, NEW b \in Backends, AnswerFromMemory(m, b)
      PROVE  Storage!Next
  <2>1. /\ told' = [told EXCEPT ![m] = @ \union {lru[b][m]}] /\ lru[b][m] # 0
        /\ rows' = rows
    BY <1>3 DEF AnswerFromMemory, dbVars
  <2>2. lru[b][m] = rows[m] /\ told \in [Msgs -> SUBSET Nat]
    BY <2>1 DEF IInv, TypeOK, Claims, MemoryIsTrue
  <2>3. Storage!Tell({m})
    BY <2>1, <2>2 DEF Storage!Tell
  <2> QED BY <2>3 DEF Storage!Next
<1>4. ASSUME NEW r \in replies, PostReturns(r)
      PROVE  Storage!Next
  <2> DEFINE new == Results(r)
             S   == {m \in Msgs : new[m] # 0}
  <2>1. r \in Replies /\ TrueIn(r.post.jobs, r.res, rows)
    BY DEF IInv, TypeOK, Claims, RepliesTrue
  <2>2. \A m \in Msgs : new[m] # 0 =>
          \E i \in 1..Len(r.res) : r.post.jobs[i][1] = m /\ new[m] = r.res[i]
    BY <2>1, ResultsLemma
  <2>3. /\ told' = [m \in Msgs |-> IF new[m] # 0 THEN told[m] \union {new[m]} ELSE told[m]]
        /\ rows' = rows
    BY <1>4 DEF PostReturns, dbVars
  <2> HIDE DEF new
  <2>4. \A m \in S : new[m] = rows[m] /\ rows[m] # 0
    BY <2>1, <2>2 DEF TrueIn
  <2>5. Storage!Tell(S)
    BY <2>3, <2>4 DEF Storage!Tell
  <2> QED BY <2>5 DEF Storage!Next
<1>5. \/ told' = told
      \/ \E m \in Msgs, b \in Backends : AnswerFromMemory(m, b)
      \/ \E r \in replies : PostReturns(r)
  BY DEF Next, vars, QueueAppend, PostEntry, FlushQueue, LinkLost, LinkRestored,
         BackendCrash, FrameArrives, PostFails, DbReceive, TxBegin, AppendOne, RowFails,
         Commit, CommitFails, DbCrash
<1> QED BY <1>2, <1>3, <1>4, <1>5

(* The message path implements the Ledger: stored once, numbered without a   *)
(* gap, never renumbered, and told only what is stored.                      *)
THEOREM StoreImplementsLedger == Spec => LedgerSpec
<1>1. Init => Storage!Init
  BY DEF Init, Nothing, Storage!Init
<1> QED BY <1>1, LedgerStep, Invariance, PTL DEF Spec, LedgerSpec, Storage!Spec
=============================================================================
