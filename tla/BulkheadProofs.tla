--------------------------- MODULE BulkheadProofs ---------------------------
(***************************************************************************)
(* Proofs about Bulkhead, for every finite set of requests and every set   *)
(* of capacities.  The heart is what _wake does (LEMMA WakeInService): it  *)
(* moves a prefix of the queue to the owners, adds its length to held,     *)
(* stops at the capacity, and stops early only there.                      *)
(***************************************************************************)
EXTENDS Bulkhead, FiniteSetTheorems, FunctionTheorems, SequenceTheorems, TLAPS

Distinct(w) == \A i, j \in 1..Len(w) : w[i] = w[j] => i = j

OwnersIn(p) == {r \in Requests : p[r] \in {"granted", "inside"}}

(* The queue holds the waiting tasks, each once; in service, all of them.    *)
Line(w, p) == /\ Distinct(w)
              /\ \A i \in 1..Len(w) : p[w[i]] = "waiting"
              /\ ~stopping => \A r \in Requests :
                   p[r] = "waiting" => \E i \in 1..Len(w) : w[i] = r

IInv == /\ TypeOK
        /\ Line(waiters, pc)
        /\ queued = Len(waiters)
        /\ ~stopping => held = Cardinality(Owners)
        /\ WorkConserving

(* How much _wake pops: all of the queue, or just what fills the gate.       *)
LEMMA PoppedBounds ==
  ASSUME NEW w \in Seq(Requests), NEW h \in Int, NEW c \in Int
  PROVE  /\ Popped(w, h, c) \in 0..Len(w)
         /\ ~stopping /\ Popped(w, h, c) > 0 => h + Popped(w, h, c) <= c
         /\ ~stopping /\ Popped(w, h, c) < Len(w) => h + Popped(w, h, c) >= c
  BY LenProperties, SMT DEF Popped

(* The first n of a queue without repetition are n requests.                 *)
LEMMA PrefixCardinality ==
  ASSUME NEW w \in Seq(Requests), Distinct(w), NEW n \in 0..Len(w)
  PROVE  /\ IsFiniteSet({w[i] : i \in 1..n})
         /\ Cardinality({w[i] : i \in 1..n}) = n
<1> DEFINE P == {w[i] : i \in 1..n}
           f == [i \in 1..n |-> w[i]]
<1>1. Len(w) \in Nat
  BY LenProperties
<1>2. f \in [1..n -> P]
  OBVIOUS
<1>3. \A a, b \in 1..n : f[a] = f[b] => a = b
  BY <1>1 DEF Distinct
<1>4. \A t \in P : \E s \in 1..n : f[s] = t
  OBVIOUS
<1>5. f \in Bijection(1..n, P)
  BY <1>2, <1>3, <1>4, Fun_IsBij
<1>6. IsFiniteSet(1..n) /\ Cardinality(1..n) = n
  BY <1>1, FS_Interval
<1> QED
  BY <1>5, <1>6, FS_Bijection DEF ExistsBijection

(* What is left of a queue when its first n have gone.                       *)
LEMMA RestOfQueue ==
  ASSUME NEW w \in Seq(Requests), NEW n \in 0..Len(w)
  PROVE  /\ SubSeq(w, n + 1, Len(w)) \in Seq(Requests)
         /\ Len(SubSeq(w, n + 1, Len(w))) = Len(w) - n
         /\ \A i \in 1..(Len(w) - n) : SubSeq(w, n + 1, Len(w))[i] = w[n + i]
<1>1. Len(w) \in Nat
  BY LenProperties
<1>2. \A i \in (n + 1)..Len(w) : w[i] \in Requests
  BY <1>1, ElementOfSeq
<1> QED
  BY <1>1, <1>2, SubSeqProperties

(* _wake in service, from any queue and count that agree with the tasks.     *)
LEMMA WakeInService ==
  ASSUME NEW w \in Seq(Requests), NEW h \in Int, NEW c \in Nat \ {0},
         NEW p \in [Requests -> States],
         ~stopping, ~stopping', Line(w, p), h = Cardinality(OwnersIn(p)),
         Wake(w, h, c, Len(w), p)
  PROVE  /\ waiters' \in Seq(Requests) /\ held' \in Int /\ queued' \in Int
         /\ pc' \in [Requests -> States]
         /\ Line(waiters, pc)'
         /\ queued' = Len(waiters')
         /\ held' = Cardinality(Owners')
         /\ waiters' # << >> => held' >= c
         /\ held' > h => held' <= c
         /\ \E m \in 0..Len(w) :
              /\ waiters' = SubSeq(w, m + 1, Len(w))
              /\ Owners' = OwnersIn(p) \cup {w[i] : i \in 1..m}
              /\ m > 0 => held' <= c
<1> DEFINE n == Popped(w, h, c)
           P == {w[i] : i \in 1..n}
<1>1. Len(w) \in Nat /\ \A i \in 1..Len(w) : w[i] \in Requests
  BY LenProperties, ElementOfSeq
<1>2. /\ n \in 0..Len(w)
      /\ n > 0 => h + n <= c
      /\ n < Len(w) => h + n >= c
  BY PoppedBounds
<1>3. /\ waiters' = SubSeq(w, n + 1, Len(w))
      /\ queued' = Len(w) - n
      /\ held' = h + n
      /\ pc' = [r \in Requests |-> IF r \in P THEN "granted" ELSE p[r]]
  BY DEF Wake
<1>4. /\ waiters' \in Seq(Requests)
      /\ Len(waiters') = Len(w) - n
      /\ \A i \in 1..(Len(w) - n) : waiters'[i] = w[n + i]
  BY <1>2, <1>3, RestOfQueue
<1> HIDE DEF n
<1>5. \A r \in P : r \in Requests /\ p[r] = "waiting"
  BY <1>1, <1>2 DEF Line
<1>6. Distinct(waiters')
  <2> SUFFICES ASSUME NEW i \in 1..Len(waiters'), NEW j \in 1..Len(waiters'),
                      waiters'[i] = waiters'[j]
               PROVE  i = j
    BY DEF Distinct
  <2>1. w[n + i] = w[n + j] /\ n + i \in 1..Len(w) /\ n + j \in 1..Len(w)
    BY <1>1, <1>2, <1>4
  <2>2. n + i = n + j
    BY <2>1 DEF Line, Distinct
  <2> QED
    BY <1>1, <1>2, <1>4, <2>2
<1>7. \A i \in 1..Len(waiters') : pc'[waiters'[i]] = "waiting"
  <2> SUFFICES ASSUME NEW i \in 1..Len(waiters')
               PROVE  pc'[waiters'[i]] = "waiting"
    OBVIOUS
  <2>1. n + i \in 1..Len(w) /\ waiters'[i] = w[n + i]
    BY <1>1, <1>2, <1>4
  <2>2. w[n + i] \in Requests /\ p[w[n + i]] = "waiting"
    BY <1>1, <2>1 DEF Line
  <2>3. w[n + i] \notin P
    <3> SUFFICES ASSUME NEW k \in 1..n, w[k] = w[n + i]
                 PROVE  FALSE
      OBVIOUS
    <3>1. k \in 1..Len(w)
      BY <1>1, <1>2
    <3>2. k = n + i
      BY <2>1, <3>1 DEF Line, Distinct
    <3> QED
      BY <1>1, <1>2, <1>4, <3>2
  <2> QED
    BY <1>3, <2>1, <2>2, <2>3
<1>8. \A r \in Requests :
         pc'[r] = "waiting" => \E i \in 1..Len(waiters') : waiters'[i] = r
  <2> SUFFICES ASSUME NEW r \in Requests, pc'[r] = "waiting"
               PROVE  \E i \in 1..Len(waiters') : waiters'[i] = r
    OBVIOUS
  <2>1. r \notin P /\ p[r] = "waiting"
    BY <1>3
  <2>2. PICK k \in 1..Len(w) : w[k] = r
    BY <2>1 DEF Line
  <2>3. k > n
    BY <1>1, <1>2, <2>1, <2>2
  <2>4. k - n \in 1..Len(waiters') /\ n + (k - n) = k
    BY <1>1, <1>2, <1>4, <2>3
  <2> QED
    BY <1>4, <2>2, <2>4
<1>9. Owners' = OwnersIn(p) \cup P
  <2>1. \A r \in Requests : pc'[r] = IF r \in P THEN "granted" ELSE p[r]
    BY <1>3
  <2> QED
    BY <1>5, <2>1 DEF Owners, OwnersIn
<1>10. held' = Cardinality(Owners')
  <2>1. IsFiniteSet(OwnersIn(p))
    BY RequestsAssumption, FS_Subset DEF OwnersIn
  <2>2. IsFiniteSet(P) /\ Cardinality(P) = n
    BY <1>2, PrefixCardinality DEF Line
  <2>3. OwnersIn(p) \cap P = {}
    BY <1>5 DEF OwnersIn
  <2>4. Cardinality(OwnersIn(p) \cap P) = 0
    BY <2>3, FS_EmptySet
  <2>5. Cardinality(OwnersIn(p) \cup P)
          = Cardinality(OwnersIn(p)) + Cardinality(P) - Cardinality(OwnersIn(p) \cap P)
    BY <2>1, <2>2, FS_Union
  <2> QED
    BY <1>1, <1>2, <1>3, <1>9, <2>2, <2>4, <2>5
<1>11. pc' \in [Requests -> States]
  BY <1>3 DEF States
<1>12. waiters' # << >> => held' >= c
  <2>1. waiters' # << >> => n < Len(w)
    BY <1>1, <1>2, <1>4, EmptySeq
  <2> QED
    BY <1>2, <1>3, <2>1
<1>13. held' > h => held' <= c
  BY <1>1, <1>2, <1>3
<1>14. Line(waiters, pc)'
  BY <1>6, <1>7, <1>8 DEF Line
<1>15. held' \in Int /\ queued' \in Int /\ queued' = Len(waiters')
  BY <1>1, <1>2, <1>3, <1>4
<1>16. \E m \in 0..Len(w) : /\ waiters' = SubSeq(w, m + 1, Len(w))
                            /\ Owners' = OwnersIn(p) \cup {w[i] : i \in 1..m}
                            /\ m > 0 => held' <= c
  BY <1>2, <1>3, <1>9
<1> QED
  BY <1>4, <1>10, <1>11, <1>12, <1>13, <1>14, <1>15, <1>16, Zenon

(* _wake while the process stops: it may empty the queue and does no more.   *)
LEMMA WakeWhileStopping ==
  ASSUME NEW w \in Seq(Requests), NEW h \in Int, NEW c \in Nat \ {0},
         NEW p \in [Requests -> States],
         stopping, stopping', Distinct(w),
         \A i \in 1..Len(w) : p[w[i]] = "waiting",
         Wake(w, h, c, Len(w), p)
  PROVE  /\ waiters' \in Seq(Requests) /\ held' \in Int
         /\ pc' \in [Requests -> States]
         /\ Line(waiters, pc)'
         /\ queued' = Len(waiters')
<1> DEFINE n == Popped(w, h, c)
<1>1. Len(w) \in Nat /\ \A i \in 1..Len(w) : w[i] \in Requests
  BY LenProperties, ElementOfSeq
<1>2. n \in 0..Len(w)
  BY PoppedBounds
<1>3. /\ waiters' = SubSeq(w, n + 1, Len(w))
      /\ queued' = Len(w) - n
      /\ held' = h
      /\ pc' = [r \in Requests |-> p[r]]
  BY DEF Wake
<1> HIDE DEF n
<1>4. /\ waiters' \in Seq(Requests)
      /\ Len(waiters') = Len(w) - n
      /\ \A i \in 1..(Len(w) - n) : waiters'[i] = w[n + i]
  BY <1>2, <1>3, RestOfQueue
<1>5. \A i \in 1..Len(waiters') : n + i \in 1..Len(w) /\ waiters'[i] = w[n + i]
  BY <1>1, <1>2, <1>4
<1>6. Distinct(waiters')
  <2> SUFFICES ASSUME NEW i \in 1..Len(waiters'), NEW j \in 1..Len(waiters'),
                      waiters'[i] = waiters'[j]
               PROVE  i = j
    BY DEF Distinct
  <2>1. n + i = n + j
    BY <1>5 DEF Distinct
  <2> QED
    BY <1>1, <1>2, <1>4, <2>1
<1>7. pc' \in [Requests -> States]
  BY <1>3 DEF States
<1>8. \A i \in 1..Len(waiters') : pc'[waiters'[i]] = "waiting"
  BY <1>1, <1>3, <1>5
<1>9. Line(waiters, pc)'
  BY <1>6, <1>8 DEF Line
<1> QED
  BY <1>1, <1>2, <1>3, <1>4, <1>7, <1>9

-----------------------------------------------------------------------------
(* What every step owes: the invariant, a bounded admission, and a step (or  *)
(* a stutter) of Admission.                                                  *)
Bounded  == ~stopping' /\ held' > held => held' <= cap'
GateStep == [Gate!Next]_(Gate!vars)
Good     == IInv' /\ Bounded /\ GateStep

LEMMA SameCardinality == \A S : Gate!Cardinality(S) = Cardinality(S)
  BY DEF Gate!Cardinality, Cardinality

LEMMA OwnersFinite == IsFiniteSet(Owners)
  BY RequestsAssumption, FS_Subset DEF Owners

LEMMA AcquireAtOnceGood ==
  ASSUME IInv, NEW r \in Requests, AcquireAtOnce(r)
  PROVE  Good
<1>1. /\ ~stopping /\ ~stopping' /\ pc[r] = "idle" /\ cap' = cap
      /\ held < cap /\ waiters = << >> /\ waiters' = << >>
      /\ queued' = queued /\ held' = held + 1
      /\ pc' = [pc EXCEPT ![r] = "inside"]
  BY DEF AcquireAtOnce, IInv, TypeOK
<1>2. held = Cardinality(Owners) /\ Len(waiters) = 0
  BY <1>1 DEF IInv
<1>3. Owners' = Owners \cup {r} /\ r \notin Owners
  BY <1>1 DEF Owners, IInv, TypeOK
<1>4. held' = Cardinality(Owners')
  BY <1>1, <1>2, <1>3, OwnersFinite, FS_AddElement
<1>5. TypeOK'
  <2>1. pc' \in [Requests -> States]
    BY <1>1 DEF IInv, TypeOK, States
  <2>2. stopping' \in BOOLEAN
    BY Zenon DEF AcquireAtOnce, IInv, TypeOK
  <2>3. waiters' \in Seq(Requests)
    BY <1>1, EmptySeq
  <2>4. cap' \in Nat \ {0} /\ held' \in Int /\ queued' \in Int
    BY <1>1 DEF IInv, TypeOK
  <2> QED
    BY <2>1, <2>2, <2>3, <2>4, Zenon DEF TypeOK
<1>6. Line(waiters, pc)'
  BY <1>1, <1>2 DEF IInv, TypeOK, Line, Distinct
<1>7. IInv'
  BY <1>1, <1>4, <1>5, <1>6 DEF IInv, WorkConserving
<1>8. Bounded
  BY <1>1 DEF Bounded, IInv, TypeOK
<1>9. Gate!EnterAtOnce(r)
  <2>1. Cardinality(Owners') <= cap
    BY <1>1, <1>4 DEF IInv, TypeOK
  <2> QED
    BY <1>1, <1>3, <2>1, SameCardinality DEF Gate!EnterAtOnce
<1>10. GateStep
  BY <1>1, <1>9 DEF GateStep, Gate!Next, Gate!Serve
<1> QED
  BY <1>7, <1>8, <1>10 DEF Good

LEMMA AcquireWaitsGood ==
  ASSUME IInv, NEW r \in Requests, AcquireWaits(r)
  PROVE  Good
<1>1. /\ ~stopping /\ ~stopping' /\ pc[r] = "idle" /\ cap' = cap
      /\ ~(held < cap /\ waiters = << >>) /\ waiters' = Append(waiters, r)
      /\ queued' = queued + 1 /\ held' = held
      /\ pc' = [pc EXCEPT ![r] = "waiting"]
  BY DEF AcquireWaits, IInv, TypeOK
<1>2. /\ held = Cardinality(Owners) /\ queued = Len(waiters)
      /\ waiters \in Seq(Requests) /\ Len(waiters) \in Nat
      /\ pc \in [Requests -> States] /\ held \in Int /\ cap \in Nat \ {0}
  BY <1>1, LenProperties DEF IInv, TypeOK
<1>3. Owners' = Owners
  BY <1>1, <1>2 DEF Owners
<1>4. /\ waiters' \in Seq(Requests)
      /\ Len(waiters') = Len(waiters) + 1
      /\ \A i \in 1..Len(waiters) : waiters'[i] = waiters[i]
      /\ waiters'[Len(waiters) + 1] = r
  BY <1>1, <1>2, AppendProperties
<1>5. \A i \in 1..Len(waiters) : waiters[i] # r /\ waiters[i] \in Requests
  BY <1>1, <1>2, ElementOfSeq DEF IInv, Line
<1>6. Distinct(waiters')
  BY <1>2, <1>4, <1>5 DEF IInv, Line, Distinct
<1>7. \A i \in 1..Len(waiters') : pc'[waiters'[i]] = "waiting"
  <2> SUFFICES ASSUME NEW i \in 1..Len(waiters') PROVE pc'[waiters'[i]] = "waiting"
    OBVIOUS
  <2>1. CASE i = Len(waiters) + 1
    BY <1>1, <1>2, <1>4, <2>1
  <2>2. CASE i \in 1..Len(waiters)
    BY <1>1, <1>2, <1>4, <1>5, <2>2 DEF IInv, Line
  <2> QED
    BY <1>2, <1>4, <2>1, <2>2
<1>8. \A t \in Requests :
         pc'[t] = "waiting" => \E i \in 1..Len(waiters') : waiters'[i] = t
  <2> SUFFICES ASSUME NEW t \in Requests, pc'[t] = "waiting"
               PROVE  \E i \in 1..Len(waiters') : waiters'[i] = t
    OBVIOUS
  <2>1. CASE t = r
    BY <1>2, <1>4, <2>1
  <2>2. CASE t # r
    <3>1. pc[t] = "waiting"
      BY <1>1, <1>2, <2>2
    <3>2. PICK i \in 1..Len(waiters) : waiters[i] = t
      BY <1>1, <3>1 DEF IInv, Line
    <3>3. i \in 1..Len(waiters') /\ waiters'[i] = t
      BY <1>2, <1>4, <3>2
    <3> QED
      BY <3>3
  <2> QED
    BY <2>1, <2>2
<1>9. Line(waiters, pc)'
  BY <1>6, <1>7, <1>8 DEF Line
<1>10. waiters # << >> => held >= cap
  BY <1>1 DEF IInv, WorkConserving
<1>11. held' >= cap'
  BY <1>1, <1>2, <1>10
<1>12. TypeOK'
  <2>1. pc' \in [Requests -> States]
    BY <1>1, <1>2 DEF States
  <2>2. stopping' \in BOOLEAN
    BY Zenon DEF AcquireWaits, IInv, TypeOK
  <2>3. cap' \in Nat \ {0} /\ held' \in Int /\ queued' \in Int
    BY <1>1, <1>2
  <2> QED
    BY <1>4, <2>1, <2>2, <2>3, Zenon DEF TypeOK
<1>13. IInv'
  BY <1>1, <1>2, <1>3, <1>4, <1>9, <1>11, <1>12 DEF IInv, WorkConserving
<1>14. Bounded
  BY <1>1, <1>2 DEF Bounded
<1>15. Gate!JoinLine(r)
  BY <1>1, <1>3, <1>5 DEF Gate!JoinLine, Owners
<1>16. GateStep
  BY <1>1, <1>15 DEF GateStep, Gate!Next, Gate!Serve
<1> QED
  BY <1>13, <1>14, <1>16 DEF Good

LEMMA ResumeGood ==
  ASSUME IInv, NEW r \in Requests, Resume(r)
  PROVE  Good
<1>1. /\ ~stopping /\ pc[r] = "granted"
      /\ pc' = [pc EXCEPT ![r] = "inside"]
      /\ UNCHANGED <<cap, held, waiters, queued, stopping>>
  BY DEF Resume
<1>2. Owners' = Owners
  BY <1>1 DEF Owners, IInv, TypeOK
<1>3. TypeOK'
  BY <1>1 DEF IInv, TypeOK, States
<1>4. \A i \in 1..Len(waiters) : waiters[i] # r /\ waiters[i] \in Requests
  BY <1>1, ElementOfSeq DEF IInv, TypeOK, Line
<1>5. Line(waiters, pc)'
  BY <1>1, <1>4 DEF IInv, TypeOK, Line, Distinct
<1>6. IInv'
  BY <1>1, <1>2, <1>3, <1>5 DEF IInv, WorkConserving
<1>7. Bounded
  BY <1>1 DEF Bounded, IInv, TypeOK
<1>8. GateStep
  BY <1>1, <1>2 DEF GateStep, Gate!vars
<1> QED
  BY <1>6, <1>7, <1>8 DEF Good

(* A step of _wake in service keeps the promise of Admission.                *)
LEMMA ReleaseGood ==
  ASSUME IInv, NEW r \in Requests, Release(r)
  PROVE  Good
<1> DEFINE h == IF held - 1 < 0 THEN 0 ELSE held - 1
           p == [pc EXCEPT ![r] = IF stopping THEN "gone" ELSE "idle"]
<1>1. /\ pc[r] = "inside" /\ cap' = cap /\ stopping' = stopping
      /\ Wake(waiters, h, cap, Len(waiters), p)
  BY DEF Release, IInv
<1>2. /\ waiters \in Seq(Requests) /\ Len(waiters) \in Nat
      /\ pc \in [Requests -> States] /\ held \in Int /\ cap \in Nat \ {0}
      /\ h \in Int
  BY LenProperties DEF IInv, TypeOK
<1>3. stopping' \in BOOLEAN
  BY <1>1, Zenon DEF IInv, TypeOK
<1>4. \A i \in 1..Len(waiters) : waiters[i] # r /\ waiters[i] \in Requests
  BY <1>1, <1>2, ElementOfSeq DEF IInv, Line
<1>5. CASE ~stopping
  <2>1. p = [pc EXCEPT ![r] = "idle"] /\ p \in [Requests -> States]
    BY <1>2, <1>5 DEF States
  <2>2. OwnersIn(p) = Owners \ {r} /\ r \in Owners
    BY <1>1, <1>2, <2>1 DEF OwnersIn, Owners
  <2>3. Cardinality(OwnersIn(p)) = held - 1 /\ held - 1 \in Nat
    <3>1. held = Cardinality(Owners)
      BY <1>5 DEF IInv
    <3>2. Cardinality(Owners \ {r}) = Cardinality(Owners) - 1
      BY <2>2, OwnersFinite, FS_RemoveElement
    <3>3. Cardinality(Owners \ {r}) \in Nat
      BY OwnersFinite, FS_RemoveElement, FS_CardinalityType
    <3> QED
      BY <2>2, <3>1, <3>2, <3>3
  <2>4. h = Cardinality(OwnersIn(p)) /\ h = held - 1
    BY <2>3
  <2>5. Line(waiters, p)
    BY <1>2, <1>4, <2>1 DEF IInv, Line
  <2> HIDE DEF h, p
  <2>6. /\ waiters' \in Seq(Requests) /\ held' \in Int /\ queued' \in Int
        /\ pc' \in [Requests -> States]
        /\ Line(waiters, pc)'
        /\ queued' = Len(waiters')
        /\ held' = Cardinality(Owners')
        /\ waiters' # << >> => held' >= cap
        /\ held' > h => held' <= cap
        /\ \E m \in 0..Len(waiters) :
             /\ waiters' = SubSeq(waiters, m + 1, Len(waiters))
             /\ Owners' = OwnersIn(p) \cup {waiters[i] : i \in 1..m}
             /\ m > 0 => held' <= cap
    BY <1>1, <1>2, <1>5, <2>1, <2>4, <2>5, WakeInService
  <2>7. TypeOK'
    BY <1>1, <1>2, <1>3, <2>6, Zenon DEF TypeOK
  <2>8. WorkConserving'
    BY <1>1, <2>6 DEF WorkConserving
  <2>9. IInv'
    BY <2>6, <2>7, <2>8, Zenon DEF IInv
  <2>10. Bounded
    BY <1>1, <1>2, <2>4, <2>6 DEF Bounded
  <2>11. Gate!Leave(r)
    BY <1>1, <2>2, <2>6, SameCardinality DEF Gate!Leave, Gate!AdmitFirst, Gate!FirstOfLine
  <2>12. GateStep
    BY <1>1, <1>5, <2>11 DEF GateStep, Gate!Next, Gate!Serve
  <2> QED
    BY <2>9, <2>10, <2>12 DEF Good
<1>6. CASE stopping
  <2>1. p \in [Requests -> States]
    BY <1>2, <1>6 DEF States
  <2>2. Distinct(waiters) /\ \A i \in 1..Len(waiters) : p[waiters[i]] = "waiting"
    BY <1>2, <1>4 DEF IInv, Line
  <2> HIDE DEF h, p
  <2>3. /\ waiters' \in Seq(Requests) /\ held' \in Int
        /\ pc' \in [Requests -> States]
        /\ Line(waiters, pc)'
        /\ queued' = Len(waiters')
    BY <1>1, <1>2, <1>6, <2>1, <2>2, WakeWhileStopping
  <2>4. queued' \in Int
    BY <2>3, LenProperties
  <2>5. TypeOK'
    BY <1>1, <1>2, <1>3, <2>3, <2>4, Zenon DEF TypeOK
  <2>6. IInv'
    BY <1>1, <1>6, <2>3, <2>5, Zenon DEF IInv, WorkConserving
  <2>7. Bounded /\ GateStep
    BY <1>1, <1>6, Zenon DEF Bounded, GateStep, Gate!Next, Gate!Shut
  <2> QED
    BY <2>6, <2>7 DEF Good
<1> QED
  BY <1>5, <1>6

LEMMA ResizeGood ==
  ASSUME IInv, NEW c \in Targets, Resize(c)
  PROVE  Good
<1> DEFINE k == AtLeastOne(c)
<1>1. /\ cap' = k /\ stopping' = stopping
      /\ Wake(waiters, held, k, Len(waiters), pc)
  BY DEF Resize, IInv
<1>2. /\ waiters \in Seq(Requests) /\ Len(waiters) \in Nat
      /\ pc \in [Requests -> States] /\ held \in Int
  BY LenProperties DEF IInv, TypeOK
<1>3. k \in Nat \ {0}
  BY TargetsAssumption DEF AtLeastOne
<1>4. stopping' \in BOOLEAN
  BY <1>1, Zenon DEF IInv, TypeOK
<1> HIDE DEF k
<1>5. CASE ~stopping
  <2>1. OwnersIn(pc) = Owners
    BY DEF OwnersIn, Owners
  <2>2. held = Cardinality(OwnersIn(pc)) /\ Line(waiters, pc)
    BY <1>5, <2>1 DEF IInv
  <2>3. /\ waiters' \in Seq(Requests) /\ held' \in Int /\ queued' \in Int
        /\ pc' \in [Requests -> States]
        /\ Line(waiters, pc)'
        /\ queued' = Len(waiters')
        /\ held' = Cardinality(Owners')
        /\ waiters' # << >> => held' >= k
        /\ held' > held => held' <= k
        /\ \E m \in 0..Len(waiters) :
             /\ waiters' = SubSeq(waiters, m + 1, Len(waiters))
             /\ Owners' = OwnersIn(pc) \cup {waiters[i] : i \in 1..m}
             /\ m > 0 => held' <= k
    BY <1>1, <1>2, <1>3, <1>5, <2>2, WakeInService
  <2>4. TypeOK'
    BY <1>1, <1>3, <1>4, <2>3, Zenon DEF TypeOK
  <2>5. WorkConserving'
    BY <1>1, <2>3 DEF WorkConserving
  <2>6. IInv'
    BY <2>3, <2>4, <2>5, Zenon DEF IInv
  <2>7. Bounded
    BY <1>1, <2>3 DEF Bounded
  <2>8. Gate!SetLimit
    BY <1>1, <1>3, <2>1, <2>3, SameCardinality
       DEF Gate!SetLimit, Gate!AdmitFirst, Gate!FirstOfLine
  <2>9. GateStep
    BY <1>1, <1>5, <2>8 DEF GateStep, Gate!Next, Gate!Serve
  <2> QED
    BY <2>6, <2>7, <2>9 DEF Good
<1>6. CASE stopping
  <2>1. Distinct(waiters) /\ \A i \in 1..Len(waiters) : pc[waiters[i]] = "waiting"
    BY DEF IInv, Line
  <2>2. /\ waiters' \in Seq(Requests) /\ held' \in Int
        /\ pc' \in [Requests -> States]
        /\ Line(waiters, pc)'
        /\ queued' = Len(waiters')
    BY <1>1, <1>2, <1>3, <1>6, <2>1, WakeWhileStopping
  <2>3. queued' \in Int
    BY <2>2, LenProperties
  <2>4. TypeOK'
    BY <1>1, <1>3, <1>4, <2>2, <2>3, Zenon DEF TypeOK
  <2>5. IInv'
    BY <1>1, <1>6, <2>2, <2>4, Zenon DEF IInv, WorkConserving
  <2>6. Bounded /\ GateStep
    BY <1>1, <1>6, Zenon DEF Bounded, GateStep, Gate!Next, Gate!Shut
  <2> QED
    BY <2>5, <2>6 DEF Good
<1> QED
  BY <1>5, <1>6

-----------------------------------------------------------------------------
(* The shutdown: the queue stays well formed, and nothing else is promised.  *)
LEMMA CancelAllGood ==
  ASSUME IInv, CancelAll
  PROVE  Good
<1>1. stopping' = TRUE /\ UNCHANGED <<cap, held, waiters, queued, pc>>
  BY DEF CancelAll
<1>2. TypeOK'
  BY <1>1 DEF IInv, TypeOK
<1>3. Line(waiters, pc)'
  BY <1>1 DEF IInv, Line, Distinct
<1>4. IInv'
  BY <1>1, <1>2, <1>3 DEF IInv, WorkConserving
<1>5. Bounded /\ GateStep
  BY <1>1 DEF Bounded, GateStep, Gate!Next, Gate!Shut
<1> QED
  BY <1>4, <1>5 DEF Good

LEMMA CancelQueuedGood ==
  ASSUME IInv, NEW r \in Requests, CancelQueued(r)
  PROVE  Good
<1>1. PICK k \in 1..Len(waiters) :
        /\ waiters[k] = r
        /\ waiters' = SubSeq(waiters, 1, k - 1) \o SubSeq(waiters, k + 1, Len(waiters))
  BY DEF CancelQueued
<1>2. /\ stopping = TRUE /\ stopping' = TRUE /\ cap' = cap /\ held' = held
      /\ queued' = Len(waiters) - 1
      /\ pc' = [pc EXCEPT ![r] = "gone"]
  BY DEF CancelQueued, IInv, TypeOK
<1>3. /\ waiters \in Seq(Requests) /\ Len(waiters) \in Nat
      /\ pc \in [Requests -> States] /\ held \in Int /\ cap \in Nat \ {0}
      /\ \A i \in 1..Len(waiters) : waiters[i] \in Requests
  BY LenProperties, ElementOfSeq DEF IInv, TypeOK
<1>4. /\ waiters' \in Seq(Requests)
      /\ Len(waiters') = Len(waiters) - 1
      /\ \A i \in 1..(Len(waiters) - 1) :
           waiters'[i] = IF i < k THEN waiters[i] ELSE waiters[i + 1]
  <2> DEFINE a == SubSeq(waiters, 1, k - 1)
             b == SubSeq(waiters, k + 1, Len(waiters))
  <2>1. /\ a \in Seq(Requests) /\ Len(a) = k - 1
        /\ \A i \in 1..(k - 1) : a[i] = waiters[i]
    BY <1>3, SubSeqProperties
  <2>2. /\ b \in Seq(Requests) /\ Len(b) = Len(waiters) - k
        /\ \A i \in 1..(Len(waiters) - k) : b[i] = waiters[k + i]
    BY <1>3, SubSeqProperties
  <2>3. /\ a \o b \in Seq(Requests)
        /\ Len(a \o b) = Len(a) + Len(b)
        /\ \A i \in 1..(Len(a) + Len(b)) :
             (a \o b)[i] = IF i <= Len(a) THEN a[i] ELSE b[i - Len(a)]
    BY <2>1, <2>2, ConcatProperties
  <2>4. waiters' = a \o b
    BY <1>1
  <2> HIDE DEF a, b
  <2>5. waiters' \in Seq(Requests) /\ Len(waiters') = Len(waiters) - 1
    <3>1. Len(a) + Len(b) = Len(waiters) - 1
      BY <1>3, <2>1, <2>2
    <3> QED
      BY <2>3, <2>4, <3>1
  <2>6. ASSUME NEW i \in 1..(Len(waiters) - 1)
        PROVE  waiters'[i] = IF i < k THEN waiters[i] ELSE waiters[i + 1]
    <3>1. i \in 1..(Len(a) + Len(b))
      BY <1>3, <2>1, <2>2
    <3>2. CASE i < k
      BY <1>3, <2>1, <2>3, <2>4, <3>1, <3>2
    <3>3. CASE ~(i < k)
      <4>1. i - Len(a) \in 1..(Len(waiters) - k) /\ k + (i - Len(a)) = i + 1
        BY <1>3, <2>1, <3>3
      <4>2. b[i - Len(a)] = waiters[i + 1]
        BY <2>2, <4>1
      <4> QED
        BY <1>3, <2>1, <2>3, <2>4, <3>1, <3>3, <4>2
    <3> QED
      BY <3>2, <3>3
  <2> QED
    BY <2>5, <2>6
<1>5. \A i \in 1..Len(waiters') :
        /\ (IF i < k THEN i ELSE i + 1) \in 1..Len(waiters)
        /\ (IF i < k THEN i ELSE i + 1) # k
        /\ waiters'[i] = waiters[IF i < k THEN i ELSE i + 1]
  BY <1>3, <1>4
<1>6. Distinct(waiters')
  <2> SUFFICES ASSUME NEW i \in 1..Len(waiters'), NEW j \in 1..Len(waiters'),
                      waiters'[i] = waiters'[j]
               PROVE  i = j
    BY DEF Distinct
  <2>1. (IF i < k THEN i ELSE i + 1) = (IF j < k THEN j ELSE j + 1)
    BY <1>5 DEF IInv, Line, Distinct
  <2> QED
    BY <1>3, <1>4, <2>1
<1>7. \A i \in 1..Len(waiters') : pc'[waiters'[i]] = "waiting"
  <2> SUFFICES ASSUME NEW i \in 1..Len(waiters')
               PROVE  pc'[waiters'[i]] = "waiting"
    OBVIOUS
  <2>1. PICK j \in 1..Len(waiters) : j # k /\ waiters'[i] = waiters[j]
    BY <1>5
  <2>2. waiters[j] # r /\ pc[waiters[j]] = "waiting"
    BY <1>1, <2>1 DEF IInv, Line, Distinct
  <2> QED
    BY <1>2, <1>3, <2>1, <2>2
<1>8. Line(waiters, pc)'
  BY <1>2, <1>6, <1>7 DEF Line
<1>9. TypeOK'
  <2>1. pc' \in [Requests -> States]
    BY <1>2, <1>3 DEF States
  <2> QED
    BY <1>2, <1>3, <1>4, <2>1 DEF TypeOK
<1>10. IInv'
  BY <1>2, <1>4, <1>8, <1>9 DEF IInv, WorkConserving
<1>11. Bounded /\ GateStep
  BY <1>2 DEF Bounded, GateStep, Gate!Next, Gate!Shut
<1> QED
  BY <1>10, <1>11 DEF Good

LEMMA CancelPoppedGood ==
  ASSUME IInv, NEW r \in Requests, CancelPopped(r)
  PROVE  Good
<1> DEFINE p == [pc EXCEPT ![r] = "gone"]
           h == held - 1
<1>1. /\ stopping /\ stopping' = stopping /\ cap' = cap
      /\ \A i \in 1..Len(waiters) : waiters[i] # r
      /\ Wake(waiters, h, cap, Len(waiters), p)
  BY DEF CancelPopped, IInv
<1>2. /\ waiters \in Seq(Requests)
      /\ pc \in [Requests -> States] /\ h \in Int /\ cap \in Nat \ {0}
      /\ \A i \in 1..Len(waiters) : waiters[i] \in Requests
  BY ElementOfSeq DEF IInv, TypeOK
<1>3. p \in [Requests -> States]
  BY <1>2 DEF States
<1>4. Distinct(waiters) /\ \A i \in 1..Len(waiters) : p[waiters[i]] = "waiting"
  BY <1>1, <1>2 DEF IInv, Line
<1>5. stopping' \in BOOLEAN
  BY <1>1, Zenon DEF IInv, TypeOK
<1> HIDE DEF p, h
<1>6. /\ waiters' \in Seq(Requests) /\ held' \in Int
      /\ pc' \in [Requests -> States]
      /\ Line(waiters, pc)'
      /\ queued' = Len(waiters')
  BY <1>1, <1>2, <1>3, <1>4, WakeWhileStopping
<1>7. queued' \in Int
  BY <1>6, LenProperties
<1>8. TypeOK'
  BY <1>1, <1>2, <1>5, <1>6, <1>7, Zenon DEF TypeOK
<1>9. IInv'
  BY <1>1, <1>6, <1>8, Zenon DEF IInv, WorkConserving
<1>10. Bounded /\ GateStep
  BY <1>1, Zenon DEF Bounded, GateStep, Gate!Next, Gate!Shut
<1> QED
  BY <1>9, <1>10 DEF Good

LEMMA CancelIdleGood ==
  ASSUME IInv, NEW r \in Requests, CancelIdle(r)
  PROVE  Good
<1>1. /\ stopping = TRUE /\ stopping' = TRUE /\ pc[r] = "idle"
      /\ pc' = [pc EXCEPT ![r] = "gone"]
      /\ UNCHANGED <<cap, held, waiters, queued>>
  BY DEF CancelIdle, IInv, TypeOK
<1>2. \A i \in 1..Len(waiters) : waiters[i] # r /\ waiters[i] \in Requests
  BY <1>1, ElementOfSeq DEF IInv, TypeOK, Line
<1>3. TypeOK'
  BY <1>1 DEF IInv, TypeOK, States
<1>4. Line(waiters, pc)'
  BY <1>1, <1>2 DEF IInv, TypeOK, Line, Distinct
<1>5. IInv'
  BY <1>1, <1>3, <1>4 DEF IInv, WorkConserving
<1>6. Bounded /\ GateStep
  BY <1>1 DEF Bounded, GateStep, Gate!Next, Gate!Shut
<1> QED
  BY <1>5, <1>6 DEF Good

-----------------------------------------------------------------------------
LEMMA InitGood == Init => IInv /\ Gate!Init
<1> SUFFICES ASSUME Init PROVE IInv /\ Gate!Init
  OBVIOUS
<1>1. /\ cap \in Nat \ {0} /\ held = 0 /\ queued = 0 /\ stopping = FALSE
      /\ waiters = << >> /\ waiters \in Seq(Requests) /\ Len(waiters) = 0
      /\ pc = [r \in Requests |-> "idle"]
  BY InitCapAssumption, EmptySeq DEF Init, AtLeastOne
<1>2. TypeOK
  <2>1. pc \in [Requests -> States] /\ stopping \in BOOLEAN
    BY <1>1, Zenon DEF States
  <2>2. held \in Int /\ queued \in Int
    BY <1>1
  <2> QED
    BY <1>1, <2>1, <2>2, Zenon DEF TypeOK
<1>3. Owners = {} /\ Cardinality(Owners) = 0
  BY <1>1, FS_EmptySet DEF Owners
<1>4. Line(waiters, pc)
  BY <1>1 DEF Line, Distinct
<1>5. IInv
  BY <1>1, <1>2, <1>3, <1>4 DEF IInv, WorkConserving
<1>6. Gate!Init
  BY <1>1, <1>3 DEF Gate!Init
<1> QED
  BY <1>5, <1>6

LEMMA NextGood == IInv /\ [Next]_vars => Good
<1> SUFFICES ASSUME IInv, [Next]_vars PROVE Good
  OBVIOUS
<1>1. CASE UNCHANGED vars
  <2>1. UNCHANGED <<cap, held, waiters, queued, pc, stopping>>
    BY <1>1 DEF vars
  <2>2. IInv'
    BY <2>1 DEF IInv, TypeOK, Line, Distinct, Owners, WorkConserving
  <2>3. Bounded
    BY <2>1 DEF Bounded, IInv, TypeOK
  <2>4. GateStep
    BY <2>1 DEF GateStep, Gate!vars, Owners
  <2> QED
    BY <2>2, <2>3, <2>4 DEF Good
<1>2. ASSUME NEW r \in Requests, AcquireAtOnce(r) PROVE Good
  BY <1>2, AcquireAtOnceGood
<1>3. ASSUME NEW r \in Requests, AcquireWaits(r) PROVE Good
  BY <1>3, AcquireWaitsGood
<1>4. ASSUME NEW r \in Requests, Resume(r) PROVE Good
  BY <1>4, ResumeGood
<1>5. ASSUME NEW r \in Requests, Release(r) PROVE Good
  BY <1>5, ReleaseGood
<1>6. ASSUME NEW c \in Targets, Resize(c) PROVE Good
  BY <1>6, ResizeGood
<1>7. CASE CancelAll
  BY <1>7, CancelAllGood
<1>8. ASSUME NEW r \in Requests, CancelQueued(r) PROVE Good
  BY <1>8, CancelQueuedGood
<1>9. ASSUME NEW r \in Requests, CancelPopped(r) PROVE Good
  BY <1>9, CancelPoppedGood
<1>10. ASSUME NEW r \in Requests, CancelIdle(r) PROVE Good
  BY <1>10, CancelIdleGood
<1> QED
  BY <1>1, <1>2, <1>3, <1>4, <1>5, <1>6, <1>7, <1>8, <1>9, <1>10 DEF Next

(* The inductive invariant holds in every reachable state.                   *)
THEOREM Invariance == Spec => []IInv
<1>1. Init => IInv
  BY InitGood
<1>2. IInv /\ [Next]_vars => IInv'
  BY NextGood DEF Good
<1> QED
  BY <1>1, <1>2, PTL DEF Spec

(* Every variable of the gate keeps its type: in particular the capacity     *)
(* never falls below 1, whatever resize is asked for.                        *)
THEOREM TypeCorrect == Spec => []TypeOK
<1>1. IInv => TypeOK
  BY DEF IInv
<1> QED
  BY <1>1, Invariance, PTL

(* No request waits while a slot is free.                                    *)
THEOREM NoIdleSlot == Spec => []WorkConserving
<1>1. IInv => WorkConserving
  BY DEF IInv
<1> QED
  BY <1>1, Invariance, PTL

(* In service, busy() counts exactly the owners and the waiting requests.    *)
THEOREM BusyCountsExactly == Spec => []BusyIsExact
<1>1. IInv => BusyIsExact
  <2> SUFFICES ASSUME IInv, ~stopping PROVE BusyIsExact
    BY DEF BusyIsExact
  <2>1. waiters \in Seq(Requests) /\ Len(waiters) \in Nat
    BY LenProperties DEF IInv, TypeOK
  <2>2. {r \in Requests : pc[r] = "waiting"} = {waiters[i] : i \in 1..Len(waiters)}
    BY <2>1, ElementOfSeq DEF IInv, Line
  <2>3. Cardinality({waiters[i] : i \in 1..Len(waiters)}) = Len(waiters)
    <3>1. Distinct(waiters) /\ Len(waiters) \in 0..Len(waiters)
      BY <2>1 DEF IInv, Line
    <3> QED
      BY <2>1, <3>1, PrefixCardinality
  <2> QED
    BY <2>2, <2>3 DEF IInv, BusyIsExact
<1> QED
  BY <1>1, Invariance, PTL

(* No step that lets a request in leaves more than the capacity in.          *)
THEOREM AdmissionIsBounded == Spec => BoundedAdmission
<1>1. IInv /\ [Next]_vars => [~stopping' /\ held' > held => held' <= cap']_vars
  BY NextGood DEF Good, Bounded
<1> QED
  BY <1>1, Invariance, PTL DEF Spec, BoundedAdmission

(* The gate implements the abstract Admission.                               *)
THEOREM GateImplementsAdmission == Spec => GateSpec
<1>1. Init => Gate!Init
  BY InitGood
<1>2. IInv /\ [Next]_vars => [Gate!Next]_(Gate!vars)
  BY NextGood DEF Good, GateStep
<1> QED
  BY <1>1, <1>2, Invariance, PTL DEF Spec, GateSpec, Gate!Spec
=============================================================================
