------------------------ MODULE BulkheadThreadsProofs ------------------------
(***************************************************************************)
(* Proofs about BulkheadThreads, for every finite set of requests, any     *)
(* threads beside the event loop and any capacities.                       *)
(***************************************************************************)
EXTENDS BulkheadThreads, FiniteSetTheorems, SequenceTheorems, TLAPS

Distinct(w) == \A i, j \in 1..Len(w) : w[i] = w[j] => i = j
In(w, r)    == \E i \in 1..Len(w) : w[i] = r
InHand(r)   == \E p \in Procs : got[p] = r

(* A thread holds a future exactly between popping and granting it, and the  *)
(* event loop besides between making one and queueing it.                    *)
Hands == /\ \A p \in Procs : got[p] # None <=> at[p] \in {"queueing", "popped"}
         /\ \A p \in Procs : at[p] = "queueing" => p = Loop
         /\ \A p, q \in Procs : got[p] = got[q] /\ got[p] # None => p = q

(* Where a waiting request is: in one place of the queue, or in one hand.    *)
Located == /\ Distinct(waiters)
           /\ \A r \in Requests : In(waiters, r) => pc[r] = "waiting" /\ ~InHand(r)
           /\ \A r \in Requests : InHand(r) => pc[r] = "waiting"
           /\ \A r \in Requests : pc[r] = "waiting" => In(waiters, r) \/ InHand(r)

IInv == /\ TypeOK
        /\ Hands
        /\ Located
        /\ held = Cardinality(Owners)


(* What popleft leaves of a queue without repetition.                        *)
LEMMA Popleft ==
  ASSUME NEW w \in Seq(Requests), w # << >>, Distinct(w)
  PROVE  /\ Head(w) \in Requests /\ Tail(w) \in Seq(Requests)
         /\ Distinct(Tail(w))
         /\ \A r : In(Tail(w), r) <=> In(w, r) /\ r # Head(w)
         /\ In(w, Head(w))
<1>1. /\ Len(w) \in Nat \ {0} /\ Head(w) = w[1] /\ Head(w) \in Requests
      /\ Tail(w) \in Seq(Requests) /\ Len(Tail(w)) = Len(w) - 1
      /\ \A i \in 1..Len(Tail(w)) : Tail(w)[i] = w[i + 1]
  BY HeadTailProperties, EmptySeq
<1>2. Distinct(Tail(w))
  BY <1>1 DEF Distinct
<1>3. ASSUME NEW r, In(Tail(w), r)
      PROVE  In(w, r) /\ r # Head(w)
  <2>1. PICK i \in 1..Len(Tail(w)) : Tail(w)[i] = r
    BY <1>3 DEF In
  <2>2. i + 1 \in 1..Len(w) /\ w[i + 1] = r /\ 1 \in 1..Len(w) /\ i + 1 # 1
    BY <1>1, <2>1
  <2> QED
    BY <1>1, <2>2 DEF In, Distinct
<1>4. ASSUME NEW r, In(w, r), r # Head(w)
      PROVE  In(Tail(w), r)
  <2>1. PICK i \in 1..Len(w) : w[i] = r
    BY <1>4 DEF In
  <2>2. i # 1
    BY <1>1, <1>4, <2>1
  <2>3. i - 1 \in 1..Len(Tail(w)) /\ (i - 1) + 1 = i
    BY <1>1, <2>2
  <2>4. Tail(w)[i - 1] = r
    BY <1>1, <2>1, <2>3
  <2> QED
    BY <2>3, <2>4 DEF In
<1>5. In(w, Head(w))
  BY <1>1 DEF In
<1> QED
  BY <1>1, <1>2, <1>3, <1>4, <1>5

(* What append makes of a queue that does not have the request yet.          *)
LEMMA Appended ==
  ASSUME NEW w \in Seq(Requests), Distinct(w), NEW q \in Requests, ~In(w, q)
  PROVE  /\ Append(w, q) \in Seq(Requests)
         /\ Distinct(Append(w, q))
         /\ \A r : In(Append(w, q), r) <=> In(w, r) \/ r = q
<1>1. /\ Len(w) \in Nat /\ Append(w, q) \in Seq(Requests)
      /\ Len(Append(w, q)) = Len(w) + 1
      /\ \A i \in 1..Len(w) : Append(w, q)[i] = w[i]
      /\ Append(w, q)[Len(w) + 1] = q
  BY AppendProperties, LenProperties
<1>2. \A i \in 1..(Len(w) + 1) : i \in 1..Len(w) \/ i = Len(w) + 1
  BY <1>1
<1>3. \A i \in 1..Len(w) : w[i] # q
  BY DEF In
<1>4. Distinct(Append(w, q))
  BY <1>1, <1>2, <1>3 DEF Distinct
<1>5. Len(w) + 1 \in 1..(Len(w) + 1) /\ \A i \in 1..Len(w) : i \in 1..(Len(w) + 1)
  BY <1>1
<1>6. \A r : In(Append(w, q), r) <=> In(w, r) \/ r = q
  BY <1>1, <1>2, <1>5 DEF In
<1> QED
  BY <1>1, <1>4, <1>6

LEMMA SubsetCount ==
  ASSUME NEW S \in SUBSET Requests
  PROVE  IsFiniteSet(S) /\ Cardinality(S) \in 0..Cardinality(Requests)
<1>1. IsFiniteSet(S) /\ Cardinality(S) <= Cardinality(Requests)
  BY RequestsAssumption, FS_Subset
<1> QED
  BY <1>1, RequestsAssumption, FS_CardinalityType

-----------------------------------------------------------------------------
LEMMA InitIInv == Init => IInv
<1> SUFFICES ASSUME Init PROVE IInv
  OBVIOUS
<1>1. Owners = {}
  BY DEF Init, Owners
<1>2. held = Cardinality(Owners) /\ held = 0
  BY <1>1, FS_EmptySet DEF Init
<1>3. TypeOK
  BY <1>1, <1>2, SubsetCount, TargetsAssumption, EmptySeq DEF Init, TypeOK
<1>4. Hands
  BY DEF Init, Hands
<1>5. Located
  <2>1. waiters = << >> /\ Len(waiters) = 0
    BY EmptySeq DEF Init
  <2>2. Distinct(waiters) /\ \A r : ~In(waiters, r)
    BY <2>1 DEF Distinct, In
  <2>3. \A r \in Requests : ~InHand(r) /\ pc[r] = "idle"
    BY RequestsAssumption DEF Init, InHand
  <2> QED
    BY <2>2, <2>3 DEF Located
<1> QED
  BY <1>2, <1>3, <1>4, <1>5 DEF IInv

LEMMA AcquireAtOnceKeeps ==
  ASSUME IInv, NEW r \in Requests, AcquireAtOnce(r)
  PROVE  IInv'
<1>1. /\ pc[r] = "idle" /\ pc' = [pc EXCEPT ![r] = "inside"] /\ held' = held + 1
      /\ UNCHANGED <<cap, waiters, at, got>>
      /\ pc \in [Requests -> {"idle", "waiting", "granted", "inside"}]
  BY DEF AcquireAtOnce, IInv, TypeOK
<1>2. Owners' = Owners \union {r} /\ r \notin Owners
  BY <1>1 DEF Owners
<1>3. Owners \in SUBSET Requests /\ Owners' \in SUBSET Requests
  BY DEF Owners
<1>4. held' = Cardinality(Owners') /\ held' \in 0..Cardinality(Requests)
  BY <1>1, <1>2, <1>3, SubsetCount, FS_AddElement DEF IInv
<1>5. TypeOK'
  BY <1>1, <1>4 DEF IInv, TypeOK
<1>6. Hands'
  BY <1>1 DEF IInv, Hands
<1>7. Located'
  <2>1. \A q : In(waiters, q)' <=> In(waiters, q)
    BY <1>1 DEF In
  <2>2. \A q : InHand(q)' <=> InHand(q)
    BY <1>1 DEF InHand
  <2> QED
    BY <1>1, <2>1, <2>2 DEF IInv, Located, Distinct
<1> QED
  BY <1>4, <1>5, <1>6, <1>7 DEF IInv

LEMMA AcquireDecidesToWaitKeeps ==
  ASSUME IInv, NEW r \in Requests, AcquireDecidesToWait(r)
  PROVE  IInv'
<1>1. /\ at[Loop] = "rest" /\ pc[r] = "idle" /\ pc' = [pc EXCEPT ![r] = "waiting"]
      /\ at' = [at EXCEPT ![Loop] = "queueing"] /\ got' = [got EXCEPT ![Loop] = r]
      /\ UNCHANGED <<cap, held, waiters>>
  BY DEF AcquireDecidesToWait
<1>2. TypeOK' /\ Loop \in Procs /\ r # None
  BY <1>1, RequestsAssumption DEF IInv, TypeOK, Procs
<1>3. Owners' = Owners
  BY <1>1 DEF Owners, IInv, TypeOK
<1>4. got[Loop] = None /\ ~InHand(r) /\ ~In(waiters, r)
  BY <1>1, <1>2 DEF IInv, Hands, Located
<1>5. Hands'
  BY <1>1, <1>2, <1>4 DEF IInv, TypeOK, Hands, InHand
<1>6. Located'
  <2>1. \A q : In(waiters, q)' <=> In(waiters, q)
    BY <1>1 DEF In
  <2>2. \A q \in Requests : InHand(q)' <=> InHand(q) \/ q = r
    BY <1>1, <1>2, <1>4, RequestsAssumption DEF IInv, TypeOK, InHand
  <2>3. \A q \in Requests : pc'[q] = IF q = r THEN "waiting" ELSE pc[q]
    BY <1>1 DEF IInv, TypeOK
  <2> QED
    BY <1>1, <1>4, <2>1, <2>2, <2>3 DEF IInv, Located, Distinct
<1> QED
  BY <1>1, <1>2, <1>3, <1>5, <1>6 DEF IInv

LEMMA AcquireQueuesKeeps ==
  ASSUME IInv, AcquireQueues
  PROVE  IInv'
<1> DEFINE r == got[Loop]
<1>1. /\ at[Loop] = "queueing" /\ waiters' = Append(waiters, r)
      /\ at' = [at EXCEPT ![Loop] = "rest"] /\ got' = [got EXCEPT ![Loop] = None]
      /\ UNCHANGED <<cap, held, pc>>
  BY DEF AcquireQueues
<1>2. /\ Loop \in Procs /\ r # None /\ r \in Requests /\ InHand(r)
      /\ \A p \in Procs : got[p] = r => p = Loop
  BY <1>1 DEF IInv, TypeOK, Hands, Procs, InHand
<1>3. /\ pc[r] = "waiting" /\ ~In(waiters, r) /\ Distinct(waiters)
      /\ waiters \in Seq(Requests)
  BY <1>2 DEF IInv, TypeOK, Located
<1> HIDE DEF r
<1>4. /\ waiters' \in Seq(Requests) /\ Distinct(waiters')
      /\ \A q : In(waiters', q) <=> In(waiters, q) \/ q = r
  BY <1>1, <1>2, <1>3, Appended
<1>5. TypeOK'
  BY <1>1, <1>4 DEF IInv, TypeOK
<1>6. Hands'
  BY <1>1, <1>2 DEF IInv, TypeOK, Hands
<1>7. Located'
  <2>1. \A q \in Requests : InHand(q)' <=> InHand(q) /\ q # r
    BY <1>1, <1>2, RequestsAssumption DEF IInv, TypeOK, InHand, r
  <2> QED
    BY <1>1, <1>2, <1>3, <1>4, <2>1 DEF IInv, Located
<1>8. Owners' = Owners
  BY <1>1 DEF Owners
<1> QED
  BY <1>1, <1>5, <1>6, <1>7, <1>8 DEF IInv

LEMMA ResumeKeeps ==
  ASSUME IInv, NEW r \in Requests, Resume(r)
  PROVE  IInv'
<1>1. /\ pc[r] = "granted" /\ pc' = [pc EXCEPT ![r] = "inside"]
      /\ UNCHANGED <<cap, held, waiters, at, got>>
  BY DEF Resume
<1>2. Owners' = Owners
  BY <1>1 DEF Owners, IInv, TypeOK
<1>3. TypeOK' /\ Hands'
  BY <1>1 DEF IInv, TypeOK, Hands
<1>4. Located'
  BY <1>1 DEF IInv, TypeOK, Located, Distinct, In, InHand
<1> QED
  BY <1>1, <1>2, <1>3, <1>4 DEF IInv

LEMMA ReleaseKeeps ==
  ASSUME IInv, NEW r \in Requests, Release(r)
  PROVE  IInv'
<1>1. /\ at[Loop] = "rest" /\ pc[r] = "inside" /\ pc' = [pc EXCEPT ![r] = "idle"]
      /\ held' = (IF held = 0 THEN 0 ELSE held - 1)
      /\ at' = [at EXCEPT ![Loop] = "wake"]
      /\ UNCHANGED <<cap, waiters, got>>
  BY DEF Release
<1>2. r \in Owners /\ Owners' = Owners \ {r}
  BY <1>1 DEF Owners, IInv, TypeOK
<1>3. Owners \in SUBSET Requests /\ Owners' \in SUBSET Requests
  BY DEF Owners
<1>4. held' = Cardinality(Owners') /\ held' \in 0..Cardinality(Requests)
  <2>1. Cardinality(Owners') = Cardinality(Owners) - 1
    BY <1>2, <1>3, SubsetCount, FS_RemoveElement
  <2> QED
    BY <1>1, <1>3, <2>1, SubsetCount DEF IInv
<1>5. TypeOK'
  BY <1>1, <1>4 DEF IInv, TypeOK
<1>6. Hands'
  BY <1>1 DEF IInv, TypeOK, Hands, Procs
<1>7. Located'
  <2>1. ~In(waiters, r) /\ ~InHand(r)
    BY <1>1 DEF IInv, Located
  <2> QED
    BY <1>1, <2>1 DEF IInv, TypeOK, Located, Distinct, In, InHand
<1> QED
  BY <1>4, <1>5, <1>6, <1>7 DEF IInv

LEMMA ResizeKeeps ==
  ASSUME IInv, NEW p \in Procs, NEW c \in Targets, Resize(p, c)
  PROVE  IInv'
<1>1. /\ at[p] = "rest" /\ cap' = c /\ at' = [at EXCEPT ![p] = "wake"]
      /\ UNCHANGED <<held, waiters, pc, got>>
  BY DEF Resize
<1>2. TypeOK' /\ Hands'
  BY <1>1 DEF IInv, TypeOK, Hands
<1>3. Located' /\ Owners' = Owners
  BY <1>1 DEF IInv, Located, Distinct, In, InHand, Owners
<1> QED
  BY <1>1, <1>2, <1>3 DEF IInv

LEMMA WakePopsKeeps ==
  ASSUME IInv, NEW p \in Procs, WakePops(p)
  PROVE  IInv'
<1>1. at[p] = "wake" /\ got[p] = None /\ UNCHANGED <<cap, held, pc>>
  BY DEF WakePops, IInv, Hands
<1>2. Owners' = Owners
  BY <1>1 DEF Owners
<1>3. CASE waiters # << >> /\ held < cap
  <2> DEFINE r == Head(waiters)
  <2>1. /\ got' = [got EXCEPT ![p] = r] /\ waiters' = Tail(waiters)
        /\ at' = [at EXCEPT ![p] = "popped"]
    BY <1>3 DEF WakePops
  <2>2. /\ r \in Requests /\ waiters' \in Seq(Requests) /\ Distinct(waiters')
        /\ \A q : In(waiters', q) <=> In(waiters, q) /\ q # r
        /\ In(waiters, r)
    BY <1>3, <2>1, Popleft DEF IInv, TypeOK, Located
  <2> HIDE DEF r
  <2>3. r # None /\ pc[r] = "waiting" /\ ~InHand(r)
    BY <2>2, RequestsAssumption DEF IInv, Located
  <2>4. TypeOK'
    BY <1>1, <2>1, <2>2 DEF IInv, TypeOK
  <2>5. Hands'
    BY <1>1, <2>1, <2>3 DEF IInv, TypeOK, Hands, InHand
  <2>6. \A q \in Requests : InHand(q)' <=> InHand(q) \/ q = r
    BY <1>1, <2>1, <2>2, RequestsAssumption DEF IInv, TypeOK, InHand
  <2>7. Located'
    BY <1>1, <2>2, <2>3, <2>6 DEF IInv, Located
  <2> QED
    BY <1>1, <1>2, <2>4, <2>5, <2>7 DEF IInv
<1>4. CASE ~(waiters # << >> /\ held < cap)
  <2>1. at' = [at EXCEPT ![p] = "rest"] /\ UNCHANGED <<waiters, got>>
    BY <1>4 DEF WakePops
  <2>2. TypeOK' /\ Hands'
    BY <1>1, <2>1 DEF IInv, TypeOK, Hands
  <2>3. Located'
    BY <1>1, <2>1 DEF IInv, Located, Distinct, In, InHand
  <2> QED
    BY <1>1, <1>2, <2>2, <2>3 DEF IInv
<1> QED
  BY <1>3, <1>4

LEMMA WakeGrantsKeeps ==
  ASSUME IInv, NEW p \in Procs, WakeGrants(p)
  PROVE  IInv'
<1> DEFINE r == got[p]
<1>1. /\ at[p] = "popped" /\ held' = held + 1 /\ pc' = [pc EXCEPT ![r] = "granted"]
      /\ got' = [got EXCEPT ![p] = None] /\ at' = [at EXCEPT ![p] = "wake"]
      /\ UNCHANGED <<cap, waiters>>
  BY DEF WakeGrants
<1>2. /\ r # None /\ r \in Requests /\ InHand(r)
      /\ \A q \in Procs : got[q] = r => q = p
  BY <1>1 DEF IInv, TypeOK, Hands, InHand
<1>3. pc[r] = "waiting" /\ ~In(waiters, r)
  BY <1>2 DEF IInv, Located
<1> HIDE DEF r
<1>4. Owners' = Owners \union {r} /\ r \notin Owners
  BY <1>1, <1>2, <1>3 DEF Owners, IInv, TypeOK
<1>5. Owners \in SUBSET Requests /\ Owners' \in SUBSET Requests
  BY DEF Owners
<1>6. held' = Cardinality(Owners') /\ held' \in 0..Cardinality(Requests)
  BY <1>1, <1>4, <1>5, SubsetCount, FS_AddElement DEF IInv
<1>7. TypeOK'
  BY <1>1, <1>6 DEF IInv, TypeOK
<1>8. Hands'
  BY <1>1 DEF IInv, TypeOK, Hands
<1>9. Located'
  <2>1. \A q : In(waiters, q)' <=> In(waiters, q)
    BY <1>1 DEF In
  <2>2. \A q \in Requests : InHand(q)' <=> InHand(q) /\ q # r
    BY <1>1, <1>2, RequestsAssumption DEF IInv, TypeOK, InHand, r
  <2>3. \A q \in Requests : pc'[q] = IF q = r THEN "granted" ELSE pc[q]
    BY <1>1 DEF IInv, TypeOK
  <2> QED
    BY <1>1, <1>3, <2>1, <2>2, <2>3 DEF IInv, Located, Distinct
<1> QED
  BY <1>6, <1>7, <1>8, <1>9 DEF IInv

LEMMA NextKeeps == IInv /\ [Next]_vars => IInv'
<1> SUFFICES ASSUME IInv, [Next]_vars
             PROVE  IInv'
  OBVIOUS
<1>1. CASE \E r \in Requests : \/ AcquireAtOnce(r) \/ AcquireDecidesToWait(r)
                               \/ Resume(r) \/ Release(r)
  BY <1>1, AcquireAtOnceKeeps, AcquireDecidesToWaitKeeps, ResumeKeeps, ReleaseKeeps
<1>2. CASE AcquireQueues
  BY <1>2, AcquireQueuesKeeps
<1>3. CASE \E p \in Procs : \/ \E c \in Targets : Resize(p, c)
                            \/ WakePops(p) \/ WakeGrants(p)
  BY <1>3, ResizeKeeps, WakePopsKeeps, WakeGrantsKeeps
<1>4. CASE UNCHANGED vars
  BY <1>4 DEF vars, IInv, TypeOK, Hands, Located, Distinct, In, InHand, Owners
<1> QED
  BY <1>1, <1>2, <1>3, <1>4 DEF Next

-----------------------------------------------------------------------------
(* In the terms of NobodyLost: the places of the queue and the hands that    *)
(* hold a request are one together if it waits, and none if it does not.     *)
LEMMA IInvImpliesNobodyLost == IInv => NobodyLost
<1> SUFFICES ASSUME IInv, NEW r \in Requests
             PROVE  Cardinality(Places(r)) + Cardinality({p \in Procs : got[p] = r})
                      = IF r \in Waiting THEN 1 ELSE 0
  BY DEF NobodyLost, IInv
<1> DEFINE Hs == {p \in Procs : got[p] = r}
<1>1. r # None
  BY RequestsAssumption
<1>2. /\ In(waiters, r) => \E i : Places(r) = {i}
      /\ ~In(waiters, r) => Places(r) = {}
  <2>1. ASSUME In(waiters, r)
        PROVE  \E i : Places(r) = {i}
    <3>1. PICK i \in 1..Len(waiters) : waiters[i] = r
      BY <2>1 DEF In
    <3>2. \A j \in 1..Len(waiters) : waiters[j] = r => j = i
      BY <3>1 DEF IInv, Located, Distinct
    <3>3. Places(r) = {i}
      BY <3>1, <3>2 DEF Places
    <3> QED
      BY <3>3
  <2>2. ASSUME ~In(waiters, r)
        PROVE  Places(r) = {}
    BY <2>2 DEF In, Places
  <2> QED
    BY <2>1, <2>2
<1>3. /\ InHand(r) => \E p : Hs = {p}
      /\ ~InHand(r) => Hs = {}
  BY <1>1 DEF IInv, Hands, InHand
<1>4. /\ In(waiters, r) => Cardinality(Places(r)) = 1
      /\ ~In(waiters, r) => Cardinality(Places(r)) = 0
      /\ InHand(r) => Cardinality(Hs) = 1
      /\ ~InHand(r) => Cardinality(Hs) = 0
  BY <1>2, <1>3, FS_Singleton, FS_EmptySet
<1>5. /\ r \in Waiting <=> In(waiters, r) \/ InHand(r)
      /\ ~(In(waiters, r) /\ InHand(r))
  BY DEF IInv, Located, Waiting
<1> QED
  BY <1>4, <1>5

(* What the model's variables range over, for every instance.                *)
THEOREM TypeCorrect == Spec => []TypeOK
<1>1. IInv => TypeOK
  BY DEF IInv
<1> QED
  BY <1>1, InitIInv, NextKeeps, PTL DEF Spec

(* resize in other threads and release on the event loop run _wake at the    *)
(* same time: however they interleave, each waiting request stays in one     *)
(* place, and the count of slots stays the number of their owners.           *)
THEOREM NobodyIsLost == Spec => []NobodyLost
  BY InitIInv, NextKeeps, IInvImpliesNobodyLost, PTL DEF Spec
=============================================================================
