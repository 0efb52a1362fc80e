--------------------------- MODULE LoadTestProofs ---------------------------
(***************************************************************************)
(* Proofs about Proxy and LoadTest, for any number of users, tasks,        *)
(* backends, slots and faults.                                             *)
(*                                                                         *)
(* A connection is shared by one request after another, so what is needed  *)
(* is that a pooled one is clean: it has neither requests nor answers.     *)
(* Then the connection of a task has nothing but its own request or the    *)
(* answer to it, whatever broke before.                                    *)
(***************************************************************************)
EXTENDS LoadTest, FiniteSetTheorems, SequenceTheorems, TLAPS

(* An answer of 2xx to a message says that the message is stored. *)
Truthful(a, st) == a.status = 200 /\ a.req.kind = "post" => a.req \in st

HoldsSlot == {"open", "head", "relay"}
AtBackend == {"head", "relay"}

Conns     == [ins : Seq(Requests), outs : Seq(Answers), eof : BOOLEAN]
IdleConns == [ins : {<< >>}, outs : {<< >>}, eof : BOOLEAN]
TaskType  == [at : {"free", "idle", "closed"} \union InHand,
              req : Requests \union {Nothing}, b : Backends \union {Nothing},
              conn : Conns, tried : SUBSET Backends,
              out : Answers \union {Nothing}, gone : BOOLEAN]

(* The connection c of a task that asked for r: one request, one answer, or  *)
(* nothing any more.                                                         *)
Carries(c, r, st) ==
  \/ c.ins = << >> /\ c.outs = << >>
  \/ c.ins = <<r>> /\ c.outs = << >>
  \/ c.ins = << >> /\ \E s \in {200, 500} : /\ c.outs = <<Answer(r, s)>>
                                            /\ Truthful(Answer(r, s), st)

(* A task's own state. *)
TaskOK(x, st) ==
  /\ x \in TaskType
  /\ x.at \in InHand => x.req \in Requests /\ x.out = Nothing
  /\ x.at \in HoldsSlot => x.b \in Backends
  /\ x.at \in AtBackend => Carries(x.conn, x.req, st)
  /\ x.at \notin AtBackend => x.conn = NewConn
  /\ x.at = "relay" => x.conn.outs # << >>
  /\ x.at = "free" => x = FreeTask
  /\ x.out # Nothing => Truthful(x.out, st)

(* What is shared, apart from the counters. *)
SharedOK ==
  /\ pool \in [Backends -> Seq(IdleConns)]
  /\ orphans \subseteq [b : Backends, req : Requests]
  /\ held \in [{"post", "feed"} -> Int] /\ in_flight \in [Backends -> Int]
  /\ tunnels \in [Backends -> Int]
  /\ routable \subseteq Backends /\ up \subseteq Backends /\ stored \subseteq Requests
  /\ faults \in Nat

ProxyInv == /\ task \in [Tasks -> TaskType] /\ \A t \in Tasks : TaskOK(task[t], stored)
            /\ SharedOK
            /\ CountersExact

(* What a user that asked for r may expect of its task x. *)
Owes(x, r) == IF x.at \in InHand THEN x.req = r ELSE x.out # Nothing => x.out.req = r

UserType == [at : {"claim", "wait", "last", "done"}, n : Nat,
             req : Requests \union {Nothing}, link : Tasks \union {0}]

UserOK(v, x) ==
  /\ v.at \in {"wait", "last"} => v.link # 0 /\ v.req \in Requests /\ Owes(x, v.req)
  /\ v.link # 0 => x.at # "free" /\ ~x.gone
  /\ v.link # 0 /\ v.at = "claim" => x.at \notin InHand /\ x.out = Nothing
  /\ v.at = "done" => v.link = 0

StatType == [requests : Nat, successes : Nat, errors : Nat, timeouts : Nat,
             ambiguous : Nat, accepted : SUBSET Requests]

UserInv ==
  /\ user \in [Users -> UserType] /\ \A u \in Users : UserOK(user[u], task[user[u].link])
  /\ \A u, v \in Users : user[u].link = user[v].link /\ user[u].link # 0 => u = v
  /\ remaining \in 0..Budget /\ over \in BOOLEAN /\ stat \in StatType
  /\ AcceptedIsStored
  /\ EveryRequestCounted

IInv == ProxyInv /\ UserInv
-----------------------------------------------------------------------------
(* Counting. *)

LEMMA TasksAre == /\ IsFiniteSet(Tasks) /\ 0 \notin Tasks /\ Tasks \subseteq Nat
                  /\ DOMAIN Slots = {"post", "feed"}
<1>1. Cardinality(Tasks) \in Nat
  BY IdsAssumption, FS_CardinalityType
<1> QED
  BY <1>1, IdsAssumption, SlotsAssumption

(* Two subsets of a finite set that differ in at most one element.           *)
LEMMA OneMoves ==
  ASSUME NEW U, IsFiniteSet(U), NEW S \in SUBSET U, NEW T \in SUBSET U, NEW t \in U,
         \A s \in U : s # t => (s \in S <=> s \in T)
  PROVE  /\ Cardinality(S) \in Nat /\ Cardinality(T) \in Nat
         /\ Cardinality(T) = Cardinality(S) + (IF t \in T THEN 1 ELSE 0)
                                            - (IF t \in S THEN 1 ELSE 0)
<1>1. /\ IsFiniteSet(S) /\ IsFiniteSet(T)
      /\ Cardinality(S) \in Nat /\ Cardinality(T) \in Nat
  BY FS_Subset, FS_CardinalityType
<1>2. CASE t \in S /\ t \in T
  BY <1>1, <1>2
<1>3. CASE t \notin S /\ t \notin T
  BY <1>1, <1>3
<1>4. CASE t \in S /\ t \notin T
  <2>1. T = S \ {t}
    BY <1>4
  <2> QED
    BY <1>1, <1>4, <2>1, FS_RemoveElement
<1>5. CASE t \notin S /\ t \in T
  <2>1. T = S \union {t}
    BY <1>5
  <2> QED
    BY <1>1, <1>5, <2>1, FS_AddElement
<1> QED
  BY <1>2, <1>3, <1>4, <1>5

(* How many slots of gate g, and requests at backend b, the task x stands for. *)
Slot(x, g)  == IF x.at \in HoldsSlot /\ x.req.kind = g THEN 1 ELSE 0
Guest(x, b) == IF x.at \in AtBackend /\ x.b = b THEN 1 ELSE 0

(* The counters follow the task t that becomes y. *)
Counted(t, y) ==
  /\ \A g \in {"post", "feed"} : held'[g] = held[g] + Slot(y, g) - Slot(task[t], g)
  /\ \A b \in Backends : in_flight'[b] - tunnels'[b]
                           = in_flight[b] - tunnels[b] + Guest(y, b) - Guest(task[t], b)

(* A step of one task, or of its connection, that keeps the invariant.       *)
Moves(t, y) == /\ task' = [task EXCEPT ![t] = y]
               /\ TaskOK(y, stored')
               /\ Counted(t, y)
               /\ SharedOK' /\ stored \subseteq stored'

LEMMA MovesKeeps ==
  ASSUME ProxyInv, NEW t \in Tasks, NEW y, Moves(t, y)
  PROVE  ProxyInv'
<1>1. /\ task' = [task EXCEPT ![t] = y] /\ y \in TaskType
      /\ task \in [Tasks -> TaskType] /\ task' \in [Tasks -> TaskType]
      /\ task'[t] = y /\ \A s \in Tasks : s # t => task'[s] = task[s]
  BY DEF ProxyInv, Moves, TaskOK
<1>2. \A s \in Tasks : TaskOK(task[s], stored')
  <2> SUFFICES ASSUME NEW s \in Tasks
               PROVE  TaskOK(task[s], stored')
    OBVIOUS
  <2>1. TaskOK(task[s], stored) /\ stored \subseteq stored'
    BY DEF ProxyInv, Moves
  <2>2. \A a : Truthful(a, stored) => Truthful(a, stored')
    BY <2>1 DEF Truthful
  <2>3. \A c, r : Carries(c, r, stored) => Carries(c, r, stored')
    BY <2>2 DEF Carries
  <2> QED
    BY <2>1, <2>2, <2>3 DEF TaskOK
<1>3. \A s \in Tasks : TaskOK(task'[s], stored')
  BY <1>1, <1>2 DEF Moves
<1>4. ASSUME NEW g \in DOMAIN Slots
      PROVE  held'[g] = Cardinality({s \in Busy(HoldsSlot) : Gate(s) = g}')
  <2> DEFINE H == {s \in Busy(HoldsSlot) : Gate(s) = g}
  <2>1. H = {s \in Tasks : Slot(task[s], g) = 1} /\ H' = {s \in Tasks : Slot(task'[s], g) = 1}
    BY DEF Busy, Gate, Slot
  <2> HIDE DEF H
  <2>2. Cardinality(H') = Cardinality(H) + (IF t \in H' THEN 1 ELSE 0)
                                         - (IF t \in H THEN 1 ELSE 0)
    BY <1>1, <2>1, TasksAre, OneMoves
  <2>3. Cardinality(H) = held[g]
    BY DEF ProxyInv, CountersExact, H, HoldsSlot
  <2>4. held'[g] = held[g] + Slot(y, g) - Slot(task[t], g) /\ held[g] \in Int
    BY TasksAre DEF Moves, Counted, ProxyInv, SharedOK
  <2>5. /\ Slot(y, g) = IF t \in H' THEN 1 ELSE 0
        /\ Slot(task[t], g) = IF t \in H THEN 1 ELSE 0
    BY <1>1, <2>1 DEF Slot
  <2>6. held'[g] = Cardinality(H')
    BY <2>2, <2>3, <2>4, <2>5
  <2> QED
    BY <2>6 DEF H
<1>5. ASSUME NEW b \in Backends
      PROVE  in_flight'[b] = tunnels'[b] + Cardinality({s \in Busy(AtBackend) : task[s].b = b}')
  <2> DEFINE G == {s \in Busy(AtBackend) : task[s].b = b}
  <2>1. G = {s \in Tasks : Guest(task[s], b) = 1} /\ G' = {s \in Tasks : Guest(task'[s], b) = 1}
    BY DEF Busy, Guest
  <2> HIDE DEF G
  <2>2. /\ Cardinality(G) \in Nat /\ Cardinality(G') \in Nat
        /\ Cardinality(G') = Cardinality(G) + (IF t \in G' THEN 1 ELSE 0)
                                            - (IF t \in G THEN 1 ELSE 0)
    BY <1>1, <2>1, TasksAre, OneMoves
  <2>3. in_flight[b] = tunnels[b] + Cardinality(G)
    BY DEF ProxyInv, CountersExact, G, AtBackend
  <2>4. /\ in_flight'[b] - tunnels'[b]
             = in_flight[b] - tunnels[b] + Guest(y, b) - Guest(task[t], b)
        /\ in_flight[b] \in Int /\ tunnels[b] \in Int
        /\ in_flight'[b] \in Int /\ tunnels'[b] \in Int
    BY DEF Moves, Counted, ProxyInv, SharedOK
  <2>5. /\ Guest(y, b) = IF t \in G' THEN 1 ELSE 0
        /\ Guest(task[t], b) = IF t \in G THEN 1 ELSE 0
    BY <1>1, <2>1 DEF Guest
  <2>6. in_flight'[b] = tunnels'[b] + Cardinality(G')
    BY <2>2, <2>3, <2>4, <2>5
  <2> QED
    BY <2>6 DEF G
<1>6. CountersExact'
  BY <1>4, <1>5 DEF CountersExact, HoldsSlot, AtBackend
<1> QED
  BY <1>1, <1>3, <1>6 DEF ProxyInv, Moves

-----------------------------------------------------------------------------
(* The steps of a task.  What its user may expect is kept by each.           *)
Follows(x, y) ==
  ~x.gone /\ x.at # "free" =>
    /\ ~y.gone /\ y.at # "free"
    /\ x.at \in InHand => Owes(y, x.req)
    /\ x.at \notin InHand => y.at \notin InHand /\ y.out = x.out

Steps(t) == \E y : Moves(t, y) /\ Follows(task[t], y)

LEMMA TaskHas ==
  ASSUME ProxyInv, NEW t \in Tasks
  PROVE  /\ task[t] \in TaskType /\ TaskOK(task[t], stored)
         /\ SharedOK
         /\ task[t].conn.ins \in Seq(Requests) /\ task[t].conn.outs \in Seq(Answers)
         /\ task[t].at \in InHand => Gate(t) \in {"post", "feed"}
  BY DEF ProxyInv, TaskType, Conns, TaskOK, Gate, Requests

(* A counter of a function that is changed at one place. *)
LEMMA CounterMoves ==
  ASSUME NEW A, NEW f \in [A -> Int], NEW a \in A, NEW k \in Int,
         NEW g, g = [f EXCEPT ![a] = f[a] + k]
  PROVE  /\ g \in [A -> Int]
         /\ \A d \in A : /\ f[d] \in Int /\ g[d] \in Int
                         /\ g[d] = f[d] + (IF d = a THEN k ELSE 0)
  OBVIOUS

LEMMA NewConnFits == NewConn \in Conns /\ NewConn \in IdleConns
  BY EmptySeq DEF NewConn, Conns, IdleConns

LEMMA FreeTaskFits == \A st : TaskOK(FreeTask, st)
  BY NewConnFits DEF TaskOK, TaskType, FreeTask, InHand, HoldsSlot, AtBackend

(* A task that has closed its connection or ended is a sound one, and its    *)
(* user reads a failure of its own request, or the end of the stream.        *)
LEMMA ClosedTaskFits ==
  ASSUME ProxyInv, NEW t \in Tasks, NEW out \in Answers \union {Nothing}, NEW st,
         out # Nothing => out.status # 200
  PROVE  /\ TaskOK(ClosedTask(t, out), st)
         /\ ClosedTask(t, out).at \in {"free", "closed"}
         /\ ~task[t].gone => /\ ClosedTask(t, out).at = "closed"
                             /\ ClosedTask(t, out).out = out
                             /\ ~ClosedTask(t, out).gone
<1>1. CASE task[t].gone
  BY <1>1, FreeTaskFits DEF ClosedTask, FreeTask
<1>2. CASE ~task[t].gone
  <2> DEFINE y == ClosedTask(t, out)
  <2>1. y = [task[t] EXCEPT !.req = Nothing, !.b = Nothing, !.conn = NewConn, !.tried = {},
                            !.at = "closed", !.out = out]
    BY <1>2, TaskHas DEF ClosedTask, Ended, TaskType
  <2> HIDE DEF y
  <2>2. /\ y \in TaskType /\ y.at = "closed" /\ y.out = out /\ y.conn = NewConn
        /\ y.gone = task[t].gone
    <3>1. task[t] \in TaskType
      BY TaskHas
    <3> QED
      BY <2>1, <3>1, NewConnFits DEF TaskType
  <2>3. TaskOK(y, st)
    BY <2>2 DEF TaskOK, InHand, HoldsSlot, AtBackend, Truthful
  <2> QED
    BY <1>2, <2>2, <2>3 DEF y
<1> QED
  BY <1>1, <1>2

(* The choice of a backend, by a task that waits for a slot or has one. *)
LEMMA PicksSteps ==
  ASSUME ProxyInv, NEW t \in Tasks, task[t].at \in {"gate", "open"},
         NEW tried \in SUBSET Backends, NEW from \in SUBSET Backends,
         NEW h \in [{"post", "feed"} -> Int],
         \A g \in {"post", "feed"} :
            h[g] = held[g] + (IF g = Gate(t) THEN 1 ELSE 0) - Slot(task[t], g),
         Picks(t, tried, from, h), UNCHANGED <<orphans, tunnels, up, stored>>,
         routable' \subseteq Backends, faults' \in Nat
  PROVE  Steps(t)
<1> DEFINE x == task[t]
<1>1. /\ x \in TaskType /\ TaskOK(x, stored) /\ SharedOK /\ Gate(t) \in {"post", "feed"}
      /\ Gate(t) = x.req.kind /\ x.req \in Requests /\ x.out = Nothing
      /\ x.conn = NewConn /\ x.at \in InHand /\ x.at \notin AtBackend
      /\ task \in [Tasks -> TaskType] /\ stored' = stored
      /\ \A b \in Backends : Guest(x, b) = 0
  BY TaskHas DEF TaskOK, InHand, AtBackend, Gate, Guest, ProxyInv
<1>2. CASE PicksNone(t, tried, from, h)
  <2> DEFINE out == Answer(x.req, 503)
             y == ClosedTask(t, out)
  <2>1. /\ task' = [task EXCEPT ![t] = y] /\ held' = Released(t, h)
        /\ UNCHANGED <<pool, in_flight>>
    BY <1>2 DEF PicksNone
  <2>2. out \in Answers /\ out.status # 200 /\ out.req = x.req
    BY <1>1 DEF Answer, Answers
  <2>3. /\ TaskOK(y, stored) /\ y.at \in {"free", "closed"}
        /\ ~x.gone => y.at = "closed" /\ y.out = out /\ ~y.gone
    BY <2>2, ClosedTaskFits
  <2> HIDE DEF y, out
  <2>4. /\ \A g \in {"post", "feed"} : Slot(y, g) = 0
        /\ \A b \in Backends : Guest(y, b) = 0
    BY <2>3 DEF Slot, Guest, HoldsSlot, AtBackend
  <2>5. \A g \in {"post", "feed"} : held'[g] = h[g] - (IF g = Gate(t) THEN 1 ELSE 0)
    BY <2>1 DEF Released
  <2>6. held' \in [{"post", "feed"} -> Int]
    BY <1>1, <2>1 DEF Released
  <2>7. Counted(t, y)
    <3>1. \A g \in {"post", "feed"} : Slot(x, g) \in Int /\ held[g] \in Int
      BY <1>1 DEF Slot, SharedOK
    <3>2. \A g \in {"post", "feed"} : held'[g] = held[g] + Slot(y, g) - Slot(x, g)
      BY <2>4, <2>5, <3>1
    <3>3. \A b \in Backends : in_flight'[b] - tunnels'[b]
                                = in_flight[b] - tunnels[b] + Guest(y, b) - Guest(x, b)
      BY <1>1, <2>1, <2>4 DEF SharedOK
    <3> QED
      BY <3>2, <3>3 DEF Counted
  <2>8. SharedOK'
    BY <1>1, <2>1, <2>6 DEF SharedOK
  <2>9. Follows(x, y)
    BY <1>1, <2>2, <2>3 DEF Follows, Owes, InHand
  <2> QED
    BY <1>1, <2>1, <2>3, <2>7, <2>8, <2>9 DEF Steps, Moves
<1>3. CASE PicksPooled(t, tried, from, h)
  <2>0. PICK b \in from \ tried : \E i \in FirstOpen(pool[b]) :
          /\ pool' = [pool EXCEPT ![b] = SubSeq(@, i + 1, Len(@))]
          /\ task' = [task EXCEPT ![t].at = "head", ![t].b = b, ![t].tried = tried,
                                  ![t].conn = [pool[b][i] EXCEPT !.ins = Append(@, task[t].req)]]
          /\ in_flight' = [in_flight EXCEPT ![b] = @ + 1]
          /\ held' = h
    BY <1>3 DEF PicksPooled
  <2>1. PICK i \in FirstOpen(pool[b]) :
          /\ pool' = [pool EXCEPT ![b] = SubSeq(@, i + 1, Len(@))]
          /\ task' = [task EXCEPT ![t].at = "head", ![t].b = b, ![t].tried = tried,
                                  ![t].conn = [pool[b][i] EXCEPT !.ins = Append(@, task[t].req)]]
          /\ in_flight' = [in_flight EXCEPT ![b] = @ + 1]
          /\ held' = h
    BY <2>0
  <2>11. /\ pool' = [pool EXCEPT ![b] = SubSeq(pool[b], i + 1, Len(pool[b]))]
         /\ in_flight' = [in_flight EXCEPT ![b] = in_flight[b] + 1]
         /\ held' = h
    BY <2>1
  <2>2. /\ b \in Backends /\ pool[b] \in Seq(IdleConns) /\ i \in 1..Len(pool[b])
        /\ Len(pool[b]) \in Nat
    BY <1>1, LenProperties DEF SharedOK, FirstOpen
  <2>3. pool[b][i] \in IdleConns
    BY <2>2, ElementOfSeq
  <2> DEFINE c == [pool[b][i] EXCEPT !.ins = Append(@, x.req)]
             y == [x EXCEPT !.at = "head", !.b = b, !.tried = tried, !.conn = c]
  <2>4. c.ins = <<x.req>> /\ c.outs = << >> /\ c.eof \in BOOLEAN /\ c \in Conns
    <3>1. Append(<< >>, x.req) = <<x.req>> /\ <<x.req>> \in Seq(Requests)
      BY <1>1
    <3> QED
      BY <2>3, <3>1, EmptySeq DEF IdleConns, Conns
  <2> HIDE DEF c
  <2>5. task' = [task EXCEPT ![t] = y]
    BY <1>1, <2>1 DEF c
  <2>6. /\ y \in TaskType /\ y.at = "head" /\ y.b = b /\ y.conn = c /\ y.req = x.req
        /\ y.out = Nothing /\ y.gone = x.gone
    BY <1>1, <2>2, <2>4 DEF TaskType, InHand
  <2> HIDE DEF y
  <2>7. TaskOK(y, stored)
    BY <1>1, <2>2, <2>4, <2>6 DEF TaskOK, Carries, InHand, HoldsSlot, AtBackend
  <2>8. Counted(t, y)
    <3>1. \A g \in {"post", "feed"} : Slot(y, g) = IF g = Gate(t) THEN 1 ELSE 0
      BY <1>1, <2>6 DEF Slot, HoldsSlot
    <3>2. \A d \in Backends : Guest(y, d) = IF d = b THEN 1 ELSE 0
      BY <2>6 DEF Guest, AtBackend
    <3>3. \A g \in {"post", "feed"} : Slot(x, g) \in Int /\ held[g] \in Int
      BY <1>1 DEF Slot, SharedOK
    <3>4. \A g \in {"post", "feed"} : held'[g] = held[g] + Slot(y, g) - Slot(x, g)
      BY <2>1, <3>1, <3>3
    <3>5. \A d \in Backends : in_flight'[d] - tunnels'[d]
                                = in_flight[d] - tunnels[d] + Guest(y, d) - Guest(x, d)
      <4>1. /\ in_flight \in [Backends -> Int] /\ tunnels \in [Backends -> Int]
            /\ tunnels' = tunnels /\ \A d \in Backends : Guest(x, d) = 0
        BY <1>1 DEF SharedOK
      <4>2. \A d \in Backends : in_flight'[d] = in_flight[d] + (IF d = b THEN 1 ELSE 0)
        <5>1. in_flight' = [in_flight EXCEPT ![b] = in_flight[b] + 1]
          BY <2>11
        <5> QED BY <4>1, <5>1
      <4>3. \A d \in Backends : in_flight[d] \in Int /\ tunnels[d] \in Int
        BY <4>1
      <4> HIDE DEF x
      <4> QED BY <3>2, <4>1, <4>2, <4>3
    <3> QED
      BY <3>4, <3>5 DEF Counted
  <2>9. SharedOK'
    <3>1. SubSeq(pool[b], i + 1, Len(pool[b])) \in Seq(IdleConns)
      <4>1. \A j \in (i + 1)..Len(pool[b]) : pool[b][j] \in IdleConns
        BY <2>2, ElementOfSeq
      <4> QED
        BY <2>2, <4>1, SubSeqProperties
    <3>2. pool' \in [Backends -> Seq(IdleConns)]
      <4>1. /\ pool \in [Backends -> Seq(IdleConns)]
            /\ pool' = [pool EXCEPT ![b] = SubSeq(pool[b], i + 1, Len(pool[b]))]
        BY <1>1, <2>11 DEF SharedOK
      <4> QED BY <2>2, <3>1, <4>1
    <3>3. in_flight' \in [Backends -> Int]
      <4>1. in_flight \in [Backends -> Int] /\ in_flight' = [in_flight EXCEPT ![b] = in_flight[b] + 1]
        BY <1>1, <2>11 DEF SharedOK
      <4> QED BY <2>2, <4>1
    <3>4. held' = h /\ stored' = stored
      BY <1>1, <2>11
    <3>5. SharedOK /\ h \in [{"post", "feed"} -> Int]
      BY <1>1
    <3> HIDE DEF x
    <3> QED
      BY <3>2, <3>3, <3>4, <3>5 DEF SharedOK
  <2>10. Follows(x, y)
    BY <1>1, <2>6 DEF Follows, Owes, InHand
  <2> QED
    BY <1>1, <2>5, <2>7, <2>8, <2>9, <2>10 DEF Steps, Moves
<1>4. CASE PicksNew(t, tried, from, h)
  <2>1. PICK b \in from \ tried :
          /\ pool' = [pool EXCEPT ![b] = << >>]
          /\ task' = [task EXCEPT ![t].at = "open", ![t].b = b, ![t].tried = tried]
          /\ held' = h /\ UNCHANGED in_flight
    BY <1>4 DEF PicksNew
  <2> DEFINE y == [x EXCEPT !.at = "open", !.b = b, !.tried = tried]
  <2>2. task' = [task EXCEPT ![t] = y]
    BY <1>1, <2>1
  <2>3. /\ y \in TaskType /\ y.at = "open" /\ y.b = b /\ y.conn = NewConn /\ y.req = x.req
        /\ y.out = Nothing /\ y.gone = x.gone
    BY <1>1 DEF TaskType, InHand
  <2> HIDE DEF y
  <2>4. TaskOK(y, stored)
    BY <1>1, <2>3 DEF TaskOK, InHand, HoldsSlot, AtBackend
  <2>5. Counted(t, y)
    <3>1. \A g \in {"post", "feed"} : Slot(y, g) = IF g = Gate(t) THEN 1 ELSE 0
      BY <1>1, <2>3 DEF Slot, HoldsSlot
    <3>2. \A d \in Backends : Guest(y, d) = 0
      BY <2>3 DEF Guest, AtBackend
    <3>3. \A g \in {"post", "feed"} : Slot(x, g) \in Int /\ held[g] \in Int
      BY <1>1 DEF Slot, SharedOK
    <3>4. \A g \in {"post", "feed"} : held'[g] = held[g] + Slot(y, g) - Slot(x, g)
      <4>1. held' = h
        BY <2>1
      <4> QED
        BY <3>1, <3>3, <4>1
    <3>5. \A d \in Backends : in_flight'[d] - tunnels'[d]
                                = in_flight[d] - tunnels[d] + Guest(y, d) - Guest(x, d)
      <4>1. /\ \A d \in Backends : in_flight[d] \in Int /\ tunnels[d] \in Int
            /\ \A d \in Backends : Guest(x, d) = 0
        BY <1>1 DEF SharedOK
      <4>2. in_flight' = in_flight /\ tunnels' = tunnels
        BY <2>1
      <4> HIDE DEF x
      <4> QED
        BY <3>2, <4>1, <4>2
    <3> QED
      BY <3>4, <3>5 DEF Counted
  <2>6. SharedOK'
    BY <1>1, <2>1, EmptySeq DEF SharedOK
  <2>7. Follows(x, y)
    BY <1>1, <2>3 DEF Follows, Owes, InHand
  <2> QED
    BY <1>1, <2>2, <2>4, <2>5, <2>6, <2>7 DEF Steps, Moves
<1> QED
  BY <1>2, <1>3, <1>4 DEF Picks

LEMMA AdmittedSteps ==
  ASSUME ProxyInv, NEW t \in Tasks, Admitted(t)
  PROVE  Steps(t)
<1> DEFINE h == [held EXCEPT ![Gate(t)] = @ + 1]
<1>1. /\ task[t].at = "gate" /\ Picks(t, {}, routable, h)
      /\ UNCHANGED <<orphans, tunnels, routable, up, stored, faults>>
  BY DEF Admitted, At
<1>2. SharedOK /\ Gate(t) \in {"post", "feed"}
  BY <1>1, TaskHas DEF InHand
<1>3. /\ h \in [{"post", "feed"} -> Int]
      /\ \A g \in {"post", "feed"} :
            h[g] = held[g] + (IF g = Gate(t) THEN 1 ELSE 0) - Slot(task[t], g)
  BY <1>1, <1>2 DEF SharedOK, Slot, HoldsSlot
<1>4. routable \in SUBSET Backends /\ routable' \subseteq Backends /\ faults' \in Nat
  BY <1>1, <1>2 DEF SharedOK
<1> HIDE DEF h
<1> QED
  BY <1>1, <1>3, <1>4, PicksSteps

LEMMA OpenFailsSteps ==
  ASSUME ProxyInv, NEW t \in Tasks, OpenFails(t)
  PROVE  Steps(t)
<1> DEFINE tried == task[t].tried \union {task[t].b}
<1>1. /\ task[t].at = "open" /\ Ejects(task[t].b)
      /\ Picks(t, tried, routable', held)
      /\ UNCHANGED <<orphans, tunnels, up, stored>>
      /\ faults' \in {faults, faults + 1}
  BY DEF OpenFails, At, Fault
<1>2. /\ SharedOK /\ Gate(t) \in {"post", "feed"} /\ TaskOK(task[t], stored)
      /\ task[t] \in TaskType
  BY <1>1, TaskHas DEF InHand
<1>3. tried \in SUBSET Backends
  BY <1>1, <1>2 DEF TaskOK, TaskType, HoldsSlot
<1>4. routable' \in SUBSET Backends /\ faults' \in Nat
  BY <1>1, <1>2 DEF SharedOK, Ejects
<1>5. \A g \in {"post", "feed"} :
         held[g] = held[g] + (IF g = Gate(t) THEN 1 ELSE 0) - Slot(task[t], g)
  <2>1. task[t].at = "open"
    BY <1>1
  <2>2. \A g \in {"post", "feed"} : Slot(task[t], g) = IF g = Gate(t) THEN 1 ELSE 0
    BY <2>1 DEF Slot, HoldsSlot, Gate
  <2>3. \A g \in {"post", "feed"} : held[g] \in Int
    BY <1>2 DEF SharedOK
  <2> QED
    BY <2>2, <2>3
<1>6. held \in [{"post", "feed"} -> Int]
  BY <1>2 DEF SharedOK
<1> HIDE DEF tried
<1> QED
  BY <1>1, <1>3, <1>4, <1>5, <1>6, PicksSteps

LEMMA OpensSteps ==
  ASSUME ProxyInv, NEW t \in Tasks, Opens(t)
  PROVE  Steps(t)
<1> DEFINE x == task[t]
           c == [NewConn EXCEPT !.ins = <<x.req>>]
           y == [x EXCEPT !.at = "head", !.conn = c]
<1>1. /\ x \in TaskType /\ TaskOK(x, stored) /\ SharedOK /\ x.at = "open"
      /\ x.req \in Requests /\ x.b \in Backends /\ x.conn = NewConn /\ x.out = Nothing
      /\ task \in [Tasks -> TaskType]
  BY TaskHas DEF Opens, At, TaskOK, InHand, HoldsSlot, AtBackend, ProxyInv
<1>2. /\ task' = [task EXCEPT ![t] = y]
      /\ in_flight' = [in_flight EXCEPT ![x.b] = @ + 1]
      /\ UNCHANGED <<pool, orphans, held, tunnels, routable, up, stored, faults>>
  BY <1>1 DEF Opens, TaskType, Conns
<1>3. /\ y.conn.ins = <<x.req>> /\ y.conn.outs = << >>
      /\ y \in TaskType /\ y.at = "head" /\ y.b = x.b /\ y.req = x.req
      /\ y.out = Nothing /\ y.gone = x.gone
  <2>1. <<x.req>> \in Seq(Requests)
    BY <1>1
  <2>2. c.ins = <<x.req>> /\ c.outs = << >> /\ c \in Conns
    BY <2>1, EmptySeq DEF NewConn, Conns
  <2> HIDE DEF c
  <2> QED
    BY <1>1, <2>2 DEF TaskType, InHand
<1> HIDE DEF y
<1>4. TaskOK(y, stored)
  BY <1>1, <1>3 DEF TaskOK, Carries, InHand, HoldsSlot, AtBackend
<1>5. Counted(t, y)
  <2>1. \A g \in {"post", "feed"} : Slot(y, g) = Slot(x, g) /\ Slot(x, g) \in Int
    BY <1>1, <1>3 DEF Slot, HoldsSlot
  <2>2. \A d \in Backends : Guest(x, d) = 0 /\ Guest(y, d) = IF d = x.b THEN 1 ELSE 0
    BY <1>1, <1>3 DEF Guest, AtBackend
  <2> QED
    BY <1>1, <1>2, <2>1, <2>2 DEF Counted, SharedOK
<1>6. SharedOK'
  BY <1>1, <1>2 DEF SharedOK
<1>7. Follows(x, y)
  BY <1>1, <1>3 DEF Follows, Owes, InHand
<1> QED
  BY <1>2, <1>4, <1>5, <1>6, <1>7 DEF Steps, Moves

LEMMA HeadArrivesSteps ==
  ASSUME ProxyInv, NEW t \in Tasks, HeadArrives(t)
  PROVE  Steps(t)
<1> DEFINE x == task[t]
           y == [x EXCEPT !.at = "relay"]
<1>1. /\ x \in TaskType /\ TaskOK(x, stored) /\ SharedOK /\ x.at = "head"
      /\ x.conn.outs # << >>
      /\ task' = [task EXCEPT ![t] = y]
      /\ UNCHANGED <<pool, orphans, held, in_flight, tunnels, routable, up, stored, faults>>
  BY TaskHas DEF HeadArrives, At
<1>2. /\ y \in TaskType /\ y.at = "relay" /\ y.b = x.b /\ y.req = x.req /\ y.conn = x.conn
      /\ y.out = x.out /\ y.gone = x.gone
  BY <1>1 DEF TaskType, InHand
<1> HIDE DEF y
<1>3. TaskOK(y, stored)
  BY <1>1, <1>2 DEF TaskOK, InHand, HoldsSlot, AtBackend
<1>4. Counted(t, y)
  <2>1. /\ \A g \in {"post", "feed"} : Slot(y, g) = Slot(x, g) /\ Slot(x, g) \in Int
        /\ \A d \in Backends : Guest(y, d) = Guest(x, d) /\ Guest(x, d) \in Int
    BY <1>1, <1>2 DEF Slot, Guest, HoldsSlot, AtBackend
  <2> QED
    BY <1>1, <2>1 DEF Counted, SharedOK
<1>5. SharedOK'
  BY <1>1 DEF SharedOK
<1>6. Follows(x, y)
  BY <1>1, <1>2 DEF Follows, Owes, InHand
<1> QED
  BY <1>1, <1>3, <1>4, <1>5, <1>6 DEF Steps, Moves

(* The answer of a task that relays is the one to its request. *)
LEMMA RelayHas ==
  ASSUME ProxyInv, NEW t \in Tasks, task[t].at = "relay"
  PROVE  /\ task[t].conn.ins = << >>
         /\ \E s \in {200, 500} : /\ task[t].conn.outs = <<Answer(task[t].req, s)>>
                                  /\ Answer(task[t].req, s) \in Answers
                                  /\ Truthful(Answer(task[t].req, s), stored)
<1>1. /\ TaskOK(task[t], stored) /\ task[t].conn.outs # << >> /\ task[t].req \in Requests
      /\ Carries(task[t].conn, task[t].req, stored)
  BY TaskHas DEF TaskOK, InHand, AtBackend
<1>2. \A s \in {200, 500} : Answer(task[t].req, s) \in Answers
  BY <1>1 DEF Answer, Answers
<1> QED
  BY <1>1, <1>2 DEF Carries

LEMMA BodyEndsSteps ==
  ASSUME ProxyInv, NEW t \in Tasks, BodyEnds(t)
  PROVE  Steps(t)
<1> DEFINE x == task[t]
           c == [x.conn EXCEPT !.outs = Tail(@)]
           out == IF x.gone THEN Nothing ELSE Head(x.conn.outs)
           y == [Ended(t) EXCEPT !.at = "idle", !.out = out]
<1>1. /\ x \in TaskType /\ TaskOK(x, stored) /\ SharedOK /\ x.at = "relay"
      /\ x.req \in Requests /\ x.b \in Backends /\ x.conn \in Conns /\ x.gone \in BOOLEAN
      /\ Gate(t) \in {"post", "feed"} /\ Gate(t) = x.req.kind
  BY TaskHas DEF BodyEnds, At, TaskOK, InHand, HoldsSlot, TaskType, Gate
<1>2. /\ pool' = [pool EXCEPT ![x.b] = Append(@, c)] \/ pool' = pool
      /\ task' = [task EXCEPT ![t] = y]
      /\ held' = [held EXCEPT ![Gate(t)] = @ - 1]
      /\ in_flight' = [in_flight EXCEPT ![x.b] = @ - 1]
      /\ UNCHANGED <<orphans, tunnels, routable, up, stored, faults>>
  BY DEF BodyEnds, Released, LeavesBackend
<1>3. PICK s \in {200, 500} :
        /\ x.conn.outs = <<Answer(x.req, s)>> /\ Answer(x.req, s) \in Answers
        /\ Truthful(Answer(x.req, s), stored)
  BY <1>1, RelayHas
<1>4. x.conn.ins = << >> /\ Tail(x.conn.outs) = << >> /\ Head(x.conn.outs) = Answer(x.req, s)
  BY <1>1, <1>3, RelayHas
<1>5. c \in IdleConns
  BY <1>1, <1>4 DEF Conns, IdleConns
<1>6. /\ out \in Answers \union {Nothing}
      /\ out # Nothing => Truthful(out, stored) /\ out.req = x.req
  BY <1>3, <1>4 DEF Answer
<1> HIDE DEF out, c
<1>7. /\ y \in TaskType /\ y.at = "idle" /\ y.conn = NewConn /\ y.out = out
      /\ y.gone = x.gone
  BY <1>1, <1>6, NewConnFits DEF Ended, TaskType
<1> HIDE DEF y
<1>8. TaskOK(y, stored)
  BY <1>6, <1>7 DEF TaskOK, InHand, HoldsSlot, AtBackend
<1>12. /\ held' \in [{"post", "feed"} -> Int]
       /\ \A g \in {"post", "feed"} : /\ held[g] \in Int
                                      /\ held'[g] = held[g] + (IF g = Gate(t) THEN -1 ELSE 0)
  <2>1. held' = [held EXCEPT ![Gate(t)] = held[Gate(t)] - 1]
    BY <1>2
  <2>2. held \in [{"post", "feed"} -> Int] /\ Gate(t) \in {"post", "feed"}
    BY <1>1 DEF SharedOK
  <2>3. held' = [held EXCEPT ![Gate(t)] = held[Gate(t)] + (-1)]
    BY <2>1, <2>2
  <2> QED
    BY <2>2, <2>3, CounterMoves
<1>13. /\ in_flight' \in [Backends -> Int]
       /\ \A d \in Backends : /\ in_flight[d] \in Int
                              /\ in_flight'[d] = in_flight[d] + (IF d = x.b THEN -1 ELSE 0)
  <2>1. in_flight \in [Backends -> Int] /\ x.b \in Backends
    BY <1>1 DEF SharedOK
  <2>2. in_flight' = [in_flight EXCEPT ![x.b] = in_flight[x.b] + (-1)]
    <3>1. in_flight' = [in_flight EXCEPT ![x.b] = in_flight[x.b] - 1]
      BY <1>2
    <3> HIDE DEF x
    <3> QED
      BY <2>1, <3>1
  <2> HIDE DEF x
  <2> QED
    BY <2>1, <2>2, CounterMoves
<1>9. Counted(t, y)
  <2>1. /\ \A g \in {"post", "feed"} : Slot(y, g) = 0 /\ Slot(x, g) = IF g = Gate(t) THEN 1 ELSE 0
        /\ \A d \in Backends : Guest(y, d) = 0 /\ Guest(x, d) = IF d = x.b THEN 1 ELSE 0
    BY <1>1, <1>7 DEF Slot, Guest, HoldsSlot, AtBackend
  <2>2. \A g \in {"post", "feed"} : held'[g] = held[g] + Slot(y, g) - Slot(x, g)
    <3> HIDE DEF x
    <3> QED
      BY <1>12, <2>1
  <2>3. \A d \in Backends : in_flight'[d] - tunnels'[d]
                              = in_flight[d] - tunnels[d] + Guest(y, d) - Guest(x, d)
    <3>1. \A d \in Backends : tunnels[d] \in Int /\ tunnels'[d] = tunnels[d]
      BY <1>1, <1>2 DEF SharedOK
    <3> HIDE DEF x
    <3> QED
      BY <1>13, <2>1, <3>1
  <2> QED
    BY <2>2, <2>3 DEF Counted
<1>10. SharedOK'
  <2>1. Append(pool[x.b], c) \in Seq(IdleConns)
    BY <1>1, <1>5, AppendProperties DEF SharedOK
  <2>2. pool' \in [Backends -> Seq(IdleConns)]
    <3>1. pool \in [Backends -> Seq(IdleConns)]
      BY <1>1 DEF SharedOK
    <3>2. CASE pool' = [pool EXCEPT ![x.b] = Append(@, c)]
      <4>1. pool' = [pool EXCEPT ![x.b] = Append(pool[x.b], c)]
        BY <3>2
      <4> HIDE DEF x
      <4> QED
        BY <2>1, <3>1, <4>1
    <3>3. CASE pool' = pool
      BY <3>1, <3>3
    <3> QED
      BY <1>2, <3>2, <3>3
  <2>3. SharedOK /\ UNCHANGED <<orphans, tunnels, routable, up, stored, faults>>
    BY <1>1, <1>2
  <2> HIDE DEF x
  <2> QED
    BY <1>12, <1>13, <2>2, <2>3 DEF SharedOK
<1>11. Follows(x, y)
  BY <1>1, <1>6, <1>7 DEF Follows, Owes, InHand
<1> QED
  BY <1>2, <1>8, <1>9, <1>10, <1>11 DEF Steps, Moves

LEMMA UpstreamFailsSteps ==
  ASSUME ProxyInv, NEW t \in Tasks, UpstreamFails(t)
  PROVE  Steps(t)
<1> DEFINE x == task[t]
           out == IF x.at = "head" THEN Answer(x.req, 502) ELSE Nothing
           y == ClosedTask(t, out)
<1>1. /\ x.at \in AtBackend
      /\ routable' \in SUBSET (routable \union Backends) /\ faults' \in {faults, faults + 1}
      /\ task' = [task EXCEPT ![t] = y]
      /\ orphans' = orphans \union Left(x.b, x.conn)
      /\ held' = [held EXCEPT ![Gate(t)] = @ - 1]
      /\ in_flight' = [in_flight EXCEPT ![x.b] = @ - 1]
      /\ UNCHANGED <<pool, tunnels, up, stored>>
  BY DEF UpstreamFails, At, AtBackend, Ejects, Fault, ClosesConn, Released, LeavesBackend
<1>2. /\ x \in TaskType /\ TaskOK(x, stored) /\ SharedOK
      /\ x.req \in Requests /\ x.b \in Backends /\ x.conn.ins \in Seq(Requests)
      /\ Gate(t) \in {"post", "feed"} /\ Gate(t) = x.req.kind
  BY <1>1, TaskHas DEF TaskOK, InHand, HoldsSlot, AtBackend, Gate
<1>3. out \in Answers \union {Nothing} /\ (out # Nothing => out.status # 200 /\ out.req = x.req)
  BY <1>2 DEF Answer, Answers
<1> HIDE DEF out
<1>4. /\ TaskOK(y, stored) /\ y.at \in {"free", "closed"}
      /\ ~x.gone => y.at = "closed" /\ y.out = out /\ ~y.gone
  BY <1>3, ClosedTaskFits
<1> HIDE DEF y
<1>5. Counted(t, y)
  <2>1. /\ \A g \in {"post", "feed"} : Slot(y, g) = 0 /\ Slot(x, g) = IF g = Gate(t) THEN 1 ELSE 0
        /\ \A d \in Backends : Guest(y, d) = 0 /\ Guest(x, d) = IF d = x.b THEN 1 ELSE 0
    BY <1>1, <1>2, <1>4 DEF Slot, Guest, HoldsSlot, AtBackend
  <2>2. \A g \in {"post", "feed"} : held'[g] = held[g] + Slot(y, g) - Slot(x, g)
    BY <1>1, <1>2, <2>1 DEF SharedOK
  <2>3. \A d \in Backends : in_flight'[d] - tunnels'[d]
                              = in_flight[d] - tunnels[d] + Guest(y, d) - Guest(x, d)
    BY <1>1, <1>2, <2>1 DEF SharedOK
  <2> QED
    BY <2>2, <2>3 DEF Counted
<1>6. SharedOK'
  <2>1. \A i \in DOMAIN x.conn.ins : x.conn.ins[i] \in Requests
    BY <1>2, LenProperties, ElementOfSeq
  <2>2. Left(x.b, x.conn) \subseteq [b : Backends, req : Requests]
    BY <1>2, <2>1 DEF Left
  <2> QED
    BY <1>1, <1>2, <2>2 DEF SharedOK
<1>7. Follows(x, y)
  BY <1>1, <1>3, <1>4 DEF Follows, Owes, InHand, AtBackend
<1> QED
  BY <1>1, <1>4, <1>5, <1>6, <1>7 DEF Steps, Moves

(* A step of a task that has no request leaves the counters alone.           *)
LEMMA IdleStepCounted ==
  ASSUME NEW t \in Tasks, NEW y, SharedOK, task[t].at \notin InHand, y.at \notin HoldsSlot,
         UNCHANGED <<held, in_flight, tunnels>>
  PROVE  Counted(t, y)
  BY DEF Counted, Slot, Guest, SharedOK, InHand, HoldsSlot, AtBackend

LEMMA SeesHangupSteps ==
  ASSUME ProxyInv, NEW t \in Tasks, SeesHangup(t)
  PROVE  Steps(t)
<1>1. /\ task[t].at = "idle" /\ task[t].gone /\ SharedOK
      /\ task' = [task EXCEPT ![t] = FreeTask]
      /\ UNCHANGED <<pool, orphans, held, in_flight, tunnels, routable, up, stored, faults>>
  BY TaskHas DEF SeesHangup, At
<1>2. Counted(t, FreeTask) /\ TaskOK(FreeTask, stored')
  <2>1. FreeTask.at \notin HoldsSlot /\ task[t].at \notin InHand
    BY <1>1 DEF FreeTask, InHand, HoldsSlot
  <2>2. UNCHANGED <<held, in_flight, tunnels>> /\ SharedOK
    BY <1>1
  <2>3. Counted(t, FreeTask)
    BY <2>1, <2>2, IdleStepCounted
  <2> QED
    BY <2>3, FreeTaskFits
<1>3. SharedOK' /\ Follows(task[t], FreeTask)
  BY <1>1 DEF SharedOK, Follows
<1> QED
  BY <1>1, <1>2, <1>3 DEF Steps, Moves

LEMMA IdleClosesSteps ==
  ASSUME ProxyInv, NEW t \in Tasks, IdleCloses(t)
  PROVE  Steps(t)
<1> DEFINE x == task[t]
           y == ClosedTask(t, Nothing)
<1>1. /\ x.at = "idle" /\ ~x.gone /\ x.out = Nothing /\ SharedOK
      /\ task' = [task EXCEPT ![t] = y] /\ faults' = faults + 1
      /\ UNCHANGED <<pool, orphans, held, in_flight, tunnels, routable, up, stored>>
  BY TaskHas DEF IdleCloses, ReadsHead, At, Fault
<1>2. TaskOK(y, stored) /\ y.at = "closed" /\ y.out = Nothing /\ ~y.gone
  BY <1>1, ClosedTaskFits
<1> HIDE DEF y
<1>3. Counted(t, y)
  BY <1>1, <1>2, IdleStepCounted DEF InHand, HoldsSlot
<1>4. SharedOK'
  BY <1>1 DEF SharedOK
<1>5. Follows(x, y)
  BY <1>1, <1>2 DEF Follows, InHand
<1> QED
  BY <1>1, <1>2, <1>3, <1>4, <1>5 DEF Steps, Moves

(* The backend answers on the connection of a task. *)
LEMMA HandlesSteps ==
  ASSUME ProxyInv, NEW t \in Tasks, Handles(t)
  PROVE  Steps(t)
<1> DEFINE x == task[t]
<1>1. /\ x \in TaskType /\ TaskOK(x, stored) /\ SharedOK /\ x.conn.ins # << >>
      /\ task \in [Tasks -> TaskType]
  BY TaskHas DEF Handles, ProxyInv
<1>2. x.at \in AtBackend /\ x.req \in Requests /\ x.out = Nothing /\ x.conn \in Conns
  BY <1>1 DEF TaskOK, NewConn, AtBackend, InHand, TaskType
<1>3. x.conn.ins = <<x.req>> /\ x.conn.outs = << >>
  BY <1>1, <1>2 DEF TaskOK, Carries
<1>4. PICK s \in {200, 500} :
        /\ s = 200 /\ x.req.kind = "post" => x.req \in stored'
        /\ stored \subseteq stored' /\ stored' \subseteq stored \union {x.req}
        /\ faults' \in {faults, faults + 1}
        /\ task' = [task EXCEPT ![t].conn = [x.conn EXCEPT !.ins = Tail(@),
                                                          !.outs = Append(@, Answer(x.req, s))]]
  <2>1. Head(x.conn.ins) = x.req
    BY <1>3
  <2> DEFINE Goes(s, q) ==
               task' = [task EXCEPT ![t].conn = [x.conn EXCEPT !.ins = Tail(@),
                                                               !.outs = Append(@, Answer(q, s))]]
  <2>2. PICK s \in {200, 500} :
          /\ \/ s = 200 /\ Works(Head(x.conn.ins)) /\ UNCHANGED faults
             \/ /\ s = 500 /\ (Works(Head(x.conn.ins)) \/ UNCHANGED stored)
                /\ Fault("error")
          /\ Goes(s, Head(x.conn.ins))
    BY DEF Handles
  <2> HIDE DEF Goes
  <2>3. /\ s = 200 /\ x.req.kind = "post" => x.req \in stored'
        /\ stored \subseteq stored' /\ stored' \subseteq stored \union {x.req}
        /\ faults' \in {faults, faults + 1}
    BY <2>1, <2>2 DEF Works, Fault
  <2>4. Goes(s, x.req)
    BY <2>1, <2>2
  <2>5. \E k \in {200, 500} :
          /\ k = 200 /\ x.req.kind = "post" => x.req \in stored'
          /\ stored \subseteq stored' /\ stored' \subseteq stored \union {x.req}
          /\ faults' \in {faults, faults + 1}
          /\ Goes(k, x.req)
    BY <2>3, <2>4
  <2> QED
    BY <2>5 DEF Goes
<1> DEFINE c == [x.conn EXCEPT !.ins = << >>, !.outs = <<Answer(x.req, s)>>]
           y == [x EXCEPT !.conn = c]
<1>5. task' = [task EXCEPT ![t] = y]
  <2>1. Tail(x.conn.ins) = << >> /\ Append(x.conn.outs, Answer(x.req, s)) = <<Answer(x.req, s)>>
    BY <1>3
  <2>2. task' = [task EXCEPT ![t].conn = c]
    BY <1>4, <2>1
  <2> HIDE DEF c
  <2> QED
    BY <1>1, <2>2
<1>6. c \in Conns /\ c.ins = << >> /\ c.outs = <<Answer(x.req, s)>>
  <2> DEFINE a == Answer(x.req, s)
             q == x.conn
  <2>1. a \in Answers /\ q \in Conns
    BY <1>2 DEF Answer, Answers
  <2>2. c = [q EXCEPT !.ins = << >>, !.outs = <<a>>]
    OBVIOUS
  <2> HIDE DEF a, q, c
  <2>3. <<a>> \in Seq(Answers) /\ << >> \in Seq(Requests)
    BY <2>1, EmptySeq
  <2>4. c \in Conns /\ c.ins = << >> /\ c.outs = <<a>>
    BY <2>1, <2>2, <2>3 DEF Conns
  <2> QED
    BY <2>4 DEF a
<1> HIDE DEF c
<1>7. /\ y \in TaskType /\ y.at = x.at /\ y.b = x.b /\ y.req = x.req /\ y.conn = c
      /\ y.out = Nothing /\ y.gone = x.gone
  BY <1>1, <1>2, <1>6 DEF TaskType
<1> HIDE DEF y
<1>8. Carries(c, x.req, stored') /\ c.outs # << >>
  BY <1>4, <1>6 DEF Carries, Truthful, Answer
<1>9. TaskOK(y, stored')
  BY <1>1, <1>2, <1>7, <1>8 DEF TaskOK, AtBackend, InHand, HoldsSlot
<1>10. Counted(t, y)
  <2>1. /\ \A g \in {"post", "feed"} : Slot(y, g) = Slot(x, g) /\ Slot(x, g) \in Int
        /\ \A d \in Backends : Guest(y, d) = Guest(x, d) /\ Guest(x, d) \in Int
    BY <1>7 DEF Slot, Guest
  <2>2. UNCHANGED <<held, in_flight, tunnels>>
    BY DEF Handles
  <2> QED
    BY <1>1, <2>1, <2>2 DEF Counted, SharedOK
<1>11. SharedOK'
  <2>1. UNCHANGED <<pool, orphans, held, in_flight, tunnels, routable, up>>
    BY DEF Handles
  <2> QED
    BY <1>1, <1>2, <1>4, <2>1 DEF SharedOK
<1>12. Follows(x, y)
  BY <1>2, <1>7 DEF Follows, Owes, AtBackend, InHand
<1> QED
  BY <1>4, <1>5, <1>9, <1>10, <1>11, <1>12 DEF Steps, Moves

-----------------------------------------------------------------------------
(* Steps of no task, and of all.                                             *)
Followed == stored \subseteq stored' /\ \A t \in Tasks : Follows(task[t], task'[t])

LEMMA StepsKeep ==
  ASSUME ProxyInv, NEW t \in Tasks, Steps(t)
  PROVE  ProxyInv' /\ Followed
<1>1. PICK y : Moves(t, y) /\ Follows(task[t], y)
  BY DEF Steps
<1>2. ProxyInv'
  BY <1>1, MovesKeeps
<1>3. /\ task' = [task EXCEPT ![t] = y] /\ task \in [Tasks -> TaskType]
      /\ stored \subseteq stored'
  BY <1>1 DEF Moves, ProxyInv
<1>4. \A s \in Tasks : Follows(task[s], task[s])
  BY DEF Follows, Owes
<1>5. \A s \in Tasks : task'[s] = IF s = t THEN y ELSE task[s]
  BY <1>3
<1>6. \A s \in Tasks : Follows(task[s], task'[s])
  BY <1>1, <1>4, <1>5
<1> QED
  BY <1>2, <1>3, <1>6 DEF Followed

LEMMA TaskOKGrows ==
  ASSUME NEW x, NEW S, NEW T, S \subseteq T, TaskOK(x, S)
  PROVE  TaskOK(x, T)
<1>1. \A a : Truthful(a, S) => Truthful(a, T)
  BY DEF Truthful
<1>2. \A c, r : Carries(c, r, S) => Carries(c, r, T)
  BY <1>1 DEF Carries
<1> QED
  BY <1>1, <1>2 DEF TaskOK

LEMMA OthersKeep ==
  ASSUME ProxyInv, SharedOK', UNCHANGED <<task, held>>, stored \subseteq stored',
         \A b \in Backends : in_flight'[b] - tunnels'[b] = in_flight[b] - tunnels[b]
  PROVE  ProxyInv' /\ Followed
<1>1. \A t \in Tasks : TaskOK(task'[t], stored')
  BY TaskOKGrows DEF ProxyInv
<1>2. CountersExact'
  <2>1. ASSUME NEW g \in DOMAIN Slots
        PROVE  held'[g] = Cardinality({t \in Busy({"open", "head", "relay"}) : Gate(t) = g}')
    BY DEF ProxyInv, CountersExact, Busy, Gate
  <2>2. ASSUME NEW b \in Backends
        PROVE  in_flight'[b] = tunnels'[b]
                 + Cardinality({t \in Busy({"head", "relay"}) : task[t].b = b}')
    <3> DEFINE G == {t \in Busy({"head", "relay"}) : task[t].b = b}
    <3>1. G' = G
      BY DEF Busy
    <3>2. in_flight[b] = tunnels[b] + Cardinality(G)
      BY DEF ProxyInv, CountersExact
    <3>3. Cardinality(G) \in Nat
      BY TasksAre, FS_Subset, FS_CardinalityType DEF Busy
    <3> HIDE DEF G
    <3>4. /\ in_flight[b] \in Int /\ tunnels[b] \in Int
          /\ in_flight'[b] \in Int /\ tunnels'[b] \in Int
      BY DEF ProxyInv, SharedOK
    <3>5. in_flight'[b] - tunnels'[b] = in_flight[b] - tunnels[b]
      OBVIOUS
    <3>6. in_flight'[b] = tunnels'[b] + Cardinality(G')
      BY <3>1, <3>2, <3>3, <3>4, <3>5
    <3> QED
      BY <3>6 DEF G
  <2> QED
    BY <2>1, <2>2 DEF CountersExact
<1>3. \A t \in Tasks : Follows(task[t], task'[t])
  BY DEF Follows, Owes
<1> QED
  BY <1>1, <1>2, <1>3 DEF ProxyInv, Followed

LEMMA TunnelsKeep ==
  ASSUME ProxyInv, NEW b \in Backends, TunnelOpens(b) \/ TunnelEnds(b)
  PROVE  ProxyInv' /\ Followed
<1>1. SharedOK
  BY DEF ProxyInv
<1>2. /\ UNCHANGED <<task, pool, orphans, held, routable, up, stored>>
      /\ faults' \in {faults, faults + 1}
      /\ \E d \in {1, -1} : /\ tunnels' = [tunnels EXCEPT ![b] = @ + d]
                            /\ in_flight' = [in_flight EXCEPT ![b] = @ + d]
  BY <1>1 DEF TunnelOpens, TunnelEnds, Fault, SharedOK
<1>3. SharedOK'
  BY <1>1, <1>2 DEF SharedOK
<1>4. \A c \in Backends : in_flight'[c] - tunnels'[c] = in_flight[c] - tunnels[c]
  BY <1>1, <1>2 DEF SharedOK
<1> QED
  BY <1>2, <1>3, <1>4, OthersKeep

LEMMA HandlesOrphanKeeps ==
  ASSUME ProxyInv, NEW o \in orphans, HandlesOrphan(o)
  PROVE  ProxyInv' /\ Followed
<1>1. /\ SharedOK /\ o.req \in Requests
      /\ stored' \in {stored, stored \union {o.req}} /\ orphans' \subseteq orphans
      /\ UNCHANGED <<task, pool, held, in_flight, tunnels, routable, up, faults>>
  BY DEF ProxyInv, SharedOK, HandlesOrphan, Works
<1>2. SharedOK' /\ stored \subseteq stored'
  BY <1>1 DEF SharedOK
<1> QED
  BY <1>1, <1>2, OthersKeep

LEMMA EofFits == \A c \in IdleConns : Eof(c) \in IdleConns
  BY DEF Eof, IdleConns

(* A connection that ends carries what it carried, or nothing.               *)
LEMMA EofSteps ==
  ASSUME ProxyInv, NEW t \in Tasks, task[t].at \in AtBackend
  PROVE  LET y == [task[t] EXCEPT !.conn = Eof(@)]
         IN  /\ y \in TaskType /\ TaskOK(y, stored) /\ Follows(task[t], y)
             /\ \A g : Slot(y, g) = Slot(task[t], g)
             /\ \A b : Guest(y, b) = Guest(task[t], b)
<1> DEFINE x == task[t]
           c == Eof(x.conn)
           y == [x EXCEPT !.conn = c]
<1>1. /\ x \in TaskType /\ TaskOK(x, stored) /\ x.conn \in Conns
      /\ x.req \in Requests /\ x.out = Nothing
  BY TaskHas DEF TaskType, TaskOK, InHand, AtBackend
<1>2. c \in Conns /\ c.ins = << >> /\ c.outs = x.conn.outs
  BY <1>1, EmptySeq DEF Eof, Conns
<1>3. Carries(c, x.req, stored)
  BY <1>1, <1>2 DEF Carries, TaskOK
<1> HIDE DEF c
<1>4. /\ y \in TaskType /\ y.at = x.at /\ y.b = x.b /\ y.req = x.req /\ y.conn = c
      /\ y.out = Nothing /\ y.gone = x.gone
  BY <1>1, <1>2 DEF TaskType
<1> HIDE DEF y
<1>5. TaskOK(y, stored)
  BY <1>1, <1>2, <1>3, <1>4 DEF TaskOK, AtBackend, InHand, HoldsSlot
<1>6. Follows(x, y)
  BY <1>1, <1>4 DEF Follows, Owes, AtBackend, InHand
<1>7. (\A g : Slot(y, g) = Slot(x, g)) /\ (\A b : Guest(y, b) = Guest(x, b))
  BY <1>4 DEF Slot, Guest
<1> QED
  BY <1>4, <1>5, <1>6, <1>7 DEF y, c

LEMMA PeerClosesKeeps ==
  ASSUME ProxyInv, NEW b \in Backends, PeerCloses(b)
  PROVE  ProxyInv' /\ Followed
<1>1. /\ SharedOK /\ task \in [Tasks -> TaskType] /\ faults' = faults + 1
      /\ UNCHANGED <<orphans, held, in_flight, tunnels, routable, up, stored>>
  BY DEF PeerCloses, Fault, ProxyInv
<1>2. CASE \E i \in DOMAIN pool[b] : ~pool[b][i].eof /\ pool' = [pool EXCEPT ![b][i] = Eof(@)]
                                    /\ UNCHANGED task
  <2>1. PICK i \in DOMAIN pool[b] : pool' = [pool EXCEPT ![b][i] = Eof(@)] /\ UNCHANGED task
    BY <1>2
  <2>2. pool[b] \in Seq(IdleConns) /\ i \in 1..Len(pool[b])
    BY <1>1, LenProperties DEF SharedOK
  <2>3. Eof(pool[b][i]) \in IdleConns
    BY <2>2, ElementOfSeq, EofFits
  <2>4. [pool[b] EXCEPT ![i] = Eof(pool[b][i])] \in Seq(IdleConns)
    BY <2>2, <2>3, ExceptSeq
  <2>5. pool' = [pool EXCEPT ![b] = [pool[b] EXCEPT ![i] = Eof(pool[b][i])]]
    BY <2>1
  <2>6. SharedOK'
    BY <1>1, <2>4, <2>5 DEF SharedOK
  <2> QED
    BY <1>1, <2>1, <2>6, OthersKeep
<1>3. CASE \E t \in Tasks : /\ At(t, "head") /\ task[t].b = b /\ task[t].conn.ins # << >>
                            /\ task' = [task EXCEPT ![t].conn = Eof(@)]
                            /\ UNCHANGED pool
  <2>1. PICK t \in Tasks : /\ task[t].at = "head"
                           /\ task' = [task EXCEPT ![t].conn = Eof(@)] /\ UNCHANGED pool
    BY <1>3 DEF At
  <2> DEFINE y == [task[t] EXCEPT !.conn = Eof(@)]
  <2>2. task' = [task EXCEPT ![t] = y]
    BY <1>1, <2>1
  <2>3. /\ TaskOK(y, stored) /\ Follows(task[t], y)
        /\ \A g : Slot(y, g) = Slot(task[t], g)
        /\ \A d : Guest(y, d) = Guest(task[t], d)
    BY <2>1, EofSteps DEF AtBackend
  <2> HIDE DEF y
  <2>4. Counted(t, y)
    <3>1. (\A g : Slot(task[t], g) \in Int) /\ (\A d : Guest(task[t], d) \in Int)
      BY DEF Slot, Guest
    <3> QED
      BY <1>1, <2>3, <3>1 DEF Counted, SharedOK
  <2>5. SharedOK'
    BY <1>1, <2>1 DEF SharedOK
  <2>6. Steps(t)
    BY <1>1, <2>2, <2>3, <2>4, <2>5 DEF Steps, Moves
  <2> QED
    BY <2>6, StepsKeep
<1> QED
  BY <1>2, <1>3 DEF PeerCloses

LEMMA CrashesKeeps ==
  ASSUME ProxyInv, NEW b \in Backends, Crashes(b)
  PROVE  ProxyInv' /\ Followed
<1>1. /\ SharedOK /\ task \in [Tasks -> TaskType] /\ faults' = faults + 1
      /\ up' \subseteq up /\ orphans' \subseteq orphans
      /\ UNCHANGED <<held, in_flight, tunnels, routable, stored>>
      /\ pool' = [pool EXCEPT ![b] = [i \in DOMAIN @ |-> Eof(@[i])]]
  BY DEF Crashes, Fault, ProxyInv
<1>2. \A t \in Tasks :
        task'[t] = IF task[t].at \in AtBackend /\ task[t].b = b
                   THEN [task[t] EXCEPT !.conn = Eof(@)] ELSE task[t]
  BY DEF Crashes, At, AtBackend
<1>3. DOMAIN task' = Tasks /\ task' = [t \in Tasks |-> task'[t]]
  BY DEF Crashes
<1>4. ASSUME NEW t \in Tasks
      PROVE  /\ task'[t] \in TaskType /\ TaskOK(task'[t], stored) /\ Follows(task[t], task'[t])
             /\ \A g : Slot(task'[t], g) = Slot(task[t], g)
             /\ \A d : Guest(task'[t], d) = Guest(task[t], d)
  <2>1. CASE task[t].at \in AtBackend /\ task[t].b = b
    BY <1>2, <2>1, EofSteps
  <2>2. CASE ~(task[t].at \in AtBackend /\ task[t].b = b)
    <3>1. task'[t] = task[t] /\ task[t] \in TaskType /\ TaskOK(task[t], stored)
      BY <1>2, <2>2, TaskHas
    <3> QED
      BY <3>1 DEF Follows, Owes
  <2> QED
    BY <2>1, <2>2
<1>5. SharedOK'
  <2>1. pool[b] \in Seq(IdleConns) /\ Len(pool[b]) \in Nat /\ DOMAIN pool[b] = 1..Len(pool[b])
    BY <1>1, LenProperties DEF SharedOK
  <2>2. \A i \in 1..Len(pool[b]) : Eof(pool[b][i]) \in IdleConns
    BY <2>1, ElementOfSeq, EofFits
  <2>3. [i \in DOMAIN pool[b] |-> Eof(pool[b][i])] \in Seq(IdleConns)
    BY <2>1, <2>2, SeqDef
  <2> QED
    BY <1>1, <2>3 DEF SharedOK
<1>6. CountersExact'
  <2>1. ASSUME NEW g \in DOMAIN Slots
        PROVE  held'[g] = Cardinality({t \in Busy({"open", "head", "relay"}) : Gate(t) = g}')
    <3> DEFINE H == {t \in Busy({"open", "head", "relay"}) : Gate(t) = g}
    <3>1. H = {t \in Tasks : Slot(task[t], g) = 1} /\ H' = {t \in Tasks : Slot(task'[t], g) = 1}
      BY DEF Busy, Gate, Slot, HoldsSlot
    <3>2. H' = H
      BY <1>4, <3>1
    <3>3. held[g] = Cardinality(H)
      BY DEF ProxyInv, CountersExact
    <3> QED
      BY <1>1, <3>2, <3>3
  <2>2. ASSUME NEW d \in Backends
        PROVE  in_flight'[d] = tunnels'[d]
                 + Cardinality({t \in Busy({"head", "relay"}) : task[t].b = d}')
    <3> DEFINE G == {t \in Busy({"head", "relay"}) : task[t].b = d}
    <3>1. G = {t \in Tasks : Guest(task[t], d) = 1} /\ G' = {t \in Tasks : Guest(task'[t], d) = 1}
      BY DEF Busy, Guest, AtBackend
    <3>2. G' = G
      BY <1>4, <3>1
    <3>3. in_flight[d] = tunnels[d] + Cardinality(G)
      BY DEF ProxyInv, CountersExact
    <3> QED
      BY <1>1, <3>2, <3>3
  <2> QED
    BY <2>1, <2>2 DEF CountersExact
<1>7. task' \in [Tasks -> TaskType]
  BY <1>3, <1>4
<1> QED
  BY <1>1, <1>4, <1>5, <1>6, <1>7 DEF ProxyInv, Followed

LEMMA MembersKeep ==
  ASSUME ProxyInv, NEW b \in Backends, Restarts(b) \/ Readmits(b)
  PROVE  ProxyInv' /\ Followed
<1>1. /\ SharedOK /\ faults' \in {faults, faults + 1}
      /\ up' \subseteq up \union {b} /\ routable' \subseteq routable \union {b}
      /\ UNCHANGED <<task, pool, orphans, held, in_flight, tunnels, stored>>
  BY DEF Restarts, Readmits, Fault, ProxyInv
<1>2. SharedOK'
  BY <1>1 DEF SharedOK
<1> QED
  BY <1>1, <1>2, OthersKeep

LEMMA ProxyNextKeeps ==
  ASSUME ProxyInv, ProxyNext
  PROVE  ProxyInv' /\ Followed
<1>1. CASE \E t \in Tasks : TaskSteps(t) \/ IdleCloses(t)
  <2>1. PICK t \in Tasks : TaskSteps(t) \/ IdleCloses(t)
    BY <1>1
  <2>2. Steps(t)
    BY <2>1, AdmittedSteps, OpensSteps, OpenFailsSteps, HeadArrivesSteps, BodyEndsSteps,
       UpstreamFailsSteps, SeesHangupSteps, IdleClosesSteps DEF TaskSteps
  <2> QED
    BY <2>2, StepsKeep
<1>2. CASE \E t \in Tasks : Handles(t)
  BY <1>2, HandlesSteps, StepsKeep
<1>3. CASE \E o \in orphans : HandlesOrphan(o)
  BY <1>3, HandlesOrphanKeeps
<1>4. CASE \E b \in Backends : \/ PeerCloses(b) \/ TunnelOpens(b) \/ TunnelEnds(b) \/ Crashes(b)
                               \/ Restarts(b) \/ Readmits(b)
  BY <1>4, PeerClosesKeeps, TunnelsKeep, CrashesKeeps, MembersKeep
<1> QED
  BY <1>1, <1>2, <1>3, <1>4 DEF ProxyNext

-----------------------------------------------------------------------------
(* The users.                                                                *)

LEMMA InitIInv == Init => IInv
<1> SUFFICES ASSUME Init
             PROVE  IInv
  OBVIOUS
<1>1. /\ task = [t \in Tasks |-> FreeTask] /\ stored = {} /\ faults = 0
      /\ pool = [b \in Backends |-> << >>] /\ orphans = {}
      /\ held = [g \in DOMAIN Slots |-> 0] /\ in_flight = [b \in Backends |-> 0]
      /\ tunnels = in_flight /\ up \subseteq Backends /\ routable \subseteq Backends
  BY DEF Init, ProxyInit
<1>2. \A t \in Tasks : task[t] = FreeTask /\ FreeTask \in TaskType /\ TaskOK(FreeTask, stored)
  BY <1>1, FreeTaskFits DEF TaskOK
<1>3. SharedOK
  BY <1>1, TasksAre, EmptySeq DEF SharedOK
<1>4. CountersExact
  <2>1. \A at \in SUBSET InHand : Busy(at) = {}
    BY <1>2 DEF Busy, FreeTask, InHand
  <2>2. Busy({"open", "head", "relay"}) = {} /\ Busy({"head", "relay"}) = {}
    BY <2>1 DEF InHand
  <2>3. ASSUME NEW g \in DOMAIN Slots
        PROVE  held[g] = Cardinality({t \in Busy({"open", "head", "relay"}) : Gate(t) = g})
    <3>1. {t \in Busy({"open", "head", "relay"}) : Gate(t) = g} = {}
      BY <2>2
    <3> QED
      BY <1>1, <3>1, FS_EmptySet
  <2>4. ASSUME NEW b \in Backends
        PROVE  in_flight[b] = tunnels[b]
                                + Cardinality({t \in Busy({"head", "relay"}) : task[t].b = b})
    <3>1. {t \in Busy({"head", "relay"}) : task[t].b = b} = {}
      BY <2>2
    <3>2. in_flight[b] = 0 /\ tunnels[b] = 0
      BY <1>1
    <3> QED
      BY <3>1, <3>2, FS_EmptySet
  <2> QED
    BY <2>3, <2>4 DEF CountersExact
<1>5. ProxyInv
  BY <1>1, <1>2, <1>3, <1>4 DEF ProxyInv
<1>6. /\ \A u \in Users : user[u] = [at |-> "claim", n |-> 0, req |-> Nothing, link |-> 0]
      /\ user \in [Users -> UserType]
  <2>1. user = [u \in Users |-> [at |-> "claim", n |-> 0, req |-> Nothing, link |-> 0]]
    BY DEF Init
  <2>2. [at |-> "claim", n |-> 0, req |-> Nothing, link |-> 0] \in UserType
    BY DEF UserType
  <2> HIDE DEF Init
  <2> QED
    BY <2>1, <2>2
<1>7. EveryRequestCounted
  <2>1. /\ {u \in Users : user[u].at \in {"last", "done"}} = {}
        /\ {u \in Users : Waits(u)} = {}
    BY <1>6 DEF Waits
  <2>2. Started = 0 /\ Waiting = 0
    BY <2>1, FS_EmptySet DEF Started, Waiting
  <2> QED
    BY <2>2, BudgetAssumption DEF Init, EveryRequestCounted
<1>8. UserInv
  <2>1. \A u \in Users : UserOK(user[u], task[user[u].link]) /\ user[u].link = 0
    BY <1>6 DEF UserOK
  <2>2. /\ remaining = Budget /\ over = FALSE
        /\ stat = [requests |-> 0, successes |-> 0, errors |-> 0, timeouts |-> 0,
                   ambiguous |-> 0, accepted |-> {}]
    BY DEF Init
  <2> HIDE DEF Init
  <2>3. remaining \in 0..Budget /\ over \in BOOLEAN
    <3>1. over \in BOOLEAN
      BY <2>2
    <3>2. Budget \in 0..Budget
      BY BudgetAssumption
    <3> QED
      BY <2>2, <3>1, <3>2
  <2>4. stat \in StatType
    BY <2>2 DEF StatType
  <2>5. AcceptedIsStored
    BY <2>2 DEF AcceptedIsStored
  <2> QED
    BY <1>6, <1>7, <2>1, <2>3, <2>4, <2>5 DEF UserInv
<1> QED
  BY <1>5, <1>8 DEF IInv

(* What the balancer and the backends do leaves the users what they wait for. *)
LEMMA UsersFollow ==
  ASSUME UserInv, ProxyInv, Followed, UNCHANGED userVars
  PROVE  UserInv'
<1>1. /\ user \in [Users -> UserType] /\ user' = user /\ remaining' = remaining
      /\ over' = over /\ stat' = stat /\ stored \subseteq stored'
  BY DEF UserInv, Followed, userVars
<1>2. ASSUME NEW u \in Users
      PROVE  UserOK(user[u], task'[user[u].link])
  <2>1. UserOK(user[u], task[user[u].link]) /\ user[u].link \in Tasks \union {0}
    BY <1>1 DEF UserInv, UserType
  <2>2. CASE user[u].link = 0
    BY <2>1, <2>2 DEF UserOK
  <2>3. CASE user[u].link \in Tasks
    <3>1. Follows(task[user[u].link], task'[user[u].link])
      BY <2>3 DEF Followed
    <3> QED
      BY <2>1, <2>3, <3>1, TasksAre DEF UserOK, Follows, Owes
  <2> QED
    BY <2>1, <2>2, <2>3
<1>3. EveryRequestCounted' /\ AcceptedIsStored'
  BY <1>1 DEF UserInv, EveryRequestCounted, AcceptedIsStored, Started, Waiting, Waits
<1> QED
  BY <1>1, <1>2, <1>3 DEF UserInv

(* A user touches only its own task, which no other user has.                *)
OwnTask(u, t, y) ==
  /\ task' = [task EXCEPT ![t] = y]
  /\ \A v \in Users : v # u => user[v].link # t
  /\ UNCHANGED stored

LEMMA TouchKeeps ==
  ASSUME ProxyInv, NEW t \in Tasks, NEW y, TaskOK(y, stored),
         task' = [task EXCEPT ![t] = y],
         \A g : Slot(y, g) = Slot(task[t], g), \A b : Guest(y, b) = Guest(task[t], b),
         UNCHANGED <<pool, orphans, held, in_flight, tunnels, routable, up, stored>>,
         faults' \in {faults, faults + 1}
  PROVE  ProxyInv'
<1>1. SharedOK /\ SharedOK'
  BY DEF ProxyInv, SharedOK
<1>2. Counted(t, y)
  <2>1. (\A g : Slot(task[t], g) \in Int) /\ (\A d : Guest(task[t], d) \in Int)
    BY DEF Slot, Guest
  <2> QED
    BY <1>1, <2>1 DEF Counted, SharedOK
<1> QED
  BY <1>1, <1>2, MovesKeeps DEF Moves

(* The requests of the users that wait, and those that came to the last one, *)
(* when one user moves.                                                      *)
LEMMA UserCounts ==
  ASSUME UserInv, NEW u \in Users, NEW w \in UserType, user' = [user EXCEPT ![u] = w]
  PROVE  /\ Waiting \in Nat /\ Started \in Nat /\ Waiting' \in Nat /\ Started' \in Nat
         /\ Waiting' = Waiting + (IF w.at \in {"wait", "last"} THEN 1 ELSE 0)
                               - (IF Waits(u) THEN 1 ELSE 0)
         /\ Started' = Started + (IF w.at \in {"last", "done"} THEN 1 ELSE 0)
                               - (IF user[u].at \in {"last", "done"} THEN 1 ELSE 0)
<1> DEFINE W == {v \in Users : Waits(v)}
           S == {v \in Users : user[v].at \in {"last", "done"}}
<1>1. user \in [Users -> UserType] /\ user'[u] = w /\ \A v \in Users : v # u => user'[v] = user[v]
  BY DEF UserInv
<1>2. /\ W \in SUBSET Users /\ W' \in SUBSET Users /\ \A v \in Users : v # u => (v \in W <=> v \in W')
      /\ S \in SUBSET Users /\ S' \in SUBSET Users /\ \A v \in Users : v # u => (v \in S <=> v \in S')
      /\ u \in W <=> Waits(u)
      /\ u \in W' <=> w.at \in {"wait", "last"}
      /\ u \in S <=> user[u].at \in {"last", "done"}
      /\ u \in S' <=> w.at \in {"last", "done"}
  BY <1>1 DEF Waits
<1>3. Waiting = Cardinality(W) /\ Started = Cardinality(S)
      /\ Waiting' = Cardinality(W') /\ Started' = Cardinality(S')
  BY DEF Waiting, Started
<1> HIDE DEF W, S
<1>4. /\ Cardinality(W) \in Nat /\ Cardinality(W') \in Nat
      /\ Cardinality(W') = Cardinality(W) + (IF u \in W' THEN 1 ELSE 0)
                                          - (IF u \in W THEN 1 ELSE 0)
  BY <1>2, UsersAssumption, OneMoves
<1>5. /\ Cardinality(S) \in Nat /\ Cardinality(S') \in Nat
      /\ Cardinality(S') = Cardinality(S) + (IF u \in S' THEN 1 ELSE 0)
                                          - (IF u \in S THEN 1 ELSE 0)
  BY <1>2, UsersAssumption, OneMoves
<1> QED
  BY <1>2, <1>3, <1>4, <1>5

(* The links of the users after a step of one of them.                       *)
LEMMA UserMoves ==
  ASSUME UserInv, ProxyInv, NEW u \in Users, NEW w \in UserType, user' = [user EXCEPT ![u] = w],
         NEW t \in Tasks, NEW y, OwnTask(u, t, y),
         w.link \in {0, t}, w.link = t => UserOK(w, y),
         w.link = 0 => w.at \in {"claim", "done"}
  PROVE  /\ user' \in [Users -> UserType]
         /\ \A v \in Users : UserOK(user'[v], task'[user'[v].link])
         /\ \A v, z \in Users : user'[v].link = user'[z].link /\ user'[v].link # 0 => v = z
<1>1. /\ user \in [Users -> UserType] /\ user' \in [Users -> UserType]
      /\ user'[u] = w /\ \A v \in Users : v # u => user'[v] = user[v]
      /\ \A v \in Users : user[v].link \in Tasks \union {0}
  BY DEF UserInv, UserType
<1>2. /\ task'[t] = y /\ \A s \in Tasks : s # t => task'[s] = task[s]
      /\ \A v \in Users : v # u => user[v].link # t
  BY DEF OwnTask, ProxyInv
<1>3. ASSUME NEW v \in Users
      PROVE  UserOK(user'[v], task'[user'[v].link])
  <2>1. CASE v = u /\ w.link = t
    BY <1>1, <1>2, <2>1
  <2>2. CASE v = u /\ w.link = 0
    BY <1>1, <2>2 DEF UserOK
  <2>3. CASE v # u /\ user[v].link \in Tasks
    <3>1. UserOK(user[v], task[user[v].link])
      BY DEF UserInv
    <3> QED
      BY <1>1, <1>2, <2>3, <3>1
  <2>4. CASE v # u /\ user[v].link = 0
    <3>1. UserOK(user[v], task[user[v].link])
      BY DEF UserInv
    <3> QED
      BY <1>1, <2>4, <3>1 DEF UserOK
  <2> QED
    BY <1>1, <2>1, <2>2, <2>3, <2>4
<1>4. ASSUME NEW v \in Users, NEW z \in Users, user'[v].link = user'[z].link, user'[v].link # 0
      PROVE  v = z
  <2>1. CASE v # u /\ z # u
    BY <1>1, <1>4, <2>1 DEF UserInv
  <2>2. CASE v = u \/ z = u
    BY <1>1, <1>2, <1>4, <2>2
  <2> QED
    BY <2>1, <2>2
<1> QED
  BY <1>1, <1>3, <1>4


(* A request that a user sends is in the hands of its task, or the task has  *)
(* closed the connection and the user will read its end.                     *)
LEMMA SendsOnKeeps ==
  ASSUME ProxyInv, UserInv, NEW u \in Users, user[u].at = "claim",
         NEW r \in Requests, NEW t \in Tasks, SendsOn(u, r, t), UNCHANGED faults
  PROVE  /\ ProxyInv'
         /\ \E y : OwnTask(u, t, y) /\ y.at # "free" /\ ~y.gone /\ Owes(y, r)
<1> DEFINE x == task[t]
<1>1. /\ x \in TaskType /\ TaskOK(x, stored) /\ task \in [Tasks -> TaskType] /\ 0 \notin Tasks
      /\ \A v \in Users : UserOK(user[v], task[user[v].link])
      /\ \A v, z \in Users : user[v].link = user[z].link /\ user[v].link # 0 => v = z
  BY TaskHas, TasksAre DEF ProxyInv, UserInv
<1>2. CASE t = user[u].link /\ Receives(t, r)
  <2> DEFINE y == [x EXCEPT !.at = "gate", !.req = r]
  <2>1. /\ task' = [task EXCEPT ![t] = y] /\ x.at = "idle" /\ ~x.gone /\ x.out = Nothing
        /\ UNCHANGED <<pool, orphans, held, in_flight, tunnels, routable, up, stored>>
    BY <1>1, <1>2 DEF Receives, ReadsHead, At
  <2>2. /\ y \in TaskType /\ y.at = "gate" /\ y.req = r /\ y.out = Nothing /\ y.gone = x.gone
        /\ y.conn = x.conn
    BY <1>1, <2>1 DEF TaskType, InHand
  <2> HIDE DEF y
  <2>3. TaskOK(y, stored)
    BY <1>1, <2>1, <2>2 DEF TaskOK, InHand, HoldsSlot, AtBackend
  <2>4. (\A g : Slot(y, g) = Slot(x, g)) /\ (\A b : Guest(y, b) = Guest(x, b))
    BY <2>1, <2>2 DEF Slot, Guest, HoldsSlot, AtBackend
  <2>5. ProxyInv'
    BY <2>1, <2>3, <2>4, TouchKeeps
  <2>6. OwnTask(u, t, y)
    BY <1>1, <1>2, <2>1 DEF OwnTask
  <2> QED
    BY <2>1, <2>2, <2>5, <2>6 DEF Owes
<1>3. CASE /\ t = user[u].link /\ At(t, "closed")
           /\ UNCHANGED <<task, pool, orphans, held, in_flight, tunnels, routable, up, stored>>
  <2>1. x.at = "closed" /\ ~x.gone /\ x.out = Nothing
    BY <1>1, <1>3 DEF At, UserOK
  <2>2. task' = [task EXCEPT ![t] = x]
    BY <1>1, <1>3
  <2>3. ProxyInv'
    BY <1>1, <1>3, <2>2, TouchKeeps
  <2>4. OwnTask(u, t, x)
    BY <1>1, <1>3, <2>2 DEF OwnTask
  <2> QED
    BY <2>1, <2>3, <2>4 DEF Owes, InHand
<1>4. CASE /\ user[u].link = 0 /\ LeastFree(t)
           /\ task' = [task EXCEPT ![t] = [FreeTask EXCEPT !.at = "gate", !.req = r]]
           /\ UNCHANGED <<pool, orphans, held, in_flight, tunnels, routable, up, stored>>
  <2> DEFINE y == [FreeTask EXCEPT !.at = "gate", !.req = r]
  <2>1. /\ y \in TaskType /\ y.at = "gate" /\ y.req = r /\ y.out = Nothing /\ ~y.gone
        /\ y.conn = NewConn
    BY NewConnFits DEF TaskType, InHand, FreeTask
  <2>2. task' = [task EXCEPT ![t] = y]
    BY <1>4
  <2> HIDE DEF y
  <2>3. TaskOK(y, stored)
    BY <2>1 DEF TaskOK, InHand, HoldsSlot, AtBackend
  <2>4. (\A g : Slot(y, g) = Slot(x, g)) /\ (\A b : Guest(y, b) = Guest(x, b))
    BY <1>4, <2>1 DEF Slot, Guest, HoldsSlot, AtBackend, LeastFree, At
  <2>5. ProxyInv'
    BY <1>4, <2>2, <2>3, <2>4, TouchKeeps
  <2>6. \A v \in Users : user[v].link # t
    BY <1>1, <1>4 DEF UserOK, LeastFree, At
  <2>7. OwnTask(u, t, y)
    BY <1>4, <2>2, <2>6 DEF OwnTask
  <2> QED
    BY <2>1, <2>5, <2>7 DEF Owes
<1> QED
  BY <1>2, <1>3, <1>4 DEF SendsOn

LEMMA ClaimsKeeps ==
  ASSUME IInv, NEW u \in Users, Claims(u)
  PROVE  IInv'
<1> DEFINE n == user[u].n + 1
           r == Request(IF n % FeedEvery = 0 THEN "feed" ELSE "post", u, remaining')
<1>1. /\ ProxyInv /\ UserInv /\ user[u].at = "claim" /\ remaining > 0 /\ remaining' = remaining - 1
      /\ UNCHANGED <<over, stat, faults>>
  BY DEF IInv, Claims, MayClaim
<1>2. /\ user \in [Users -> UserType] /\ remaining \in 0..Budget /\ stat \in StatType
      /\ over \in BOOLEAN /\ AcceptedIsStored /\ EveryRequestCounted
  BY <1>1 DEF UserInv
<1>3. n \in Nat /\ remaining' \in 0..Budget /\ r \in Requests
  BY <1>1, <1>2, BudgetAssumption DEF UserType, Request, Requests
<1>4. PICK t \in Tasks :
        /\ SendsOn(u, r, t)
        /\ user' = [user EXCEPT ![u] = [at |-> "wait", n |-> n, req |-> r, link |-> t]]
  BY DEF Claims
<1> DEFINE w == [at |-> "wait", n |-> n, req |-> r, link |-> t]
<1>5. w \in UserType /\ w.at = "wait" /\ w.req = r /\ w.link = t /\ t # 0
  BY <1>3, TasksAre DEF UserType
<1> HIDE DEF n, r
<1>6. user' = [user EXCEPT ![u] = w]
  BY <1>4
<1> HIDE DEF w
<1>7. ProxyInv' /\ \E y : OwnTask(u, t, y) /\ y.at # "free" /\ ~y.gone /\ Owes(y, r)
  BY <1>1, <1>3, <1>4, SendsOnKeeps
<1>8. PICK y : OwnTask(u, t, y) /\ y.at # "free" /\ ~y.gone /\ Owes(y, r)
  BY <1>7
<1>9. UserOK(w, y)
  BY <1>3, <1>5, <1>8 DEF UserOK
<1>10. /\ user' \in [Users -> UserType]
       /\ \A v \in Users : UserOK(user'[v], task'[user'[v].link])
       /\ \A v, z \in Users : user'[v].link = user'[z].link /\ user'[v].link # 0 => v = z
  BY <1>1, <1>5, <1>6, <1>8, <1>9, UserMoves
<1>11. /\ Waiting \in Nat /\ Started \in Nat
       /\ Waiting' = Waiting + 1 /\ Started' = Started
  <2>1. /\ Waiting \in Nat /\ Started \in Nat
        /\ Waiting' = Waiting + (IF w.at \in {"wait", "last"} THEN 1 ELSE 0)
                              - (IF Waits(u) THEN 1 ELSE 0)
        /\ Started' = Started + (IF w.at \in {"last", "done"} THEN 1 ELSE 0)
                              - (IF user[u].at \in {"last", "done"} THEN 1 ELSE 0)
    BY <1>1, <1>5, <1>6, UserCounts
  <2> QED
    BY <1>1, <1>5, <2>1 DEF Waits
<1>12. EveryRequestCounted'
  BY <1>1, <1>2, <1>11, BudgetAssumption DEF EveryRequestCounted, StatType
<1>13. AcceptedIsStored'
  BY <1>1, <1>2, <1>8 DEF AcceptedIsStored, OwnTask
<1> QED
  BY <1>1, <1>2, <1>3, <1>7, <1>10, <1>12, <1>13 DEF IInv, UserInv

LEMMA ReadsLastKeeps ==
  ASSUME IInv, NEW u \in Users, ReadsLast(u)
  PROVE  IInv'
<1> DEFINE r == Request("feed", u, Budget)
<1>1. /\ ProxyInv /\ UserInv /\ user[u].at = "claim"
      /\ UNCHANGED <<remaining, over, stat, faults>>
  BY DEF IInv, ReadsLast
<1>2. /\ user \in [Users -> UserType] /\ user[u] \in UserType /\ remaining \in 0..Budget
      /\ stat \in StatType /\ over \in BOOLEAN /\ AcceptedIsStored /\ EveryRequestCounted
  BY <1>1 DEF UserInv
<1>3. r \in Requests
  BY BudgetAssumption DEF Request, Requests
<1>4. PICK t \in Tasks :
        /\ SendsOn(u, r, t)
        /\ user' = [user EXCEPT ![u].at = "last", ![u].req = r, ![u].link = t]
  BY DEF ReadsLast
<1> HIDE DEF r
<1> DEFINE w == [user[u] EXCEPT !.at = "last", !.req = r, !.link = t]
<1>5. w \in UserType /\ w.at = "last" /\ w.req = r /\ w.link = t /\ t # 0
  BY <1>2, <1>3, TasksAre DEF UserType
<1>6. user' = [user EXCEPT ![u] = w]
  BY <1>2, <1>4
<1> HIDE DEF w
<1>7. ProxyInv' /\ \E y : OwnTask(u, t, y) /\ y.at # "free" /\ ~y.gone /\ Owes(y, r)
  BY <1>1, <1>3, <1>4, SendsOnKeeps
<1>8. PICK y : OwnTask(u, t, y) /\ y.at # "free" /\ ~y.gone /\ Owes(y, r)
  BY <1>7
<1>9. UserOK(w, y)
  BY <1>3, <1>5, <1>8 DEF UserOK
<1>10. /\ user' \in [Users -> UserType]
       /\ \A v \in Users : UserOK(user'[v], task'[user'[v].link])
       /\ \A v, z \in Users : user'[v].link = user'[z].link /\ user'[v].link # 0 => v = z
  BY <1>1, <1>5, <1>6, <1>8, <1>9, UserMoves
<1>11. /\ Waiting \in Nat /\ Started \in Nat
       /\ Waiting' = Waiting + 1 /\ Started' = Started + 1
  <2>1. /\ Waiting \in Nat /\ Started \in Nat
        /\ Waiting' = Waiting + (IF w.at \in {"wait", "last"} THEN 1 ELSE 0)
                              - (IF Waits(u) THEN 1 ELSE 0)
        /\ Started' = Started + (IF w.at \in {"last", "done"} THEN 1 ELSE 0)
                              - (IF user[u].at \in {"last", "done"} THEN 1 ELSE 0)
    BY <1>1, <1>5, <1>6, UserCounts
  <2> QED
    BY <1>1, <1>5, <2>1 DEF Waits
<1>12. EveryRequestCounted'
  BY <1>1, <1>2, <1>11, BudgetAssumption DEF EveryRequestCounted, StatType
<1>13. AcceptedIsStored'
  BY <1>1, <1>2, <1>8 DEF AcceptedIsStored, OwnTask
<1> QED
  BY <1>1, <1>2, <1>7, <1>10, <1>12, <1>13 DEF IInv, UserInv


(* The end of a user's wait: its request is counted once, and it keeps a     *)
(* connection only if nothing of that request is left on it.                 *)
StillLinked(y) == y.at \notin InHand /\ y.at # "free" /\ ~y.gone /\ y.out = Nothing

LEMMA GoesOnKeeps ==
  ASSUME IInv, NEW u \in Users, Waits(u), NEW t \in Tasks, t = user[u].link,
         NEW y, TaskOK(y, stored), task' = [task EXCEPT ![t] = y],
         \A g : Slot(y, g) = Slot(task[t], g), \A b : Guest(y, b) = Guest(task[t], b),
         UNCHANGED <<pool, orphans, held, in_flight, tunnels, routable, up, stored>>,
         faults' \in {faults, faults + 1},
         NEW l \in {0, t}, GoesOn(u, l),
         user[u].at = "wait" /\ l = t => StillLinked(y),
         UNCHANGED <<remaining, over>>,
         stat' \in StatType, AcceptedIsStored', stat'.requests = stat.requests + 1,
         stat'.requests = stat'.successes + stat'.errors
  PROVE  IInv'
<1> DEFINE v == user[u]
           w == [v EXCEPT !.at = IF v.at = "wait" THEN "claim" ELSE "done",
                          !.req = Nothing, !.link = IF v.at = "wait" THEN l ELSE 0]
<1>1. /\ ProxyInv /\ UserInv /\ user \in [Users -> UserType] /\ v \in UserType
      /\ remaining \in 0..Budget /\ over \in BOOLEAN
      /\ EveryRequestCounted /\ v.at \in {"wait", "last"} /\ t # 0
  BY TasksAre DEF IInv, UserInv, Waits
<1>2. user' = [user EXCEPT ![u] = w]
  BY DEF GoesOn
<1>3. /\ w \in UserType /\ w.link = (IF v.at = "wait" THEN l ELSE 0)
      /\ w.at = IF v.at = "wait" THEN "claim" ELSE "done"
  BY <1>1 DEF UserType
<1> HIDE DEF w
<1>4. ProxyInv'
  BY <1>1, TouchKeeps
<1>5. OwnTask(u, t, y)
  BY <1>1 DEF OwnTask, UserInv
<1>6. w.link = t => UserOK(w, y)
  BY <1>1, <1>3 DEF UserOK, StillLinked
<1>7. /\ user' \in [Users -> UserType]
      /\ \A z \in Users : UserOK(user'[z], task'[user'[z].link])
      /\ \A z, x \in Users : user'[z].link = user'[x].link /\ user'[z].link # 0 => z = x
  <2>1. w.link \in {0, t} /\ w.at \in {"claim", "done"}
    BY <1>3
  <2> QED
    BY <1>1, <1>2, <1>3, <1>5, <1>6, <2>1, UserMoves
<1>8. /\ Waiting \in Nat /\ Started \in Nat
      /\ Waiting' = Waiting - 1 /\ Started' = Started
  <2>1. /\ Waiting \in Nat /\ Started \in Nat
        /\ Waiting' = Waiting + (IF w.at \in {"wait", "last"} THEN 1 ELSE 0)
                              - (IF Waits(u) THEN 1 ELSE 0)
        /\ Started' = Started + (IF w.at \in {"last", "done"} THEN 1 ELSE 0)
                              - (IF user[u].at \in {"last", "done"} THEN 1 ELSE 0)
    BY <1>1, <1>2, <1>3, UserCounts
  <2> QED
    BY <1>1, <1>3, <2>1
<1>9. EveryRequestCounted'
  <2>1. stat.requests \in Nat
    BY <1>1 DEF UserInv, StatType
  <2> QED
    BY <1>1, <1>8, <2>1, BudgetAssumption DEF EveryRequestCounted
<1> QED
  BY <1>1, <1>4, <1>7, <1>9 DEF IInv, UserInv

(* The user hangs up: nothing of its task is freed by that.                  *)
LEMMA HungUpFits ==
  ASSUME ProxyInv, NEW t \in Tasks, task[t].at # "free"
  PROVE  /\ TaskOK(HungUp(t), stored)
         /\ \A g : Slot(HungUp(t), g) = Slot(task[t], g)
         /\ \A b : Guest(HungUp(t), b) = Guest(task[t], b)
<1> DEFINE x == task[t]
<1>1. x \in TaskType /\ TaskOK(x, stored)
  BY TaskHas
<1>2. CASE x.at = "closed"
  BY <1>2, FreeTaskFits DEF HungUp, FreeTask, Slot, Guest, HoldsSlot, AtBackend
<1>3. CASE x.at # "closed"
  <2> DEFINE y == [x EXCEPT !.gone = TRUE, !.out = Nothing]
  <2>1. /\ y \in TaskType /\ y.at = x.at /\ y.req = x.req /\ y.b = x.b /\ y.conn = x.conn
        /\ y.out = Nothing
    BY <1>1 DEF TaskType
  <2>2. HungUp(t) = y
    BY <1>3 DEF HungUp
  <2> HIDE DEF y
  <2>3. TaskOK(y, stored)
    BY <1>1, <2>1 DEF TaskOK
  <2> QED
    BY <2>1, <2>2, <2>3 DEF Slot, Guest
<1> QED
  BY <1>2, <1>3

(* The statistics of a request more. *)
StatAfter(n, j, k, late, m, acc) ==
  [requests |-> n, successes |-> j, errors |-> k, timeouts |-> late, ambiguous |-> m,
   accepted |-> acc]

LEMMA StatGrows ==
  ASSUME NEW n \in Nat, NEW j \in Nat, NEW k \in Nat, NEW late \in Nat, NEW m \in Nat,
         NEW acc \in SUBSET Requests
  PROVE  LET e == StatAfter(n, j, k, late, m, acc)
         IN  /\ e \in StatType /\ e.requests = n /\ e.successes = j /\ e.errors = k
             /\ e.timeouts = late /\ e.accepted = acc
  BY DEF StatAfter, StatType

LEMMA StatParts ==
  ASSUME NEW s \in StatType
  PROVE  /\ s = StatAfter(s.requests, s.successes, s.errors, s.timeouts, s.ambiguous, s.accepted)
         /\ s.requests \in Nat /\ s.successes \in Nat /\ s.errors \in Nat
         /\ s.timeouts \in Nat /\ s.ambiguous \in Nat /\ s.accepted \in SUBSET Requests
  BY DEF StatType, StatAfter

(* A failure is counted as one. *)
LEMMA ErrorCounts ==
  ASSUME IInv, NEW u \in Users, stored' = stored,
         \/ stat' = CountsError(u)
         \/ stat' = [CountsError(u) EXCEPT !.timeouts = @ + 1]
  PROVE  /\ stat' \in StatType /\ AcceptedIsStored'
         /\ stat'.requests = stat.requests + 1 /\ stat'.requests = stat'.successes + stat'.errors
<1> DEFINE e == CountsError(u)
<1>1. stat \in StatType /\ AcceptedIsStored /\ stat.requests = stat.successes + stat.errors
  BY DEF IInv, UserInv, EveryRequestCounted
<1>2. /\ e \in StatType /\ e.requests = stat.requests + 1 /\ e.errors = stat.errors + 1
      /\ e.successes = stat.successes /\ e.accepted = stat.accepted
  <2> DEFINE m == IF user[u].req.kind = "post" THEN stat.ambiguous + 1 ELSE stat.ambiguous
             n == stat.requests + 1
             j == stat.successes
             k == stat.errors + 1
             late == stat.timeouts
             acc == stat.accepted
  <2>1. m \in Nat
    BY <1>1 DEF StatType
  <2>2. e = [stat EXCEPT !.requests = @ + 1, !.errors = @ + 1, !.ambiguous = m]
    BY DEF CountsError
  <2> HIDE DEF e, m
  <2>3. e = StatAfter(n, j, k, late, m, acc)
    BY <1>1, <2>2 DEF StatType, StatAfter
  <2>4. n \in Nat /\ j \in Nat /\ k \in Nat /\ late \in Nat /\ acc \in SUBSET Requests
    BY <1>1, StatParts
  <2> HIDE DEF n, j, k, late, acc
  <2>5. /\ e \in StatType /\ e.requests = n /\ e.errors = k /\ e.successes = j
        /\ e.accepted = acc
    BY <2>1, <2>3, <2>4, StatGrows
  <2> QED
    BY <2>5 DEF n, j, k, acc
<1> HIDE DEF e
<1>3. /\ stat' \in StatType /\ stat'.requests = e.requests /\ stat'.errors = e.errors
      /\ stat'.successes = e.successes /\ stat'.accepted = e.accepted
  <2>1. stat' = e \/ stat' = [e EXCEPT !.timeouts = @ + 1]
    BY DEF e
  <2> QED
    BY <1>2, <2>1 DEF StatType
<1>4. stat.successes \in Nat /\ stat.errors \in Nat
  BY <1>1 DEF StatType
<1>5. AcceptedIsStored'
  BY <1>1, <1>2, <1>3 DEF AcceptedIsStored
<1> QED
  BY <1>1, <1>2, <1>3, <1>4, <1>5

LEMMA Waiter ==
  ASSUME IInv, NEW u \in Users, Waits(u)
  PROVE  LET t == user[u].link
         IN  /\ ProxyInv /\ t \in Tasks /\ task[t].at # "free" /\ ~task[t].gone
             /\ task[t] \in TaskType /\ TaskOK(task[t], stored) /\ task \in [Tasks -> TaskType]
             /\ user[u].req \in Requests /\ Owes(task[t], user[u].req)
<1>1. /\ ProxyInv /\ UserOK(user[u], task[user[u].link]) /\ user[u].link \in Tasks \union {0}
  BY DEF IInv, UserInv, UserType
<1>2. user[u].link \in Tasks
  BY <1>1 DEF UserOK, Waits
<1> QED
  BY <1>1, <1>2, TaskHas, TasksAre DEF UserOK, Waits, ProxyInv

LEMMA ReadsKeeps ==
  ASSUME IInv, NEW u \in Users, Reads(u)
  PROVE  IInv'
<1> DEFINE t == user[u].link
           x == task[t]
           closes == At(t, "closed") \/ user[u].at = "last"
           y == IF closes THEN HungUp(t) ELSE [x EXCEPT !.out = Nothing]
           l == IF closes THEN 0 ELSE t
<1>1. /\ ProxyInv /\ t \in Tasks /\ x.at # "free" /\ ~x.gone
      /\ x \in TaskType /\ TaskOK(x, stored) /\ task \in [Tasks -> TaskType]
      /\ user[u].req \in Requests /\ Owes(x, user[u].req) /\ Waits(u)
  BY Waiter DEF Reads
<1>2. /\ x.out # Nothing /\ stat' = Counts(u, x.out.status) /\ task' = [task EXCEPT ![t] = y]
      /\ GoesOn(u, l)
      /\ UNCHANGED <<pool, orphans, held, in_flight, tunnels, routable, up, stored, faults,
                     remaining, over>>
  BY DEF Reads
<1>3. /\ x.at \notin InHand /\ x.out \in Answers /\ x.out.req = user[u].req
      /\ Truthful(x.out, stored)
  BY <1>1, <1>2 DEF TaskOK, Owes, TaskType
<1>4. /\ TaskOK(y, stored) /\ \A g : Slot(y, g) = Slot(x, g)
      /\ \A b : Guest(y, b) = Guest(x, b)
      /\ l = t => StillLinked(y)
  <2>1. CASE closes
    BY <1>1, <2>1, HungUpFits, TasksAre
  <2>2. CASE ~closes
    <3>1. y = [x EXCEPT !.out = Nothing]
      BY <2>2
    <3> HIDE DEF y
    <3>2. /\ y \in TaskType /\ y.at = x.at /\ y.req = x.req /\ y.b = x.b /\ y.conn = x.conn
          /\ y.out = Nothing /\ y.gone = x.gone
      BY <1>1, <3>1 DEF TaskType
    <3>3. TaskOK(y, stored)
      BY <1>1, <3>2 DEF TaskOK
    <3> QED
      BY <1>1, <1>3, <3>2, <3>3 DEF Slot, Guest, StillLinked
  <2> QED
    BY <2>1, <2>2
<1>5. /\ stat' \in StatType /\ AcceptedIsStored'
      /\ stat'.requests = stat.requests + 1 /\ stat'.requests = stat'.successes + stat'.errors
  <2>1. CASE Good(x.out.status)
    <3>1. x.out.status = 200
      <4> DEFINE code == x.out.status
      <4>1. code \in {200, 500, 502, 503}
        BY <1>3 DEF Answers
      <4>2. code \in 200..299
        BY <2>1 DEF Good
      <4> HIDE DEF code
      <4>3. code = 200
        BY <4>1, <4>2
      <4> QED
        BY <4>3 DEF code
    <3>2. user[u].req.kind = "post" => user[u].req \in stored
      BY <1>3, <3>1 DEF Truthful
    <3>3. stat \in StatType /\ AcceptedIsStored /\ stat.requests = stat.successes + stat.errors
      BY DEF IInv, UserInv, EveryRequestCounted
    <3>4. stat' = [stat EXCEPT !.requests = @ + 1, !.successes = @ + 1,
                     !.accepted = IF user[u].req.kind = "post" THEN @ \union {user[u].req} ELSE @]
      BY <1>2, <2>1 DEF Counts
    <3>5. /\ stat' \in StatType /\ stat'.requests = stat.requests + 1
          /\ stat'.successes = stat.successes + 1 /\ stat'.errors = stat.errors
          /\ stat'.accepted = IF user[u].req.kind = "post" THEN stat.accepted \union {user[u].req}
                              ELSE stat.accepted
      <4> DEFINE m == IF user[u].req.kind = "post" THEN stat.accepted \union {user[u].req}
                      ELSE stat.accepted
                 n == stat.requests + 1
                 j == stat.successes + 1
                 k == stat.errors
                 late == stat.timeouts
                 a == stat.ambiguous
      <4>1. m \in SUBSET Requests
        BY <1>1, <3>3 DEF StatType
      <4>2. stat' = [stat EXCEPT !.requests = @ + 1, !.successes = @ + 1, !.accepted = m]
        BY <3>4
      <4> HIDE DEF m
      <4>3. stat' = StatAfter(n, j, k, late, a, m)
        BY <3>3, <4>2 DEF StatType, StatAfter
      <4>4. n \in Nat /\ j \in Nat /\ k \in Nat /\ late \in Nat /\ a \in Nat
        BY <3>3, StatParts
      <4> HIDE DEF n, j, k, late, a
      <4>5. /\ stat' \in StatType /\ stat'.requests = n /\ stat'.successes = j
            /\ stat'.errors = k /\ stat'.accepted = m
        BY <4>1, <4>3, <4>4, StatGrows
      <4> QED
        BY <4>5 DEF m, n, j, k
    <3>6. stat.successes \in Nat /\ stat.errors \in Nat
      BY <3>3 DEF StatType
    <3>7. AcceptedIsStored'
      BY <1>2, <3>2, <3>3, <3>5 DEF AcceptedIsStored
    <3> QED
      BY <3>3, <3>5, <3>6, <3>7
  <2>2. CASE ~Good(x.out.status)
    BY <1>2, <2>2, ErrorCounts DEF Counts
  <2> QED
    BY <2>1, <2>2
<1> HIDE DEF y
<1>6. l \in {0, t}
  OBVIOUS
<1> HIDE DEF l
<1>7. faults' \in {faults, faults + 1}
  BY <1>2
<1> QED
  BY <1>1, <1>2, <1>4, <1>5, <1>6, <1>7, GoesOnKeeps

LEMMA ReadFailsKeeps ==
  ASSUME IInv, NEW u \in Users, ReadFails(u)
  PROVE  IInv'
<1> DEFINE t == user[u].link
           x == task[t]
<1>1. /\ t \in Tasks /\ Waits(u)
  BY Waiter DEF ReadFails
<1>2. /\ x.at = "closed" /\ stat' = CountsError(u) /\ task' = [task EXCEPT ![t] = FreeTask]
      /\ GoesOn(u, 0) /\ faults' \in {faults, faults + 1}
      /\ UNCHANGED <<pool, orphans, held, in_flight, tunnels, routable, up, stored>>
      /\ UNCHANGED <<remaining, over>>
  BY DEF ReadFails, At
<1>3. /\ TaskOK(FreeTask, stored) /\ \A g : Slot(FreeTask, g) = Slot(x, g)
      /\ \A b : Guest(FreeTask, b) = Guest(x, b)
  BY <1>2, FreeTaskFits DEF Slot, Guest, HoldsSlot, AtBackend, FreeTask
<1>4. /\ stat' \in StatType /\ AcceptedIsStored'
      /\ stat'.requests = stat.requests + 1 /\ stat'.requests = stat'.successes + stat'.errors
  BY <1>2, ErrorCounts
<1>5. 0 \in {0, t} /\ 0 # t
  BY <1>1, TasksAre
<1> QED
  BY <1>1, <1>2, <1>3, <1>4, <1>5, GoesOnKeeps

LEMMA TimesOutKeeps ==
  ASSUME IInv, NEW u \in Users, TimesOut(u)
  PROVE  IInv'
<1> DEFINE t == user[u].link
<1>1. /\ ProxyInv /\ t \in Tasks /\ Waits(u) /\ task[t].at # "free"
  BY Waiter DEF TimesOut
<1>2. /\ stat' = [CountsError(u) EXCEPT !.timeouts = @ + 1]
      /\ task' = [task EXCEPT ![t] = HungUp(t)]
      /\ GoesOn(u, 0) /\ faults' \in {faults, faults + 1}
      /\ UNCHANGED <<pool, orphans, held, in_flight, tunnels, routable, up, stored>>
      /\ UNCHANGED <<remaining, over>>
  BY DEF TimesOut, Fault
<1>3. /\ TaskOK(HungUp(t), stored) /\ \A g : Slot(HungUp(t), g) = Slot(task[t], g)
      /\ \A b : Guest(HungUp(t), b) = Guest(task[t], b)
  BY <1>1, HungUpFits
<1>4. /\ stat' \in StatType /\ AcceptedIsStored'
      /\ stat'.requests = stat.requests + 1 /\ stat'.requests = stat'.successes + stat'.errors
  BY <1>2, ErrorCounts
<1>5. 0 \in {0, t} /\ 0 # t
  BY <1>1, TasksAre
<1> QED
  BY <1>1, <1>2, <1>3, <1>4, <1>5, GoesOnKeeps

LEMMA DeadlineKeeps ==
  ASSUME IInv, Deadline
  PROVE  IInv'
<1>1. /\ ProxyInv /\ UserInv /\ over' = TRUE /\ faults' \in {faults, faults + 1}
      /\ UNCHANGED <<task, pool, orphans, held, in_flight, tunnels, routable, up, stored, user,
                     remaining, stat>>
  BY DEF IInv, Deadline, Fault
<1>2. SharedOK' /\ \A b \in Backends : in_flight'[b] - tunnels'[b] = in_flight[b] - tunnels[b]
  BY <1>1 DEF ProxyInv, SharedOK
<1>3. ProxyInv'
  BY <1>1, <1>2, OthersKeep
<1>4. UserInv'
  BY <1>1 DEF UserInv, AcceptedIsStored, EveryRequestCounted, Waiting, Started, Waits
<1> QED
  BY <1>3, <1>4 DEF IInv

LEMMA StutterKeeps ==
  ASSUME IInv, UNCHANGED vars
  PROVE  IInv'
<1>1. ProxyInv /\ UserInv
  BY DEF IInv
<1>2. UNCHANGED proxyVars /\ UNCHANGED userVars
  BY DEF vars
<1>3. SharedOK'
  BY <1>1, <1>2 DEF proxyVars, ProxyInv, SharedOK
<1>4. ProxyInv' /\ Followed
  BY <1>1, <1>2, <1>3, OthersKeep DEF proxyVars
<1> QED
  BY <1>1, <1>2, <1>4, UsersFollow DEF IInv

LEMMA NextKeeps == IInv /\ [Next]_vars => IInv'
<1> SUFFICES ASSUME IInv, [Next]_vars
             PROVE  IInv'
  OBVIOUS
<1>1. CASE ProxyNext /\ UNCHANGED userVars
  BY <1>1, ProxyNextKeeps, UsersFollow DEF IInv
<1>2. ASSUME NEW u \in Users, UserSteps(u) \/ TimesOut(u)
      PROVE  IInv'
  BY <1>2, ClaimsKeeps, ReadsLastKeeps, ReadsKeeps, ReadFailsKeeps, TimesOutKeeps DEF UserSteps
<1>3. CASE Deadline
  BY <1>3, DeadlineKeeps
<1>4. CASE UNCHANGED vars
  BY <1>4, StutterKeeps
<1> QED
  BY <1>1, <1>2, <1>3, <1>4 DEF Next

-----------------------------------------------------------------------------
(* Every reachable state satisfies the inductive invariant. *)
THEOREM Invariant == Spec => []IInv
<1> QED
  BY InitIInv, NextKeeps, PTL DEF Spec


(* Requests, answers, connections and counts have their types, and a task    *)
(* that is past the gate and has a backend names it.                         *)
THEOREM TypeCorrect == Spec => []TypeOK
<1>1. IInv => TypeOK
  <2> SUFFICES ASSUME IInv
               PROVE  TypeOK
    OBVIOUS
  <2>1. ASSUME NEW t \in Tasks
        PROVE  /\ task[t].at \in {"free", "idle", "gate", "open", "head", "relay", "closed"}
               /\ task[t].req \in Requests \union {Nothing}
               /\ task[t].out \in Answers \union {Nothing}
               /\ task[t].tried \subseteq Backends
               /\ task[t].conn.ins \in Seq(Requests) /\ task[t].conn.outs \in Seq(Answers)
               /\ task[t].at \in {"open", "head", "relay"} => task[t].b \in Backends
    <3>1. ProxyInv
      BY DEF IInv
    <3>2. task[t] \in TaskType /\ TaskOK(task[t], stored)
      BY <3>1, TaskHas
    <3> QED
      BY <3>2 DEF TaskType, Conns, InHand, HoldsSlot, TaskOK
  <2>2. /\ SharedOK /\ remaining \in 0..Budget /\ stat.accepted \subseteq Requests
    BY DEF IInv, ProxyInv, UserInv, StatType
  <2> QED
    BY <2>1, <2>2 DEF TypeOK, SharedOK
<1> QED
  BY <1>1, Invariant, PTL

(* However a request ends, and whatever fails on its way, handle_client      *)
(* gives back the slot of its gate, and counts it out of the backend, once:  *)
(* no slot and no count leaks, and none is given back twice.                 *)
THEOREM CountersAreExact == Spec => []CountersExact
<1>1. IInv => CountersExact
  BY DEF IInv, ProxyInv
<1> QED
  BY <1>1, Invariant, PTL

(* No answer reaches a user that did not ask for it, although the balancer   *)
(* reuses connections on both sides.                                         *)
THEOREM NobodyReadsAnothersAnswer == Spec => []AnswersMatch
<1>1. IInv => AnswersMatch
  <2> SUFFICES ASSUME IInv, NEW u \in Users, Waits(u), task[user[u].link].out # Nothing
               PROVE  task[user[u].link].out.req = user[u].req
    BY DEF AnswersMatch
  <2>1. Owes(task[user[u].link], user[u].req) /\ TaskOK(task[user[u].link], stored)
    BY Waiter
  <2> QED
    BY <2>1 DEF Owes, TaskOK
<1> QED
  BY <1>1, Invariant, PTL

(* A message that the load test expects in the feed is stored. *)
THEOREM AcceptedMessagesAreStored == Spec => []AcceptedIsStored
<1>1. IInv => AcceptedIsStored
  BY DEF IInv, UserInv
<1> QED
  BY <1>1, Invariant, PTL

(* The report of a stage accounts for every request of its budget. *)
THEOREM EveryRequestIsCounted == Spec => []EveryRequestCounted
<1>1. IInv => EveryRequestCounted
  BY DEF IInv, UserInv
<1> QED
  BY <1>1, Invariant, PTL

-----------------------------------------------------------------------------
(* What the report says of the messages that are stored.  Only a claim adds  *)
(* to InPlay, and what is in play may be stored whatever becomes of its user. *)

Posting(v) == v.at \in {"wait", "last"} /\ v.req.kind = "post"

PlayInv ==
  /\ IsFiniteSet(InPlay) /\ IsFiniteSet(stat.accepted)
  /\ Cardinality(InPlay) <= Cardinality(stat.accepted) + stat.ambiguous + PostsOut
  /\ \A r \in stored : r.kind = "post"
  /\ \A r \in stat.accepted : r.k >= remaining
  /\ \A u \in Users : Posting(user[u]) =>
       user[u].req.user = u /\ user[u].req.k >= remaining /\ user[u].req \notin stat.accepted

(* The step does nothing with requests, except with the one task t has.      *)
OnlyHands(t) ==
  /\ \A s \in Tasks : s # t => task'[s] = task[s]
  /\ task'[t].at \in InHand => task[t].at \in InHand /\ task'[t].req = task[t].req
  /\ \A o \in orphans' : o \in orphans \/ (task[t].at \in InHand /\ o.req = task[t].req)
  /\ \A r \in stored' : \/ r \in stored
                        \/ task[t].at \in InHand /\ r = task[t].req /\ r.kind = "post"

Shrinks == InPlay' \subseteq InPlay /\ \A r \in stored' : r \in stored \/ r.kind = "post"

LEMMA HandsShrink ==
  ASSUME NEW t \in Tasks, OnlyHands(t)
  PROVE  Shrinks
<1>1. ASSUME NEW r \in InPlay'
      PROVE  r \in InPlay
  <2>1. r \in Requests /\ r.kind = "post"
    BY DEF InPlay
  <2>2. CASE r \in stored'
    BY <2>1, <2>2 DEF InPlay, OnlyHands
  <2>3. CASE \E o \in orphans' : o.req = r
    BY <2>1, <2>3 DEF InPlay, OnlyHands
  <2>4. CASE \E s \in Tasks : task'[s].at \in InHand /\ task'[s].req = r
    BY <2>1, <2>4 DEF InPlay, OnlyHands
  <2> QED
    BY <2>2, <2>3, <2>4 DEF InPlay
<1> QED
  BY <1>1 DEF Shrinks, OnlyHands

(* A task that becomes y, while backends store nothing and get no orphan. *)
LEMMA QuietShrinks ==
  ASSUME NEW t \in Tasks, NEW y, task \in [Tasks -> TaskType], task' = [task EXCEPT ![t] = y],
         y.at \in InHand => task[t].at \in InHand /\ y.req = task[t].req,
         UNCHANGED <<orphans, stored>>
  PROVE  Shrinks
<1>1. OnlyHands(t)
  BY DEF OnlyHands
<1> QED
  BY <1>1, HandsShrink

LEMMA ClosedIsNotInHand ==
  ASSUME NEW t \in Tasks, NEW out, task[t] \in TaskType
  PROVE  ClosedTask(t, out).at \notin InHand
  BY DEF ClosedTask, Ended, FreeTask, TaskType, InHand

LEMMA PicksShrinks ==
  ASSUME ProxyInv, NEW t \in Tasks, task[t].at \in InHand, NEW tried, NEW from, NEW h,
         Picks(t, tried, from, h), UNCHANGED <<orphans, stored>>
  PROVE  Shrinks
<1> DEFINE x == task[t]
<1>1. x \in TaskType /\ task \in [Tasks -> TaskType]
  BY TaskHas DEF ProxyInv
<1>2. CASE PicksNone(t, tried, from, h)
  <2>1. task' = [task EXCEPT ![t] = ClosedTask(t, Answer(x.req, 503))]
    BY <1>2 DEF PicksNone
  <2>2. ClosedTask(t, Answer(x.req, 503)).at \notin InHand
    BY <1>1, ClosedIsNotInHand
  <2> QED
    BY <1>1, <2>1, <2>2, QuietShrinks
<1>3. CASE PicksPooled(t, tried, from, h)
  <2>1. PICK b, c : task' = [task EXCEPT ![t].at = "head", ![t].b = b, ![t].tried = tried,
                                         ![t].conn = c]
    BY <1>3 DEF PicksPooled
  <2> DEFINE y == [x EXCEPT !.at = "head", !.b = b, !.tried = tried, !.conn = c]
  <2>2. task' = [task EXCEPT ![t] = y]
    BY <1>1, <2>1
  <2>3. y.req = x.req
    BY <1>1 DEF TaskType
  <2> HIDE DEF y
  <2> QED
    BY <1>1, <2>2, <2>3, QuietShrinks
<1>4. CASE PicksNew(t, tried, from, h)
  <2>1. PICK b : task' = [task EXCEPT ![t].at = "open", ![t].b = b, ![t].tried = tried]
    BY <1>4 DEF PicksNew
  <2> DEFINE y == [x EXCEPT !.at = "open", !.b = b, !.tried = tried]
  <2>2. task' = [task EXCEPT ![t] = y]
    BY <1>1, <2>1
  <2>3. y.req = x.req
    BY <1>1 DEF TaskType
  <2> HIDE DEF y
  <2> QED
    BY <1>1, <2>2, <2>3, QuietShrinks
<1> QED
  BY <1>2, <1>3, <1>4 DEF Picks

LEMMA TaskStepsShrink ==
  ASSUME ProxyInv, NEW t \in Tasks,
         Admitted(t) \/ Opens(t) \/ OpenFails(t) \/ HeadArrives(t) \/ BodyEnds(t)
           \/ SeesHangup(t) \/ IdleCloses(t)
  PROVE  Shrinks
<1> DEFINE x == task[t]
<1>1. x \in TaskType /\ task \in [Tasks -> TaskType]
  BY TaskHas DEF ProxyInv
<1>2. CASE Admitted(t)
  BY <1>2, PicksShrinks DEF Admitted, At, InHand
<1>3. CASE Opens(t)
  <2> DEFINE y == [x EXCEPT !.at = "head", !.conn.ins = <<x.req>>]
  <2>1. /\ x.at = "open" /\ task' = [task EXCEPT ![t] = y] /\ UNCHANGED <<orphans, stored>>
    BY <1>1, <1>3 DEF Opens, At
  <2>2. y.req = x.req
    BY <1>1 DEF TaskType
  <2> HIDE DEF y
  <2> QED
    BY <1>1, <2>1, <2>2, QuietShrinks DEF InHand
<1>4. CASE OpenFails(t)
  BY <1>4, PicksShrinks DEF OpenFails, At, InHand
<1>5. CASE HeadArrives(t)
  <2> DEFINE y == [x EXCEPT !.at = "relay"]
  <2>1. x.at = "head" /\ task' = [task EXCEPT ![t] = y] /\ UNCHANGED <<orphans, stored>>
    BY <1>1, <1>5 DEF HeadArrives, At
  <2>2. y.req = x.req
    BY <1>1 DEF TaskType
  <2> HIDE DEF y
  <2> QED
    BY <1>1, <2>1, <2>2, QuietShrinks DEF InHand
<1>6. CASE BodyEnds(t)
  <2> DEFINE y == [Ended(t) EXCEPT !.at = "idle",
                     !.out = IF x.gone THEN Nothing ELSE Head(x.conn.outs)]
  <2>1. task' = [task EXCEPT ![t] = y] /\ UNCHANGED <<orphans, stored>>
    BY <1>6 DEF BodyEnds
  <2>2. y.at = "idle"
    BY <1>1 DEF Ended, TaskType
  <2> HIDE DEF y
  <2> QED
    BY <1>1, <2>1, <2>2, QuietShrinks DEF InHand
<1>7. CASE SeesHangup(t)
  <2>1. /\ task' = [task EXCEPT ![t] = FreeTask] /\ UNCHANGED <<orphans, stored>>
        /\ FreeTask.at \notin InHand
    BY <1>7 DEF SeesHangup, FreeTask, InHand
  <2> QED
    BY <1>1, <2>1, QuietShrinks
<1>8. CASE IdleCloses(t)
  <2>1. /\ task' = [task EXCEPT ![t] = ClosedTask(t, Nothing)] /\ UNCHANGED <<orphans, stored>>
    BY <1>8 DEF IdleCloses
  <2>2. ClosedTask(t, Nothing).at \notin InHand
    BY <1>1, ClosedIsNotInHand
  <2> QED
    BY <1>1, <2>1, <2>2, QuietShrinks
<1> QED
  BY <1>2, <1>3, <1>4, <1>5, <1>6, <1>7, <1>8

LEMMA UpstreamFailsShrinks ==
  ASSUME ProxyInv, NEW t \in Tasks, UpstreamFails(t)
  PROVE  Shrinks
<1> DEFINE x == task[t]
           out == IF At(t, "head") THEN Answer(task[t].req, 502) ELSE Nothing
           y == ClosedTask(t, out)
<1>1. /\ x \in TaskType /\ task \in [Tasks -> TaskType] /\ x.at \in AtBackend
      /\ TaskOK(x, stored) /\ x.conn.ins \in Seq(Requests)
  BY TaskHas DEF ProxyInv, UpstreamFails, At, AtBackend
<1>2. /\ task' = [task EXCEPT ![t] = y] /\ stored' = stored
      /\ orphans' = orphans \union Left(x.b, x.conn)
  BY DEF UpstreamFails, ClosesConn
<1> HIDE DEF out
<1>3. y.at \notin InHand
  BY <1>1, ClosedIsNotInHand
<1> HIDE DEF y
<1>4. \A o \in Left(x.b, x.conn) : o.req = x.req
  <2>1. Carries(x.conn, x.req, stored)
    BY <1>1 DEF TaskOK
  <2>2. x.conn.ins = << >> \/ x.conn.ins = <<x.req>>
    BY <2>1 DEF Carries
  <2> QED
    BY <2>2 DEF Left
<1>5. OnlyHands(t)
  BY <1>1, <1>2, <1>3, <1>4 DEF OnlyHands, AtBackend, InHand
<1> QED
  BY <1>5, HandsShrink

LEMMA HandlesShrinks ==
  ASSUME ProxyInv, NEW t \in Tasks, Handles(t)
  PROVE  Shrinks
<1> DEFINE x == task[t]
           r == Head(x.conn.ins)
<1>1. /\ x \in TaskType /\ task \in [Tasks -> TaskType] /\ TaskOK(x, stored)
      /\ x.conn.ins # << >>
  BY TaskHas DEF ProxyInv, Handles
<1>2. x.at \in AtBackend
  BY <1>1 DEF TaskOK, NewConn
<1>3. r = x.req
  <2>1. Carries(x.conn, x.req, stored)
    BY <1>1, <1>2 DEF TaskOK
  <2>2. x.conn.ins = <<x.req>>
    BY <1>1, <2>1 DEF Carries
  <2> QED
    BY <2>2
<1>4. \E c : task' = [task EXCEPT ![t].conn = c]
  <2> DEFINE Goes(s) ==
               task' = [task EXCEPT ![t].conn = [x.conn EXCEPT !.ins = Tail(@),
                                                               !.outs = Append(@, Answer(r, s))]]
  <2>1. \E s \in {200, 500} :
          /\ \/ s = 200 /\ Works(r) /\ UNCHANGED faults
             \/ s = 500 /\ (Works(r) \/ UNCHANGED stored) /\ Fault("error")
          /\ Goes(s)
    BY DEF Handles
  <2>2. PICK s \in {200, 500} : Goes(s)
    <3> HIDE DEF Goes
    <3> QED
      BY <2>1
  <2> DEFINE c == [x.conn EXCEPT !.ins = Tail(@), !.outs = Append(@, Answer(r, s))]
  <2>3. task' = [task EXCEPT ![t].conn = c]
    BY <2>2
  <2> HIDE DEF c
  <2> QED
    BY <2>3
<1>5. UNCHANGED orphans /\ (Works(r) \/ UNCHANGED stored)
  BY DEF Handles
<1> HIDE DEF r
<1>6. \A q \in stored' : q \in stored \/ (q = x.req /\ q.kind = "post")
  BY <1>3, <1>5 DEF Works
<1>7. PICK c : task' = [task EXCEPT ![t].conn = c]
  BY <1>4
<1>8. task'[t].req = x.req /\ \A s \in Tasks : s # t => task'[s] = task[s]
  <2>1. \A s \in Tasks : task'[s] = IF s = t THEN [x EXCEPT !.conn = c] ELSE task[s]
    BY <1>1, <1>7
  <2> QED
    BY <1>1, <2>1 DEF TaskType
<1>9. OnlyHands(t)
  BY <1>2, <1>5, <1>6, <1>8 DEF OnlyHands, AtBackend, InHand
<1> QED
  BY <1>9, HandsShrink

(* Steps of no task: an orphan is worked on, and connections end. *)
LEMMA OthersShrink ==
  ASSUME SharedOK, orphans' \subseteq orphans,
         \A r \in stored' : r \in stored \/ (r.kind = "post" /\ \E o \in orphans : o.req = r),
         \A t \in Tasks : task'[t].at \in InHand =>
                            task[t].at \in InHand /\ task'[t].req = task[t].req
  PROVE  Shrinks
<1>1. ASSUME NEW r \in InPlay'
      PROVE  r \in InPlay
  <2>1. r \in Requests /\ r.kind = "post"
    BY DEF InPlay
  <2>2. CASE r \in stored'
    BY <2>1, <2>2 DEF InPlay
  <2>3. CASE \E o \in orphans' : o.req = r
    BY <2>1, <2>3 DEF InPlay
  <2>4. CASE \E s \in Tasks : task'[s].at \in InHand /\ task'[s].req = r
    BY <2>1, <2>4 DEF InPlay
  <2> QED
    BY <2>2, <2>3, <2>4 DEF InPlay
<1> QED
  BY <1>1 DEF Shrinks

LEMMA BackendsShrink ==
  ASSUME ProxyInv, NEW b \in Backends,
         PeerCloses(b) \/ TunnelOpens(b) \/ TunnelEnds(b) \/ Crashes(b) \/ Restarts(b) \/ Readmits(b)
  PROVE  Shrinks
<1>1. SharedOK /\ task \in [Tasks -> TaskType]
  BY DEF ProxyInv
<1>2. orphans' \subseteq orphans /\ stored' = stored
  BY DEF PeerCloses, TunnelOpens, TunnelEnds, Crashes, Restarts, Readmits
<1>3. ASSUME NEW t \in Tasks
      PROVE  task'[t] = task[t] \/ task'[t] = [task[t] EXCEPT !.conn = Eof(@)]
  <2>1. CASE PeerCloses(b)
    <3>1. UNCHANGED task \/ \E s \in Tasks : task' = [task EXCEPT ![s].conn = Eof(@)]
      BY <2>1 DEF PeerCloses
    <3> QED
      BY <1>1, <3>1
  <2>2. CASE Crashes(b)
    BY <2>2 DEF Crashes
  <2>3. CASE TunnelOpens(b) \/ TunnelEnds(b) \/ Restarts(b) \/ Readmits(b)
    BY <2>3 DEF TunnelOpens, TunnelEnds, Restarts, Readmits
  <2> QED
    BY <2>1, <2>2, <2>3
<1>4. \A t \in Tasks : task'[t].at = task[t].at /\ task'[t].req = task[t].req
  BY <1>1, <1>3 DEF TaskType
<1> QED
  BY <1>1, <1>2, <1>4, OthersShrink

LEMMA ProxyShrinks ==
  ASSUME ProxyInv, ProxyNext
  PROVE  Shrinks
<1>1. CASE \E t \in Tasks : TaskSteps(t) \/ IdleCloses(t)
  BY <1>1, TaskStepsShrink, UpstreamFailsShrinks DEF TaskSteps
<1>2. CASE \E t \in Tasks : Handles(t)
  BY <1>2, HandlesShrinks
<1>3. CASE \E o \in orphans : HandlesOrphan(o)
  <2>1. PICK o \in orphans : HandlesOrphan(o)
    BY <1>3
  <2>2. SharedOK
    BY DEF ProxyInv
  <2> QED
    BY <2>1, <2>2, OthersShrink DEF HandlesOrphan, Works
<1>4. CASE \E b \in Backends : \/ PeerCloses(b) \/ TunnelOpens(b) \/ TunnelEnds(b) \/ Crashes(b)
                               \/ Restarts(b) \/ Readmits(b)
  BY <1>4, BackendsShrink
<1> QED
  BY <1>1, <1>2, <1>3, <1>4 DEF ProxyNext

(* What a user sends is in play, if it is a message. *)
LEMMA SendsAdds ==
  ASSUME ProxyInv, NEW u \in Users, NEW r, NEW t \in Tasks, SendsOn(u, r, t)
  PROVE  /\ stored' = stored
         /\ \A q \in InPlay' : q \in InPlay \/ (q = r /\ q.kind = "post")
<1>1. task \in [Tasks -> TaskType]
  BY DEF ProxyInv
<1>2. UNCHANGED <<orphans, stored>>
  BY DEF SendsOn, Receives
<1>3. \/ task' = task
      \/ \E y : task' = [task EXCEPT ![t] = y] /\ y.req = r
  <2>1. CASE t = user[u].link /\ Receives(t, r)
    <3> DEFINE y == [task[t] EXCEPT !.at = "gate", !.req = r]
    <3>1. task' = [task EXCEPT ![t] = y]
      BY <1>1, <2>1 DEF Receives
    <3>2. y.req = r
      BY <1>1 DEF TaskType
    <3> HIDE DEF y
    <3> QED
      BY <3>1, <3>2
  <2>2. CASE user[u].link = 0 /\ task' = [task EXCEPT ![t] = [FreeTask EXCEPT !.at = "gate",
                                                                             !.req = r]]
    <3> DEFINE y == [FreeTask EXCEPT !.at = "gate", !.req = r]
    <3>1. y.req = r
      BY DEF FreeTask
    <3>2. task' = [task EXCEPT ![t] = y]
      BY <2>2
    <3> HIDE DEF y
    <3> QED
      BY <3>1, <3>2
  <2> QED
    BY <2>1, <2>2 DEF SendsOn
<1>4. \A s \in Tasks : task'[s] = task[s] \/ task'[s].req = r
  BY <1>1, <1>3
<1>5. ASSUME NEW q \in InPlay'
      PROVE  q \in InPlay \/ (q = r /\ q.kind = "post")
  <2>1. q \in Requests /\ q.kind = "post"
    BY DEF InPlay
  <2>2. CASE q \in stored' \/ \E o \in orphans' : o.req = q
    BY <1>2, <2>1, <2>2 DEF InPlay
  <2>3. CASE \E s \in Tasks : task'[s].at \in InHand /\ task'[s].req = q
    BY <1>4, <2>1, <2>3 DEF InPlay
  <2> QED
    BY <2>2, <2>3 DEF InPlay
<1> QED
  BY <1>2, <1>5

(* A user hangs up, or has read its answer. *)
LEMMA UserShrinks ==
  ASSUME ProxyInv, NEW t \in Tasks, UNCHANGED <<orphans, stored>>,
         \/ task' = [task EXCEPT ![t] = HungUp(t)]
         \/ task' = [task EXCEPT ![t] = [@ EXCEPT !.out = Nothing]]
         \/ task' = [task EXCEPT ![t] = FreeTask]
  PROVE  Shrinks
<1> DEFINE x == task[t]
           y == [x EXCEPT !.out = Nothing]
           z == [x EXCEPT !.gone = TRUE, !.out = Nothing]
<1>1. x \in TaskType /\ task \in [Tasks -> TaskType]
  BY TaskHas DEF ProxyInv
<1>2. \/ task' = [task EXCEPT ![t] = FreeTask]
      \/ task' = [task EXCEPT ![t] = y]
      \/ task' = [task EXCEPT ![t] = z]
  BY DEF HungUp
<1>3. y.at = x.at /\ y.req = x.req /\ z.at = x.at /\ z.req = x.req
  BY <1>1 DEF TaskType
<1>4. FreeTask.at \notin InHand
  BY DEF FreeTask, InHand
<1> HIDE DEF y, z
<1> QED
  BY <1>1, <1>2, <1>3, <1>4, QuietShrinks

(* The messages that users wait for, when one user moves.                    *)
LEMMA PostsMove ==
  ASSUME NEW u \in Users, NEW w, user \in [Users -> UserType], user' = [user EXCEPT ![u] = w]
  PROVE  /\ PostsOut \in Nat /\ PostsOut' \in Nat
         /\ PostsOut' = PostsOut + (IF Posting(w) THEN 1 ELSE 0)
                                 - (IF Posting(user[u]) THEN 1 ELSE 0)
<1> DEFINE P == {v \in Users : Waits(v) /\ user[v].req.kind = "post"}
<1>1. user'[u] = w /\ \A v \in Users : v # u => user'[v] = user[v]
  OBVIOUS
<1>2. /\ P \in SUBSET Users /\ P' \in SUBSET Users
      /\ \A v \in Users : v # u => (v \in P <=> v \in P')
      /\ u \in P <=> Posting(user[u])
      /\ u \in P' <=> Posting(w)
  BY <1>1 DEF Waits, Posting
<1>3. PostsOut = Cardinality(P) /\ PostsOut' = Cardinality(P')
  BY DEF PostsOut
<1> HIDE DEF P
<1>4. /\ Cardinality(P) \in Nat /\ Cardinality(P') \in Nat
      /\ Cardinality(P') = Cardinality(P) + (IF u \in P' THEN 1 ELSE 0)
                                          - (IF u \in P THEN 1 ELSE 0)
  BY <1>2, UsersAssumption, OneMoves
<1> QED
  BY <1>2, <1>3, <1>4

(* A set that shrinks, or grows by one element at most.                      *)
LEMMA PlayCount ==
  ASSUME NEW S, NEW T, NEW r, IsFiniteSet(S), T \subseteq S \union {r}
  PROVE  /\ IsFiniteSet(T) /\ Cardinality(T) \in Nat /\ Cardinality(S) \in Nat
         /\ Cardinality(T) <= Cardinality(S) + 1
         /\ T \subseteq S => Cardinality(T) <= Cardinality(S)
<1>1. /\ IsFiniteSet(S \union {r})
      /\ Cardinality(S \union {r}) = IF r \in S THEN Cardinality(S) ELSE Cardinality(S) + 1
  BY FS_AddElement
<1>2. IsFiniteSet(T) /\ Cardinality(T) <= Cardinality(S \union {r})
  BY <1>1, FS_Subset
<1>3. T \subseteq S => Cardinality(T) <= Cardinality(S)
  BY FS_Subset
<1>4. Cardinality(S) \in Nat /\ Cardinality(T) \in Nat
  BY <1>2, FS_CardinalityType
<1> QED
  BY <1>1, <1>2, <1>3, <1>4

LEMMA InitPlayInv == Init => PlayInv
<1> SUFFICES ASSUME Init
             PROVE  PlayInv
  OBVIOUS
<1>1. /\ stored = {} /\ orphans = {} /\ stat.accepted = {} /\ stat.ambiguous = 0
      /\ \A t \in Tasks : task[t].at \notin InHand
      /\ \A u \in Users : user[u].at = "claim"
  BY DEF Init, ProxyInit, FreeTask, InHand
<1>2. InPlay = {}
  BY <1>1 DEF InPlay
<1>3. PostsOut = 0
  <2>1. {u \in Users : Waits(u) /\ user[u].req.kind = "post"} = {}
    BY <1>1 DEF Waits
  <2> QED
    BY <2>1, FS_EmptySet DEF PostsOut
<1>4. IsFiniteSet({}) /\ Cardinality({}) = 0
  BY FS_EmptySet
<1> QED
  BY <1>1, <1>2, <1>3, <1>4 DEF PlayInv, Posting

(* Steps that change nothing the users have. *)
LEMMA ProxyKeepsPlay ==
  ASSUME IInv, PlayInv, Shrinks, UNCHANGED <<user, remaining, stat>>
  PROVE  PlayInv'
<1>1. PostsOut \in Nat /\ PostsOut' = PostsOut
  <2>1. IsFiniteSet({u \in Users : Waits(u) /\ user[u].req.kind = "post"})
    BY UsersAssumption, FS_Subset
  <2>2. PostsOut \in Nat
    BY <2>1, FS_CardinalityType DEF PostsOut
  <2> QED
    BY <2>2 DEF PostsOut, Waits
<1>2. /\ IsFiniteSet(InPlay') /\ Cardinality(InPlay') \in Nat /\ Cardinality(InPlay) \in Nat
      /\ Cardinality(InPlay') <= Cardinality(InPlay)
  BY PlayCount DEF PlayInv, Shrinks
<1>3. /\ Cardinality(stat.accepted) \in Nat /\ stat.ambiguous \in Nat
  BY FS_CardinalityType DEF PlayInv, IInv, UserInv, StatType
<1>4. Cardinality(InPlay') <= Cardinality(stat'.accepted) + stat'.ambiguous + PostsOut'
  BY <1>1, <1>2, <1>3 DEF PlayInv
<1> QED
  BY <1>2, <1>4 DEF PlayInv, Shrinks, Posting

LEMMA ClaimsKeepsPlay ==
  ASSUME IInv, PlayInv, NEW u \in Users, Claims(u)
  PROVE  PlayInv'
<1> DEFINE n == user[u].n + 1
           r == Request(IF n % FeedEvery = 0 THEN "feed" ELSE "post", u, remaining')
<1>1. /\ ProxyInv /\ user[u].at = "claim" /\ remaining' = remaining - 1
      /\ user \in [Users -> UserType] /\ remaining \in Nat
      /\ UNCHANGED <<over, stat, faults>>
  BY BudgetAssumption DEF IInv, UserInv, Claims, MayClaim
<1>2. r.user = u /\ r.k = remaining'
  BY DEF Request
<1>3. PICK t \in Tasks :
        /\ SendsOn(u, r, t)
        /\ user' = [user EXCEPT ![u] = [at |-> "wait", n |-> n, req |-> r, link |-> t]]
  BY DEF Claims
<1> DEFINE w == [at |-> "wait", n |-> n, req |-> r, link |-> t]
<1>4. w.at = "wait" /\ w.req = r
  OBVIOUS
<1> HIDE DEF n, r
<1>5. user' = [user EXCEPT ![u] = w]
  BY <1>3
<1> HIDE DEF w
<1>6. /\ stored' = stored
      /\ \A q \in InPlay' : q \in InPlay \/ (q = r /\ q.kind = "post")
  BY <1>1, <1>3, SendsAdds
<1>7. /\ PostsOut \in Nat
      /\ PostsOut' = PostsOut + (IF r.kind = "post" THEN 1 ELSE 0)
  <2>1. Posting(w) <=> r.kind = "post"
    BY <1>4 DEF Posting
  <2>2. ~Posting(user[u])
    BY <1>1 DEF Posting
  <2>3. /\ PostsOut \in Nat /\ PostsOut' \in Nat
        /\ PostsOut' = PostsOut + (IF Posting(w) THEN 1 ELSE 0)
                                - (IF Posting(user[u]) THEN 1 ELSE 0)
    BY <1>1, <1>5, PostsMove
  <2> QED
    BY <2>1, <2>2, <2>3
<1>8. /\ IsFiniteSet(InPlay') /\ Cardinality(InPlay') \in Nat /\ Cardinality(InPlay) \in Nat
      /\ Cardinality(InPlay') <= Cardinality(InPlay) + (IF r.kind = "post" THEN 1 ELSE 0)
  <2>1. InPlay' \subseteq InPlay \union {r} /\ (r.kind # "post" => InPlay' \subseteq InPlay)
    BY <1>6
  <2>2. IsFiniteSet(InPlay)
    BY DEF PlayInv
  <2>3. /\ IsFiniteSet(InPlay') /\ Cardinality(InPlay') \in Nat /\ Cardinality(InPlay) \in Nat
        /\ Cardinality(InPlay') <= Cardinality(InPlay) + 1
        /\ InPlay' \subseteq InPlay => Cardinality(InPlay') <= Cardinality(InPlay)
    BY <2>1, <2>2, PlayCount
  <2> QED
    BY <2>1, <2>3
<1>9. Cardinality(InPlay') <= Cardinality(stat'.accepted) + stat'.ambiguous + PostsOut'
  <2>1. Cardinality(stat.accepted) \in Nat /\ stat.ambiguous \in Nat
    BY FS_CardinalityType DEF PlayInv, IInv, UserInv, StatType
  <2>2. Cardinality(InPlay) <= Cardinality(stat.accepted) + stat.ambiguous + PostsOut
    BY DEF PlayInv
  <2> QED
    BY <1>1, <1>7, <1>8, <2>1, <2>2
<1>10. \A q \in stat.accepted : q.k \in Nat /\ q.k >= remaining
  <2>1. stat.accepted \subseteq Requests
    BY DEF IInv, UserInv, StatType
  <2> QED
    BY <2>1, BudgetAssumption DEF PlayInv, Requests
<1>11. r \notin stat.accepted /\ \A q \in stat'.accepted : q.k >= remaining'
  BY <1>1, <1>2, <1>10
<1>12. ASSUME NEW v \in Users, Posting(user'[v])
       PROVE  /\ user'[v].req.user = v /\ user'[v].req.k >= remaining'
              /\ user'[v].req \notin stat'.accepted
  <2>1. CASE v = u
    <3>1. user'[v].req = r
      BY <1>1, <1>4, <1>5, <2>1
    <3> QED
      BY <1>1, <1>2, <1>11, <2>1, <3>1
  <2>2. CASE v # u
    <3>1. user'[v] = user[v]
      BY <1>1, <1>5, <2>2
    <3>2. /\ user[v].req.user = v /\ user[v].req.k >= remaining
          /\ user[v].req \notin stat.accepted
      BY <1>12, <3>1 DEF PlayInv
    <3>3. user[v].req \in Requests
      BY <1>12, <3>1 DEF IInv, UserInv, UserOK, Posting
    <3>4. user[v].req.k \in Nat
      BY <3>3, BudgetAssumption DEF Requests
    <3> QED
      BY <1>1, <3>1, <3>2, <3>4
  <2> QED
    BY <2>1, <2>2
<1> QED
  BY <1>1, <1>6, <1>8, <1>9, <1>11, <1>12 DEF PlayInv

LEMMA ReadsLastKeepsPlay ==
  ASSUME IInv, PlayInv, NEW u \in Users, ReadsLast(u)
  PROVE  PlayInv'
<1> DEFINE r == Request("feed", u, Budget)
<1>1. /\ ProxyInv /\ user[u].at = "claim" /\ user \in [Users -> UserType] /\ user[u] \in UserType
      /\ UNCHANGED <<remaining, over, stat, faults>>
  BY DEF IInv, UserInv, ReadsLast
<1>2. r.kind = "feed"
  BY DEF Request
<1>3. PICK t \in Tasks :
        /\ SendsOn(u, r, t)
        /\ user' = [user EXCEPT ![u].at = "last", ![u].req = r, ![u].link = t]
  BY DEF ReadsLast
<1> HIDE DEF r
<1> DEFINE w == [user[u] EXCEPT !.at = "last", !.req = r, !.link = t]
<1>4. w.req = r
  BY <1>1 DEF UserType
<1>5. user' = [user EXCEPT ![u] = w]
  BY <1>1, <1>3
<1> HIDE DEF w
<1>6. Shrinks
  <2>1. /\ stored' = stored
        /\ \A q \in InPlay' : q \in InPlay \/ (q = r /\ q.kind = "post")
    BY <1>1, <1>3, SendsAdds
  <2> QED
    BY <1>2, <2>1 DEF Shrinks
<1>7. PostsOut \in Nat /\ PostsOut' = PostsOut
  <2>1. ~Posting(w) /\ ~Posting(user[u])
    BY <1>1, <1>2, <1>4 DEF Posting
  <2>2. /\ PostsOut \in Nat /\ PostsOut' \in Nat
        /\ PostsOut' = PostsOut + (IF Posting(w) THEN 1 ELSE 0)
                                - (IF Posting(user[u]) THEN 1 ELSE 0)
    BY <1>1, <1>5, PostsMove
  <2> QED
    BY <2>1, <2>2
<1>8. /\ IsFiniteSet(InPlay') /\ Cardinality(InPlay') \in Nat /\ Cardinality(InPlay) \in Nat
      /\ Cardinality(InPlay') <= Cardinality(InPlay)
  BY <1>6, PlayCount DEF PlayInv, Shrinks
<1>9. Cardinality(InPlay') <= Cardinality(stat'.accepted) + stat'.ambiguous + PostsOut'
  <2>1. Cardinality(stat.accepted) \in Nat /\ stat.ambiguous \in Nat
    BY FS_CardinalityType DEF PlayInv, IInv, UserInv, StatType
  <2> QED
    BY <1>1, <1>7, <1>8, <2>1 DEF PlayInv
<1>10. ASSUME NEW v \in Users, Posting(user'[v])
       PROVE  /\ user'[v].req.user = v /\ user'[v].req.k >= remaining'
              /\ user'[v].req \notin stat'.accepted
  <2>1. v # u
    BY <1>1, <1>2, <1>4, <1>5, <1>10 DEF Posting
  <2>2. user'[v] = user[v]
    BY <1>1, <1>5, <2>1
  <2> QED
    BY <1>1, <1>10, <2>2 DEF PlayInv
<1> QED
  BY <1>1, <1>6, <1>8, <1>9, <1>10 DEF PlayInv, Shrinks

(* The user goes on: its message is accepted now, or ambiguous. *)
LEMMA GoesOnKeepsPlay ==
  ASSUME IInv, PlayInv, NEW u \in Users, Waits(u), NEW l, GoesOn(u, l), Shrinks,
         remaining' = remaining,
         \/ /\ stat'.accepted = IF Posting(user[u]) THEN stat.accepted \union {user[u].req}
                                ELSE stat.accepted
            /\ stat'.ambiguous = stat.ambiguous
         \/ /\ stat'.accepted = stat.accepted
            /\ stat'.ambiguous = stat.ambiguous + (IF Posting(user[u]) THEN 1 ELSE 0)
  PROVE  PlayInv'
<1> DEFINE p == IF Posting(user[u]) THEN 1 ELSE 0
           r == user[u].req
           acc == stat.accepted
<1>1. user \in [Users -> UserType] /\ user[u] \in UserType
  BY DEF IInv, UserInv
<1>2. PICK w : user' = [user EXCEPT ![u] = w] /\ w.at \in {"claim", "done"}
  <2> DEFINE w == [user[u] EXCEPT !.at = IF user[u].at = "wait" THEN "claim" ELSE "done",
                                  !.req = Nothing,
                                  !.link = IF user[u].at = "wait" THEN l ELSE 0]
  <2>1. user' = [user EXCEPT ![u] = w]
    BY DEF GoesOn
  <2>2. w.at \in {"claim", "done"}
    BY <1>1 DEF UserType
  <2> HIDE DEF w
  <2> QED
    BY <2>1, <2>2
<1>3. /\ PostsOut \in Nat /\ PostsOut' \in Nat /\ PostsOut' = PostsOut - p
  <2>1. ~Posting(w)
    BY <1>2 DEF Posting
  <2>2. /\ PostsOut \in Nat /\ PostsOut' \in Nat
        /\ PostsOut' = PostsOut + (IF Posting(w) THEN 1 ELSE 0)
                                - (IF Posting(user[u]) THEN 1 ELSE 0)
    BY <1>1, <1>2, PostsMove
  <2> QED
    BY <2>1, <2>2
<1>4. /\ IsFiniteSet(InPlay') /\ Cardinality(InPlay') \in Nat /\ Cardinality(InPlay) \in Nat
      /\ Cardinality(InPlay') <= Cardinality(InPlay)
  BY PlayCount DEF PlayInv, Shrinks
<1>5. /\ IsFiniteSet(acc) /\ Cardinality(acc) \in Nat /\ stat.ambiguous \in Nat
  BY FS_CardinalityType DEF PlayInv, IInv, UserInv, StatType
<1>6. Posting(user[u]) => r.user = u /\ r.k >= remaining /\ r \notin acc
  BY DEF PlayInv
<1>7. /\ IsFiniteSet(acc \union {r})
      /\ r \notin acc => Cardinality(acc \union {r}) = Cardinality(acc) + 1
  BY <1>5, FS_AddElement
<1>8. p \in {0, 1} /\ (p = 1 <=> Posting(user[u]))
  OBVIOUS
<1>9. /\ stat'.accepted \subseteq acc \union {r} /\ (~Posting(user[u]) => stat'.accepted = acc)
      /\ IsFiniteSet(stat'.accepted)
  BY <1>5, <1>7
<1>10. Cardinality(stat'.accepted) + stat'.ambiguous = Cardinality(acc) + stat.ambiguous + p
  BY <1>5, <1>6, <1>7, <1>8
<1> HIDE DEF p
<1>11. Cardinality(InPlay') <= Cardinality(stat'.accepted) + stat'.ambiguous + PostsOut'
  <2>1. Cardinality(InPlay) <= Cardinality(acc) + stat.ambiguous + PostsOut
    BY DEF PlayInv
  <2> DEFINE total == Cardinality(stat'.accepted) + stat'.ambiguous
  <2>2. total = Cardinality(acc) + stat.ambiguous + p
    BY <1>10
  <2> HIDE DEF acc, total
  <2>3. Cardinality(InPlay') <= total + PostsOut'
    BY <1>3, <1>4, <1>5, <1>8, <2>1, <2>2
  <2> QED
    BY <2>3 DEF total
<1>12. \A q \in stat'.accepted : q.k >= remaining'
  BY <1>6, <1>9 DEF PlayInv
<1>13. ASSUME NEW v \in Users, Posting(user'[v])
       PROVE  /\ user'[v].req.user = v /\ user'[v].req.k >= remaining'
              /\ user'[v].req \notin stat'.accepted
  <2>1. v # u
    BY <1>1, <1>2, <1>13 DEF Posting
  <2>2. user'[v] = user[v]
    BY <1>1, <1>2, <2>1
  <2>3. /\ user[v].req.user = v /\ user[v].req.k >= remaining /\ user[v].req \notin acc
    BY <1>13, <2>2 DEF PlayInv
  <2>4. user[v].req \notin stat'.accepted
    BY <1>6, <1>9, <2>1, <2>3
  <2> QED
    BY <2>2, <2>3, <2>4
<1> QED
  BY <1>4, <1>9, <1>11, <1>12, <1>13 DEF PlayInv, Shrinks

(* An error of a message makes it ambiguous. *)
LEMMA ErrorIsAmbiguous ==
  ASSUME IInv, NEW u \in Users, Waits(u),
         \/ stat' = CountsError(u)
         \/ stat' = [CountsError(u) EXCEPT !.timeouts = @ + 1]
  PROVE  /\ stat'.accepted = stat.accepted
         /\ stat'.ambiguous = stat.ambiguous + (IF Posting(user[u]) THEN 1 ELSE 0)
<1> DEFINE m == IF user[u].req.kind = "post" THEN stat.ambiguous + 1 ELSE stat.ambiguous
           e == [stat EXCEPT !.requests = @ + 1, !.errors = @ + 1, !.ambiguous = m]
<1>1. stat \in StatType
  BY DEF IInv, UserInv
<1>2. stat' = e \/ stat' = [e EXCEPT !.timeouts = @ + 1]
  BY DEF CountsError
<1>3. m = stat.ambiguous + (IF Posting(user[u]) THEN 1 ELSE 0)
  BY <1>1 DEF Posting, Waits, StatType
<1> HIDE DEF m
<1>4. /\ e.accepted = stat.accepted /\ e.ambiguous = m
      /\ [e EXCEPT !.timeouts = @ + 1].accepted = e.accepted
      /\ [e EXCEPT !.timeouts = @ + 1].ambiguous = e.ambiguous
  BY <1>1 DEF StatType
<1> HIDE DEF e
<1> QED
  BY <1>2, <1>3, <1>4

LEMMA ReadsKeepsPlay ==
  ASSUME IInv, PlayInv, NEW u \in Users, Reads(u)
  PROVE  PlayInv'
<1> DEFINE t == user[u].link
           x == task[t]
           closes == At(t, "closed") \/ user[u].at = "last"
           l == IF closes THEN 0 ELSE t
<1>1. ProxyInv /\ t \in Tasks /\ Waits(u)
  BY Waiter DEF Reads
<1>2. /\ stat' = Counts(u, x.out.status)
      /\ task' = [task EXCEPT ![t] = IF closes THEN HungUp(t) ELSE [@ EXCEPT !.out = Nothing]]
      /\ GoesOn(u, l) /\ UNCHANGED <<orphans, stored, remaining>>
  BY DEF Reads
<1>3. Shrinks
  BY <1>1, <1>2, UserShrinks
<1> HIDE DEF l
<1>4. CASE Good(x.out.status)
  <2> DEFINE m == IF user[u].req.kind = "post" THEN stat.accepted \union {user[u].req}
                  ELSE stat.accepted
  <2>1. stat \in StatType
    BY DEF IInv, UserInv
  <2>2. stat' = [stat EXCEPT !.requests = @ + 1, !.successes = @ + 1, !.accepted = m]
    BY <1>2, <1>4 DEF Counts
  <2>3. m = IF Posting(user[u]) THEN stat.accepted \union {user[u].req} ELSE stat.accepted
    BY <1>1 DEF Posting, Waits
  <2> HIDE DEF m
  <2>4. stat'.accepted = m /\ stat'.ambiguous = stat.ambiguous
    BY <2>1, <2>2 DEF StatType
  <2> QED
    BY <1>1, <1>2, <1>3, <2>3, <2>4, GoesOnKeepsPlay
<1>5. CASE ~Good(x.out.status)
  <2>1. stat' = CountsError(u)
    BY <1>2, <1>5 DEF Counts
  <2>2. /\ stat'.accepted = stat.accepted
        /\ stat'.ambiguous = stat.ambiguous + (IF Posting(user[u]) THEN 1 ELSE 0)
    BY <1>1, <2>1, ErrorIsAmbiguous
  <2> QED
    BY <1>1, <1>2, <1>3, <2>2, GoesOnKeepsPlay
<1> QED
  BY <1>4, <1>5

LEMMA GivesUpKeepsPlay ==
  ASSUME IInv, PlayInv, NEW u \in Users, ReadFails(u) \/ TimesOut(u)
  PROVE  PlayInv'
<1> DEFINE t == user[u].link
<1>1. ProxyInv /\ t \in Tasks /\ Waits(u)
  BY Waiter DEF ReadFails, TimesOut
<1>2. /\ GoesOn(u, 0) /\ UNCHANGED <<orphans, stored, remaining>>
      /\ \/ task' = [task EXCEPT ![t] = FreeTask]
         \/ task' = [task EXCEPT ![t] = HungUp(t)]
      /\ \/ stat' = CountsError(u)
         \/ stat' = [CountsError(u) EXCEPT !.timeouts = @ + 1]
  BY DEF ReadFails, TimesOut
<1>3. Shrinks
  BY <1>1, <1>2, UserShrinks
<1>4. /\ stat'.accepted = stat.accepted
      /\ stat'.ambiguous = stat.ambiguous + (IF Posting(user[u]) THEN 1 ELSE 0)
  BY <1>1, <1>2, ErrorIsAmbiguous
<1> QED
  BY <1>1, <1>2, <1>3, <1>4, GoesOnKeepsPlay

LEMMA NextKeepsPlay == IInv /\ PlayInv /\ [Next]_vars => PlayInv'
<1> SUFFICES ASSUME IInv, PlayInv, [Next]_vars
             PROVE  PlayInv'
  OBVIOUS
<1>1. ProxyInv /\ SharedOK
  BY DEF IInv, ProxyInv
<1>2. CASE ProxyNext /\ UNCHANGED userVars
  BY <1>1, <1>2, ProxyShrinks, ProxyKeepsPlay DEF userVars
<1>3. CASE \E u \in Users : UserSteps(u) \/ TimesOut(u)
  BY <1>3, ClaimsKeepsPlay, ReadsLastKeepsPlay, ReadsKeepsPlay, GivesUpKeepsPlay DEF UserSteps
<1>4. CASE Deadline \/ UNCHANGED vars
  <2>1. UNCHANGED <<task, orphans, stored, user, remaining, stat>>
    BY <1>4 DEF Deadline, vars, proxyVars, userVars
  <2>2. Shrinks
    BY <1>1, <2>1, OthersShrink
  <2> QED
    BY <2>1, <2>2, ProxyKeepsPlay
<1> QED
  BY <1>2, <1>3, <1>4 DEF Next

(* Of the messages that are stored, the report of a stage leaves out no more *)
(* than those it calls ambiguous and those whose users still wait, whatever  *)
(* was lost, repeated or finished after its user gave up.                    *)
THEOREM StoredMessagesAreAccounted == Spec => []StoredIsAccounted
<1>1. IInv /\ PlayInv => StoredIsAccounted
  <2> SUFFICES ASSUME IInv, PlayInv
               PROVE  StoredIsAccounted
    OBVIOUS
  <2>1. stored \subseteq InPlay
    <3>1. stored \subseteq Requests /\ \A r \in stored : r.kind = "post"
      BY DEF IInv, ProxyInv, SharedOK, PlayInv
    <3> QED
      BY <3>1 DEF InPlay
  <2>2. /\ Cardinality(stored) <= Cardinality(InPlay)
        /\ Cardinality(stored) \in Nat /\ Cardinality(InPlay) \in Nat
    BY <2>1, PlayCount DEF PlayInv
  <2>3. /\ Cardinality(InPlay) <= Cardinality(stat.accepted) + stat.ambiguous + PostsOut
        /\ Cardinality(stat.accepted) \in Nat /\ stat.ambiguous \in Nat
    BY FS_CardinalityType DEF PlayInv, IInv, UserInv, StatType
  <2>4. PostsOut \in Nat
    <3>1. IsFiniteSet({u \in Users : Waits(u) /\ user[u].req.kind = "post"})
      BY UsersAssumption, FS_Subset
    <3> QED
      BY <3>1, FS_CardinalityType DEF PostsOut
  <2> QED
    BY <2>2, <2>3, <2>4 DEF StoredIsAccounted
<1> QED
  BY <1>1, InitIInv, InitPlayInv, NextKeeps, NextKeepsPlay, PTL DEF Spec
-----------------------------------------------------------------------------
(* The stage as its users see it: every step is one of Stage, or none.       *)

LEMMA HandMoves ==
  ASSUME NEW u \in Users, NEW w, user \in [Users -> UserType], user' = [user EXCEPT ![u] = w]
  PROVE  /\ Hand' = [Hand EXCEPT ![u] = IF w.at \in {"wait", "last"} THEN {w.req} ELSE {}]
         /\ AtEnd' = IF w.at \in {"last", "done"} THEN AtEnd \union {u} ELSE AtEnd \ {u}
<1>1. user'[u] = w /\ \A v \in Users : v # u => user'[v] = user[v]
  OBVIOUS
<1>2. Hand' = [Hand EXCEPT ![u] = IF w.at \in {"wait", "last"} THEN {w.req} ELSE {}]
  BY <1>1 DEF Hand, Waits
<1>3. ASSUME NEW v
      PROVE  v \in AtEnd' <=> v \in (IF w.at \in {"last", "done"} THEN AtEnd \union {u}
                                     ELSE AtEnd \ {u})
  BY <1>1 DEF AtEnd
<1> QED
  BY <1>2, <1>3

LEMMA HandOf ==
  ASSUME NEW u \in Users
  PROVE  /\ Hand[u] = IF Waits(u) THEN {user[u].req} ELSE {}
         /\ u \in AtEnd <=> user[u].at \in {"last", "done"}
  BY DEF Hand, AtEnd

(* What may still be stored, when nothing is stored. *)
LEMMA AfloatShrinks ==
  ASSUME Shrinks, stored' = stored
  PROVE  InPlay' \ stored' \subseteq InPlay \ stored
  BY DEF Shrinks

LEMMA ProxyServes ==
  ASSUME IInv, ProxyNext, UNCHANGED userVars
  PROVE  View!Serve
<1>1. /\ ProxyInv /\ ProxyInv' /\ stored \subseteq stored' /\ Shrinks
  BY ProxyNextKeeps, ProxyShrinks DEF IInv, Followed
<1>2. stored' \ stored \subseteq InPlay
  <2>1. stored' \subseteq Requests
    BY <1>1 DEF ProxyInv, SharedOK
  <2>2. ASSUME NEW r \in stored' \ stored
        PROVE  r \in InPlay'
    BY <1>1, <2>1, <2>2 DEF InPlay, Shrinks
  <2> QED
    BY <1>1, <2>2 DEF Shrinks
<1>3. InPlay' \subseteq InPlay
  BY <1>1 DEF Shrinks
<1>4. UNCHANGED <<remaining, Hand, AtEnd, stat>>
  BY DEF userVars, Hand, Waits, AtEnd
<1> QED
  BY <1>1, <1>2, <1>3, <1>4 DEF View!Serve, View!report

LEMMA ClaimsViewed ==
  ASSUME IInv, NEW u \in Users, Claims(u)
  PROVE  \E r \in Requests : View!Claim(u, r)
<1> DEFINE n == user[u].n + 1
           r == Request(IF n % FeedEvery = 0 THEN "feed" ELSE "post", u, remaining')
<1>1. /\ ProxyInv /\ user[u].at = "claim" /\ remaining' = remaining - 1 /\ remaining > 0
      /\ user \in [Users -> UserType] /\ remaining \in 0..Budget
      /\ UNCHANGED <<over, stat, faults>>
  BY DEF IInv, UserInv, Claims, MayClaim
<1>2. r.user = u /\ r.k = remaining' /\ r \in Requests
  <2>1. remaining' \in 0..Budget
    BY <1>1, BudgetAssumption
  <2> QED
    BY <2>1 DEF Request, Requests
<1>3. PICK t \in Tasks :
        /\ SendsOn(u, r, t)
        /\ user' = [user EXCEPT ![u] = [at |-> "wait", n |-> n, req |-> r, link |-> t]]
  BY DEF Claims
<1> DEFINE w == [at |-> "wait", n |-> n, req |-> r, link |-> t]
<1>4. w.at = "wait" /\ w.req = r
  OBVIOUS
<1> HIDE DEF n, r
<1>5. user' = [user EXCEPT ![u] = w]
  BY <1>3
<1> HIDE DEF w
<1>6. /\ stored' = stored
      /\ \A q \in InPlay' : q \in InPlay \/ (q = r /\ q.kind = "post")
  BY <1>1, <1>3, SendsAdds
<1>7. Hand' = [Hand EXCEPT ![u] = {r}] /\ AtEnd' = AtEnd \ {u}
  BY <1>1, <1>4, <1>5, HandMoves
<1>8. Hand[u] = {} /\ u \notin AtEnd
  BY <1>1, HandOf DEF Waits
<1>9. InPlay' \ stored' \subseteq (InPlay \ stored) \union View!Messages(r)
  BY <1>6 DEF View!Messages
<1>10. AtEnd' = AtEnd
  BY <1>7, <1>8
<1> QED
  BY <1>1, <1>2, <1>6, <1>7, <1>8, <1>9, <1>10 DEF View!Claim, View!report

LEMMA ReadsLastViewed ==
  ASSUME IInv, NEW u \in Users, ReadsLast(u)
  PROVE  \E r \in Requests : View!ReadLast(u, r)
<1> DEFINE r == Request("feed", u, Budget)
<1>1. /\ ProxyInv /\ user[u].at = "claim" /\ user \in [Users -> UserType] /\ user[u] \in UserType
      /\ UNCHANGED <<remaining, over, stat, faults>>
  BY DEF IInv, UserInv, ReadsLast
<1>2. r.user = u /\ r.kind = "feed" /\ r \in Requests
  BY BudgetAssumption DEF Request, Requests
<1>3. PICK t \in Tasks :
        /\ SendsOn(u, r, t)
        /\ user' = [user EXCEPT ![u].at = "last", ![u].req = r, ![u].link = t]
  BY DEF ReadsLast
<1> HIDE DEF r
<1> DEFINE w == [user[u] EXCEPT !.at = "last", !.req = r, !.link = t]
<1>4. w.req = r /\ w.at = "last"
  BY <1>1 DEF UserType
<1>5. user' = [user EXCEPT ![u] = w]
  BY <1>1, <1>3
<1> HIDE DEF w
<1>6. stored' = stored /\ InPlay' \ stored' \subseteq InPlay \ stored
  <2>1. /\ stored' = stored
        /\ \A q \in InPlay' : q \in InPlay \/ (q = r /\ q.kind = "post")
    BY <1>1, <1>3, SendsAdds
  <2> QED
    BY <1>2, <2>1
<1>7. Hand' = [Hand EXCEPT ![u] = {r}] /\ AtEnd' = AtEnd \union {u}
  BY <1>1, <1>4, <1>5, HandMoves
<1>8. Hand[u] = {} /\ u \notin AtEnd
  BY <1>1, HandOf DEF Waits
<1> QED
  BY <1>1, <1>2, <1>6, <1>7, <1>8 DEF View!ReadLast, View!report

(* The user that goes on waits for nothing, and is at the end if it was. *)
LEMMA GoesOnViewed ==
  ASSUME IInv, NEW u \in Users, Waits(u), NEW l, GoesOn(u, l)
  PROVE  /\ Hand[u] = {user[u].req} /\ user[u].req \in Requests
         /\ Hand' = [Hand EXCEPT ![u] = {}] /\ AtEnd' = AtEnd
<1>1. user \in [Users -> UserType] /\ user[u] \in UserType /\ user[u].req \in Requests
  BY Waiter DEF IInv, UserInv
<1>2. PICK w : /\ user' = [user EXCEPT ![u] = w]
               /\ w.at = IF user[u].at = "wait" THEN "claim" ELSE "done"
  <2> DEFINE w == [user[u] EXCEPT !.at = IF user[u].at = "wait" THEN "claim" ELSE "done",
                                  !.req = Nothing,
                                  !.link = IF user[u].at = "wait" THEN l ELSE 0]
  <2>1. user' = [user EXCEPT ![u] = w]
    BY DEF GoesOn
  <2>2. w.at = IF user[u].at = "wait" THEN "claim" ELSE "done"
    BY <1>1 DEF UserType
  <2> HIDE DEF w
  <2> QED
    BY <2>1, <2>2
<1>3. /\ Hand' = [Hand EXCEPT ![u] = {}]
      /\ AtEnd' = IF w.at \in {"last", "done"} THEN AtEnd \union {u} ELSE AtEnd \ {u}
  BY <1>1, <1>2, HandMoves
<1>4. Hand[u] = {user[u].req}
  BY HandOf
<1>5. CASE user[u].at = "wait"
  <2>1. u \notin AtEnd
    BY <1>5, HandOf
  <2> QED
    BY <1>1, <1>2, <1>3, <1>4, <1>5, <2>1
<1>6. CASE user[u].at = "last"
  <2>1. u \in AtEnd
    BY <1>6, HandOf
  <2> QED
    BY <1>1, <1>2, <1>3, <1>4, <1>6, <2>1
<1> QED
  BY <1>5, <1>6 DEF Waits

LEMMA FailureViewed ==
  ASSUME IInv, NEW u \in Users, Waits(u), NEW l, GoesOn(u, l), Shrinks,
         UNCHANGED <<stored, remaining>>,
         \/ stat' = CountsError(u)
         \/ stat' = [CountsError(u) EXCEPT !.timeouts = @ + 1]
  PROVE  \E r \in Requests : View!Fail(u, r)
<1> DEFINE r == user[u].req
           m == IF r.kind = "post" THEN stat.ambiguous + 1 ELSE stat.ambiguous
           e == [stat EXCEPT !.requests = @ + 1, !.errors = @ + 1, !.ambiguous = m]
           f == [e EXCEPT !.timeouts = @ + 1]
<1>1. stat \in StatType
  BY DEF IInv, UserInv
<1>2. stat' = e \/ stat' = f
  BY DEF CountsError
<1>3. /\ stat'.successes = stat.successes /\ stat'.errors = stat.errors + 1
      /\ stat'.ambiguous = m /\ stat'.accepted = stat.accepted
  <2> HIDE DEF m
  <2>1. /\ e.successes = stat.successes /\ e.errors = stat.errors + 1 /\ e.ambiguous = m
        /\ e.accepted = stat.accepted
        /\ f.successes = e.successes /\ f.errors = e.errors /\ f.ambiguous = e.ambiguous
        /\ f.accepted = e.accepted
    BY <1>1 DEF StatType
  <2> HIDE DEF e, f
  <2> QED
    BY <1>2, <2>1
<1>4. InPlay' \ stored' \subseteq InPlay \ stored
  BY AfloatShrinks
<1>5. /\ Hand[u] = {r} /\ r \in Requests /\ Hand' = [Hand EXCEPT ![u] = {}] /\ AtEnd' = AtEnd
  BY GoesOnViewed
<1> HIDE DEF r
<1> QED
  BY <1>3, <1>4, <1>5 DEF View!Fail

LEMMA ReadsViewed ==
  ASSUME IInv, NEW u \in Users, Reads(u)
  PROVE  \E r \in Requests : View!Succeed(u, r) \/ View!Fail(u, r)
<1> DEFINE t == user[u].link
           x == task[t]
           r == user[u].req
           closes == At(t, "closed") \/ user[u].at = "last"
           l == IF closes THEN 0 ELSE t
<1>1. /\ ProxyInv /\ t \in Tasks /\ Waits(u) /\ x \in TaskType /\ TaskOK(x, stored)
      /\ Owes(x, r) /\ x.out # Nothing
  BY Waiter DEF Reads
<1>2. /\ stat' = Counts(u, x.out.status)
      /\ task' = [task EXCEPT ![t] = IF closes THEN HungUp(t) ELSE [@ EXCEPT !.out = Nothing]]
      /\ GoesOn(u, l) /\ UNCHANGED <<orphans, stored, remaining>>
  BY DEF Reads
<1>3. Shrinks
  BY <1>1, <1>2, UserShrinks
<1> HIDE DEF l
<1>4. x.out \in Answers /\ x.out.req = r /\ Truthful(x.out, stored)
  BY <1>1 DEF TaskOK, Owes, TaskType
<1>5. /\ Hand[u] = {r} /\ r \in Requests /\ Hand' = [Hand EXCEPT ![u] = {}] /\ AtEnd' = AtEnd
  BY <1>1, <1>2, GoesOnViewed
<1>6. CASE Good(x.out.status)
  <2> DEFINE code == x.out.status
             m == stat.accepted \union View!Messages(r)
  <2>1. code = 200
    <3>1. code \in {200, 500, 502, 503}
      BY <1>4 DEF Answers
    <3>2. code \in 200..299
      BY <1>6 DEF Good
    <3> HIDE DEF code
    <3> QED
      BY <3>1, <3>2
  <2>2. View!Messages(r) \subseteq stored
    BY <1>4, <2>1 DEF Truthful, View!Messages
  <2>3. stat \in StatType
    BY DEF IInv, UserInv
  <2>4. stat' = [stat EXCEPT !.requests = @ + 1, !.successes = @ + 1,
                   !.accepted = IF r.kind = "post" THEN @ \union {r} ELSE @]
    BY <1>2, <1>6 DEF Counts
  <2>5. m = IF r.kind = "post" THEN stat.accepted \union {r} ELSE stat.accepted
    BY DEF View!Messages
  <2> HIDE DEF m
  <2>6. /\ stat'.successes = stat.successes + 1 /\ stat'.errors = stat.errors
        /\ stat'.ambiguous = stat.ambiguous /\ stat'.accepted = m
    BY <2>3, <2>4, <2>5 DEF StatType
  <2>7. InPlay' \ stored' \subseteq InPlay \ stored
    BY <1>2, <1>3, AfloatShrinks
  <2>8. View!Succeed(u, r)
    <3> HIDE DEF r
    <3> QED
      BY <1>2, <1>5, <2>2, <2>6, <2>7 DEF View!Succeed, m
  <2> QED
    BY <1>5, <2>8
<1>7. CASE ~Good(x.out.status)
  <2>1. stat' = CountsError(u)
    BY <1>2, <1>7 DEF Counts
  <2> QED
    BY <1>1, <1>2, <1>3, <2>1, FailureViewed
<1> QED
  BY <1>6, <1>7

LEMMA GivesUpViewed ==
  ASSUME IInv, NEW u \in Users, ReadFails(u) \/ TimesOut(u)
  PROVE  \E r \in Requests : View!Fail(u, r)
<1> DEFINE t == user[u].link
<1>1. ProxyInv /\ t \in Tasks /\ Waits(u)
  BY Waiter DEF ReadFails, TimesOut
<1>2. /\ GoesOn(u, 0) /\ UNCHANGED <<orphans, stored, remaining>>
      /\ \/ task' = [task EXCEPT ![t] = FreeTask]
         \/ task' = [task EXCEPT ![t] = HungUp(t)]
      /\ \/ stat' = CountsError(u)
         \/ stat' = [CountsError(u) EXCEPT !.timeouts = @ + 1]
  BY DEF ReadFails, TimesOut
<1>3. Shrinks
  BY <1>1, <1>2, UserShrinks
<1> QED
  BY <1>1, <1>2, <1>3, FailureViewed

LEMMA StageStep == IInv /\ [Next]_vars => [View!Next]_(View!vars)
<1> SUFFICES ASSUME IInv, [Next]_vars
             PROVE  View!Next \/ UNCHANGED View!vars
  OBVIOUS
<1>1. CASE ProxyNext /\ UNCHANGED userVars
  BY <1>1, ProxyServes DEF View!Next
<1>2. CASE \E u \in Users : UserSteps(u) \/ TimesOut(u)
  BY <1>2, ClaimsViewed, ReadsLastViewed, ReadsViewed, GivesUpViewed DEF UserSteps, View!Next
<1>3. CASE Deadline \/ UNCHANGED vars
  <2>1. UNCHANGED <<task, orphans, stored, user, remaining, stat>>
    BY <1>3 DEF Deadline, vars, proxyVars, userVars
  <2> QED
    BY <2>1 DEF View!vars, View!report, Hand, Waits, AtEnd, InPlay
<1> QED
  BY <1>1, <1>2, <1>3 DEF Next

(* What the users see of a stage is one of Stage: whatever the gates, the    *)
(* pools, the retries and the backends do, a message is stored only while it *)
(* is on its way, and reported once, as accepted only if it is stored.       *)
THEOREM StageImplemented == Spec => StageSpec
<1>1. Init => View!Init
  <2> SUFFICES ASSUME Init
               PROVE  View!Init
    OBVIOUS
  <2>1. /\ stored = {} /\ orphans = {} /\ remaining = Budget
        /\ stat = [requests |-> 0, successes |-> 0, errors |-> 0, timeouts |-> 0,
                   ambiguous |-> 0, accepted |-> {}]
        /\ \A t \in Tasks : task[t].at \notin InHand
        /\ \A u \in Users : user[u].at = "claim"
    BY DEF Init, ProxyInit, FreeTask, InHand
  <2>2. InPlay = {} /\ AtEnd = {} /\ Hand = [u \in Users |-> {}]
    BY <2>1 DEF InPlay, AtEnd, Hand, Waits
  <2> QED
    BY <2>1, <2>2 DEF View!Init
<1> QED
  BY <1>1, StageStep, Invariant, PTL DEF Spec, StageSpec, View!Spec
=============================================================================
