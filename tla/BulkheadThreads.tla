--------------------------- MODULE BulkheadThreads ---------------------------
(***************************************************************************)
(* The gate of Bulkhead when it is resized by other threads than the event *)
(* loop's.  refresh_active calls resize from health_loop, from             *)
(* discovery_loop (through event) and from the event loop itself, and      *)
(* class Bulkhead has no lock: resize and release run _wake at the same    *)
(* time.  A thread can lose the interpreter lock at a call and at the end  *)
(* of a loop's body, and a step below runs from one such point to the      *)
(* next; a CPython that switches more often has more behaviours, not       *)
(* fewer.  queued_now only counts the queue and is left out.               *)
(***************************************************************************)
EXTENDS Naturals, Sequences, FiniteSets

CONSTANTS Requests,   \* the handle_client tasks
          Threads,    \* the threads that call refresh_active
          Loop,       \* the event loop
          Targets,    \* the capacities resize may be asked for
          InitCap,
          None

ASSUME RequestsAssumption == IsFiniteSet(Requests) /\ None \notin Requests
ASSUME LoopAssumption    == Loop \notin Threads
ASSUME TargetsAssumption == Targets \subseteq Nat \ {0} /\ InitCap \in Targets

Procs == Threads \cup {Loop}

VARIABLES cap,        \* _cap
          held,       \* _held
          waiters,    \* _waiters
          pc,         \* where each request's task is
          at,         \* where each thread is in resize, _wake and acquire
          got         \* the future a thread has popped or is about to queue

vars == <<cap, held, waiters, pc, at, got>>

Init == /\ cap = InitCap
        /\ held = 0
        /\ waiters = << >>
        /\ pc = [r \in Requests |-> "idle"]
        /\ at = [p \in Procs |-> "rest"]
        /\ got = [p \in Procs |-> None]

-----------------------------------------------------------------------------
(* The event loop starts a handler only when it has finished the last one.  *)

AcquireAtOnce(r) ==
  /\ at[Loop] = "rest" /\ pc[r] = "idle"
  /\ held < cap /\ waiters = << >>
  /\ held' = held + 1
  /\ pc' = [pc EXCEPT ![r] = "inside"]
  /\ UNCHANGED <<cap, waiters, at, got>>

(* The gate was found full; the future is created, and not queued yet. *)
AcquireDecidesToWait(r) ==
  /\ at[Loop] = "rest" /\ pc[r] = "idle"
  /\ ~(held < cap /\ waiters = << >>)
  /\ pc' = [pc EXCEPT ![r] = "waiting"]
  /\ at' = [at EXCEPT ![Loop] = "queueing"]
  /\ got' = [got EXCEPT ![Loop] = r]
  /\ UNCHANGED <<cap, held, waiters>>

AcquireQueues ==
  /\ at[Loop] = "queueing"
  /\ waiters' = Append(waiters, got[Loop])
  /\ at' = [at EXCEPT ![Loop] = "rest"]
  /\ got' = [got EXCEPT ![Loop] = None]
  /\ UNCHANGED <<cap, held, pc>>

(* The wrong form in which a task counts the slot _wake took for it again. *)
ResumeCountsAgain(r) ==
  /\ at[Loop] = "rest" /\ pc[r] = "granted"
  /\ pc' = [pc EXCEPT ![r] = "inside"]
  /\ held' = held + 1
  /\ UNCHANGED <<cap, waiters, at, got>>

(* A task is resumed with the slot _wake took for it. *)
Resume(r) ==
  /\ at[Loop] = "rest" /\ pc[r] = "granted"
  /\ pc' = [pc EXCEPT ![r] = "inside"]
  /\ UNCHANGED <<cap, held, waiters, at, got>>

(* The wrong form that wakes nobody. *)
ReleaseSilently(r) ==
  /\ at[Loop] = "rest" /\ pc[r] = "inside"
  /\ held' = IF held = 0 THEN 0 ELSE held - 1
  /\ pc' = [pc EXCEPT ![r] = "idle"]
  /\ UNCHANGED <<cap, waiters, at, got>>

(* release up to its call of _wake. *)
Release(r) ==
  /\ at[Loop] = "rest" /\ pc[r] = "inside"
  /\ held' = IF held = 0 THEN 0 ELSE held - 1
  /\ pc' = [pc EXCEPT ![r] = "idle"]
  /\ at' = [at EXCEPT ![Loop] = "wake"]
  /\ UNCHANGED <<cap, waiters, got>>

(* resize up to its call of _wake, in any thread. *)
Resize(p, c) ==
  /\ at[p] = "rest" /\ c # cap
  /\ cap' = c
  /\ at' = [at EXCEPT ![p] = "wake"]
  /\ UNCHANGED <<held, waiters, pc, got>>

(* The loop of _wake: its test and popleft, or its end. *)
WakePops(p) ==
  /\ at[p] = "wake"
  /\ IF waiters # << >> /\ held < cap
     THEN /\ got' = [got EXCEPT ![p] = Head(waiters)]
          /\ waiters' = Tail(waiters)
          /\ at' = [at EXCEPT ![p] = "popped"]
     ELSE /\ at' = [at EXCEPT ![p] = "rest"]
          /\ UNCHANGED <<waiters, got>>
  /\ UNCHANGED <<cap, held, pc>>

(* The rest of its body, after the call of fut.done(). *)
WakeGrants(p) ==
  /\ at[p] = "popped"
  /\ held' = held + 1
  /\ pc' = [pc EXCEPT ![got[p]] = "granted"]
  /\ got' = [got EXCEPT ![p] = None]
  /\ at' = [at EXCEPT ![p] = "wake"]
  /\ UNCHANGED <<cap, waiters>>

Next == \/ \E r \in Requests : \/ AcquireAtOnce(r) \/ AcquireDecidesToWait(r)
                               \/ Resume(r) \/ Release(r)
        \/ AcquireQueues
        \/ \E p \in Procs : \/ \E c \in Targets : Resize(p, c)
                            \/ WakePops(p) \/ WakeGrants(p)

Spec == Init /\ [][Next]_vars

(* Threads are scheduled, the event loop runs what is ready, and a request   *)
(* that holds a slot ends, as in Bulkhead.  The loop is never kept from a    *)
(* ready task for ever by the resizes it makes itself.                       *)
Fairness == /\ \A r \in Requests : SF_vars(Resume(r)) /\ SF_vars(Release(r))
            /\ WF_vars(AcquireQueues)
            /\ \A p \in Procs : WF_vars(WakePops(p)) /\ WF_vars(WakeGrants(p))

FairSpec == Spec /\ Fairness
-----------------------------------------------------------------------------
Owners  == {r \in Requests : pc[r] \in {"granted", "inside"}}
Waiting == {r \in Requests : pc[r] = "waiting"}
Places(r) == {i \in 1..Len(waiters) : waiters[i] = r}

TypeOK == /\ cap \in Targets
          /\ held \in 0..Cardinality(Requests)
          /\ waiters \in Seq(Requests)
          /\ pc \in [Requests -> {"idle", "waiting", "granted", "inside"}]
          /\ at \in [Procs -> {"rest", "queueing", "wake", "popped"}]
          /\ got \in [Procs -> Requests \cup {None}]

(* Two _wake loops running at once neither lose a request nor pop or grant   *)
(* it twice: each waiting one is in exactly one place, the queue or the      *)
(* hands of one thread, and the count of slots stays the number of owners.   *)
NobodyLost ==
  /\ held = Cardinality(Owners)
  /\ \A r \in Requests :
       Cardinality(Places(r)) + Cardinality({p \in Procs : got[p] = r})
         = IF r \in Waiting THEN 1 ELSE 0

(* With the wake-ups racing, a request still gets its turn: a growth that    *)
(* misses a request on its way into the queue is made up for by a release.   *)
NoStarvation == \A r \in Requests : pc[r] = "waiting" ~> pc[r] = "inside"

(* "Bounded concurrency": no admission leaves more than cap in flight.  It   *)
(* does not hold: two _wake may both see the last free slot (README).        *)
BoundedAdmission == [][held' > held => held' <= cap']_vars
=============================================================================
