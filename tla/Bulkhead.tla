------------------------------ MODULE Bulkhead ------------------------------
(***************************************************************************)
(* The admission gate of the load balancer: class Bulkhead of              *)
(* lb/loadbalancer.py, as the event loop runs it.  Every handler below     *)
(* runs to its next await without interruption, so each is one action.     *)
(* A request is a handle_client task.  Its future is not a variable of its *)
(* own: a task whose future has its result but which the event loop has    *)
(* not resumed yet is "granted".  Resizing comes from refresh_active; the  *)
(* same calls made concurrently by other threads are in BulkheadThreads.   *)
(*                                                                         *)
(* Tasks are cancelled in one place only: asyncio.run cancels all of them  *)
(* when the process is interrupted.  A cancelled future is done, and _wake *)
(* drops a done future without giving it a slot.                           *)
(*                                                                         *)
(* Left out: the statistics admitted, waited, wait_ms_total, queued_peak,  *)
(* which nothing reads but the admin page.                                 *)
(***************************************************************************)
EXTENDS Integers, Sequences, FiniteSets

CONSTANTS Requests,   \* the handle_client tasks
          Targets,    \* the capacities resize may be asked for
          InitCap     \* the capacity given to the constructor

ASSUME RequestsAssumption == IsFiniteSet(Requests)
ASSUME TargetsAssumption  == Targets \subseteq Nat
ASSUME InitCapAssumption  == InitCap \in Nat

VARIABLES cap,        \* _cap
          held,       \* _held
          waiters,    \* _waiters, each future named by the task that awaits it
          queued,     \* queued_now
          pc,         \* where each task is
          stopping    \* asyncio.run has cancelled every task

vars == <<cap, held, waiters, queued, pc, stopping>>

States == {"idle", "waiting", "granted", "inside", "gone"}

(* The wrong form of max(1, c): a target of 0 closes the gate. *)
AtLeastNone(c) == c

(* max(1, c). *)
AtLeastOne(c) == IF c < 1 THEN 1 ELSE c

Init == /\ cap = AtLeastOne(InitCap)
        /\ held = 0
        /\ waiters = << >>
        /\ queued = 0
        /\ pc = [r \in Requests |-> "idle"]
        /\ stopping = FALSE

(* Wrong forms of the loop of _wake: it hands on one slot at most, or it goes *)
(* on while no slot is free.                                                 *)
PoppedOnce(w, h, c) == IF h >= c \/ w = << >> THEN 0
                       ELSE IF stopping THEN Len(w) ELSE 1

PoppedOneMore(w, h, c) == IF h > c THEN 0
                          ELSE IF stopping \/ Len(w) <= c - h + 1 THEN Len(w)
                          ELSE c - h + 1

(* How many futures the loop of _wake pops when h slots of c are taken.  In  *)
(* service each of them takes a slot, until none is free; once the process   *)
(* is stopping they are all done, so none does and the queue is emptied.     *)
Popped(w, h, c) == IF h >= c THEN 0
                   ELSE IF stopping \/ Len(w) <= c - h THEN Len(w)
                   ELSE c - h

(* _wake, run on the queue w with h slots taken, the counter q and tasks p. *)
Wake(w, h, c, q, p) ==
  LET n      == Popped(w, h, c)
      popped == {w[i] : i \in 1..n}
  IN  /\ waiters' = SubSeq(w, n + 1, Len(w))
      /\ queued' = q - n
      /\ held' = IF stopping THEN h ELSE h + n
      /\ pc' = [r \in Requests |-> IF r \in popped /\ ~stopping
                                   THEN "granted" ELSE p[r]]

-----------------------------------------------------------------------------
(* acquire: a free slot and nobody in front of this request. *)
AcquireAtOnce(r) ==
  /\ ~stopping /\ pc[r] = "idle"
  /\ held < cap /\ waiters = << >>
  /\ held' = held + 1
  /\ pc' = [pc EXCEPT ![r] = "inside"]
  /\ UNCHANGED <<cap, waiters, queued, stopping>>

(* Wrong forms of the next action: the request is not counted as queued, or  *)
(* it waits in front of the others.                                          *)
AcquireWaitsUncounted(r) ==
  /\ ~stopping /\ pc[r] = "idle"
  /\ ~(held < cap /\ waiters = << >>)
  /\ waiters' = Append(waiters, r)
  /\ pc' = [pc EXCEPT ![r] = "waiting"]
  /\ UNCHANGED <<cap, held, queued, stopping>>

AcquireWaitsInFront(r) ==
  /\ ~stopping /\ pc[r] = "idle"
  /\ ~(held < cap /\ waiters = << >>)
  /\ waiters' = <<r>> \o waiters
  /\ queued' = queued + 1
  /\ pc' = [pc EXCEPT ![r] = "waiting"]
  /\ UNCHANGED <<cap, held, stopping>>

(* acquire: otherwise the request waits on a future at the end of the queue. *)
AcquireWaits(r) ==
  /\ ~stopping /\ pc[r] = "idle"
  /\ ~(held < cap /\ waiters = << >>)
  /\ waiters' = Append(waiters, r)
  /\ queued' = queued + 1
  /\ pc' = [pc EXCEPT ![r] = "waiting"]
  /\ UNCHANGED <<cap, held, stopping>>

(* The event loop resumes a task whose future has its result. *)
Resume(r) ==
  /\ ~stopping /\ pc[r] = "granted"
  /\ pc' = [pc EXCEPT ![r] = "inside"]
  /\ UNCHANGED <<cap, held, waiters, queued, stopping>>

(* release, in the finally of handle_client, whether the request was         *)
(* answered, failed or was cancelled.                                        *)
Release(r) ==
  /\ pc[r] = "inside"
  /\ LET h == IF held - 1 < 0 THEN 0 ELSE held - 1
         p == [pc EXCEPT ![r] = IF stopping THEN "gone" ELSE "idle"]
     IN  Wake(waiters, h, cap, queued, p)
  /\ UNCHANGED <<cap, stopping>>

Resize(c) ==
  /\ AtLeastOne(c) # cap
  /\ cap' = AtLeastOne(c)
  /\ Wake(waiters, held, AtLeastOne(c), queued, pc)
  /\ UNCHANGED stopping

(* asyncio.run leaves its main coroutine and cancels every task. *)
CancelAll ==
  /\ ~stopping
  /\ stopping' = TRUE
  /\ UNCHANGED <<cap, held, waiters, queued, pc>>

(* acquire's handler of CancelledError: the future is still in the queue. *)
CancelQueued(r) ==
  /\ stopping /\ pc[r] \in {"waiting", "granted"}
  /\ \E i \in 1..Len(waiters) :
       /\ waiters[i] = r
       /\ waiters' = SubSeq(waiters, 1, i - 1) \o SubSeq(waiters, i + 1, Len(waiters))
  /\ queued' = queued - 1
  /\ pc' = [pc EXCEPT ![r] = "gone"]
  /\ UNCHANGED <<cap, held, stopping>>

(* The same handler when the future is not in the queue any more: it gives   *)
(* a slot back and wakes the others.                                         *)
CancelPopped(r) ==
  /\ stopping /\ pc[r] \in {"waiting", "granted"}
  /\ \A i \in 1..Len(waiters) : waiters[i] # r
  /\ Wake(waiters, held - 1, cap, queued, [pc EXCEPT ![r] = "gone"])
  /\ UNCHANGED <<cap, stopping>>

(* A task cancelled while it waits for its client's next request. *)
CancelIdle(r) ==
  /\ stopping /\ pc[r] = "idle"
  /\ pc' = [pc EXCEPT ![r] = "gone"]
  /\ UNCHANGED <<cap, held, waiters, queued, stopping>>

Next == \/ \E r \in Requests : \/ AcquireAtOnce(r) \/ AcquireWaits(r)
                               \/ Resume(r) \/ Release(r)
                               \/ CancelQueued(r) \/ CancelPopped(r) \/ CancelIdle(r)
        \/ \E c \in Targets : Resize(c)
        \/ CancelAll

Spec == Init /\ [][Next]_vars

(* The event loop runs every task that is ready, and a task that holds a     *)
(* slot ends: its awaits of the backend have timeouts (connect_timeout_s,    *)
(* upstream_timeout_s), but for the drain of the request it forwards, which  *)
(* a backend that stops reading could hold up and is assumed not to.         *)
Fairness == \A r \in Requests : WF_vars(Resume(r)) /\ WF_vars(Release(r))

FairSpec == Spec /\ Fairness
-----------------------------------------------------------------------------
Owners == {r \in Requests : pc[r] \in {"granted", "inside"}}

TypeOK == /\ cap \in Nat \ {0}
          /\ held \in Int
          /\ waiters \in Seq(Requests)
          /\ queued \in Int
          /\ pc \in [Requests -> States]
          /\ stopping \in BOOLEAN

(* busy() decides whether the balancer is quiet and the feed must come from  *)
(* a backend: in service it counts exactly the requests that hold a slot and *)
(* those that wait for one, whatever releases, resizes and wake-ups did.     *)
BusyIsExact ==
  ~stopping => /\ held = Cardinality(Owners)
               /\ queued = Cardinality({r \in Requests : pc[r] = "waiting"})

(* No request waits while a slot is free: every release and every growth of  *)
(* the capacity hands on all it can, and no arrival is parked needlessly.    *)
WorkConserving == ~stopping /\ waiters # << >> => held >= cap

(* A step that lets a request in leaves at most cap in: a capacity reduced   *)
(* below what is in flight (a backend went down) only drains.                *)
BoundedAdmission == [][~stopping' /\ held' > held => held' <= cap']_vars

(* No request waits for ever: the queue is first in, first out, so later     *)
(* arrivals cannot starve it.                                                *)
NoStarvation ==
  \A r \in Requests : pc[r] = "waiting" ~> (pc[r] = "inside" \/ stopping)

Gate == INSTANCE Admission WITH line    <- waiters,
                                members <- Owners,
                                limit   <- cap,
                                open    <- ~stopping

(* The gate keeps the promise of Admission: bounded, first in first out,     *)
(* and a request that enters without waiting overtakes nobody.               *)
GateSpec == Gate!Spec
=============================================================================
