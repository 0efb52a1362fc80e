----------------------------- MODULE Membership -----------------------------
(***************************************************************************)
(* Who receives traffic: the pool of lb/loadbalancer.py, kept by three     *)
(* threads (the event loop, health_loop and discovery_loop), and the       *)
(* processes of app/server.js that register with it, send heartbeats and   *)
(* deregister.                                                             *)
(*                                                                         *)
(* LB.lock protects the list and the changes registration and draining     *)
(* make, but neither health_loop nor eject_now takes it.  As in            *)
(* BulkheadThreads a step runs from one point where a thread can lose the  *)
(* interpreter lock to the next: a call, or the end of a loop's body.  The *)
(* loops of eject_now and health_loop over the other backends are one step *)
(* each: they ask whether some other is routable.                          *)
(*                                                                         *)
(* An object <<b, k>> is the k-th Backend made for the id b: a thread may  *)
(* still hold one that was removed from the list and replaced.  How long   *)
(* ago last_seen was is left open; passive_fails is only compared with its *)
(* threshold and stops counting there, as consec_ok does.  MaxFaults       *)
(* bounds what Faulty names, and how often a scan finds something.         *)
(*                                                                         *)
(* Left out: failures after the response head was forwarded, which         *)
(* eject_now ignores; addresses and weights; the choice among the routable *)
(* backends; reload (Config), which makes members anew and changes source, *)
(* so that its race with the test of source in Prune is not seen here.     *)
(***************************************************************************)
EXTENDS Integers, FiniteSets

CONSTANTS Backends,          \* ids
          Config,            \* those of the configuration file; others are dynamic
          Candidates,        \* those in discovery.candidates
          FailThreshold, RiseThreshold, PassiveThreshold,
          MaxLives,          \* objects made for an id
          MaxFaults,
          Faulty,            \* what may happen, see Fault
          None

ASSUME IdsAssumption ==
         /\ IsFiniteSet(Backends) /\ Backends # {} /\ Config \union Candidates \subseteq Backends
         /\ None \notin Backends \union {"loop", "health", "scan"}
ASSUME ThresholdsAssumption ==
         /\ FailThreshold \in Nat \ {0} /\ RiseThreshold \in Nat \ {0}
         /\ PassiveThreshold \in Nat \ {0}
ASSUME BoundsAssumption == /\ MaxFaults \in Nat /\ MaxLives \in Nat
                           /\ MaxFaults + 1 < MaxLives

VARIABLES proc,     \* each backend's process
          calls,    \* <<what, id>>: its calls to the balancer
          ref,      \* which object of each id is in self.backends, 0 if none
          born,     \* how many were made
          state, fails, oks, passive,   \* state, consec_fail, consec_ok, passive_fails
          old,      \* objects that are DOWN for longer than prune_after_s
          active,   \* active_count
          gate,     \* backends REQ_GATE has slots for
          lock,     \* the thread that holds LB.lock
          at, back, \* where each thread is, and where it returns to from event
          on,       \* what it works on: an object, or an id
          count,    \* its sum in refresh_active
          todo,     \* objects health_loop has not probed in this pass
          seen,     \* the result of its probe
          faults

procVars   == <<proc, calls>>
objVars    == <<state, fails, oks, passive, old>>
listVars   == <<ref, born>>
countVars  == <<active, gate, count>>
threadVars == <<at, back, on>>
passVars   == <<todo, seen>>
vars == <<procVars, objVars, listVars, countVars, threadVars, passVars, lock, faults>>

Threads  == {"loop", "health", "scan"}
Objects  == Backends \X (1..MaxLives)
Made     == {o \in Objects : o[2] <= born[o[1]]}
Listed   == {b \in Backends : ref[b] # 0}
Obj(b)   == <<b, ref[b]>>
Up       == {"UP", "DEGRADED"}
Routable == {b \in Listed : state[Obj(b)] \in Up}

AtMost(n, m)  == IF n > m THEN m ELSE n

(* The wrong form of max(1, n): an empty pool closes the gate. *)
AtLeastNone(n) == n

(* max(1, n). *)
AtLeastOne(n) == IF n < 1 THEN 1 ELSE n

Init == /\ proc \in [Backends -> {"off", "up"}]
        /\ calls = {}
        /\ born = [b \in Backends |-> IF b \in Config THEN 1 ELSE 0]
        /\ ref = born
        /\ state = [o \in Objects |-> "UP"]
        /\ fails = [o \in Objects |-> 0]
        /\ oks = [o \in Objects |-> 0]
        /\ passive = [o \in Objects |-> 0]
        /\ old = {}
        /\ active = Cardinality(Config)
        /\ gate = AtLeastOne(active)
        /\ lock = None
        /\ at = [t \in Threads |-> "rest"]
        /\ back = [t \in Threads |-> "rest"]
        /\ on = [t \in Threads |-> None]
        /\ count = [t \in Threads |-> 0]
        /\ todo = {} /\ seen = None
        /\ faults = 0

Fault(what) == what \in Faulty /\ faults < MaxFaults /\ faults' = faults + 1

Goes(t, to) == at' = [at EXCEPT ![t] = to]

(* event, called by thread t, which goes on at the place b afterwards. *)
Event(t, b) == Goes(t, "count") /\ back' = [back EXCEPT ![t] = b]
-----------------------------------------------------------------------------
(* refresh_active: the routable backends are counted, the count is stored,   *)
(* and the gate is resized to it.                                            *)
Counts(t) ==
  /\ at[t] = "count"
  /\ count' = [count EXCEPT ![t] = Cardinality(Routable)]
  /\ Goes(t, "store")
  /\ UNCHANGED <<procVars, objVars, listVars, active, gate, back, on, passVars, lock, faults>>

Stores(t) ==
  /\ at[t] = "store"
  /\ active' = count[t]
  /\ Goes(t, "resize")
  /\ UNCHANGED <<procVars, objVars, listVars, gate, count, back, on, passVars, lock, faults>>

(* A thread that called event inside LB.lock leaves it now. *)
Resizes(t) ==
  /\ at[t] = "resize"
  /\ gate' = AtLeastOne(count[t])
  /\ count' = [count EXCEPT ![t] = 0]
  /\ Goes(t, back[t]) /\ back' = [back EXCEPT ![t] = "rest"]
  /\ lock' = IF lock = t THEN None ELSE lock
  /\ UNCHANGED <<procVars, objVars, listVars, active, on, passVars, faults>>

(* add_backend: a new member is UP at once; a known one only comes back      *)
(* from a drain.                                                             *)
AddBackend(t, b) ==
  /\ lock = None
  /\ \/ /\ ref[b] = 0 /\ born[b] < MaxLives
        /\ born' = [born EXCEPT ![b] = @ + 1]
        /\ ref' = [ref EXCEPT ![b] = born'[b]]
        /\ Event(t, "rest")
        /\ UNCHANGED <<state, fails, old, lock>>
     \/ /\ b \in Listed /\ state[Obj(b)] = "DRAINING"
        /\ state' = [state EXCEPT ![Obj(b)] = "UP"]
        /\ fails' = [fails EXCEPT ![Obj(b)] = 0]
        /\ old' = old \ {Obj(b)}
        /\ lock' = t
        /\ Event(t, "rest")
        /\ UNCHANGED listVars
     \/ /\ b \in Listed /\ state[Obj(b)] # "DRAINING"
        /\ Goes(t, "rest")
        /\ UNCHANGED <<state, fails, old, listVars, lock, back>>

(* remove_backend: whatever object has the id leaves the list. *)
RemoveBackend(t, b, next) ==
  /\ lock = None
  /\ ref' = [ref EXCEPT ![b] = 0]
  /\ IF b \in Listed THEN Event(t, next) ELSE Goes(t, next) /\ UNCHANGED back
-----------------------------------------------------------------------------
(* The event loop: each handler runs to its end before the next one starts. *)

RegisterArrives(b) ==
  /\ at["loop"] = "rest" /\ <<"register", b>> \in calls
  /\ calls' = calls \ {<<"register", b>>}
  /\ AddBackend("loop", b)
  /\ UNCHANGED <<proc, oks, passive, countVars, on, passVars, faults>>

(* drain_backend, and the answer to the backend that asked for it. *)
DeregisterArrives(b) ==
  /\ at["loop"] = "rest" /\ <<"deregister", b>> \in calls /\ lock = None
  /\ calls' = calls \ {<<"deregister", b>>}
  /\ proc' = IF proc[b] = "leaving" THEN [proc EXCEPT ![b] = "closing"] ELSE proc
  /\ IF b \in Listed /\ state[Obj(b)] # "DRAINING"
     THEN /\ state' = [state EXCEPT ![Obj(b)] = "DRAINING"]
          /\ lock' = "loop"
          /\ Event("loop", "rest")
     ELSE UNCHANGED <<state, lock, at, back>>
  /\ UNCHANGED <<fails, oks, passive, old, listVars, countVars, on, passVars, faults>>

(* DELETE /lb/backends/<id>. *)
Delete(b) ==
  /\ at["loop"] = "rest" /\ b \in Listed /\ Fault("delete")
  /\ RemoveBackend("loop", b, "rest")
  /\ UNCHANGED <<procVars, objVars, born, countVars, on, passVars, lock>>

(* /lb/stats counts the routable backends again. *)
StatsRead ==
  /\ at["loop"] = "rest" /\ Fault("stats")
  /\ Event("loop", "rest")
  /\ UNCHANGED <<procVars, objVars, listVars, countVars, on, passVars, lock>>

(* eject_now up to its decision.  A request fails on a backend that does not *)
(* serve, or on one whose accept queue a burst of connections overflowed.    *)
ProxyFails(o) ==
  /\ at["loop"] = "rest" /\ o \in Made
  /\ \/ proc[o[1]] = "off" /\ UNCHANGED faults
     \/ proc[o[1]] # "off" /\ Fault("proxy")
  /\ state[o] \in Up /\ \E b \in Routable : Obj(b) # o
  /\ passive' = [passive EXCEPT ![o] = AtMost(@ + 1, PassiveThreshold)]
  /\ \E need \in {1, PassiveThreshold} :
       IF passive[o] + 1 < need
       THEN UNCHANGED <<at, on>>
       ELSE Goes("loop", "eject") /\ on' = [on EXCEPT !["loop"] = o]
  /\ UNCHANGED <<procVars, state, fails, oks, old, listVars, countVars, back, passVars, lock>>

(* The rest of it: the state, and after a call of time() the counters. *)
EjectMarks ==
  /\ at["loop"] = "eject"
  /\ state' = [state EXCEPT ![on["loop"]] = "DOWN"]
  /\ Goes("loop", "reset")
  /\ UNCHANGED <<procVars, fails, oks, passive, old, listVars, countVars, back, on, passVars,
                 lock, faults>>

EjectResets ==
  /\ at["loop"] = "reset"
  /\ fails' = [fails EXCEPT ![on["loop"]] = FailThreshold]
  /\ oks' = [oks EXCEPT ![on["loop"]] = 0]
  /\ on' = [on EXCEPT !["loop"] = None]
  /\ Event("loop", "rest")
  /\ UNCHANGED <<procVars, state, passive, old, listVars, countVars, passVars, lock, faults>>

(* A request is answered. *)
ProxySucceeds(o) ==
  /\ at["loop"] = "rest" /\ o \in Made /\ proc[o[1]] # "off" /\ passive[o] # 0
  /\ passive' = [passive EXCEPT ![o] = 0]
  /\ UNCHANGED <<procVars, state, fails, oks, old, listVars, countVars, threadVars, passVars,
                 lock, faults>>
-----------------------------------------------------------------------------
(* health_loop. *)

PassStarts ==
  /\ at["health"] = "rest"
  /\ todo' = {Obj(b) : b \in Listed}
  /\ Goes("health", "next")
  /\ UNCHANGED <<procVars, objVars, listVars, countVars, back, on, seen, lock, faults>>

(* The probe of one backend.  A process that is loading or draining answers  *)
(* 503, which counts as refused; one that serves may be slow or too busy.    *)
Probe(o) ==
  /\ at["health"] = "next" /\ o \in todo
  /\ todo' = todo \ {o}
  /\ on' = [on EXCEPT !["health"] = o]
  /\ Goes("health", "handle")
  /\ \/ proc[o[1]] = "up" /\ seen' \in {"ok", "slow"} /\ UNCHANGED faults
     \/ proc[o[1]] = "up" /\ seen' = "timeout" /\ Fault("timeout")
     \/ proc[o[1]] # "up" /\ seen' = "refused" /\ UNCHANGED faults
  /\ UNCHANGED <<procVars, objVars, listVars, countVars, back, lock>>

(* The probe was answered, or timed out: the new state of o is s. *)
Moves(o, s) ==
  /\ state' = [state EXCEPT ![o] = s]
  /\ IF s # state[o] THEN Event("health", "prune")
     ELSE Goes("health", "prune") /\ UNCHANGED back

(* The threshold of answered probes, and a wrong form that is never reached. *)
ServesYet(n) == n > RiseThreshold
Serves(n)    == n >= RiseThreshold

HandleOk ==
  /\ at["health"] = "handle" /\ seen \in {"ok", "slow"}
  /\ LET o == on["health"]
         n == AtMost(oks[o] + 1, RiseThreshold)
         served == IF seen = "slow" THEN "DEGRADED" ELSE "UP"
         returns == state[o] = "DOWN" /\ Serves(n)
     IN  /\ fails' = [fails EXCEPT ![o] = 0]
         /\ oks' = [oks EXCEPT ![o] = n]
         /\ Moves(o, IF state[o] \in Up \/ returns THEN served ELSE state[o])
         /\ old' = IF returns THEN old \ {o} ELSE old
  /\ seen' = None
  /\ UNCHANGED <<procVars, passive, listVars, countVars, on, todo, lock, faults>>

(* Busy, not dead. *)
HandleTimeout ==
  /\ at["health"] = "handle" /\ seen = "timeout"
  /\ LET o == on["health"]
     IN  /\ oks' = [oks EXCEPT ![o] = 0]
         /\ Moves(o, IF state[o] = "UP" THEN "DEGRADED" ELSE state[o])
  /\ seen' = None
  /\ UNCHANGED <<procVars, fails, passive, old, listVars, countVars, on, todo, lock, faults>>

(* The threshold of refused probes, and a wrong form that is never reached. *)
TooManyYet(n) == n > FailThreshold
TooMany(n)    == n >= FailThreshold

(* A refused probe, up to the decision: at the threshold the backend is      *)
(* ejected if it is routable and not the last one, or if it was draining.    *)
HandleRefused ==
  /\ at["health"] = "handle" /\ seen = "refused"
  /\ LET o == on["health"]
         n == AtMost(fails[o] + 1, FailThreshold)
         ejects == TooMany(n)
     IN  /\ fails' = [fails EXCEPT ![o] = n]
         /\ oks' = [oks EXCEPT ![o] = 0]
         /\ \/ /\ ejects /\ state[o] \in Up /\ \E b \in Routable : Obj(b) # o
               /\ Goes("health", "eject")
               /\ UNCHANGED <<state, old, back>>
            \/ /\ ejects /\ state[o] = "DRAINING"
               /\ Moves(o, "DOWN")
               /\ old' = old \ {o}
            \/ /\ ~ejects \/ state[o] = "DOWN"
                  \/ (state[o] \in Up /\ \A b \in Routable : Obj(b) = o)
               /\ Goes("health", "prune")
               /\ UNCHANGED <<state, old, back>>
  /\ seen' = None
  /\ UNCHANGED <<procVars, passive, listVars, countVars, on, todo, lock, faults>>

HealthEjects ==
  /\ at["health"] = "eject"
  /\ state' = [state EXCEPT ![on["health"]] = "DOWN"]
  /\ Event("health", "prune")
  /\ UNCHANGED <<procVars, fails, oks, passive, old, listVars, countVars, on, passVars, lock,
                 faults>>

(* The wrong form that prunes whatever is DOWN for long. *)
GoneForLong(o) == state[o] = "DOWN" /\ o \in old

(* A dynamic member that is DOWN for long is removed.  One of the            *)
(* configuration that was deleted and came back is dynamic from then on.     *)
Prunable(o) == state[o] = "DOWN" /\ o \in old /\ ~(o[1] \in Config /\ o[2] = 1)

(* It is removed by its id, whatever object has it by now. *)
Prune ==
  /\ at["health"] = "prune"
  /\ LET o == on["health"]
     IN  IF Prunable(o)
         THEN RemoveBackend("health", o[1], "next")
         ELSE Goes("health", "next") /\ UNCHANGED <<ref, back>>
  /\ on' = [on EXCEPT !["health"] = None]
  /\ UNCHANGED <<procVars, objVars, born, countVars, passVars, lock, faults>>

(* The wrong form that leaves the count to the events. *)
PassEndsSilently ==
  /\ at["health"] = "next" /\ todo = {}
  /\ Goes("health", "rest")
  /\ UNCHANGED <<procVars, objVars, listVars, countVars, back, on, passVars, lock, faults>>

(* Every pass ends with refresh_active. *)
PassEnds ==
  /\ at["health"] = "next" /\ todo = {}
  /\ Event("health", "rest")
  /\ UNCHANGED <<procVars, objVars, listVars, countVars, on, passVars, lock, faults>>
-----------------------------------------------------------------------------
(* discovery_loop. *)

(* A candidate that is not known and answers its probe is added.             *)
ScanProbes(b) ==
  /\ at["scan"] = "rest" /\ b \in Candidates \ Listed /\ proc[b] = "up" /\ Fault("scan")
  /\ Goes("scan", "add")
  /\ on' = [on EXCEPT !["scan"] = b]
  /\ UNCHANGED <<procVars, objVars, listVars, countVars, back, passVars, lock>>

ScanAdds ==
  /\ at["scan"] = "add"
  /\ AddBackend("scan", on["scan"])
  /\ on' = [on EXCEPT !["scan"] = None]
  /\ UNCHANGED <<procVars, oks, passive, countVars, passVars, faults>>
-----------------------------------------------------------------------------
(* The processes of the backends. *)

Proc(b, from, to) == proc[b] \in from /\ proc' = [proc EXCEPT ![b] = to]

balancerVars == <<objVars, listVars, countVars, threadVars, passVars, lock>>

(* A process boots and loads its feed; until then /health answers 503. *)
Boots(b) == Proc(b, {"off"}, "loading") /\ Fault("boot") /\ UNCHANGED <<calls, balancerVars>>
Loads(b) == Proc(b, {"loading"}, "up") /\ UNCHANGED <<calls, faults, balancerVars>>

(* register, 300 ms after the boot and then every LB_HEARTBEAT_S: nothing    *)
(* stops the interval when the process shuts down.                           *)
Heartbeat(b) ==
  /\ proc[b] # "off"
  /\ calls' = calls \union {<<"register", b>>}
  /\ UNCHANGED <<proc, faults, balancerVars>>

(* shutdown: the process asks to be drained, and exits when it is answered   *)
(* and has finished what is in flight.                                       *)
Sigterm(b) ==
  /\ Proc(b, {"loading", "up"}, "leaving") /\ Fault("term")
  /\ calls' = calls \union {<<"deregister", b>>}
  /\ UNCHANGED balancerVars

Exits(b) ==
  /\ Proc(b, {"leaving", "closing"}, "off") /\ <<"deregister", b>> \notin calls
  /\ UNCHANGED <<calls, faults, balancerVars>>

Killed(b) ==
  /\ proc[b] # "off" /\ Proc(b, {proc[b]}, "off") /\ Fault("kill")
  /\ UNCHANGED <<calls, balancerVars>>

CallLost(c) ==
  /\ calls' = calls \ {c} /\ Fault("lost")
  /\ UNCHANGED <<proc, balancerVars>>

(* prune_after_s pass, which is longer than health_loop works on a backend. *)
Ages(o) ==
  /\ o \in Made \ old /\ state[o] = "DOWN" /\ on["health"] # o /\ Fault("age")
  /\ old' = old \union {o}
  /\ UNCHANGED <<procVars, state, fails, oks, passive, listVars, countVars, threadVars,
                 passVars, lock>>
-----------------------------------------------------------------------------
HealthSteps == \/ PassStarts \/ PassEnds \/ HandleOk \/ HandleTimeout \/ HandleRefused
               \/ HealthEjects \/ Prune
               \/ \E o \in todo : Probe(o)

Refreshes(t) == Counts(t) \/ Stores(t) \/ Resizes(t)

Next == \/ HealthSteps
        \/ EjectMarks \/ EjectResets \/ StatsRead
        \/ ScanAdds
        \/ \E t \in Threads : Refreshes(t)
        \/ \E o \in Objects : ProxyFails(o) \/ ProxySucceeds(o) \/ Ages(o)
        \/ \E c \in calls : CallLost(c)
        \/ \E b \in Backends :
             \/ RegisterArrives(b) \/ DeregisterArrives(b) \/ Delete(b) \/ ScanProbes(b)
             \/ Boots(b) \/ Loads(b) \/ Heartbeat(b) \/ Sigterm(b) \/ Exits(b) \/ Killed(b)

Spec == Init /\ [][Next]_vars

(* The threads are scheduled and probes time out; the event loop takes what  *)
(* arrives although it also serves other requests; a process that is alive   *)
(* sends its heartbeats, loads its feed and exits when it is told to.        *)
Fairness ==
  /\ WF_vars(HealthSteps \/ Refreshes("health"))
  /\ WF_vars(EjectMarks \/ EjectResets \/ Refreshes("loop"))
  /\ WF_vars(ScanAdds \/ Refreshes("scan"))
  /\ \A b \in Backends :
       /\ SF_vars(RegisterArrives(b) \/ DeregisterArrives(b))
       /\ WF_vars(Heartbeat(b)) /\ WF_vars(Loads(b) \/ Exits(b))

FairSpec == Spec /\ Fairness
-----------------------------------------------------------------------------
TypeOK ==
  /\ proc \in [Backends -> {"off", "loading", "up", "leaving", "closing"}]
  /\ calls \subseteq {"register", "deregister"} \X Backends
  /\ born \in [Backends -> 0..MaxLives]
  /\ ref \in [Backends -> 0..MaxLives] /\ \A b \in Backends : ref[b] \in {0, born[b]}
  /\ state \in [Objects -> {"UP", "DEGRADED", "DOWN", "DRAINING"}]
  /\ fails \in [Objects -> 0..FailThreshold]
  /\ oks \in [Objects -> 0..RiseThreshold]
  /\ passive \in [Objects -> 0..PassiveThreshold]
  /\ old \subseteq Made
  /\ active \in 0..Cardinality(Backends) /\ gate \in 1..Cardinality(Backends)
  /\ count \in [Threads -> 0..Cardinality(Backends)]
  /\ lock \in Threads \union {None}
  /\ at \in [Threads -> {"rest", "next", "handle", "eject", "reset", "prune", "add",
                         "count", "store", "resize"}]
  /\ back \in [Threads -> {"rest", "next", "prune"}]
  /\ on["health"] \in Made \union {None} /\ on["loop"] \in Made \union {None}
  /\ on["scan"] \in Backends \union {None}
  /\ todo \subseteq Made
  /\ seen \in {None, "ok", "slow", "timeout", "refused"}
  /\ faults \in 0..MaxFaults

(* "dynamically added backends that stay DOWN for prune_after_s are removed", *)
(* those of the configuration are not: until the operator deletes it, such a *)
(* member stays, although health_loop works on a list that is out of date    *)
(* and removes by id.                                                        *)
ConfiguredStays ==
  [][\A b \in Config : ref[b] = 1 /\ ref'[b] # 1 => Delete(b)]_vars

(* The size of the gate and active_count follow the pool: whatever counts    *)
(* the threads stored over each other's, in the end both are those of the    *)
(* backends that are routable.                                               *)
CapacitySettles ==
  <>[](active = Cardinality(Routable) /\ gate = AtLeastOne(Cardinality(Routable)))

(* A backend that serves for good receives traffic for good, although it was *)
(* ejected, drained, pruned or deleted before, by several threads.           *)
EventuallyRouted == \A b \in Backends : <>[](proc[b] = "up") => <>[](b \in Routable)

(* A backend that is gone for good is taken out of the pool, also when its   *)
(* last heartbeats arrive after its deregistration; the last one may stay.   *)
DeadIsEjected ==
  \A b \in Backends : <>[](proc[b] = "off") => <>[](b \notin Routable \/ Routable = {b})

(* "Fail-open: the last routable backend is never ejected."  It does not     *)
(* hold: two threads may eject the last two at once (README).                *)
NeverLastEjected ==
  [][\A o \in Objects : state[o] \in Up /\ state'[o] = "DOWN" /\ ref[o[1]] = o[2]
       => Routable' # {}]_vars

(* "DRAINING asked to leave (deregister): finishes in-flight, gets nothing   *)
(* new": a process that was answered its deregistration is not routable.  It *)
(* does not hold: a heartbeat may arrive later (README).                     *)
NothingNewAfterDrain == \A b \in Backends : proc[b] = "closing" => b \notin Routable
=============================================================================
