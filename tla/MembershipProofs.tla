-------------------------- MODULE MembershipProofs --------------------------
(***************************************************************************)
(* What Membership guarantees for any backends, thresholds and faults.     *)
(* The threads keep objects of the list across their steps, so the core of *)
(* the inductive invariant says what each holds at each place, and that    *)
(* LB.lock is held only by a thread that is inside event.                  *)
(***************************************************************************)
EXTENDS Membership, FiniteSetTheorems, TLAPS

Inside == {"count", "store", "resize"}

(* A thread works on an object that was made, or an id it may add; it        *)
(* returns somewhere only from event.                                        *)
Holds == /\ DOMAIN on = Threads
         /\ \A t \in Threads : at[t] \notin Inside => back[t] = "rest"
         /\ at["loop"] \in {"eject", "reset"} => on["loop"] \in Made
         /\ at["health"] \in {"handle", "eject", "prune"} \/ back["health"] = "prune"
              => on["health"] \in Made
         /\ at["scan"] = "add" => on["scan"] \in Backends

LockInv == \A t \in Threads : lock = t => at[t] \in Inside

IInv == TypeOK /\ Holds /\ LockInv
-----------------------------------------------------------------------------
LEMMA Ranges ==
  /\ Cardinality(Backends) \in Nat \ {0}
  /\ \A S \in SUBSET Backends : Cardinality(S) \in 0..Cardinality(Backends)
<1>1. Cardinality(Backends) \in Nat \ {0}
  BY IdsAssumption, FS_EmptySet, FS_CardinalityType
<1>2. ASSUME NEW S \in SUBSET Backends
      PROVE  Cardinality(S) \in 0..Cardinality(Backends)
  BY <1>1, IdsAssumption, FS_Subset, FS_CardinalityType
<1> QED BY <1>1, <1>2

LEMMA InitLemma == Init => IInv
<1> SUFFICES ASSUME Init PROVE IInv
  OBVIOUS
<1>1. active \in 0..Cardinality(Backends) /\ gate \in 1..Cardinality(Backends)
  BY Ranges, IdsAssumption DEF Init, AtLeastOne
<1>2. 1 \in 1..MaxLives /\ 0..MaxLives \subseteq Nat
  BY BoundsAssumption
<1>3. Holds /\ LockInv
  BY IdsAssumption DEF Init, Holds, LockInv, Threads
<1> QED BY <1>1, <1>2, <1>3, Ranges, ThresholdsAssumption, BoundsAssumption
        DEF Init, IInv, TypeOK, Threads, Objects, Made

(* The objects of the list were made, and what was made stays made. *)
LEMMA ListedMade ==
  ASSUME TypeOK, NEW b \in Listed
  PROVE  Obj(b) \in Made /\ b \in Backends
  BY BoundsAssumption DEF TypeOK, Listed, Obj, Made, Objects

LEMMA MadeGrows ==
  ASSUME \A b \in Backends : born[b] \in Nat /\ born'[b] \in Nat /\ born[b] <= born'[b]
  PROVE  Made \subseteq Made'
  BY DEF Made, Objects

(* event: the thread goes on inside of it. *)
LEMMA Events ==
  ASSUME TypeOK, NEW t \in Threads, NEW p \in {"rest", "next", "prune"}, Event(t, p)
  PROVE  /\ at' \in [Threads -> {"rest", "next", "handle", "eject", "reset", "prune", "add",
                                 "count", "store", "resize"}]
         /\ back' \in [Threads -> {"rest", "next", "prune"}]
         /\ at'[t] = "count" /\ back'[t] = p
         /\ \A u \in Threads \ {t} : at'[u] = at[u] /\ back'[u] = back[u]
  BY DEF TypeOK, Event, Goes

(* remove_backend: only the list changes, and nothing is made. *)
LEMMA Removing ==
  ASSUME IInv, NEW t \in Threads, NEW b \in Backends, NEW p \in {"rest", "next"},
         at[t] \notin Inside, RemoveBackend(t, b, p)
  PROVE  /\ ref' \in [Backends -> 0..MaxLives]
         /\ \A c \in Backends : ref'[c] \in {0, born[c]}
         /\ at' \in [Threads -> {"rest", "next", "handle", "eject", "reset", "prune", "add",
                                 "count", "store", "resize"}]
         /\ back' \in [Threads -> {"rest", "next", "prune"}]
         /\ at'[t] \in {"count", p} /\ back'[t] \in {p, back[t]}
         /\ at'[t] = p => back'[t] = "rest"
         /\ \A u \in Threads \ {t} : at'[u] = at[u] /\ back'[u] = back[u]
<1>1. ref' = [ref EXCEPT ![b] = 0] /\ 0 \in 0..MaxLives
  BY BoundsAssumption DEF RemoveBackend
<1>2. /\ ref' \in [Backends -> 0..MaxLives]
      /\ \A c \in Backends : ref'[c] \in {0, born[c]}
  BY <1>1 DEF IInv, TypeOK
<1>3. CASE b \in Listed
  BY <1>2, <1>3, Events DEF IInv, RemoveBackend
<1>4. CASE b \notin Listed
  BY <1>2, <1>4 DEF IInv, TypeOK, Holds, RemoveBackend, Goes
<1> QED BY <1>3, <1>4

(* add_backend: a new object is the last made of its id, and only a thread  *)
(* that goes on in event has the lock.                                      *)
LEMMA Adding ==
  ASSUME IInv, NEW t \in Threads, NEW b \in Backends, at[t] \notin Inside, AddBackend(t, b)
  PROVE  /\ born' \in [Backends -> 0..MaxLives] /\ ref' \in [Backends -> 0..MaxLives]
         /\ \A c \in Backends : ref'[c] \in {0, born'[c]}
         /\ Made \subseteq Made'
         /\ state' \in [Objects -> {"UP", "DEGRADED", "DOWN", "DRAINING"}]
         /\ fails' \in [Objects -> 0..FailThreshold]
         /\ old' \subseteq old
         /\ lock' \in Threads \union {None} /\ LockInv'
         /\ at' \in [Threads -> {"rest", "next", "handle", "eject", "reset", "prune", "add",
                                 "count", "store", "resize"}]
         /\ back' \in [Threads -> {"rest", "next", "prune"}]
         /\ at'[t] \in {"count", "rest"} /\ back'[t] \in {"rest", back[t]}
         /\ \A u \in Threads \ {t} : at'[u] = at[u] /\ back'[u] = back[u]
<1> USE DEF IInv
<1>0. lock = None /\ None \notin Threads
  BY IdsAssumption DEF AddBackend, Threads
<1>1. CASE ref[b] = 0 /\ Event(t, "rest") /\ UNCHANGED <<state, fails, old, lock>>
           /\ born[b] < MaxLives /\ born' = [born EXCEPT ![b] = @ + 1]
           /\ ref' = [ref EXCEPT ![b] = born'[b]]
  <2>1. born[b] + 1 \in 0..MaxLives /\ \A c \in Backends : born[c] \in Nat
    BY <1>1, BoundsAssumption DEF TypeOK
  <2>2. /\ born' \in [Backends -> 0..MaxLives] /\ born'[b] = born[b] + 1
        /\ \A c \in Backends \ {b} : born'[c] = born[c]
    BY <1>1, <2>1 DEF TypeOK
  <2>3. /\ ref' \in [Backends -> 0..MaxLives]
        /\ \A c \in Backends : ref'[c] \in {0, born'[c]}
    BY <1>1, <2>2 DEF TypeOK
  <2>4. Made \subseteq Made'
    BY <2>1, <2>2, MadeGrows
  <2>5. LockInv'
    BY <1>0, <1>1 DEF LockInv
  <2> QED BY <1>1, <2>2, <2>3, <2>4, <2>5, Events DEF TypeOK
<1>2. CASE /\ b \in Listed /\ Event(t, "rest") /\ UNCHANGED listVars /\ lock' = t
           /\ state' = [state EXCEPT ![Obj(b)] = "UP"]
           /\ fails' = [fails EXCEPT ![Obj(b)] = 0]
           /\ old' = old \ {Obj(b)}
  <2>1. born' = born /\ ref' = ref /\ Made' = Made
    BY <1>2 DEF listVars, Made
  <2>2. /\ state' \in [Objects -> {"UP", "DEGRADED", "DOWN", "DRAINING"}]
        /\ fails' \in [Objects -> 0..FailThreshold]
    <3>1. 0 \in 0..FailThreshold
      BY ThresholdsAssumption
    <3>2. state' \in [Objects -> {"UP", "DEGRADED", "DOWN", "DRAINING"}]
      BY <1>2 DEF TypeOK
    <3>3. fails' \in [Objects -> 0..FailThreshold]
      BY <1>2, <3>1 DEF TypeOK
    <3> QED BY <3>2, <3>3
  <2>3. LockInv'
    BY <1>2, Events DEF LockInv, Inside
  <2> QED BY <1>2, <2>1, <2>2, <2>3, Events DEF TypeOK
<1>3. CASE Goes(t, "rest") /\ UNCHANGED <<state, fails, old, listVars, lock, back>>
  <2>1. LockInv'
    BY <1>0, <1>3 DEF LockInv
  <2>2. born' = born /\ ref' = ref /\ Made' = Made
    BY <1>3 DEF listVars, Made
  <2> QED BY <1>3, <2>1, <2>2 DEF TypeOK, Goes
<1> QED BY <1>1, <1>2, <1>3 DEF AddBackend

LEMMA Step == IInv /\ [Next]_vars => IInv'
<1> SUFFICES ASSUME IInv, [Next]_vars PROVE IInv'
  OBVIOUS
<1> USE DEF IInv, TypeOK, Holds, LockInv, Inside
(* refresh_active, in any thread. *)
<1>1. ASSUME NEW t \in Threads, Counts(t) PROVE IInv'
  <2>1. Cardinality(Routable) \in 0..Cardinality(Backends)
    BY Ranges DEF Routable, Listed
  <2> QED BY <1>1, <2>1 DEF Counts, Goes, Made, procVars, objVars, listVars, passVars
<1>2. ASSUME NEW t \in Threads, Stores(t) PROVE IInv'
  BY <1>2 DEF Stores, Goes, Made, procVars, objVars, listVars, passVars
<1>3. ASSUME NEW t \in Threads, Resizes(t) PROVE IInv'
  <2>1. UNCHANGED <<procVars, objVars, listVars, active, on, passVars, faults>>
    BY <1>3 DEF Resizes
  <2>2. Made' = Made
    BY <2>1 DEF Made, listVars
  <2>3. gate' \in 1..Cardinality(Backends) /\ count' \in [Threads -> 0..Cardinality(Backends)]
    BY <1>3, Ranges DEF Resizes, AtLeastOne
  <2>4. /\ at' = [at EXCEPT ![t] = back[t]] /\ back' = [back EXCEPT ![t] = "rest"]
        /\ lock' = IF lock = t THEN None ELSE lock
    BY <1>3 DEF Resizes, Goes
  <2>5. /\ at' \in [Threads -> {"rest", "next", "handle", "eject", "reset", "prune", "add",
                                "count", "store", "resize"}]
        /\ back' \in [Threads -> {"rest", "next", "prune"}]
        /\ back'[t] = "rest" /\ at'[t] = back[t] /\ back[t] \in {"rest", "next", "prune"}
        /\ \A u \in Threads \ {t} : at'[u] = at[u] /\ back'[u] = back[u]
    BY <2>4
  <2>6. LockInv'
    <3>1. None \notin Threads
      BY IdsAssumption DEF Threads
    <3> QED BY <2>4, <2>5, <3>1
  <2>7. Holds'
    BY <2>1, <2>2, <2>5 DEF Threads
  <2>8. lock' \in Threads \union {None}
    BY <2>4
  <2> HIDE DEF Holds, LockInv
  <2> QED BY <2>1, <2>2, <2>3, <2>5, <2>6, <2>7, <2>8 DEF procVars, objVars, listVars, passVars
(* The event loop. *)
<1>4. ASSUME NEW b \in Backends, RegisterArrives(b) PROVE IInv'
  <2>1. /\ AddBackend("loop", b) /\ at["loop"] = "rest" /\ calls' \subseteq calls
        /\ UNCHANGED <<proc, oks, passive, countVars, on, passVars, faults>>
    BY <1>4 DEF RegisterArrives
  <2> QED BY <2>1, Adding DEF Threads, countVars, passVars
<1>5. ASSUME NEW b \in Backends, DeregisterArrives(b) PROVE IInv'
  BY <1>5, IdsAssumption
     DEF DeregisterArrives, Goes, Event, Threads, Made, listVars, countVars, passVars
<1>6. ASSUME NEW b \in Backends, Delete(b) PROVE IInv'
  BY <1>6, Removing, BoundsAssumption
     DEF Delete, Fault, Threads, Made, procVars, objVars, countVars, passVars
<1>7. CASE StatsRead
  BY <1>7, Events, BoundsAssumption
     DEF StatsRead, Fault, Threads, Made, procVars, objVars, listVars, countVars, passVars
<1>8. ASSUME NEW o \in Objects, ProxyFails(o) PROVE IInv'
  <2>1. /\ UNCHANGED <<procVars, state, fails, oks, old, listVars, countVars, back, passVars, lock>>
        /\ o \in Made /\ at["loop"] = "rest"
    BY <1>8 DEF ProxyFails
  <2>2. Made' = Made
    BY <2>1 DEF Made, listVars
  <2>3. passive' \in [Objects -> 0..PassiveThreshold]
    BY <1>8, ThresholdsAssumption DEF ProxyFails, AtMost
  <2>4. faults' \in 0..MaxFaults
    BY <1>8, BoundsAssumption DEF ProxyFails, Fault
  <2>5. \/ UNCHANGED <<at, on>>
        \/ at' = [at EXCEPT !["loop"] = "eject"] /\ on' = [on EXCEPT !["loop"] = o]
    BY <1>8 DEF ProxyFails, Goes
  <2> QED BY <2>1, <2>2, <2>3, <2>4, <2>5
          DEF Threads, procVars, listVars, countVars, passVars
<1>9. CASE EjectMarks
  BY <1>9 DEF EjectMarks, Goes, Threads, Made, procVars, listVars, countVars, passVars
<1>10. CASE EjectResets
  BY <1>10, ThresholdsAssumption
     DEF EjectResets, Event, Goes, Threads, Made, procVars, listVars, countVars, passVars
<1>11. ASSUME NEW o \in Objects, ProxySucceeds(o) PROVE IInv'
  BY <1>11, ThresholdsAssumption
     DEF ProxySucceeds, Made, procVars, listVars, countVars, threadVars, passVars
(* health_loop. *)
<1>12. CASE PassStarts
  BY <1>12, ListedMade
     DEF PassStarts, Goes, Threads, Made, procVars, objVars, listVars, countVars
<1>13. ASSUME NEW o \in todo, Probe(o) PROVE IInv'
  <2>1. /\ UNCHANGED <<procVars, objVars, listVars, countVars, back, lock>>
        /\ todo' \subseteq todo /\ o \in Made
        /\ at["health"] = "next"
        /\ at' = [at EXCEPT !["health"] = "handle"] /\ on' = [on EXCEPT !["health"] = o]
    BY <1>13 DEF Probe, Goes
  <2>2. Made' = Made
    BY <2>1 DEF Made, listVars
  <2>3. seen' \in {None, "ok", "slow", "timeout", "refused"} /\ faults' \in 0..MaxFaults
    BY <1>13, BoundsAssumption DEF Probe, Fault
  <2> QED BY <2>1, <2>2, <2>3 DEF Threads, procVars, objVars, listVars, countVars
<1>14. CASE HandleOk
  BY <1>14, ThresholdsAssumption
     DEF HandleOk, Moves, Goes, Event, AtMost, Up, Threads, Made, procVars, listVars, countVars
<1>15. CASE HandleTimeout
  BY <1>15, ThresholdsAssumption
     DEF HandleTimeout, Moves, Goes, Event, Threads, Made, procVars, listVars, countVars
<1>16. CASE HandleRefused
  BY <1>16, ThresholdsAssumption
     DEF HandleRefused, Moves, Goes, Event, AtMost, Threads, Made, procVars, listVars, countVars
<1>17. CASE HealthEjects
  BY <1>17 DEF HealthEjects, Event, Goes, Threads, Made, procVars, listVars, countVars, passVars
<1>18. CASE Prune
  <2> DEFINE o == on["health"]
  <2>1. /\ o \in Made /\ o[1] \in Backends /\ at["health"] = "prune"
        /\ UNCHANGED <<procVars, objVars, born, countVars, passVars, lock, faults>>
        /\ on' = [on EXCEPT !["health"] = None]
    BY <1>18 DEF Prune, Made, Objects
  <2>2. Made' = Made
    BY <2>1 DEF Made
  <2>3. CASE RemoveBackend("health", o[1], "next")
    <3>1. /\ ref' \in [Backends -> 0..MaxLives]
          /\ \A c \in Backends : ref'[c] \in {0, born[c]}
          /\ at' \in [Threads -> {"rest", "next", "handle", "eject", "reset", "prune", "add",
                                  "count", "store", "resize"}]
          /\ back' \in [Threads -> {"rest", "next", "prune"}]
          /\ at'["health"] \in {"count", "next"} /\ back'["health"] \in {"next", back["health"]}
          /\ at'["health"] = "next" => back'["health"] = "rest"
          /\ \A u \in Threads \ {"health"} : at'[u] = at[u] /\ back'[u] = back[u]
      <4>1. "health" \in Threads /\ at["health"] \notin Inside /\ o[1] \in Backends
        BY <2>1 DEF Threads
      <4> HIDE DEF o
      <4> QED BY <4>1, <2>3, Removing
    <3>2. Holds'
      BY <2>1, <2>2, <3>1 DEF Threads
    <3>3. LockInv'
      BY <2>1, <3>1 DEF Threads
    <3> HIDE DEF Holds, LockInv
    <3> QED BY <2>1, <2>2, <3>1, <3>2, <3>3 DEF procVars, objVars, countVars, passVars
  <2>4. CASE Goes("health", "next") /\ UNCHANGED <<ref, back>>
    BY <2>1, <2>2, <2>4 DEF Goes, Threads, procVars, objVars, countVars, passVars
  <2> QED BY <1>18, <2>3, <2>4 DEF Prune
<1>19. CASE PassEnds
  BY <1>19, Events
     DEF PassEnds, Threads, Made, procVars, objVars, listVars, countVars, passVars
(* discovery_loop. *)
<1>20. ASSUME NEW b \in Backends, ScanProbes(b) PROVE IInv'
  BY <1>20, BoundsAssumption
     DEF ScanProbes, Fault, Goes, Threads, Made, procVars, objVars, listVars, countVars, passVars
<1>21. CASE ScanAdds
  <2>1. /\ AddBackend("scan", on["scan"]) /\ at["scan"] = "add" /\ on["scan"] \in Backends
        /\ on' = [on EXCEPT !["scan"] = None]
        /\ UNCHANGED <<procVars, oks, passive, countVars, passVars, faults>>
    BY <1>21 DEF ScanAdds
  <2> QED BY <2>1, Adding DEF Threads, procVars, countVars, passVars
(* The processes of the backends. *)
<1>22. ASSUME NEW b \in Backends,
              \/ Boots(b) \/ Loads(b) \/ Heartbeat(b) \/ Sigterm(b) \/ Exits(b) \/ Killed(b)
              \/ \E c \in calls : CallLost(c)
       PROVE  IInv'
  <2>1. UNCHANGED balancerVars
    BY <1>22 DEF Boots, Loads, Heartbeat, Sigterm, Exits, Killed, CallLost
  <2>2. /\ proc' \in [Backends -> {"off", "loading", "up", "leaving", "closing"}]
        /\ calls' \subseteq {"register", "deregister"} \X Backends
        /\ faults' \in 0..MaxFaults
    BY <1>22, BoundsAssumption
       DEF Boots, Loads, Heartbeat, Sigterm, Exits, Killed, CallLost, Proc, Fault
  <2> QED BY <2>1, <2>2
          DEF balancerVars, Made, objVars, listVars, countVars, threadVars, passVars
<1>23. ASSUME NEW o \in Objects, Ages(o) PROVE IInv'
  BY <1>23, BoundsAssumption
     DEF Ages, Fault, Made, procVars, listVars, countVars, threadVars, passVars
<1>24. CASE UNCHANGED vars
  BY <1>24 DEF vars, Made, procVars, objVars, listVars, countVars, threadVars, passVars
<1> HIDE DEF IInv
<1> QED BY <1>1, <1>2, <1>3, <1>4, <1>5, <1>6, <1>7, <1>8, <1>9, <1>10, <1>11, <1>12, <1>13,
           <1>14, <1>15, <1>16, <1>17, <1>18, <1>19, <1>20, <1>21, <1>22, <1>23, <1>24,
           IdsAssumption
        DEF Next, HealthSteps, Refreshes
-----------------------------------------------------------------------------
(* The inductive invariant. *)
THEOREM Invariant == Spec => []IInv
BY InitLemma, Step, PTL DEF Spec

(* Every variable keeps its type: the gate keeps a slot for at least one     *)
(* backend and never has more than there are, and the list and the threads   *)
(* only ever refer to objects that were made.                                *)
THEOREM TypeCorrect == Spec => []TypeOK
<1>1. IInv => TypeOK
  BY DEF IInv
<1> QED BY <1>1, Invariant, PTL

(* Only DELETE /lb/backends takes a member of the configuration out of the   *)
(* pool: health_loop may hold an object of the id that was replaced, but     *)
(* what it prunes by id is never the configured one.                         *)
THEOREM MembersOfTheFileStay == Spec => ConfiguredStays
<1>1. IInv /\ [Next]_vars =>
        [\A b \in Config : ref[b] = 1 /\ ref'[b] # 1 => Delete(b)]_vars
  <2> SUFFICES ASSUME IInv, Next, NEW b \in Config, ref[b] = 1, ref'[b] # 1
               PROVE  Delete(b)
    BY DEF vars
  <2>0. b \in Backends /\ ref \in [Backends -> 0..MaxLives] /\ born[b] = 1
    BY IdsAssumption DEF IInv, TypeOK
  <2>1. \/ Prune \/ ScanAdds
        \/ \E c \in Backends : RegisterArrives(c) \/ Delete(c)
    BY DEF Next, HealthSteps, Refreshes, PassStarts, PassEnds, HandleOk, HandleTimeout,
           HandleRefused, HealthEjects, Probe, EjectMarks, EjectResets, StatsRead, Counts,
           Stores, Resizes, ProxyFails, ProxySucceeds, Ages, CallLost, DeregisterArrives,
           ScanProbes, Boots, Loads, Heartbeat, Sigterm, Exits, Killed, balancerVars, listVars
  <2>2. ASSUME NEW t, NEW c \in Backends, AddBackend(t, c) PROVE FALSE
    BY <2>0, <2>2 DEF AddBackend, listVars
  <2>3. ASSUME NEW c \in Backends, Delete(c) PROVE Delete(b)
    <3>1. ref' = [ref EXCEPT ![c] = 0]
      BY <2>3 DEF Delete, RemoveBackend
    <3>2. c = b
      BY <2>0, <3>1
    <3> QED BY <2>3, <3>2
  <2>4. CASE Prune
    <3> DEFINE o == on["health"]
    <3>1. o \in Made
      BY <2>4 DEF Prune, IInv, Holds
    <3>2. Prunable(o) /\ ref' = [ref EXCEPT ![o[1]] = 0]
      BY <2>4 DEF Prune, RemoveBackend
    <3>3. o[1] = b
      BY <2>0, <3>2
    <3>4. o[2] = 1
      BY <2>0, <3>1, <3>3 DEF Made, Objects
    <3> QED BY <3>2, <3>3, <3>4 DEF Prunable
  <2>5. CASE ScanAdds
    BY <2>2, <2>5 DEF ScanAdds, IInv, Holds
  <2>6. ASSUME NEW c \in Backends, RegisterArrives(c) PROVE FALSE
    BY <2>2, <2>6 DEF RegisterArrives
  <2> QED BY <2>1, <2>3, <2>4, <2>5, <2>6
<1> QED BY <1>1, Invariant, PTL DEF Spec, ConfiguredStays

=============================================================================
