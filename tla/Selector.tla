------------------------------ MODULE Selector ------------------------------
(***************************************************************************)
(* The choice of a backend: LB.pick of lb/loadbalancer.py with the state   *)
(* its algorithms keep between requests, and the part of handle_client     *)
(* that calls it, from a free slot of REQ_GATE to the answer.  A request   *)
(* that has been given a backend opens a connection first ("opening") and  *)
(* is counted in in_flight after that; a pooled connection needs no wait.  *)
(*                                                                         *)
(* What decides by measured times is left open: hot is any set of backends *)
(* whose load index is over the threshold, and where two candidates are    *)
(* compared by score either may win.  Only the term of the index that the  *)
(* balancer makes itself is kept: a backend with HotAt requests is hot.    *)
(* While it runs the algorithm is not changed (see Config for tuning).     *)
(*                                                                         *)
(* Left out: the counters requests and switches and the switch event.      *)
(***************************************************************************)
EXTENDS Integers, Sequences, FiniteSets, Functions, SequencesExt

CONSTANTS Order,      \* the backends in the order of self.backends
          Weight,     \* their weights
          Reliable,   \* those that stay routable and take every connection
          Algorithms,
          Slots,      \* backend_slots
          HotAt,      \* requests in flight that reach the threshold
          MaxJoins    \* backends that are pruned and register again

Backends == Range(Order)

ASSUME WeightAssumption == Weight \in [Backends -> Nat \ {0}]
ASSUME SizesAssumption  == /\ Slots \in Nat \ {0} /\ HotAt \in Nat \ {0}
                           /\ MaxJoins \in Nat /\ Reliable \subseteq Backends

VARIABLES algorithm,
          up,         \* the routable backends
          sampled,    \* those with a response time: ewma_ms is not None
          opening,    \* requests that open a connection to each
          in_flight,
          current_weight, rr_index, current_id,
          dwell,      \* the last switch is less than min_dwell_ms ago
          joins

rotation == <<current_weight, rr_index, current_id, dwell>>
vars == <<algorithm, up, sampled, opening, in_flight, rotation, joins>>

None == "none"
Total(f, S) == FoldFunctionOnSet(+, 0, f, S)
Given == Total(opening, Backends) + Total(in_flight, Backends)

(* routable_backends without those this request has tried. *)
Pool(routable, tried) == SelectSeq(Order, LAMBDA b : b \in routable \ tried)

(* The wrong form of the next definition: no backend is measured on purpose. *)
NoneFresh(pool) == << >>

(* The backends of the pool that have no sample yet. *)
Fresh(pool) == SelectSeq(pool, LAMBDA b : b \notin sampled)

Init == /\ algorithm \in Algorithms
        /\ up = Backends /\ sampled = {}
        /\ opening = [b \in Backends |-> 0]
        /\ in_flight = [b \in Backends |-> 0]
        /\ current_weight = [b \in Backends |-> 0]
        /\ rr_index = 0 /\ current_id = None /\ dwell = FALSE
        /\ joins = 0
-----------------------------------------------------------------------------
(* One operator per algorithm: b may be chosen from pool, with what it does  *)
(* to the state of the rotation.                                             *)

(* adaptive and least_response_time: a backend without a sample first.       *)
ByScore(b, pool) ==
  /\ algorithm \in {"adaptive", "least_response_time"}
  /\ IF Fresh(pool) # << >> THEN b = Head(Fresh(pool)) ELSE b \in Range(pool)
  /\ UNCHANGED rotation

LeastConnections(b, pool) ==
  /\ algorithm = "least_connections"
  /\ b \in Range(pool) /\ \A c \in Range(pool) : in_flight[b] <= in_flight[c]
  /\ UNCHANGED rotation

(* ip_hash: any place of the pool, as clients differ. *)
IpHash(b, pool) ==
  /\ algorithm = "ip_hash"
  /\ b \in Range(pool)
  /\ UNCHANGED rotation

(* The wrong form of what a choice costs: the weights of all backends, also  *)
(* of those that are not in the pool.                                        *)
CostOfAll(pool) == Total(Weight, Backends)

(* total: the weights in the pool. *)
Cost(pool) == Total(Weight, Range(pool))

(* The wrong form of what a backend gains: its weight instead of what it has *)
(* and its weight.                                                           *)
WeightOnly(pool) == [b \in Backends |-> IF b \in Range(pool) THEN Weight[b] ELSE current_weight[b]]

(* weighted_round_robin: every backend of the pool gains its weight, and the *)
(* first of those that then have most is chosen and pays for all.            *)
Gains(pool) == [b \in Backends |-> IF b \in Range(pool) THEN current_weight[b] + Weight[b]
                                                        ELSE current_weight[b]]

WeightedRoundRobin(b, pool) ==
  /\ algorithm = "weighted_round_robin"
  /\ LET w == Gains(pool)
     IN  /\ \E i \in DOMAIN pool :
              /\ pool[i] = b
              /\ \A j \in DOMAIN pool : w[pool[j]] < w[b] + (IF j < i THEN 0 ELSE 1)
         /\ current_weight' = [w EXCEPT ![b] = @ - Cost(pool)]
  /\ UNCHANGED <<rr_index, current_id, dwell>>

RoundRobin(b, pool) ==
  /\ algorithm = "round_robin"
  /\ rr_index' = (rr_index + 1) % Len(pool)
  /\ b = pool[rr_index' + 1]
  /\ UNCHANGED <<current_weight, current_id, dwell>>

(* _pick_threshold: a backend without a sample is measured now. *)
MeasureFirst(b, pool) ==
  /\ Fresh(pool) # << >> /\ b = Head(Fresh(pool))
  /\ current_id' = b
  /\ UNCHANGED dwell

(* Where the threshold rule goes when it leaves the current backend: to one  *)
(* under the threshold, else to any other one, else it stays.                *)
Candidates(pool, hot) ==
  LET others == Range(pool) \ {current_id}
  IN  IF others \ hot # {} THEN others \ hot ELSE IF others # {} THEN others ELSE Range(pool)

(* Explore, stay under the threshold or within the dwell time, or switch. *)
Threshold(b, pool, hot) ==
  /\ \/ MeasureFirst(b, pool)
     \/ /\ Fresh(pool) = << >> /\ Len(pool) > 1 /\ b \in Range(pool)
        /\ UNCHANGED <<current_id, dwell>>
     \/ /\ Fresh(pool) = << >> /\ current_id \in Range(pool) \ hot
        /\ b = current_id /\ UNCHANGED <<current_id, dwell>>
     \/ /\ Fresh(pool) = << >> /\ current_id \in Range(pool) \intersect hot /\ dwell
        /\ b = current_id /\ UNCHANGED <<current_id, dwell>>
     \/ /\ Fresh(pool) = << >>
        /\ current_id \notin Range(pool) \/ (current_id \in hot /\ ~dwell)
        /\ b \in Candidates(pool, hot)
        /\ current_id' = b
        /\ dwell' \in (IF b = current_id THEN {dwell} ELSE BOOLEAN)
  /\ UNCHANGED <<current_weight, rr_index>>

(* pick, for a request that has tried some backends.  The load index counts  *)
(* in_flight only: requests that still open a connection are not in it.      *)
Hot == {b \in Backends : in_flight[b] >= HotAt}

Pick(b, routable, tried) ==
  LET pool == Pool(routable, tried)
  IN  /\ pool # << >>
      /\ \/ ByScore(b, pool) \/ LeastConnections(b, pool) \/ IpHash(b, pool)
         \/ WeightedRoundRobin(b, pool) \/ RoundRobin(b, pool)
         \/ /\ algorithm = "threshold"
            /\ \E more \in SUBSET (Backends \ Hot) : Threshold(b, pool, Hot \union more)
-----------------------------------------------------------------------------
(* The capacity of REQ_GATE while active_count is what it counts. *)
Capacity == Slots * (IF up = {} THEN 1 ELSE Cardinality(up))

(* A request is let in and given a backend, with a pooled connection or not. *)
Dispatch(b) ==
  /\ Given < Capacity
  /\ Pick(b, up, {})
  /\ \/ in_flight' = [in_flight EXCEPT ![b] = @ + 1] /\ UNCHANGED opening
     \/ opening' = [opening EXCEPT ![b] = @ + 1] /\ UNCHANGED in_flight
  /\ UNCHANGED <<algorithm, up, sampled, joins>>

Opened(b) ==
  /\ opening[b] > 0
  /\ opening' = [opening EXCEPT ![b] = @ - 1]
  /\ in_flight' = [in_flight EXCEPT ![b] = @ + 1]
  /\ UNCHANGED <<algorithm, up, sampled, rotation, joins>>

(* The connection is refused: the backend may be ejected, and the request    *)
(* picks another one, or is answered 503 if there is none.                   *)
Refused(b) ==
  /\ opening[b] > 0 /\ b \notin Reliable
  /\ up' \in {up, up \ {b}}
  /\ \E tried \in SUBSET (Backends \ Reliable) :
       /\ b \in tried
       /\ \/ /\ Pool(up', tried) = << >>
             /\ opening' = [opening EXCEPT ![b] = @ - 1]
             /\ UNCHANGED rotation
          \/ \E c \in Backends : /\ Pick(c, up', tried)
                                 /\ opening' = [opening EXCEPT ![b] = @ - 1, ![c] = @ + 1]
  /\ UNCHANGED <<algorithm, sampled, in_flight, joins>>

(* A request ends, with a response time to observe unless it failed. *)
Ends(b, answered) ==
  /\ in_flight[b] > 0
  /\ in_flight' = [in_flight EXCEPT ![b] = @ - 1]
  /\ sampled' = IF answered THEN sampled \union {b} ELSE sampled
  /\ UNCHANGED <<algorithm, up, opening, rotation, joins>>

(* A health probe is a sample for a backend that has nothing in flight. *)
Probed(b) ==
  /\ in_flight[b] = 0 /\ b \notin sampled
  /\ sampled' = sampled \union {b}
  /\ UNCHANGED <<algorithm, up, opening, in_flight, rotation, joins>>

Flaps(b) ==
  /\ b \notin Reliable
  /\ up' = IF b \in up THEN up \ {b} ELSE up \union {b}
  /\ UNCHANGED <<algorithm, sampled, opening, in_flight, rotation, joins>>

(* A backend that was pruned registers again: a new object. *)
Joins(b) ==
  /\ b \notin Reliable \union up /\ joins < MaxJoins
  /\ opening[b] = 0 /\ in_flight[b] = 0
  /\ joins' = joins + 1
  /\ up' = up \union {b} /\ sampled' = sampled \ {b}
  /\ current_weight' = [current_weight EXCEPT ![b] = 0]
  /\ UNCHANGED <<algorithm, opening, in_flight, rr_index, current_id, dwell>>

DwellEnds ==
  /\ dwell /\ dwell' = FALSE
  /\ UNCHANGED <<algorithm, up, sampled, opening, in_flight, current_weight, rr_index, current_id, joins>>

Next == \/ DwellEnds
        \/ \E b \in Backends : \/ Dispatch(b) \/ Opened(b) \/ Refused(b) \/ Flaps(b) \/ Joins(b) \/ Probed(b)
                               \/ \E a \in BOOLEAN : Ends(b, a)

Spec == Init /\ [][Next]_vars

(* Requests keep coming, connections open or fail, requests end.             *)
Fairness == /\ WF_vars(\E b \in Backends : Dispatch(b))
            /\ \A b \in Backends : WF_vars(Opened(b)) /\ SF_vars(Ends(b, TRUE))

FairSpec == Spec /\ Fairness
-----------------------------------------------------------------------------
(* The state of the selection is well formed, and the gate bounds what the   *)
(* backends are given together.                                              *)
TypeOK ==
  /\ up \subseteq Backends /\ sampled \subseteq Backends
  /\ opening \in [Backends -> Nat] /\ in_flight \in [Backends -> Nat]
  /\ Given <= Slots * Cardinality(Backends)
  /\ current_weight \in [Backends -> Int] /\ rr_index \in 0..Cardinality(Backends)
  /\ current_id \in Backends \union {None} /\ dwell \in BOOLEAN

(* weighted_round_robin: current_weight is what a backend is owed, so no     *)
(* backend gets ahead of or falls behind its share by more than a round of   *)
(* the pool, however the pool changes between the choices.  A backend that   *)
(* registers again starts at 0, which adds to what is owed in all: after     *)
(* several such joins a bound of a round is too small (README).              *)
Round == Total(Weight, Backends)
SharesKept == \A b \in Backends : current_weight[b] \in -Round..Round

(* A routable backend without a response time soon has one: the algorithms   *)
(* that decide by response times never leave it out for good.                *)
Measures == {"adaptive", "least_response_time", "threshold"}
MeasuredSoon == \A b \in Reliable :
  algorithm \in Measures /\ b \notin sampled ~> b \in sampled

(* weighted_round_robin: a backend that stays routable is never starved by   *)
(* others that come and go.                                                  *)
NobodyStarves == algorithm = "weighted_round_robin" =>
  \A b \in Reliable : []<>(opening[b] + in_flight[b] > 0)

(* What DEFAULTS says of backend_slots: "Concurrent requests one backend may *)
(* be given".  It does not hold: the gate bounds their sum only (README).    *)
SlotsPerBackend == \A b \in Backends : opening[b] + in_flight[b] <= Slots
=============================================================================
