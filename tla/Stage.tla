------------------------------- MODULE Stage --------------------------------
(***************************************************************************)
(* A stage of the load test as its users see it, without a balancer: a     *)
(* request is claimed from the budget and sent, some of the messages on    *)
(* their way are stored and others are lost, at any time, and each user is *)
(* answered once, or gives up once.  What nobody sent is never stored, and *)
(* only a message that is stored by then is reported as accepted.          *)
(***************************************************************************)
EXTENDS Integers

CONSTANTS Users, Requests, Budget

VARIABLES left,      \* of the budget
          hand,      \* the request each user waits for, if any, as a set
          ended,     \* users that have sent their last read
          afloat,    \* messages that are not stored, and still may be
          stored,
          successes, errors,
          accepted,  \* messages that are reported as stored
          ambiguous  \* how many are reported as not known to be

report == <<successes, errors, accepted, ambiguous>>
vars   == <<left, hand, ended, afloat, stored, report>>

Messages(r) == IF r.kind = "post" THEN {r} ELSE {}

Init == /\ left = Budget /\ hand = [u \in Users |-> {}] /\ ended = {}
        /\ afloat = {} /\ stored = {}
        /\ successes = 0 /\ errors = 0 /\ accepted = {} /\ ambiguous = 0

Claim(u, r) ==
  /\ hand[u] = {} /\ u \notin ended /\ left > 0
  /\ r.user = u /\ r.k = left'
  /\ left' = left - 1
  /\ hand' = [hand EXCEPT ![u] = {r}]
  /\ afloat' \subseteq afloat \union Messages(r)
  /\ UNCHANGED <<ended, stored, report>>

ReadLast(u, r) ==
  /\ hand[u] = {} /\ u \notin ended
  /\ r.user = u /\ r.kind = "feed"
  /\ hand' = [hand EXCEPT ![u] = {r}]
  /\ ended' = ended \union {u}
  /\ afloat' \subseteq afloat
  /\ UNCHANGED <<left, stored, report>>

(* The service stores some of the messages on their way, or loses them.      *)
Serve == /\ stored \subseteq stored' /\ stored' \ stored \subseteq afloat
         /\ afloat' \subseteq afloat \ stored'
         /\ UNCHANGED <<left, hand, ended, report>>

Succeed(u, r) ==
  /\ hand[u] = {r} /\ Messages(r) \subseteq stored
  /\ successes' = successes + 1 /\ accepted' = accepted \union Messages(r)
  /\ hand' = [hand EXCEPT ![u] = {}]
  /\ afloat' \subseteq afloat
  /\ UNCHANGED <<left, ended, stored, errors, ambiguous>>

(* The message may be stored by now, or later, or never. *)
Fail(u, r) ==
  /\ hand[u] = {r}
  /\ errors' = errors + 1
  /\ ambiguous' = IF r.kind = "post" THEN ambiguous + 1 ELSE ambiguous
  /\ hand' = [hand EXCEPT ![u] = {}]
  /\ afloat' \subseteq afloat
  /\ UNCHANGED <<left, ended, stored, successes, accepted>>

Next == \/ Serve
        \/ \E u \in Users, r \in Requests :
             Claim(u, r) \/ ReadLast(u, r) \/ Succeed(u, r) \/ Fail(u, r)

Spec == Init /\ [][Next]_vars
=============================================================================
