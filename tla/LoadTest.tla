------------------------------ MODULE LoadTest ------------------------------
(***************************************************************************)
(* A stage of the load test, loadgen/leaderboard_sim.py, against the       *)
(* balancer (Proxy): users that share a budget of requests, send messages  *)
(* and read the feed, each over a keep-alive connection of its own, and    *)
(* count what they are answered.  Every message a user was answered 2xx    *)
(* for is expected in the feed at the end.                                 *)
(*                                                                         *)
(* A step of a user runs from one await to the next; a connection to the   *)
(* balancer opens at once.  What a user sends has the number k that the    *)
(* budget had left when it was claimed; its last read has the number       *)
(* Budget.  Timeouts are among the faults of Proxy.                        *)
(*                                                                         *)
(* Left out: latencies; the ladder of stages, of which the next one is     *)
(* another run; an exception that ends a user before the last read.        *)
(***************************************************************************)
EXTENDS Proxy

CONSTANTS Users, Budget, FeedEvery

ASSUME BudgetAssumption == Budget \in Nat /\ FeedEvery \in Nat \ {0}
ASSUME UsersAssumption == IsFiniteSet(Users)

VARIABLES user,      \* where each is, n, what it has sent, its connection
          remaining, over,   \* the deadline has passed
          stat

userVars == <<user, remaining, over, stat>>
vars == <<proxyVars, userVars>>

Init == /\ ProxyInit
        /\ user = [u \in Users |-> [at |-> "claim", n |-> 0, req |-> Nothing, link |-> 0]]
        /\ remaining = Budget /\ over = FALSE
        /\ stat = [requests |-> 0, successes |-> 0, errors |-> 0, timeouts |-> 0,
                   ambiguous |-> 0, accepted |-> {}]

Request(kind, u, k) == [kind |-> kind, user |-> u, k |-> k]

(* Conn.request: over the connection the user has, or over a new one. *)
LeastFree(t) == At(t, "free") /\ \A s \in Tasks : At(s, "free") => t <= s

SendsOn(u, r, t) ==
  \/ /\ t = user[u].link /\ Receives(t, r)
  \/ /\ t = user[u].link /\ At(t, "closed")
     /\ UNCHANGED <<task, pool, orphans, held, in_flight, tunnels, routable, up, stored>>
  \/ /\ user[u].link = 0 /\ LeastFree(t)
     /\ task' = [task EXCEPT ![t] = [FreeTask EXCEPT !.at = "gate", !.req = r]]
     /\ UNCHANGED <<pool, orphans, held, in_flight, tunnels, routable, up, stored>>

MayClaim == remaining > 0 /\ ~over

(* A user claims a request: a message, or now and then a read of the feed.   *)
Claims(u) ==
  /\ user[u].at = "claim" /\ MayClaim
  /\ remaining' = remaining - 1
  /\ LET n == user[u].n + 1
         r == Request(IF n % FeedEvery = 0 THEN "feed" ELSE "post", u, remaining')
     IN  \E t \in Tasks :
           /\ SendsOn(u, r, t)
           /\ user' = [user EXCEPT ![u] = [at |-> "wait", n |-> n, req |-> r, link |-> t]]
  /\ UNCHANGED <<over, stat, faults>>

(* The last read. *)
ReadsLast(u) ==
  /\ user[u].at = "claim" /\ ~MayClaim
  /\ LET r == Request("feed", u, Budget)
     IN  \E t \in Tasks :
           /\ SendsOn(u, r, t)
           /\ user' = [user EXCEPT ![u].at = "last", ![u].req = r, ![u].link = t]
  /\ UNCHANGED <<remaining, over, stat, faults>>

Waits(u) == user[u].at \in {"wait", "last"}

(* The user has its answer or gives up; link is the connection it keeps. *)
GoesOn(u, link) ==
  LET v == user[u]
  IN  user' = [user EXCEPT ![u] = [v EXCEPT !.at = IF v.at = "wait" THEN "claim" ELSE "done",
                                            !.req = Nothing,
                                            !.link = IF v.at = "wait" THEN link ELSE 0]]

(* The wrong form in which a failure is no error. *)
CountsFailure(u) ==
  [stat EXCEPT !.requests = @ + 1, !.ambiguous = IF user[u].req.kind = "post" THEN @ + 1 ELSE @]

(* The wrong form in which a failed message is counted like a failed read. *)
CountsFailedRead(u) == [stat EXCEPT !.requests = @ + 1, !.errors = @ + 1]

(* A failed request: whether a message of it was stored is not known.        *)
CountsError(u) ==
  [stat EXCEPT !.requests = @ + 1, !.errors = @ + 1,
               !.ambiguous = IF user[u].req.kind = "post" THEN @ + 1 ELSE @]

(* The wrong form of the test for success. *)
AnyAnswer(status) == status # 500

Good(status) == status \in 200..299

Counts(u, status) ==
  IF Good(status)
  THEN [stat EXCEPT !.requests = @ + 1, !.successes = @ + 1,
                    !.accepted = IF user[u].req.kind = "post" THEN @ \union {user[u].req} ELSE @]
  ELSE CountsError(u)

(* The connection of the user is closed from its side, with t' its new task. *)
HungUp(t) == IF task[t].at = "closed" THEN FreeTask ELSE [task[t] EXCEPT !.gone = TRUE,
                                                                        !.out = Nothing]

(* An answer.  The balancer's own errors close the connection. *)
Reads(u) ==
  LET t == user[u].link
      a == task[t].out
      closes == At(t, "closed") \/ user[u].at = "last"
  IN  /\ Waits(u) /\ a # Nothing
      /\ stat' = Counts(u, a.status)
      /\ task' = [task EXCEPT ![t] = IF closes THEN HungUp(t) ELSE [@ EXCEPT !.out = Nothing]]
      /\ GoesOn(u, IF closes THEN 0 ELSE t)
  /\ UNCHANGED <<pool, orphans, held, in_flight, tunnels, routable, up, stored, faults, remaining, over>>

(* The connection ends without an answer. *)
ReadFails(u) ==
  /\ Waits(u) /\ At(user[u].link, "closed") /\ task[user[u].link].out = Nothing
  /\ stat' = CountsError(u)
  /\ task' = [task EXCEPT ![user[u].link] = FreeTask]
  /\ GoesOn(u, 0)
  /\ UNCHANGED <<pool, orphans, held, in_flight, tunnels, routable, up, stored, faults, remaining, over>>

(* The user's patience ends, and it closes the connection. *)
TimesOut(u) ==
  /\ Waits(u) /\ Fault("timeout")
  /\ stat' = [CountsError(u) EXCEPT !.timeouts = @ + 1]
  /\ task' = [task EXCEPT ![user[u].link] = HungUp(user[u].link)]
  /\ GoesOn(u, 0)
  /\ UNCHANGED <<pool, orphans, held, in_flight, tunnels, routable, up, stored, remaining, over>>

(* stage_seconds have passed. *)
Deadline ==
  /\ ~over /\ over' = TRUE /\ Fault("deadline")
  /\ UNCHANGED <<task, pool, orphans, held, in_flight, tunnels, routable, up, stored, user,
                 remaining, stat>>

UserSteps(u) == Claims(u) \/ ReadsLast(u) \/ Reads(u) \/ ReadFails(u)

Next == \/ ProxyNext /\ UNCHANGED userVars
        \/ \E u \in Users : UserSteps(u) \/ TimesOut(u)
        \/ Deadline

Spec == Init /\ [][Next]_vars

(* A connection is opened or refused, a backend answers or the timeout ends  *)
(* the wait, and who waits at a gate gets a slot that is free now and then.  *)
Fairness == /\ \A t \in Tasks : /\ SF_vars(TaskSteps(t) /\ UNCHANGED userVars)
                                /\ WF_vars(Handles(t) /\ UNCHANGED userVars)
            /\ \A u \in Users : WF_vars(UserSteps(u))

FairSpec == Spec /\ Fairness
-----------------------------------------------------------------------------
Requests == [kind : {"post", "feed"}, user : Users, k : 0..Budget]
Answers  == [req : Requests, status : {200, 500, 502, 503}]

TypeOK ==
  /\ \A t \in Tasks :
       /\ task[t].at \in {"free", "idle", "gate", "open", "head", "relay", "closed"}
       /\ task[t].req \in Requests \union {Nothing} /\ task[t].out \in Answers \union {Nothing}
       /\ task[t].tried \subseteq Backends
       /\ task[t].conn.ins \in Seq(Requests) /\ task[t].conn.outs \in Seq(Answers)
       /\ task[t].at \in {"open", "head", "relay"} => task[t].b \in Backends
  /\ orphans \subseteq [b : Backends, req : Requests]
  /\ routable \subseteq Backends /\ up \subseteq Backends /\ stored \subseteq Requests
  /\ remaining \in 0..Budget /\ stat.accepted \subseteq Requests

Busy(at) == {t \in Tasks : task[t].at \in at}

(* A slot of a gate is held for each request that is being worked on, and    *)
(* in_flight counts the requests and tunnels at each backend, on every path  *)
(* out of handle_client.                                                     *)
CountersExact ==
  /\ \A g \in DOMAIN Slots :
       held[g] = Cardinality({t \in Busy({"open", "head", "relay"}) : Gate(t) = g})
  /\ \A b \in Backends :
       in_flight[b] = tunnels[b] + Cardinality({t \in Busy({"head", "relay"}) : task[t].b = b})

(* What a user reads is the answer to what it sent, although connections are *)
(* shared, answers come late and backends go on after the balancer gave up.  *)
AnswersMatch == \A u \in Users :
  Waits(u) /\ task[user[u].link].out # Nothing => task[user[u].link].out.req = user[u].req

(* Every message a user was answered 2xx for is stored. *)
AcceptedIsStored == stat.accepted \subseteq stored

(* Every other message that is stored is one of those reported as ambiguous, *)
(* or is still waited for, also when its user gave up and a backend stored   *)
(* it long after.                                                            *)
PostsOut == Cardinality({u \in Users : Waits(u) /\ user[u].req.kind = "post"})
StoredIsAccounted ==
  Cardinality(stored) <= Cardinality(stat.accepted) + stat.ambiguous + PostsOut

(* Every claimed request is counted once, as a success or as an error. *)
Started == Cardinality({u \in Users : user[u].at \in {"last", "done"}})
Waiting == Cardinality({u \in Users : Waits(u)})
EveryRequestCounted ==
  /\ stat.requests = stat.successes + stat.errors
  /\ stat.requests + Waiting = Budget - remaining + Started

(* Every user comes to the end of the stage, and the balancer to the end of  *)
(* its requests, also of those whose users gave up.                          *)
StageEnds == /\ \A u \in Users : <>(user[u].at = "done")
             /\ <>[](\A t \in Tasks : task[t].at \in {"free", "idle", "closed"})

(* What tasks or backends have of the messages, with what is stored.         *)
InHand == {"gate", "open", "head", "relay"}
InPlay == {r \in Requests :
             /\ r.kind = "post"
             /\ \/ r \in stored
                \/ \E o \in orphans : o.req = r
                \/ \E t \in Tasks : task[t].at \in InHand /\ task[t].req = r}

(* The stage as its users see it. *)
Hand  == [u \in Users |-> IF Waits(u) THEN {user[u].req} ELSE {}]
AtEnd == {u \in Users : user[u].at \in {"last", "done"}}

View == INSTANCE Stage WITH left <- remaining, hand <- Hand, ended <- AtEnd,
                            afloat <- InPlay \ stored,
                            successes <- stat.successes, errors <- stat.errors,
                            accepted <- stat.accepted, ambiguous <- stat.ambiguous

(* Gates, pools, retries, crashes and timeouts leave of a stage what Stage   *)
(* allows: a message is stored only while it is on its way, is never taken   *)
(* back into the budget or sent anew, and is reported once, as accepted only *)
(* if it is stored by then.                                                  *)
StageSpec == View!Spec
=============================================================================
