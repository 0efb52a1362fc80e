------------------------------- MODULE Proxy -------------------------------
(***************************************************************************)
(* A request on its way through lb/loadbalancer.py: handle_client, one     *)
(* task for each client connection, with the slots of the gates, the       *)
(* choice of a backend and the pooled connections to the backends.  Who    *)
(* sends the requests is in LoadTest.                                      *)
(*                                                                         *)
(* A step of a task runs from one await to the next.  Requests are small:  *)
(* they are written without waiting, and the gates let them in in any      *)
(* order (Bulkhead has the queue).  The balancer picks any routable        *)
(* backend (Selector) and the counting of failures is left open: eject_now *)
(* ejects or not, and a probe readmits what serves (Membership).           *)
(*                                                                         *)
(* A backend answers what it read from a connection in order.  It may      *)
(* crash, answer 500, refuse a connection, or close an idle one while the  *)
(* next request is on its way.  MaxFaults bounds what Faulty names.        *)
(*                                                                         *)
(* Left out: the answers from the feed cache (FeedCache) and of /lb/       *)
(* (Membership, Config); requests that are cut off or malformed, which     *)
(* close the connection before the gate; answers without Content-Length,   *)
(* which last until the backend closes; POOL_MAX; the access log (Config). *)
(***************************************************************************)
EXTENDS Integers, Sequences, FiniteSets

CONSTANTS Backends,
          Tasks,                \* 1..n; enough of them that none is missing
          Slots,                \* of REQ_GATE ("post") and FEED_GATE ("feed")
          MaxFaults, Faulty,
          Nothing               \* no request, answer or backend

ASSUME IdsAssumption == IsFiniteSet(Tasks) /\ Tasks = 1..Cardinality(Tasks)
ASSUME SlotsAssumption == Slots \in [{"post", "feed"} -> Nat \ {0}] /\ MaxFaults \in Nat

VARIABLES task,      \* where each is, its request, backend, connection to it, tried,
                     \* and what is written to the client; gone: the client hung up
          pool,      \* idle connections to each backend, the next one to use first
          orphans,   \* requests a backend works on whose connection is closed
          held,      \* _held of the gates
          in_flight,
          tunnels,   \* open WebSocket tunnels to each backend
          routable, up,
          stored,    \* messages the service has stored
          faults

proxyVars == <<task, pool, orphans, held, in_flight, tunnels, routable, up, stored, faults>>

NewConn  == [ins |-> << >>, outs |-> << >>, eof |-> FALSE]
FreeTask == [at |-> "free", req |-> Nothing, b |-> Nothing, conn |-> NewConn, tried |-> {},
             out |-> Nothing, gone |-> FALSE]
Answer(r, s) == [req |-> r, status |-> s]

ProxyInit == /\ task = [t \in Tasks |-> FreeTask]
             /\ pool = [b \in Backends |-> << >>] /\ orphans = {}
             /\ held = [g \in DOMAIN Slots |-> 0]
             /\ in_flight = [b \in Backends |-> 0]
             /\ tunnels = in_flight
             /\ up \in {{}, Backends} /\ routable \in {up, Backends}
             /\ stored = {} /\ faults = 0

Fault(what) == what \in Faulty /\ faults < MaxFaults /\ faults' = faults + 1

At(t, where) == task[t].at = where

(* The first connection of a pool that is not known to be closed. *)
FirstOpen(p) == {i \in DOMAIN p : ~p[i].eof /\ \A j \in 1..(i - 1) : p[j].eof}

(* What is left at the backend of a connection that the balancer closes. *)
Left(b, c) == {[b |-> b, req |-> c.ins[i]] : i \in DOMAIN c.ins}

(* The wrong form that returns the connection to the pool. *)
PoolsIt(t) ==
  /\ pool' = [pool EXCEPT ![task[t].b] = Append(@, task[t].conn)]
  /\ UNCHANGED orphans

(* close_writer: the backend still works on what it has read. *)
ClosesConn(t) ==
  /\ orphans' = orphans \union Left(task[t].b, task[t].conn)
  /\ UNCHANGED pool

Ended(t) == [task[t] EXCEPT !.req = Nothing, !.b = Nothing, !.conn = NewConn, !.tried = {}]

(* The task writes this to its client, if any, and closes the connection. *)
ClosedTask(t, out) ==
  IF task[t].gone THEN FreeTask ELSE [Ended(t) EXCEPT !.at = "closed", !.out = out]

Gate(t) == task[t].req.kind

(* The wrong form in which a request that found no backend keeps its slot. *)
KeptSlot(t, h) == h

(* finally: gate.release(). *)
Released(t, h) == [h EXCEPT ![Gate(t)] = @ - 1]
-----------------------------------------------------------------------------
(* The task waits in read_head, and the client has read the last answer. *)
ReadsHead(t) == At(t, "idle") /\ ~task[t].gone /\ task[t].out = Nothing

(* The head and the body of a request are there. *)
Receives(t, r) ==
  /\ ReadsHead(t)
  /\ task' = [task EXCEPT ![t].at = "gate", ![t].req = r]
  /\ UNCHANGED <<pool, orphans, held, in_flight, tunnels, routable, up, stored>>

(* The loop that picks a backend and gets a connection to it: 503 if there   *)
(* is none; a pooled connection that is not known to be closed; or one that  *)
(* has to be opened, when the pool has no such connection.  h is held.       *)
PicksNone(t, tried, from, h) ==
  /\ from \subseteq tried
  /\ task' = [task EXCEPT ![t] = ClosedTask(t, Answer(task[t].req, 503))]
  /\ held' = Released(t, h)
  /\ UNCHANGED <<pool, in_flight>>

PicksPooled(t, tried, from, h) ==
  \E b \in from \ tried : \E i \in FirstOpen(pool[b]) :
    /\ pool' = [pool EXCEPT ![b] = SubSeq(@, i + 1, Len(@))]
    /\ task' = [task EXCEPT ![t].at = "head", ![t].b = b, ![t].tried = tried,
                            ![t].conn = [pool[b][i] EXCEPT !.ins = Append(@, task[t].req)]]
    /\ in_flight' = [in_flight EXCEPT ![b] = @ + 1]
    /\ held' = h

PicksNew(t, tried, from, h) ==
  \E b \in from \ tried :
    /\ FirstOpen(pool[b]) = {}
    /\ pool' = [pool EXCEPT ![b] = << >>]
    /\ task' = [task EXCEPT ![t].at = "open", ![t].b = b, ![t].tried = tried]
    /\ held' = h /\ UNCHANGED in_flight

Picks(t, tried, from, h) ==
  PicksNone(t, tried, from, h) \/ PicksPooled(t, tried, from, h) \/ PicksNew(t, tried, from, h)

(* gate.acquire has returned. *)
Admitted(t) ==
  /\ At(t, "gate") /\ held[Gate(t)] < Slots[Gate(t)]
  /\ Picks(t, {}, routable, [held EXCEPT ![Gate(t)] = @ + 1])
  /\ UNCHANGED <<orphans, tunnels, routable, up, stored, faults>>

(* open_connection, in get_upstream. *)
Opens(t) ==
  /\ At(t, "open") /\ task[t].b \in up
  /\ task' = [task EXCEPT ![t].at = "head", ![t].conn.ins = <<task[t].req>>]
  /\ in_flight' = [in_flight EXCEPT ![task[t].b] = @ + 1]
  /\ UNCHANGED <<pool, orphans, held, tunnels, routable, up, stored, faults>>

(* eject_now, for a failure before the head: never the last routable one. *)
Ejects(b) == routable' \in {routable, IF routable = {b} THEN routable ELSE routable \ {b}}

OpenFails(t) ==
  /\ At(t, "open")
  /\ \/ task[t].b \notin up /\ UNCHANGED faults
     \/ task[t].b \in up /\ Fault("refuse")
  /\ Ejects(task[t].b)
  /\ Picks(t, task[t].tried \union {task[t].b}, routable', held)
  /\ UNCHANGED <<orphans, tunnels, up, stored>>

(* The head of the answer is there and goes to the client; no 502 from here. *)
HeadArrives(t) ==
  /\ At(t, "head") /\ task[t].conn.outs # << >>
  /\ task' = [task EXCEPT ![t].at = "relay"]
  /\ UNCHANGED <<pool, orphans, held, in_flight, tunnels, routable, up, stored, faults>>

(* The wrong form in which the early end of an answer is not counted. *)
StaysCounted(t) == UNCHANGED in_flight

LeavesBackend(t) == in_flight' = [in_flight EXCEPT ![task[t].b] = @ - 1]

(* relay_body has copied Content-Length bytes: the connection is pooled,     *)
(* unless the backend wants it closed or the pool has POOL_MAX, and the      *)
(* client may send its next request.                                         *)
BodyEnds(t) ==
  /\ At(t, "relay")
  /\ \/ pool' = [pool EXCEPT ![task[t].b] = Append(@, [task[t].conn EXCEPT !.outs = Tail(@)])]
     \/ UNCHANGED pool
  /\ task' = [task EXCEPT ![t] = [Ended(t) EXCEPT !.at = "idle",
                !.out = IF task[t].gone THEN Nothing ELSE Head(task[t].conn.outs)]]
  /\ held' = Released(t, held) /\ LeavesBackend(t)
  /\ UNCHANGED <<orphans, tunnels, routable, up, stored, faults>>

(* The answer does not come in time or at all, or its body is cut off, or    *)
(* the client is gone when it is written: 502 if nothing was written yet.    *)
UpstreamFails(t) ==
  LET c == task[t].conn
  IN  /\ \/ At(t, "head") /\ c.eof /\ c.outs = << >> /\ UNCHANGED faults
         \/ At(t, "relay") /\ (c.eof \/ task[t].gone) /\ UNCHANGED faults
         \/ (At(t, "head") \/ At(t, "relay")) /\ Fault("late")
      /\ IF At(t, "head") THEN Ejects(task[t].b) ELSE UNCHANGED routable
      /\ task' = [task EXCEPT ![t] =
           ClosedTask(t, IF At(t, "head") THEN Answer(task[t].req, 502) ELSE Nothing)]
      /\ ClosesConn(t)
      /\ held' = Released(t, held) /\ LeavesBackend(t)
      /\ UNCHANGED <<tunnels, up, stored>>

(* keepalive_idle_s pass without a request. *)
IdleCloses(t) ==
  /\ ReadsHead(t) /\ Fault("idle")
  /\ task' = [task EXCEPT ![t] = ClosedTask(t, Nothing)]
  /\ UNCHANGED <<pool, orphans, held, in_flight, tunnels, routable, up, stored>>

(* The end of the stream from a client that hung up. *)
SeesHangup(t) ==
  /\ At(t, "idle") /\ task[t].gone
  /\ task' = [task EXCEPT ![t] = FreeTask]
  /\ UNCHANGED <<pool, orphans, held, in_flight, tunnels, routable, up, stored, faults>>

(* A WebSocket client: it passes no gate, and counts as one in flight until  *)
(* both directions of pump have ended.                                       *)
TunnelOpens(b) ==
  /\ b \in routable \intersect up /\ Fault("tunnel")
  /\ tunnels' = [tunnels EXCEPT ![b] = @ + 1]
  /\ in_flight' = [in_flight EXCEPT ![b] = @ + 1]
  /\ UNCHANGED <<task, pool, orphans, held, routable, up, stored>>

TunnelEnds(b) ==
  /\ tunnels[b] > 0
  /\ tunnels' = [tunnels EXCEPT ![b] = @ - 1]
  /\ in_flight' = [in_flight EXCEPT ![b] = @ - 1]
  /\ UNCHANGED <<task, pool, orphans, held, routable, up, stored, faults>>
-----------------------------------------------------------------------------
(* The backends.  A message that is answered 200 is stored (MessageStore);   *)
(* one that is answered 500 may be stored or not.                            *)

Works(r) == stored' = IF r.kind = "post" THEN stored \union {r} ELSE stored

Handles(t) ==
  /\ task[t].conn.ins # << >>
  /\ LET c == task[t].conn
         r == Head(c.ins)
     IN  \E s \in {200, 500} :
           /\ \/ s = 200 /\ Works(r) /\ UNCHANGED faults
              \/ s = 500 /\ (Works(r) \/ UNCHANGED stored) /\ Fault("error")
           /\ task' = [task EXCEPT ![t].conn = [c EXCEPT !.ins = Tail(@),
                                                        !.outs = Append(@, Answer(r, s))]]
  /\ UNCHANGED <<pool, orphans, held, in_flight, tunnels, routable, up>>

HandlesOrphan(o) ==
  /\ Works(o.req)
  /\ orphans' = orphans \ {o}
  /\ UNCHANGED <<task, pool, held, in_flight, tunnels, routable, up, faults>>

Eof(c) == [c EXCEPT !.eof = TRUE, !.ins = << >>]

(* keepAliveTimeout: the backend closes a connection on which it sees no     *)
(* request, also when one is on its way.                                     *)
PeerCloses(b) ==
  /\ \/ \E i \in DOMAIN pool[b] : ~pool[b][i].eof /\ pool' = [pool EXCEPT ![b][i] = Eof(@)]
                                 /\ UNCHANGED task
     \/ \E t \in Tasks : /\ At(t, "head") /\ task[t].b = b /\ task[t].conn.ins # << >>
                         /\ task' = [task EXCEPT ![t].conn = Eof(@)]
                         /\ UNCHANGED pool
  /\ Fault("close")
  /\ UNCHANGED <<orphans, held, in_flight, tunnels, routable, up, stored>>

Crashes(b) ==
  /\ b \in up /\ Fault("crash")
  /\ up' = up \ {b}
  /\ task' = [t \in Tasks |-> IF At(t, "head") \/ At(t, "relay")
                              THEN IF task[t].b = b THEN [task[t] EXCEPT !.conn = Eof(@)]
                                                    ELSE task[t]
                              ELSE task[t]]
  /\ pool' = [pool EXCEPT ![b] = [i \in DOMAIN @ |-> Eof(@[i])]]
  /\ orphans' = {o \in orphans : o.b # b}
  /\ UNCHANGED <<held, in_flight, tunnels, routable, stored>>

Restarts(b) ==
  /\ b \notin up /\ Fault("restart")
  /\ up' = up \union {b}
  /\ UNCHANGED <<task, pool, orphans, held, in_flight, tunnels, routable, stored>>

Readmits(b) ==
  /\ b \in up \ routable
  /\ routable' = routable \union {b}
  /\ UNCHANGED <<task, pool, orphans, held, in_flight, tunnels, up, stored, faults>>
-----------------------------------------------------------------------------
TaskSteps(t) == \/ Admitted(t) \/ Opens(t) \/ OpenFails(t) \/ HeadArrives(t) \/ BodyEnds(t)
                \/ UpstreamFails(t) \/ SeesHangup(t)

ProxyNext == \/ \E t \in Tasks : TaskSteps(t) \/ IdleCloses(t)
             \/ \E t \in Tasks : Handles(t)
             \/ \E o \in orphans : HandlesOrphan(o)
             \/ \E b \in Backends : \/ PeerCloses(b) \/ TunnelOpens(b) \/ TunnelEnds(b) \/ Crashes(b)
                                    \/ Restarts(b) \/ Readmits(b)
=============================================================================
