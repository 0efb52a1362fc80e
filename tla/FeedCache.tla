------------------------------ MODULE FeedCache ------------------------------
(***************************************************************************)
(* The feed cache of the load balancer: class FeedCache of                 *)
(* lb/loadbalancer.py, and the part of handle_client that decides whether  *)
(* a GET of the feed is answered from it.  Between two awaits the event    *)
(* loop runs nothing else, so a reader that is admitted to a generation    *)
(* is admitted in the step that found the cache fresh.                     *)
(*                                                                         *)
(* A feed is abstracted to how many messages it holds.  Every body that is *)
(* stored is a generation; g is the g-th of them.  What a backend answers  *)
(* comes from feedBrotli and the route of app/server.js: its compressed    *)
(* copy may be older than its rows, while the ETag is that of the rows.    *)
(*                                                                         *)
(* Time is abstracted: the age of the cache passes feed_cache_ms and then  *)
(* feed_stale_max_ms, the last write becomes older than feed_quiet_ms, the *)
(* last row of a backend older than FEED_QUIET_MS.  The budget counts      *)
(* generations, as if all bodies had one size.                             *)
(*                                                                         *)
(* Left out: answers in other encodings (a backend whose feed is loaded    *)
(* always answers the balancer in br), identity answers, the counters.     *)
(***************************************************************************)
EXTENDS Integers, Sequences, FiniteSets

CONSTANTS Readers,    \* clients that read the feed
          Backends,
          MaxRows,    \* messages ever written
          MaxGens,    \* bodies ever stored
          Budget,     \* generations feed_cache_generation_budget has room for
          Eager       \* rows a backend compresses at once: FEED_GZIP_EAGER

ASSUME SizesAssumption == /\ MaxRows \in Nat /\ MaxGens \in Nat
                          /\ Budget \in Nat \ {0} /\ Eager \in Nat
ASSUME SetsAssumption == IsFiniteSet(Readers) /\ IsFiniteSet(Backends)

VARIABLES log,        \* messages in the room
          rows,       \* those each backend has in its feed
          settled,    \* backends whose last row is older than FEED_QUIET_MS
          copy,       \* the rows in its compressed copy, 0 if there is none
          building,   \* the rows in the copies its thread pool is making
          busy,       \* backends that wait for the one they began
          load,       \* "busy" while REQ_GATE is, then "recent" until the last
                      \* write is feed_quiet_ms old, then "none"
          gens,       \* the bodies stored: what they hold, their ETag, and
                      \* whether they could be written to a file
          age,        \* of the cached body, gens[Len(gens)]
          live,       \* how many readers each generation has
          files,      \* generations whose file is open
          reval,      \* the revalidation in flight
          pc,         \* where each reader is
          got         \* the generation it is sent

backendVars == <<log, rows, settled, copy, building, busy>>
cacheVars   == <<gens, live, files>>
readerVars  == <<pc, got>>
vars == <<backendVars, load, cacheVars, age, reval, readerVars>>

None   == [st |-> "none"]
NoTag  == -1
Tags   == {NoTag} \union 0..MaxRows
Answer == [ver : 0..MaxRows, tag : 0..MaxRows]
Sent   == [st : {"sent"}, to : Backends, cond : Tags]
Back   == [st : {"back"}, new : {{}} \union {{a} : a \in Answer}]
Gens   == 1..Len(gens)
cur    == Len(gens)
etag   == IF cur = 0 THEN NoTag ELSE gens[cur].tag
Pinned == {g \in Gens : live[g] > 0}

Init == /\ log = 0 /\ rows = [b \in Backends |-> 0]
        /\ settled = Backends
        /\ copy = [b \in Backends |-> 0] /\ building = [b \in Backends |-> {}]
        /\ busy = {}
        /\ load = "none"
        /\ gens = << >> /\ age = "none" /\ live = << >> /\ files = {}
        /\ reval = None
        /\ pc = [r \in Readers |-> "idle"]
        /\ got = [r \in Readers |-> 0]
-----------------------------------------------------------------------------
(* The load and the backends. *)

(* Other requests take slots of the gate, or have given them all back. *)
LoadChanges ==
  /\ \/ load # "busy" /\ load' = "busy"
     \/ load = "busy" /\ load' = "recent"
     \/ load = "recent" /\ load' = "none"
  /\ UNCHANGED <<backendVars, cacheVars, age, reval, readerVars>>

(* A message is accepted; its request holds a slot. *)
Write ==
  /\ load = "busy" /\ log < MaxRows
  /\ log' = log + 1
  /\ UNCHANGED <<rows, settled, copy, building, busy, load, cacheVars, age, reval, readerVars>>

RowArrives(b) ==
  /\ rows[b] < log
  /\ rows' = [rows EXCEPT ![b] = @ + 1]
  /\ settled' = settled \ {b}
  /\ UNCHANGED <<log, copy, building, busy, load, cacheVars, age, reval, readerVars>>

Settles(b) ==
  /\ b \notin settled
  /\ settled' = settled \union {b}
  /\ UNCHANGED <<log, rows, copy, building, busy, load, cacheVars, age, reval, readerVars>>

(* The thread pool has compressed the rows of some moments ago. *)
CopyLands(b) ==
  \E n \in building[b] :
    /\ copy' = [copy EXCEPT ![b] = n]
    /\ building' = [building EXCEPT ![b] = @ \ {n}]
    /\ busy' = busy \ {b}
    /\ UNCHANGED <<log, rows, settled, load, cacheVars, age, reval, readerVars>>

(* The wrong form of the next test: a backend never counts as quiet. *)
EagerOnly(b) == rows[b] <= Eager

Exact(b) == rows[b] <= Eager \/ b \in settled

(* feedBrotli, called by the route of /feed.  A copy of as many rows as      *)
(* there are is current.  Otherwise it is made now, if that is cheap or the  *)
(* backend is quiet; if there is none yet it is begun and made now as well;  *)
(* else the previous copy is sent, and if none was begun and the last is     *)
(* FEED_GZIP_MS old a new one is begun.  One that is made now replaces the   *)
(* record of one that was begun, which lands nevertheless.                   *)
MadeNow(b) == copy' = [copy EXCEPT ![b] = rows[b]]
Begun(b)   == building' = [building EXCEPT ![b] = @ \union {rows[b]}]

FeedBrotli(b) ==
  IF copy[b] = rows[b] THEN UNCHANGED <<copy, building, busy>>
  ELSE IF Exact(b) THEN MadeNow(b) /\ busy' = busy \ {b} /\ UNCHANGED building
  ELSE IF copy[b] = 0 THEN MadeNow(b) /\ Begun(b) /\ UNCHANGED busy
  ELSE /\ UNCHANGED copy
       /\ \/ UNCHANGED <<building, busy>>
          \/ b \notin busy /\ busy' = busy \union {b} /\ Begun(b)

-----------------------------------------------------------------------------
(* The revalidation. *)

(* _revalidate has chosen a backend and sent its request. *)
Ask(b) == reval' = [st |-> "sent", to |-> b, cond |-> etag]

(* The backend answers: nothing new if the ETag is that of its rows, else    *)
(* its copy under that ETag.                                                 *)
BackendAnswers ==
  /\ reval.st = "sent"
  /\ LET b == reval.to
     IN  IF reval.cond = rows[b]
         THEN /\ reval' = [st |-> "back", new |-> {}]
              /\ UNCHANGED <<copy, building, busy>>
         ELSE /\ FeedBrotli(b)
              /\ reval' = [st |-> "back",
                           new |-> {[ver |-> copy'[b], tag |-> rows[b]]}]
  /\ UNCHANGED <<log, rows, settled, load, cacheVars, age, readerVars>>

(* The wrong form of the next definition: the task wakes one reader. *)
WakesOne == LET w == {r \in Readers : pc[r] = "waiting"}
            IN  IF w = {} THEN UNCHANGED pc
                ELSE \E r \in w : pc' = [pc EXCEPT ![r] = "woken"]

(* Every reader that waits for the task is woken when it ends. *)
Woken == pc' = [r \in Readers |-> IF pc[r] = "waiting" THEN "woken" ELSE pc[r]]

(* 304: what is cached counts as confirmed now. *)
Confirmed ==
  /\ reval.st = "back" /\ reval.new = {}
  /\ age' = "fresh"
  /\ reval' = None /\ Woken
  /\ UNCHANGED <<backendVars, load, cacheVars, got>>

(* The wrong form of the next definition: whoever reads it. *)
DropsAtOnce(g, f) == f \ {g}

(* The file of a generation that is replaced stays while someone reads it. *)
DropsUnread(g, f) == IF g # 0 /\ live[g] = 0 THEN f \ {g} ELSE f

(* 200: _store puts a new generation in the place of the old one, with its   *)
(* file if that could be written.                                            *)
Stored(opened) ==
  /\ reval.st = "back" /\ cur < MaxGens
  /\ \E a \in reval.new : gens' = Append(gens, [ver |-> a.ver, tag |-> a.tag, file |-> opened])
  /\ live' = Append(live, 0)
  /\ files' = DropsUnread(cur, files) \union (IF opened THEN {cur + 1} ELSE {})
  /\ age' = "fresh"
  /\ reval' = None /\ Woken
  /\ UNCHANGED <<backendVars, load, got>>

(* No backend, an error, a timeout, another status, or too large a body. *)
RevalidateFails ==
  /\ reval.st # "none"
  /\ reval' = None /\ Woken
  /\ UNCHANGED <<backendVars, load, cacheVars, age, got>>

Ages ==
  /\ age \in {"fresh", "stale"}
  /\ age' = IF age = "fresh" THEN "stale" ELSE "old"
  /\ UNCHANGED <<backendVars, load, cacheVars, reval, readerVars>>
-----------------------------------------------------------------------------
(* The readers. *)

(* The wrong form of the quiet test: nothing is ever quiet. *)
NeverQuiet == FALSE

(* The quiet test of handle_client; a proxied reader holds FEED_GATE. *)
quiet == load = "none" /\ \A r \in Readers : pc[r] # "proxied"

Goes(r, to) == pc' = [pc EXCEPT ![r] = to]

(* The wrong form of the next test: what is to be pinned is not counted. *)
PinnedOnly(g) == live[g] = 0 /\ Pinned # {} /\ Cardinality(Pinned) > Budget

(* Pinning g as well would cost more memory than there is. *)
OverBudget(g) == live[g] = 0 /\ Pinned # {} /\ Cardinality(Pinned) + 1 > Budget

(* take: the cached body, or the one that most readers share. *)
Takes(r) ==
  \E g \in IF OverBudget(cur)
           THEN {h \in Pinned : \A i \in Pinned : live[i] <= live[h]}
           ELSE {cur} :
    /\ live' = [live EXCEPT ![g] = @ + 1]
    /\ got' = [got EXCEPT ![r] = g]

(* The cache was found fresh: a client that takes the body's encoding is     *)
(* sent it, or a 304 if it sent the body's ETag; another one is proxied.     *)
Served(r) ==
  \/ /\ Goes(r, "reading") /\ Takes(r)
  \/ /\ Goes(r, "idle") /\ UNCHANGED <<live, got>>
  \/ /\ Goes(r, "proxied") /\ UNCHANGED <<live, got>>

(* A GET of the feed.  While all is quiet it is proxied. *)
ReadQuiet(r) ==
  /\ pc[r] = "idle" /\ quiet
  /\ Goes(r, "proxied")
  /\ UNCHANGED <<backendVars, load, cacheVars, age, reval, got>>

(* ensure_fresh, when the last confirmation is not old enough to ask again. *)
ReadFresh(r) ==
  /\ pc[r] = "idle" /\ ~quiet /\ age = "fresh"
  /\ Served(r)
  /\ UNCHANGED <<backendVars, load, gens, files, age, reval>>

(* ensure_fresh, when it is: one revalidation is begun, however many readers *)
(* come; while the body is not too old they are sent it meanwhile.           *)
Revalidates == IF reval.st = "none" THEN \E b \in Backends : Ask(b)
                                    ELSE UNCHANGED reval

ReadStale(r) ==
  /\ pc[r] = "idle" /\ ~quiet /\ age = "stale"
  /\ Revalidates /\ Served(r)
  /\ UNCHANGED <<backendVars, load, gens, files, age>>

ReadOld(r) ==
  /\ pc[r] = "idle" /\ ~quiet /\ age \in {"none", "old"}
  /\ Revalidates /\ Goes(r, "waiting")
  /\ UNCHANGED <<backendVars, load, cacheVars, age, got>>

(* ensure_fresh, after the revalidation: the body is served if it is fresh   *)
(* by now, and the reader is proxied if it is not.                           *)
WokenReads(r) ==
  /\ pc[r] = "woken"
  /\ IF age = "fresh" THEN Served(r)
                      ELSE Goes(r, "proxied") /\ UNCHANGED <<live, got>>
  /\ UNCHANGED <<backendVars, load, gens, files, age, reval>>

(* done: the last reader of a generation that was replaced drops its file. *)
Done(r) ==
  LET g == got[r]
  IN  /\ live' = [live EXCEPT ![g] = @ - 1]
      /\ files' = IF live[g] = 1 /\ g # cur THEN files \ {g} ELSE files

(* The reader has the whole body, or its connection broke; both end in done. *)
ReadEnds(r) ==
  /\ pc[r] = "reading"
  /\ Done(r)
  /\ got' = [got EXCEPT ![r] = 0]
  /\ Goes(r, "idle")
  /\ UNCHANGED <<backendVars, load, gens, age, reval>>

(* A proxied read is answered in full by a backend. *)
ProxiedAnswer(r, b) ==
  /\ pc[r] = "proxied"
  /\ FeedBrotli(b)
  /\ Goes(r, "idle")
  /\ UNCHANGED <<log, rows, settled, load, cacheVars, age, reval, got>>

(* It fails, or the client sent the backend's ETag and is told it is right. *)
ProxiedEmpty(r) ==
  /\ pc[r] = "proxied"
  /\ Goes(r, "idle")
  /\ UNCHANGED <<backendVars, load, cacheVars, age, reval, got>>

Read(r) == ReadQuiet(r) \/ ReadFresh(r) \/ ReadStale(r) \/ ReadOld(r)
Revalidation == BackendAnswers \/ Confirmed \/ (\E o \in BOOLEAN : Stored(o)) \/ RevalidateFails

Next == \/ LoadChanges \/ Write \/ Ages \/ Revalidation
        \/ \E b \in Backends : RowArrives(b) \/ Settles(b) \/ CopyLands(b)
        \/ \E r \in Readers : \/ Read(r) \/ WokenReads(r)
                              \/ ReadEnds(r)
                              \/ \E b \in Backends : ProxiedAnswer(r, b)
                              \/ ProxiedEmpty(r)

Spec == Init /\ [][Next]_vars

(* The event loop runs what is ready, a revalidation ends by its timeouts,   *)
(* and clients read what they asked for or hang up.  Every backend gets all  *)
(* rows in the end (FeedReplica) and is quiet FEED_QUIET_MS later, and its   *)
(* thread pool ends what it compresses.                                      *)
Fairness == /\ WF_vars(Revalidation)
            /\ \A b \in Backends : /\ WF_vars(RowArrives(b)) /\ WF_vars(Settles(b))
                                   /\ WF_vars(CopyLands(b))
            /\ \A r \in Readers : /\ WF_vars(WokenReads(r))
                                  /\ WF_vars(ReadEnds(r))
                                  /\ WF_vars(ProxiedEmpty(r) \/ \E b \in Backends : ProxiedAnswer(r, b))

FairSpec == Spec /\ Fairness
-----------------------------------------------------------------------------
Of(g) == {r \in Readers : pc[r] = "reading" /\ got[r] = g}

(* The cache's state is well formed. *)
TypeOK ==
  /\ log \in 0..MaxRows /\ rows \in [Backends -> 0..log] /\ settled \subseteq Backends
  /\ \A b \in Backends : copy[b] <= rows[b] /\ building[b] \subseteq 1..rows[b]
  /\ busy \subseteq Backends
  /\ cur <= MaxGens /\ gens \in Seq([ver : 0..MaxRows, tag : 0..MaxRows, file : BOOLEAN])
  /\ DOMAIN live = Gens /\ files \subseteq Gens
  /\ reval \in {None} \union Sent \union Back
  /\ age \in {"fresh", "stale", "old", "none"} /\ (age = "none" <=> cur = 0)
  /\ pc \in [Readers -> {"idle", "waiting", "woken", "reading", "proxied"}]
  /\ got \in [Readers -> {0} \union Gens]

(* A generation is held for exactly its readers, and its file is neither     *)
(* closed under one of them nor left open when neither a reader nor the      *)
(* cache needs it: what _store and done decide together, at either end.      *)
FilesFollowReaders ==
  /\ \A g \in Gens : live[g] = Cardinality(Of(g))
  /\ files = {g \in Gens : (g = cur \/ live[g] > 0) /\ gens[g].file}

(* However readers and revalidations overlap, the generations held for       *)
(* readers stay within the budget (one is always allowed).                   *)
PinnedWithinBudget == Cardinality(Pinned) <= Budget

(* "Once the load stops [...] the next feed read is proxied to a backend,    *)
(* and it is authoritative": if in the end no request is under way but one   *)
(* read of the feed at a time, then in the end every body that is sent holds *)
(* every message.  (A read that overlaps another finds FEED_GATE busy and    *)
(* may be sent a cached body that lags.)                                     *)
FullAnswer(r, n) == \/ ReadEnds(r) /\ n = gens[got[r]].ver
                    \/ \E b \in Backends : ProxiedAnswer(r, b) /\ n = copy'[b]

OneAtATime == load = "none" /\ \A q, r \in Readers : pc[q] = "idle" \/ pc[r] = "idle" \/ q = r

EventuallyAuthoritative ==
  <>[]OneAtATime => <>[][\A r \in Readers : \A n \in 0..(log - 1) : ~FullAnswer(r, n)]_vars

(* What the comment of ensure_fresh says of a 304, "the answer we serve was  *)
(* confirmed current": the cached body is what the backend has.  It does not *)
(* hold: the body may be an older copy under the ETag of the rows.           *)
ConfirmedCurrent == [][Confirmed => gens[cur].ver = gens[cur].tag]_vars

(* Every read of the feed ends: nobody waits for a revalidation that is over. *)
EveryReadEnds == \A r \in Readers : pc[r] # "idle" ~> pc[r] = "idle"
=============================================================================
