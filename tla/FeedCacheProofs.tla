-------------------------- MODULE FeedCacheProofs --------------------------
(***************************************************************************)
(* Proofs about FeedCache, for any number of readers, backends, rows and   *)
(* generations and any budget: whose files are open and what is pinned.    *)
(***************************************************************************)
EXTENDS FeedCache, FiniteSetTheorems, SequenceTheorems, TLAPS

(* What the backends have. *)
BackendInv ==
  /\ log \in 0..MaxRows /\ rows \in [Backends -> 0..log] /\ settled \subseteq Backends
  /\ copy \in [Backends -> Nat] /\ building \in [Backends -> SUBSET Nat]
  /\ \A b \in Backends : copy[b] <= rows[b] /\ building[b] \subseteq 1..rows[b]
  /\ busy \subseteq Backends

Body == [ver : 0..MaxRows, tag : 0..MaxRows, file : BOOLEAN]

(* The generations and their readers. *)
GensInv ==
  /\ gens \in Seq(Body) /\ cur <= MaxGens /\ live \in Seq(Nat) /\ Len(live) = cur
  /\ pc \in [Readers -> {"idle", "waiting", "woken", "reading", "proxied"}]
  /\ got \in [Readers -> {0} \union Gens]
  /\ \A r \in Readers : pc[r] = "reading" => got[r] \in Gens

AgeInv == age \in {"fresh", "stale", "old", "none"} /\ (age = "none" <=> cur = 0)

CacheInv == GensInv /\ AgeInv /\ FilesFollowReaders /\ PinnedWithinBudget

(* A backend says "not modified" only of a body that the cache has. *)
RevalInv ==
  /\ reval \in {None} \union Sent \union Back
  /\ reval.st = "sent" /\ reval.cond # NoTag => cur > 0
  /\ reval.st = "back" /\ reval.new = {} => cur > 0

IInv == BackendInv /\ CacheInv /\ RevalInv

-----------------------------------------------------------------------------
LEMMA GensAre ==
  ASSUME GensInv
  PROVE  /\ cur \in Nat /\ Gens = 1..cur /\ DOMAIN live = Gens /\ live \in [Gens -> Nat]
         /\ gens \in [Gens -> Body]
         /\ IsFiniteSet(Gens) /\ IsFiniteSet(Pinned) /\ Cardinality(Pinned) \in Nat
         /\ \A g : IsFiniteSet(Of(g)) /\ Cardinality(Of(g)) \in Nat
<1>1. /\ cur \in Nat /\ Gens = 1..cur /\ DOMAIN live = Gens /\ live \in [Gens -> Nat]
      /\ gens \in [Gens -> Body]
  BY LenProperties DEF GensInv, Gens, cur
<1>2. IsFiniteSet(Gens)
  BY <1>1, FS_Interval
<1>3. IsFiniteSet(Pinned) /\ Cardinality(Pinned) \in Nat
  BY <1>2, FS_Subset, FS_CardinalityType DEF Pinned
<1>4. \A g : IsFiniteSet(Of(g)) /\ Cardinality(Of(g)) \in Nat
  BY SetsAssumption, FS_Subset, FS_CardinalityType DEF Of
<1> QED
  BY <1>1, <1>2, <1>3, <1>4

(* A step after which the same readers read the same generations. *)
LEMMA SameReaders ==
  ASSUME CacheInv, UNCHANGED <<gens, live, files, got>>,
         pc' \in [Readers -> {"idle", "waiting", "woken", "reading", "proxied"}],
         \A r \in Readers : pc'[r] = "reading" <=> pc[r] = "reading",
         AgeInv'
  PROVE  CacheInv'
<1>0. cur' = cur /\ Gens' = Gens
  BY DEF cur, Gens
<1>1. GensInv'
  BY <1>0 DEF CacheInv, GensInv
<1>2. \A g : Of(g)' = Of(g)
  BY DEF Of, CacheInv, GensInv
<1>3. FilesFollowReaders'
  BY <1>0, <1>2 DEF CacheInv, FilesFollowReaders
<1>4. PinnedWithinBudget'
  <2>1. Pinned' = Pinned
    BY <1>0 DEF Pinned
  <2> QED
    BY <2>1 DEF CacheInv, PinnedWithinBudget
<1> QED
  BY <1>1, <1>3, <1>4 DEF CacheInv

LEMMA PcIs == ASSUME CacheInv
              PROVE  pc \in [Readers -> {"idle", "waiting", "woken", "reading", "proxied"}]
  BY DEF CacheInv, GensInv

LEMMA SameCache ==
  ASSUME CacheInv, UNCHANGED <<gens, live, files, got, pc, age>>
  PROVE  CacheInv'
<1>1. AgeInv'
  BY DEF CacheInv, AgeInv, cur
<1> QED
  BY <1>1, PcIs, SameReaders

LEMMA ReaderGoes ==
  ASSUME CacheInv, UNCHANGED <<gens, live, files, got, age>>, NEW r \in Readers,
         pc[r] # "reading", NEW to \in {"idle", "waiting", "woken", "proxied"}, Goes(r, to)
  PROVE  CacheInv'
<1>1. AgeInv'
  BY DEF CacheInv, AgeInv, cur
<1>2. /\ pc' \in [Readers -> {"idle", "waiting", "woken", "reading", "proxied"}]
      /\ \A q \in Readers : pc'[q] = "reading" <=> pc[q] = "reading"
  BY PcIs DEF Goes
<1> QED
  BY <1>1, <1>2, SameReaders

LEMMA AllWoken ==
  ASSUME CacheInv, UNCHANGED <<gens, live, files, got>>, Woken, AgeInv'
  PROVE  CacheInv'
<1>1. /\ pc' \in [Readers -> {"idle", "waiting", "woken", "reading", "proxied"}]
      /\ \A q \in Readers : pc'[q] = "reading" <=> pc[q] = "reading"
  BY PcIs DEF Woken
<1> QED
  BY <1>1, SameReaders

(* A reader takes the cached body, or one that is read already if another    *)
(* one pinned would be too many.                                             *)
LEMMA TakesKeeps ==
  ASSUME CacheInv, NEW r \in Readers, pc[r] # "reading", Goes(r, "reading"), Takes(r),
         age # "none", UNCHANGED <<gens, files, age>>
  PROVE  CacheInv'
<1> USE GensAre DEF CacheInv
<1>1. PICK g \in IF OverBudget(cur)
                 THEN {h \in Pinned : \A i \in Pinned : live[i] <= live[h]}
                 ELSE {cur} :
        live' = [live EXCEPT ![g] = @ + 1] /\ got' = [got EXCEPT ![r] = g]
  BY DEF Takes
<1>0. cur' = cur /\ Gens' = Gens
  BY DEF cur, Gens
<1>2. /\ cur \in Nat /\ Gens = 1..cur /\ live \in [Gens -> Nat] /\ gens' = gens
      /\ gens \in [Gens -> Body] /\ pc' = [pc EXCEPT ![r] = "reading"]
      /\ got \in [Readers -> {0} \union Gens] /\ pc \in [Readers -> {"idle", "waiting", "woken", "reading", "proxied"}]
  BY DEF GensInv, Goes
<1>3. cur > 0
  BY <1>2 DEF AgeInv
<1>4. g \in Gens /\ (g = cur \/ live[g] > 0)
  BY <1>1, <1>2, <1>3 DEF Pinned
<1>5. /\ Gens' = Gens /\ live' \in [Gens -> Nat]
      /\ live'[g] = live[g] + 1 /\ \A h \in Gens : h # g => live'[h] = live[h]
  BY <1>0, <1>1, <1>2, <1>4
<1>6. GensInv'
  <2>1. live' \in Seq(Nat) /\ Len(live') = cur
    BY <1>1, <1>2, <1>4, ExceptSeq DEF GensInv
  <2>2. /\ got' \in [Readers -> {0} \union Gens]
        /\ \A q \in Readers : got'[q] = IF q = r THEN g ELSE got[q]
    BY <1>1, <1>2, <1>4
  <2>3. /\ pc' \in [Readers -> {"idle", "waiting", "woken", "reading", "proxied"}]
        /\ \A q \in Readers : pc'[q] = IF q = r THEN "reading" ELSE pc[q]
    BY <1>2
  <2>4. \A q \in Readers : pc'[q] = "reading" => got'[q] \in Gens
    BY <1>4, <2>2, <2>3 DEF GensInv
  <2> QED
    BY <1>0, <1>2, <2>1, <2>2, <2>3, <2>4 DEF GensInv
<1>7. ASSUME NEW h \in Gens
      PROVE  live'[h] = Cardinality(Of(h)')
  <2>1. live[h] = Cardinality(Of(h)) /\ IsFiniteSet(Of(h))
    BY DEF FilesFollowReaders
  <2>2. CASE h = g
    <3>1. Of(h)' = Of(h) \union {r} /\ r \notin Of(h)
      BY <1>1, <1>2, <2>2 DEF Of
    <3>2. Cardinality(Of(h)') = Cardinality(Of(h)) + 1
      BY <2>1, <3>1, FS_AddElement
    <3> QED
      BY <1>5, <2>1, <2>2, <3>2
  <2>3. CASE h # g
    <3>1. Of(h)' = Of(h)
      BY <1>1, <1>2, <2>3 DEF Of
    <3> QED
      BY <1>5, <2>1, <2>3, <3>1
  <2> QED
    BY <2>2, <2>3
<1>8. FilesFollowReaders'
  <2>1. files = {h \in Gens : (h = cur \/ live[h] > 0) /\ gens[h].file}
    BY DEF FilesFollowReaders
  <2>2. \A h \in Gens : (h = cur \/ live[h] > 0) <=> (h = cur \/ live'[h] > 0)
    BY <1>2, <1>4, <1>5
  <2>3. files' = {h \in Gens' : (h = cur' \/ live'[h] > 0) /\ gens'[h].file}
    BY <1>0, <1>2, <2>1, <2>2
  <2> QED
    BY <1>0, <1>7, <2>3 DEF FilesFollowReaders
<1>9. PinnedWithinBudget'
  <2>1. /\ IsFiniteSet(Pinned) /\ Cardinality(Pinned) \in Nat
        /\ Cardinality(Pinned) <= Budget /\ Budget \in Nat \ {0}
    BY SizesAssumption DEF PinnedWithinBudget
  <2>2. Pinned' = Pinned \union {g}
    BY <1>2, <1>4, <1>5 DEF Pinned
  <2>3. CASE live[g] > 0
    <3>1. Pinned' = Pinned
      BY <1>4, <2>2, <2>3 DEF Pinned
    <3> QED
      BY <2>1, <3>1 DEF PinnedWithinBudget
  <2>4. CASE live[g] = 0
    <3>1. g = cur /\ g \notin Pinned /\ ~OverBudget(cur)
      BY <1>1, <1>2, <1>4, <2>4 DEF Pinned
    <3>2. Cardinality(Pinned') = Cardinality(Pinned) + 1
      BY <2>1, <2>2, <3>1, FS_AddElement
    <3>3. Pinned = {} \/ Cardinality(Pinned) + 1 <= Budget
      BY <2>1, <2>4, <3>1 DEF OverBudget
    <3> QED
      BY <2>1, <3>2, <3>3, FS_EmptySet DEF PinnedWithinBudget
  <2> QED
    BY <1>2, <1>4, <2>3, <2>4
<1>10. AgeInv'
  BY <1>0 DEF AgeInv
<1> QED
  BY <1>6, <1>8, <1>9, <1>10

LEMMA ReadEndsKeeps ==
  ASSUME CacheInv, NEW r \in Readers, ReadEnds(r)
  PROVE  CacheInv'
<1> USE GensAre DEF CacheInv
<1> DEFINE g == got[r]
<1>1. /\ pc[r] = "reading" /\ pc' = [pc EXCEPT ![r] = "idle"] /\ got' = [got EXCEPT ![r] = 0]
      /\ live' = [live EXCEPT ![g] = @ - 1] /\ gens' = gens /\ age' = age
      /\ files' = IF live[g] = 1 /\ g # cur THEN files \ {g} ELSE files
  BY DEF ReadEnds, Done, Goes
<1>0. cur' = cur /\ Gens' = Gens
  BY <1>1 DEF cur, Gens
<1>2. /\ cur \in Nat /\ Gens = 1..cur /\ live \in [Gens -> Nat] /\ g \in Gens
      /\ gens \in [Gens -> Body]
      /\ got \in [Readers -> {0} \union Gens] /\ pc \in [Readers -> {"idle", "waiting", "woken", "reading", "proxied"}]
  BY <1>1 DEF GensInv
<1>3. r \in Of(g) /\ live[g] = Cardinality(Of(g)) /\ IsFiniteSet(Of(g))
  BY <1>1, <1>2 DEF Of, FilesFollowReaders
<1>4. live[g] > 0
  BY <1>2, <1>3, FS_EmptySet
<1>5. /\ Gens' = Gens /\ live' \in [Gens -> Nat]
      /\ live'[g] = live[g] - 1 /\ \A h \in Gens : h # g => live'[h] = live[h]
  BY <1>0, <1>1, <1>2, <1>4
<1>6. GensInv'
  <2>1. live' \in Seq(Nat) /\ Len(live') = cur
    <3>1. live[g] - 1 \in Nat
      BY <1>2, <1>4
    <3> QED
      BY <1>1, <1>2, <3>1, ExceptSeq DEF GensInv
  <2>2. /\ got' \in [Readers -> {0} \union Gens]
        /\ \A q \in Readers : got'[q] = IF q = r THEN 0 ELSE got[q]
    BY <1>1, <1>2
  <2>3. /\ pc' \in [Readers -> {"idle", "waiting", "woken", "reading", "proxied"}]
        /\ \A q \in Readers : pc'[q] = IF q = r THEN "idle" ELSE pc[q]
    BY <1>1, <1>2
  <2>4. \A q \in Readers : pc'[q] = "reading" => got'[q] \in Gens
    BY <2>2, <2>3 DEF GensInv
  <2> QED
    BY <1>0, <1>1, <2>1, <2>2, <2>3, <2>4 DEF GensInv
<1>7. ASSUME NEW h \in Gens
      PROVE  live'[h] = Cardinality(Of(h)')
  <2>1. live[h] = Cardinality(Of(h)) /\ IsFiniteSet(Of(h))
    BY DEF FilesFollowReaders
  <2>2. CASE h = g
    <3>1. Of(h)' = Of(h) \ {r}
      BY <1>1, <1>2, <2>2 DEF Of
    <3> QED
      BY <1>3, <1>5, <2>1, <2>2, <3>1, FS_RemoveElement
  <2>3. CASE h # g
    <3>1. Of(h)' = Of(h)
      BY <1>1, <1>2, <2>3 DEF Of
    <3> QED
      BY <1>5, <2>1, <2>3, <3>1
  <2> QED
    BY <2>2, <2>3
<1>8. FilesFollowReaders'
  <2>1. files = {h \in Gens : (h = cur \/ live[h] > 0) /\ gens[h].file}
    BY DEF FilesFollowReaders
  <2>2. \A h \in Gens : h # g => ((h = cur \/ live[h] > 0) <=> (h = cur \/ live'[h] > 0))
    BY <1>5
  <2>3. files' = {h \in Gens : (h = cur \/ live'[h] > 0) /\ gens[h].file}
    <3>1. CASE live[g] = 1 /\ g # cur
      <4>1. files' = files \ {g} /\ ~(g = cur \/ live'[g] > 0)
        BY <1>1, <1>2, <1>5, <3>1
      <4> QED
        BY <2>1, <2>2, <4>1
    <3>2. CASE ~(live[g] = 1 /\ g # cur)
      <4>1. files' = files /\ (g = cur \/ live'[g] > 0) /\ (g = cur \/ live[g] > 0)
        BY <1>1, <1>2, <1>4, <1>5, <3>2
      <4> QED
        BY <2>1, <2>2, <4>1
    <3> QED
      BY <3>1, <3>2
  <2> QED
    BY <1>0, <1>1, <1>7, <2>3 DEF FilesFollowReaders
<1>9. PinnedWithinBudget'
  <2>1. Pinned' \subseteq Pinned
    BY <1>2, <1>4, <1>5 DEF Pinned
  <2>2. Cardinality(Pinned') <= Cardinality(Pinned) /\ Cardinality(Pinned') \in Nat
    BY <2>1, FS_Subset, FS_CardinalityType
  <2> QED
    BY <2>2, SizesAssumption DEF PinnedWithinBudget
<1>10. AgeInv'
  BY <1>0, <1>1 DEF AgeInv
<1> QED
  BY <1>6, <1>8, <1>9, <1>10


(* A new body: the one before it keeps its file only while it is read. *)
LEMMA StoredKeeps ==
  ASSUME CacheInv, RevalInv, NEW opened \in BOOLEAN, Stored(opened)
  PROVE  CacheInv'
<1> USE GensAre DEF CacheInv
<1>1. PICK a \in reval.new : gens' = Append(gens, [ver |-> a.ver, tag |-> a.tag, file |-> opened])
  BY DEF Stored
<1> DEFINE body == [ver |-> a.ver, tag |-> a.tag, file |-> opened]
<1>2. /\ cur < MaxGens /\ gens' = Append(gens, body) /\ live' = Append(live, 0)
      /\ files' = DropsUnread(cur, files) \union (IF opened THEN {cur + 1} ELSE {})
      /\ age' = "fresh" /\ got' = got /\ reval.st = "back" /\ Woken
  BY <1>1 DEF Stored
<1>3. body \in Body /\ body.file = opened
  <2>1. reval \in Back
    BY <1>2 DEF RevalInv, None, Sent
  <2>2. a \in Answer
    BY <1>1, <2>1 DEF Back
  <2> QED
    BY <2>2 DEF Body, Answer
<1> HIDE DEF body
<1>4. /\ cur \in Nat /\ Gens = 1..cur /\ live \in [Gens -> Nat] /\ gens \in [Gens -> Body]
      /\ gens \in Seq(Body) /\ Len(gens) = cur /\ live \in Seq(Nat) /\ Len(live) = cur
      /\ got \in [Readers -> {0} \union Gens]
      /\ pc \in [Readers -> {"idle", "waiting", "woken", "reading", "proxied"}]
  BY DEF GensInv, cur
<1>5. /\ gens' \in Seq(Body) /\ Len(gens') = cur + 1 /\ gens'[cur + 1] = body
      /\ \A h \in Gens : gens'[h] = gens[h]
  BY <1>2, <1>3, <1>4, AppendProperties
<1>6. /\ live' \in Seq(Nat) /\ Len(live') = cur + 1 /\ live'[cur + 1] = 0
      /\ \A h \in Gens : live'[h] = live[h]
  BY <1>2, <1>4, AppendProperties
<1>7. cur' = cur + 1 /\ Gens' = 1..(cur + 1) /\ Gens' = Gens \union {cur + 1} /\ cur + 1 \notin Gens
  <2>1. cur' = cur + 1
    BY <1>5 DEF cur
  <2>2. Gens' = 1..(cur + 1)
    BY <1>5 DEF Gens
  <2> QED
    BY <1>4, <2>1, <2>2
<1>8. /\ pc' \in [Readers -> {"idle", "waiting", "woken", "reading", "proxied"}]
      /\ \A q \in Readers : pc'[q] = "reading" <=> pc[q] = "reading"
  BY <1>2, <1>4 DEF Woken
<1>9. GensInv'
  <2>1. got' \in [Readers -> {0} \union Gens']
    BY <1>2, <1>4, <1>7
  <2>2. \A q \in Readers : pc'[q] = "reading" => got'[q] \in Gens'
    BY <1>2, <1>7, <1>8 DEF GensInv
  <2>3. cur' <= MaxGens
    BY <1>2, <1>4, <1>7, SizesAssumption
  <2> QED
    BY <1>5, <1>6, <1>7, <1>8, <2>1, <2>2, <2>3 DEF GensInv
<1>10. ASSUME NEW h \in Gens'
       PROVE  live'[h] = Cardinality(Of(h)')
  <2>1. CASE h \in Gens
    <3>1. Of(h)' = Of(h)
      BY <1>2, <1>8 DEF Of
    <3> QED
      BY <1>6, <2>1, <3>1 DEF FilesFollowReaders
  <2>2. CASE h = cur + 1
    <3>1. Of(h)' = {}
      BY <1>2, <1>4, <1>7, <1>8, <2>2 DEF Of, GensInv
    <3> QED
      BY <1>6, <2>2, <3>1, FS_EmptySet
  <2> QED
    BY <1>7, <2>1, <2>2
<1>11. files' = {h \in Gens' : (h = cur' \/ live'[h] > 0) /\ gens'[h].file}
  <2>1. files = {h \in Gens : (h = cur \/ live[h] > 0) /\ gens[h].file}
    BY DEF FilesFollowReaders
  <2>2. DropsUnread(cur, files) = {h \in Gens : live[h] > 0 /\ gens[h].file}
    <3>1. CASE cur = 0
      BY <1>4, <2>1, <3>1 DEF DropsUnread
    <3>2. CASE cur # 0
      <4>1. cur \in Gens /\ live[cur] \in Nat
        BY <1>4, <3>2
      <4>2. CASE live[cur] = 0
        BY <1>4, <2>1, <3>2, <4>1, <4>2 DEF DropsUnread
      <4>3. CASE live[cur] > 0
        BY <1>4, <2>1, <3>2, <4>1, <4>3 DEF DropsUnread
      <4> QED
        BY <4>1, <4>2, <4>3
    <3> QED
      BY <3>1, <3>2
  <2>3. \A h \in Gens : ((h = cur' \/ live'[h] > 0) /\ gens'[h].file)
                           <=> (live[h] > 0 /\ gens[h].file)
    BY <1>4, <1>5, <1>6, <1>7
  <2>4. ((cur + 1 = cur' \/ live'[cur + 1] > 0) /\ gens'[cur + 1].file) <=> opened
    BY <1>3, <1>5, <1>7
  <2> HIDE DEF body
  <2> QED
    BY <1>2, <1>7, <2>2, <2>3, <2>4
<1>12. FilesFollowReaders'
  BY <1>10, <1>11 DEF FilesFollowReaders
<1>13. PinnedWithinBudget'
  <2>1. Pinned' = Pinned
    BY <1>6, <1>7 DEF Pinned
  <2> QED
    BY <2>1 DEF PinnedWithinBudget
<1>14. AgeInv'
  BY <1>2, <1>4, <1>7 DEF AgeInv
<1> QED
  BY <1>9, <1>12, <1>13, <1>14

LEMMA ServedKeeps ==
  ASSUME CacheInv, NEW r \in Readers, pc[r] # "reading", Served(r), age # "none",
         UNCHANGED <<gens, files, age>>
  PROVE  CacheInv'
<1>1. CASE Goes(r, "reading") /\ Takes(r)
  BY <1>1, TakesKeeps
<1>2. CASE (Goes(r, "idle") \/ Goes(r, "proxied")) /\ UNCHANGED <<live, got>>
  BY <1>2, ReaderGoes
<1> QED
  BY <1>1, <1>2 DEF Served

(* Whoever runs, the files follow the readers and the pins stay in the budget. *)
LEMMA CacheKeeps ==
  ASSUME IInv, [Next]_vars
  PROVE  CacheInv'
<1>1. CacheInv /\ RevalInv
  BY DEF IInv
<1>2. ASSUME \/ LoadChanges \/ Write \/ BackendAnswers \/ UNCHANGED vars
             \/ \E b \in Backends : RowArrives(b) \/ Settles(b) \/ CopyLands(b)
      PROVE  CacheInv'
  <2>1. UNCHANGED <<gens, live, files, got, pc, age>>
    BY <1>2 DEF LoadChanges, Write, BackendAnswers, vars, RowArrives, Settles, CopyLands,
                cacheVars, readerVars
  <2> QED
    BY <1>1, <2>1, SameCache
<1>3. CASE Ages
  <2>1. /\ UNCHANGED <<gens, live, files, got, pc>> /\ age \in {"fresh", "stale"}
        /\ age' \in {"stale", "old"}
    BY <1>3 DEF Ages, cacheVars, readerVars
  <2>2. AgeInv'
    BY <1>1, <2>1 DEF CacheInv, AgeInv, cur
  <2> QED
    BY <1>1, <2>1, <2>2, PcIs, SameReaders
<1>4. CASE Confirmed
  <2>1. /\ UNCHANGED <<gens, live, files, got>> /\ age' = "fresh" /\ Woken
        /\ reval.st = "back" /\ reval.new = {}
    BY <1>4 DEF Confirmed, cacheVars
  <2>2. AgeInv'
    BY <1>1, <2>1 DEF AgeInv, RevalInv, cur
  <2> QED
    BY <1>1, <2>1, <2>2, AllWoken
<1>5. CASE RevalidateFails
  <2>1. UNCHANGED <<gens, live, files, got, age>> /\ Woken
    BY <1>5 DEF RevalidateFails, cacheVars
  <2>2. AgeInv'
    BY <1>1, <2>1 DEF CacheInv, AgeInv, cur
  <2> QED
    BY <1>1, <2>1, <2>2, AllWoken
<1>6. ASSUME NEW o \in BOOLEAN, Stored(o)
      PROVE  CacheInv'
  BY <1>1, <1>6, StoredKeeps
<1>7. ASSUME NEW r \in Readers, Read(r)
      PROVE  CacheInv'
  <2>1. CASE ReadQuiet(r)
    BY <1>1, <2>1, ReaderGoes DEF ReadQuiet, cacheVars
  <2>2. CASE ReadFresh(r)
    BY <1>1, <2>2, ServedKeeps DEF ReadFresh
  <2>3. CASE ReadStale(r)
    BY <1>1, <2>3, ServedKeeps DEF ReadStale
  <2>4. CASE ReadOld(r)
    BY <1>1, <2>4, ReaderGoes DEF ReadOld, cacheVars
  <2> QED
    BY <1>7, <2>1, <2>2, <2>3, <2>4 DEF Read
<1>8. ASSUME NEW r \in Readers, WokenReads(r)
      PROVE  CacheInv'
  <2>1. CASE age = "fresh"
    BY <1>1, <1>8, <2>1, ServedKeeps DEF WokenReads
  <2>2. CASE age # "fresh"
    BY <1>1, <1>8, <2>2, ReaderGoes DEF WokenReads
  <2> QED
    BY <2>1, <2>2
<1>9. ASSUME NEW r \in Readers, ReadEnds(r)
      PROVE  CacheInv'
  BY <1>1, <1>9, ReadEndsKeeps
<1>10. ASSUME NEW r \in Readers, ProxiedEmpty(r) \/ \E b \in Backends : ProxiedAnswer(r, b)
       PROVE  CacheInv'
  <2>1. pc[r] = "proxied" /\ Goes(r, "idle") /\ UNCHANGED <<gens, live, files, got, age>>
    BY <1>10 DEF ProxiedEmpty, ProxiedAnswer, cacheVars
  <2> QED
    BY <1>1, <2>1, ReaderGoes
<1> QED
  BY <1>2, <1>3, <1>4, <1>5, <1>6, <1>7, <1>8, <1>9, <1>10 DEF Next, Revalidation

-----------------------------------------------------------------------------
(* The backends: a copy holds no more than the rows.                         *)
LEMMA FeedBrotliGives ==
  ASSUME BackendInv, NEW b \in Backends, FeedBrotli(b), UNCHANGED <<log, rows, settled>>
  PROVE  BackendInv' /\ copy'[b] \in 0..rows[b]
<1>1. /\ log \in Nat /\ rows[b] \in Nat /\ copy[b] \in Nat /\ copy[b] <= rows[b]
      /\ copy \in [Backends -> Nat] /\ building \in [Backends -> SUBSET Nat]
      /\ rows \in [Backends -> 0..log] /\ busy \subseteq Backends
  BY SizesAssumption DEF BackendInv
<1>2. /\ \/ copy' = copy
         \/ copy' = [copy EXCEPT ![b] = rows[b]]
      /\ \/ building' = building
         \/ building' = [building EXCEPT ![b] = @ \union {rows[b]}] /\ copy[b] # rows[b]
      /\ busy' \subseteq Backends
  BY <1>1 DEF FeedBrotli, MadeNow, Begun
<1>3. /\ copy' \in [Backends -> Nat] /\ \A c \in Backends : copy'[c] <= rows[c]
      /\ copy'[b] \in 0..rows[b]
  <2>1. CASE copy' = copy
    BY <1>1, <2>1 DEF BackendInv
  <2>2. CASE copy' = [copy EXCEPT ![b] = rows[b]]
    BY <1>1, <2>2 DEF BackendInv
  <2> QED
    BY <1>2, <2>1, <2>2
<1>4. /\ building' \in [Backends -> SUBSET Nat]
      /\ \A c \in Backends : building'[c] \subseteq 1..rows[c]
  <2>1. CASE building' = building
    BY <1>1, <2>1 DEF BackendInv
  <2>2. CASE building' = [building EXCEPT ![b] = @ \union {rows[b]}] /\ copy[b] # rows[b]
    <3>1. rows[b] \in 1..rows[b]
      BY <1>1, <2>2
    <3>2. \A c \in Backends : building'[c] = IF c = b THEN building[b] \union {rows[b]}
                                                     ELSE building[c]
      BY <1>1, <2>2
    <3>3. building' \in [Backends -> SUBSET Nat]
      BY <1>1, <2>2
    <3> QED
      BY <3>1, <3>2, <3>3 DEF BackendInv
  <2> QED
    BY <1>2, <2>1, <2>2
<1> QED
  BY <1>2, <1>3, <1>4 DEF BackendInv

LEMMA BackendsKeep ==
  ASSUME IInv, [Next]_vars
  PROVE  BackendInv'
<1>1. /\ BackendInv /\ RevalInv /\ log \in 0..MaxRows /\ MaxRows \in Nat
      /\ rows \in [Backends -> 0..log]
      /\ copy \in [Backends -> Nat] /\ building \in [Backends -> SUBSET Nat]
  BY SizesAssumption DEF IInv, BackendInv
<1>2. CASE UNCHANGED backendVars
  BY <1>1, <1>2 DEF backendVars, BackendInv
<1>3. CASE Write
  <2>1. /\ log < MaxRows /\ log' = log + 1
        /\ UNCHANGED <<rows, settled, copy, building, busy>>
    BY <1>3 DEF Write
  <2>2. log' \in 0..MaxRows /\ rows' \in [Backends -> 0..log']
    BY <1>1, <2>1
  <2> QED
    BY <1>1, <2>1, <2>2 DEF BackendInv
<1>4. ASSUME NEW b \in Backends, RowArrives(b)
      PROVE  BackendInv'
  <2>1. /\ rows[b] < log /\ rows' = [rows EXCEPT ![b] = @ + 1] /\ settled' = settled \ {b}
        /\ UNCHANGED <<log, copy, building, busy>>
    BY <1>4 DEF RowArrives
  <2>2. rows' \in [Backends -> 0..log] /\ \A c \in Backends : rows[c] \in Nat /\ rows[c] <= rows'[c]
    BY <1>1, <2>1
  <2>3. \A c \in Backends : rows'[c] \in Nat
    BY <1>1, <2>2
  <2>4. \A c \in Backends : copy[c] <= rows'[c] /\ building[c] \subseteq 1..rows'[c]
    <3> SUFFICES ASSUME NEW c \in Backends
                 PROVE  copy[c] <= rows'[c] /\ building[c] \subseteq 1..rows'[c]
      OBVIOUS
    <3>1. /\ copy[c] <= rows[c] /\ building[c] \subseteq 1..rows[c] /\ copy[c] \in Nat
          /\ rows[c] \in Nat /\ rows'[c] \in Nat /\ rows[c] <= rows'[c]
      BY <1>1, <2>2, <2>3 DEF BackendInv
    <3> QED
      BY <3>1
  <2> QED
    BY <1>1, <2>1, <2>2, <2>4 DEF BackendInv
<1>5. ASSUME NEW b \in Backends, Settles(b)
      PROVE  BackendInv'
  BY <1>1, <1>5 DEF Settles, BackendInv
<1>6. ASSUME NEW b \in Backends, CopyLands(b)
      PROVE  BackendInv'
  <2>1. PICK n \in building[b] :
          /\ copy' = [copy EXCEPT ![b] = n]
          /\ building' = [building EXCEPT ![b] = @ \ {n}] /\ busy' = busy \ {b}
          /\ UNCHANGED <<log, rows, settled>>
    BY <1>6 DEF CopyLands
  <2>2. n \in Nat /\ n <= rows[b]
    BY <1>1 DEF BackendInv
  <2>3. /\ copy' \in [Backends -> Nat] /\ building' \in [Backends -> SUBSET Nat]
        /\ \A c \in Backends : copy'[c] <= rows[c] /\ building'[c] \subseteq 1..rows[c]
    BY <1>1, <2>1, <2>2 DEF BackendInv
  <2> QED
    BY <1>1, <2>1, <2>3 DEF BackendInv
<1>7. CASE BackendAnswers
  <2>1. reval.st = "sent" /\ UNCHANGED <<log, rows, settled>>
        /\ (FeedBrotli(reval.to) \/ UNCHANGED <<copy, building, busy>>)
    BY <1>7 DEF BackendAnswers
  <2>2. reval.to \in Backends
    BY <1>1, <2>1 DEF RevalInv, None, Sent, Back
  <2>3. CASE FeedBrotli(reval.to)
    BY <1>1, <2>1, <2>2, <2>3, FeedBrotliGives
  <2>4. CASE UNCHANGED <<copy, building, busy>>
    BY <1>2, <2>1, <2>4 DEF backendVars
  <2> QED
    BY <2>1, <2>3, <2>4
<1>8. ASSUME NEW r \in Readers, NEW b \in Backends, ProxiedAnswer(r, b)
      PROVE  BackendInv'
  BY <1>1, <1>8, FeedBrotliGives DEF ProxiedAnswer
<1>9. ASSUME NEW r \in Readers, Read(r) \/ WokenReads(r) \/ ReadEnds(r) \/ ProxiedEmpty(r)
      PROVE  UNCHANGED backendVars
  BY <1>9 DEF Read, ReadQuiet, ReadFresh, ReadStale, ReadOld, WokenReads, ReadEnds, ProxiedEmpty
<1>10. ASSUME LoadChanges \/ Ages \/ Confirmed \/ RevalidateFails \/ UNCHANGED vars
              \/ \E o \in BOOLEAN : Stored(o)
       PROVE  UNCHANGED backendVars
  BY <1>10 DEF LoadChanges, Ages, Confirmed, RevalidateFails, vars, Stored
<1> QED
  BY <1>2, <1>3, <1>4, <1>5, <1>6, <1>7, <1>8, <1>9, <1>10 DEF Next, Revalidation

LEMMA RevalKeeps ==
  ASSUME IInv, [Next]_vars
  PROVE  RevalInv'
<1>1. /\ BackendInv /\ CacheInv /\ RevalInv /\ BackendInv' /\ CacheInv'
      /\ log \in 0..MaxRows /\ MaxRows \in Nat
  BY BackendsKeep, CacheKeeps, SizesAssumption DEF IInv, BackendInv
<1>2. None.st = "none"
  BY DEF None
<1>3. CASE reval' = None
  BY <1>2, <1>3 DEF RevalInv
<1>4. CASE UNCHANGED <<reval, gens>>
  BY <1>1, <1>4 DEF RevalInv, cur
<1>5. ASSUME NEW b \in Backends, Ask(b), UNCHANGED gens
      PROVE  RevalInv'
  <2>1. etag \in Tags /\ (etag # NoTag => cur > 0)
    <3>1. CASE cur = 0
      BY <3>1 DEF etag, Tags
    <3>2. CASE cur # 0
      <4>1. cur \in 1..Len(gens) /\ gens \in Seq(Body)
        BY <1>1, <3>2, LenProperties DEF CacheInv, GensInv, cur
      <4>2. gens[cur] \in Body
        BY <4>1, ElementOfSeq
      <4> QED
        BY <3>2, <4>1, <4>2 DEF etag, Tags, Body, cur
    <3> QED
      BY <3>1, <3>2
  <2>2. reval' = [st |-> "sent", to |-> b, cond |-> etag]
    BY <1>5 DEF Ask
  <2>3. reval' \in Sent /\ reval'.st = "sent" /\ reval'.cond = etag
    BY <2>1, <2>2 DEF Sent
  <2> QED
    BY <1>5, <2>1, <2>3 DEF RevalInv, cur
<1>6. CASE BackendAnswers
  <2> DEFINE b == reval.to
  <2>1. reval.st = "sent" /\ gens' = gens /\ UNCHANGED <<log, rows, settled>>
    BY <1>6 DEF BackendAnswers, cacheVars
  <2>2. b \in Backends /\ (reval.cond # NoTag => cur > 0)
    BY <1>1, <2>1 DEF RevalInv, None, Sent, Back
  <2>3. rows[b] \in 0..MaxRows /\ rows[b] # NoTag
    BY <1>1, <2>2 DEF BackendInv, NoTag
  <2>4. CASE reval.cond = rows[b]
    <3>1. reval' = [st |-> "back", new |-> {}] /\ cur' > 0
      BY <1>6, <2>1, <2>2, <2>3, <2>4 DEF BackendAnswers, cur
    <3>2. reval' \in Back /\ reval'.st = "back"
      BY <3>1 DEF Back
    <3> QED
      BY <3>1, <3>2 DEF RevalInv
  <2>5. CASE reval.cond # rows[b]
    <3>1. /\ FeedBrotli(b)
          /\ reval' = [st |-> "back", new |-> {[ver |-> copy'[b], tag |-> rows[b]]}]
      BY <1>6, <2>5 DEF BackendAnswers
    <3>2. copy'[b] \in 0..rows[b]
      BY <1>1, <2>1, <2>2, <3>1, FeedBrotliGives
    <3>3. [ver |-> copy'[b], tag |-> rows[b]] \in Answer
      BY <1>1, <2>3, <3>2 DEF Answer
    <3>4. reval' \in Back /\ reval'.st = "back" /\ reval'.new # {}
      BY <3>1, <3>3 DEF Back
    <3> QED
      BY <3>4 DEF RevalInv
  <2> QED
    BY <2>4, <2>5
<1>7. ASSUME NEW r \in Readers, Read(r)
      PROVE  gens' = gens /\ (reval' = reval \/ \E b \in Backends : Ask(b))
  BY <1>7 DEF Read, ReadQuiet, ReadFresh, ReadStale, ReadOld, Revalidates, cacheVars
<1>8. ASSUME NEW r \in Readers, \/ WokenReads(r) \/ ReadEnds(r) \/ ProxiedEmpty(r)
                                \/ \E b \in Backends : ProxiedAnswer(r, b)
      PROVE  UNCHANGED <<reval, gens>>
  BY <1>8 DEF WokenReads, ReadEnds, ProxiedEmpty, ProxiedAnswer, cacheVars
<1>9. ASSUME \/ LoadChanges \/ Write \/ Ages \/ UNCHANGED vars
             \/ \E b \in Backends : RowArrives(b) \/ Settles(b) \/ CopyLands(b)
      PROVE  UNCHANGED <<reval, gens>>
  BY <1>9 DEF LoadChanges, Write, Ages, vars, RowArrives, Settles, CopyLands, cacheVars
<1>10. ASSUME Confirmed \/ RevalidateFails \/ \E o \in BOOLEAN : Stored(o)
       PROVE  reval' = None
  BY <1>10 DEF Confirmed, RevalidateFails, Stored
<1> QED
  BY <1>3, <1>4, <1>5, <1>6, <1>7, <1>8, <1>9, <1>10 DEF Next, Revalidation

-----------------------------------------------------------------------------
LEMMA InitIInv == Init => IInv
<1> SUFFICES ASSUME Init
             PROVE  IInv
  OBVIOUS
<1> USE SizesAssumption DEF Init
<1>1. BackendInv
  BY DEF BackendInv
<1>2. cur = 0 /\ Gens = {}
  BY DEF cur, Gens
<1>3. GensInv
  BY <1>2, EmptySeq DEF GensInv
<1>4. FilesFollowReaders
  BY <1>2 DEF FilesFollowReaders
<1>5. Pinned = {}
  BY <1>2 DEF Pinned
<1>6. PinnedWithinBudget
  BY <1>5, FS_EmptySet DEF PinnedWithinBudget
<1>7. CacheInv
  BY <1>2, <1>3, <1>4, <1>6 DEF CacheInv, AgeInv
<1>8. RevalInv
  BY DEF RevalInv, None
<1> QED
  BY <1>1, <1>7, <1>8 DEF IInv

(* Every reachable state satisfies the inductive invariant. *)
THEOREM Invariant == Spec => []IInv
<1>1. IInv /\ [Next]_vars => IInv'
  BY CacheKeeps, BackendsKeep, RevalKeeps DEF IInv
<1> QED
  BY <1>1, InitIInv, PTL DEF Spec

(* Every variable has its type; a copy holds no more than the rows, and the  *)
(* cache has an age exactly when it has a body.                              *)
THEOREM TypeCorrect == Spec => []TypeOK
<1>1. IInv => TypeOK
  <2> SUFFICES ASSUME IInv
               PROVE  TypeOK
    OBVIOUS
  <2>1. DOMAIN live = Gens /\ GensInv /\ files \subseteq Gens
    BY GensAre DEF IInv, CacheInv, FilesFollowReaders
  <2> QED
    BY <2>1 DEF IInv, BackendInv, CacheInv, GensInv, AgeInv, RevalInv, TypeOK, Body
<1> QED
  BY <1>1, Invariant, PTL

(* _store and done agree on whose file is closed, in whatever order readers  *)
(* end and bodies are replaced: none is closed under a reader, none leaks.   *)
THEOREM FilesAreRight == Spec => []FilesFollowReaders
<1>1. IInv => FilesFollowReaders
  BY DEF IInv, CacheInv
<1> QED
  BY <1>1, Invariant, PTL

(* However many readers hold bodies that were replaced since, the cache pins *)
(* no more generations than its budget.                                      *)
THEOREM PinsAreBounded == Spec => []PinnedWithinBudget
<1>1. IInv => PinnedWithinBudget
  BY DEF IInv, CacheInv
<1> QED
  BY <1>1, Invariant, PTL
=============================================================================
