---------------------------- MODULE ConfigProofs ----------------------------
(***************************************************************************)
(* Proofs about Config, for any file, any backends that register, and any  *)
(* number of edits, calls, signals and lines: no registration is lost to a *)
(* reload, no tuned value to a reload that knows of it, and no line of the *)
(* access log is lost or written twice.                                    *)
(***************************************************************************)
EXTENDS Config, SequenceTheorems, TLAPS

Places == {"rest", "load", "stamp", "lock", "swap", "close", "open",
           "held", "disk", "truncate", "dump", "noted"}
Entries == Ids \X {"config", "register"}

(* LB.lock is held by whoever is between what it guards. *)
LockInv ==
  /\ at \in [Reloaders -> Places] /\ lock \in Reloaders \union {None}
  /\ \A t \in Reloaders : at[t] = "swap" => lock = t
  /\ at["loop"] = "held" => lock = "loop"

(* No id twice, and what registered is in the list that is about to be swapped in. *)
OneEach(S) == \A b, c \in S : b[1] = c[1] => b = c

MembersInv ==
  /\ backends \subseteq Entries /\ fresh \in [Reloaders -> SUBSET Entries]
  /\ OneEach(backends) /\ \A t \in Reloaders : OneEach(fresh[t])
  /\ \A t \in Reloaders : at[t] = "swap" =>
       \A b \in Ids : <<b, "register">> \in backends =>
         \E s \in {"config", "register"} : <<b, s>> \in fresh[t]

(* Unless the file is being rewritten or was left broken, it has the latest  *)
(* tuned value, and nobody read a later one.                                 *)
Rewriting == at["loop"] \in {"disk", "truncate", "dump"}

FileInv ==
  /\ file \in [rev : Revs, tuned : 0..MaxCalls, whole : BOOLEAN, mtime : Nat]
  /\ cfg \in Contents /\ read \in [Reloaders -> Contents]
  /\ mtime \in 0..file.mtime /\ calls \in 0..MaxCalls
  /\ op \in Registers \union {"tune", None} /\ dead \subseteq Flushers \union {"scan"}
  /\ file.tuned <= calls /\ cfg.tuned <= calls
  /\ \A t \in Reloaders : read[t].tuned <= calls
  /\ at["loop"] \in {"truncate", "dump"} => read["loop"].tuned = calls
  /\ file.whole /\ ~Rewriting => /\ cfg.tuned <= file.tuned
                                 /\ \A t \in Reloaders : read[t].tuned <= file.tuned

LogInv ==
  /\ log_open \in BOOLEAN /\ logged \in 0..MaxLines
  /\ log_buf \in Seq(Nat) /\ written \in Seq(Nat)
  /\ LinesWrittenOnce

IInv == LockInv /\ MembersInv /\ FileInv /\ LogInv

-----------------------------------------------------------------------------
(* Who is where. *)
LEMMA GoesGives ==
  ASSUME LockInv, NEW t \in Reloaders, NEW from, NEW to \in Places, Goes(t, from, to)
  PROVE  /\ at' \in [Reloaders -> Places] /\ at[t] = from
         /\ \A s \in Reloaders : at'[s] = IF s = t THEN to ELSE at[s]
  BY DEF LockInv, Goes

LEMMA LockKeeps ==
  ASSUME LockInv, [Next]_vars
  PROVE  LockInv'
<1> USE DEF Places
<1>1. /\ at \in [Reloaders -> Places] /\ lock \in Reloaders \union {None}
      /\ {"loop", "hup", "scan"} = Reloaders /\ None \notin Reloaders
  BY DEF LockInv, Reloaders, None
<1>2. ASSUME NEW t \in Reloaders,
             NEW from, NEW to \in Places \ {"swap", "held"}, from \notin {"swap", "held"},
             Goes(t, from, to), UNCHANGED lock
      PROVE  LockInv'
  BY <1>1, <1>2, GoesGives DEF LockInv
<1>3. ASSUME NEW t \in Reloaders, MakesList(t)
      PROVE  LockInv'
  <2>1. Goes(t, "lock", "swap") /\ lock = None /\ lock' = t
    BY <1>3 DEF MakesList, Acquires
  <2> QED
    BY <1>1, <2>1, GoesGives DEF LockInv
<1>4. ASSUME NEW t \in Reloaders, Swaps(t)
      PROVE  LockInv'
  <2>1. Goes(t, "swap", "close") /\ lock' = None
    BY <1>4 DEF Swaps, Releases, LockInv, Goes
  <2> QED
    BY <1>1, <2>1, GoesGives DEF LockInv
<1>5. ASSUME NEW what, LoopLocks(what)
      PROVE  LockInv'
  <2>1. Goes("loop", "rest", "held") /\ lock = None /\ lock' = "loop"
    BY <1>5 DEF LoopLocks, Acquires
  <2> QED
    BY <1>1, <2>1, GoesGives DEF LockInv
<1>6. ASSUME Tunes \/ \E b \in Registers : Adds(b)
      PROVE  LockInv'
  <2>1. PICK to \in {"rest", "disk"} : Goes("loop", "held", to) /\ lock' = None
    BY <1>6 DEF Tunes, Adds, Releases, LockInv, Goes
  <2> QED
    BY <1>1, <2>1, GoesGives DEF LockInv
<1>7. ASSUME NEW t \in Reloaders, LoadRaises(t)
      PROVE  LockInv'
  <2>1. /\ lock' = lock /\ at[t] = "load" /\ at' \in [Reloaders -> Places]
        /\ \A s \in Reloaders : at'[s] \in {"rest", at[s]}
    BY <1>1, <1>7 DEF LoadRaises
  <2> QED
    BY <1>1, <2>1 DEF LockInv
<1>8. ASSUME NEW t \in Reloaders, LoadsFile(t) \/ Stamps(t) \/ ClosesLog(t) \/ OpensLog(t)
      PROVE  LockInv'
  <2>1. PICK from \in {"load", "stamp", "close", "open"}, to \in {"stamp", "lock", "open", "rest"} :
          Goes(t, from, to) /\ UNCHANGED lock
    BY <1>8 DEF LoadsFile, Stamps, ClosesLog, OpensLog
  <2> QED
    BY <1>2, <2>1
<1>9. ASSUME LoadsDisk \/ Truncates \/ Dumps \/ Notes \/ ReloadAsked
      PROVE  LockInv'
  <2>1. PICK from \in {"disk", "truncate", "dump", "noted", "rest"},
             to \in {"truncate", "dump", "noted", "rest", "load"} :
          Goes("loop", from, to) /\ UNCHANGED lock
    BY <1>9 DEF LoadsDisk, Truncates, Dumps, Notes, ReloadAsked
  <2> QED
    BY <1>1, <1>2, <2>1
<1>10. CASE Watches
  BY <1>1, <1>2, <1>10 DEF Watches
<1>11. CASE Hangup
  BY <1>1, <1>2, <1>11 DEF Hangup
<1>12. ASSUME Edits \/ Logs \/ UNCHANGED vars \/ \E t \in Flushers : Flushes(t)
       PROVE  LockInv'
  <2>1. UNCHANGED <<at, lock>>
    BY <1>12 DEF Edits, Logs, vars, Flushes
  <2> QED
    BY <2>1 DEF LockInv
<1> QED
  BY <1>1, <1>3, <1>4, <1>5, <1>6, <1>7, <1>8, <1>9, <1>10, <1>11, <1>12
  DEF Next, LoopGoesOn, Reloads
-----------------------------------------------------------------------------
(* The members of the pool. *)
MembersStep == UNCHANGED <<backends, fresh>>
               /\ \A t \in Reloaders : at'[t] = "swap" => at[t] = "swap"

LEMMA MembersSame == ASSUME MembersInv, MembersStep
                     PROVE  MembersInv'
  BY DEF MembersInv, MembersStep, OneEach

LEMMA MembersFit ==
  ASSUME MembersInv, NEW r \in Revs
  PROVE  /\ Members(r) \subseteq Entries /\ OneEach(Members(r))
         /\ \A b \in Ids : <<b, "register">> \in backends =>
              \E s \in {"config", "register"} : <<b, s>> \in Members(r)
<1>1. /\ InFile[r] \subseteq Ids /\ backends \subseteq Ids \X {"config", "register"}
      /\ \A b, c \in backends : b[1] = c[1] => b = c
  BY DEF MembersInv, Entries, OneEach, Ids
<1>2. Members(r) \subseteq Ids \X {"config", "register"}
  BY <1>1 DEF Members
<1>3. ASSUME NEW b \in Members(r), NEW c \in Members(r), b[1] = c[1]
      PROVE  b = c
  <2>1. CASE b[1] \in InFile[r]
    <3>1. b \in InFile[r] \X {"config"} /\ c \in InFile[r] \X {"config"}
      BY <1>3, <2>1 DEF Members
    <3> QED
      BY <1>3, <3>1
  <2>2. CASE b[1] \notin InFile[r]
    <3>1. b \in backends /\ c \in backends
      BY <1>3, <2>2 DEF Members
    <3> QED
      BY <1>1, <1>3, <3>1
  <2> QED
    BY <2>1, <2>2
<1>4. ASSUME NEW b \in Ids, <<b, "register">> \in backends
      PROVE  \E s \in {"config", "register"} : <<b, s>> \in Members(r)
  <2>1. CASE b \in InFile[r]
    <3>1. <<b, "config">> \in Members(r)
      BY <2>1 DEF Members
    <3> QED
      BY <3>1
  <2>2. CASE b \notin InFile[r]
    <3>1. <<b, "register">>[1] = b /\ <<b, "register">>[2] = "register"
      OBVIOUS
    <3>2. <<b, "register">> \in Members(r)
      BY <1>4, <2>2, <3>1 DEF Members
    <3> QED
      BY <3>2
  <2> QED
    BY <2>1, <2>2
<1> QED
  BY <1>2, <1>3, <1>4 DEF Entries, OneEach

LEMMA MembersKeep ==
  ASSUME IInv, [Next]_vars
  PROVE  MembersInv'
<1>1. /\ MembersInv /\ LockInv /\ LockInv' /\ at \in [Reloaders -> Places]
      /\ {"loop", "hup", "scan"} = Reloaders /\ None \notin Reloaders
      /\ backends \subseteq Entries /\ fresh \in [Reloaders -> SUBSET Entries]
  BY LockKeeps DEF IInv, MembersInv, LockInv, Reloaders, None
<1>2. ASSUME NEW t \in Reloaders, NEW from, NEW to \in Places \ {"swap"},
             Goes(t, from, to), UNCHANGED <<backends, fresh>>
      PROVE  MembersInv'
  <2>1. MembersStep
    BY <1>1, <1>2, GoesGives DEF MembersStep
  <2> QED
    BY <1>1, <2>1, MembersSame
<1>3. ASSUME NEW t \in Reloaders, MakesList(t)
      PROVE  MembersInv'
  <2> DEFINE M == Members(read[t].rev)
  <2>1. /\ Goes(t, "lock", "swap") /\ fresh' = [fresh EXCEPT ![t] = M] /\ backends' = backends
    BY <1>3 DEF MakesList
  <2>2. read[t].rev \in Revs
    BY DEF IInv, FileInv, Contents
  <2>3. /\ M \subseteq Entries /\ OneEach(M)
        /\ \A b \in Ids : <<b, "register">> \in backends =>
             \E s \in {"config", "register"} : <<b, s>> \in M
    BY <1>1, <2>2, MembersFit
  <2> HIDE DEF M
  <2>4. /\ fresh' \in [Reloaders -> SUBSET Entries]
        /\ \A s \in Reloaders : fresh'[s] = IF s = t THEN M ELSE fresh[s]
    BY <1>1, <2>1, <2>3
  <2>5. \A s \in Reloaders : at'[s] = "swap" => s = t \/ at[s] = "swap"
    BY <1>1, <2>1, GoesGives DEF Places
  <2>6. \A s \in Reloaders : at'[s] = "swap" =>
          \A b \in Ids : <<b, "register">> \in backends' =>
            \E q \in {"config", "register"} : <<b, q>> \in fresh'[s]
    <3> SUFFICES ASSUME NEW s \in Reloaders, at'[s] = "swap", NEW b \in Ids,
                        <<b, "register">> \in backends
                 PROVE  \E q \in {"config", "register"} : <<b, q>> \in fresh'[s]
      BY <2>1
    <3>1. CASE s = t
      BY <2>3, <2>4, <3>1
    <3>2. CASE s # t
      <4>1. at[s] = "swap" /\ fresh'[s] = fresh[s]
        BY <2>4, <2>5, <3>2
      <4> QED
        BY <1>1, <4>1 DEF MembersInv
    <3> QED
      BY <3>1, <3>2
  <2>7. OneEach(backends') /\ \A s \in Reloaders : OneEach(fresh'[s])
    <3>1. OneEach(backends) /\ \A s \in Reloaders : OneEach(fresh[s])
      BY <1>1 DEF MembersInv
    <3>2. OneEach(backends')
      BY <2>1, <3>1
    <3>3. \A s \in Reloaders : OneEach(fresh'[s])
      BY <2>3, <2>4, <3>1
    <3> QED
      BY <3>2, <3>3
  <2> QED
    BY <1>1, <2>1, <2>4, <2>6, <2>7 DEF MembersInv, OneEach
<1>4. ASSUME NEW t \in Reloaders, Swaps(t)
      PROVE  MembersInv'
  <2>1. /\ Goes(t, "swap", "close") /\ backends' = fresh[t]
        /\ fresh' = [fresh EXCEPT ![t] = {}]
    BY <1>4 DEF Swaps
  <2>2. \A s \in Reloaders : at'[s] # "swap"
    BY <1>1, <2>1, GoesGives DEF LockInv, Places
  <2>3. /\ fresh[t] \subseteq Entries /\ OneEach(fresh[t])
        /\ fresh' \in [Reloaders -> SUBSET Entries] /\ \A s \in Reloaders : OneEach(fresh'[s])
    BY <1>1, <2>1 DEF MembersInv, OneEach
  <2> QED
    BY <2>1, <2>2, <2>3 DEF MembersInv, OneEach
<1>5. ASSUME NEW b \in Registers, Adds(b)
      PROVE  MembersInv'
  <2>1. /\ Goes("loop", "held", "rest") /\ fresh' = fresh
        /\ backends' = IF Registered(b) THEN backends ELSE backends \union {<<b, "register">>}
    BY <1>5 DEF Adds
  <2>2. \A s \in Reloaders : at'[s] # "swap"
    BY <1>1, <2>1, GoesGives DEF LockInv, Places
  <2>3. backends' \subseteq Entries /\ OneEach(backends')
    <3>1. CASE Registered(b)
      BY <1>1, <2>1, <3>1 DEF MembersInv
    <3>2. CASE ~Registered(b)
      <4>1. \A c \in backends : c[1] # b
        BY <1>1, <3>2 DEF Registered, Entries
      <4>2. OneEach(backends) /\ b \in Ids /\ <<b, "register">>[1] = b
        BY <1>1 DEF MembersInv, Ids
      <4>3. backends' = backends \union {<<b, "register">>}
        BY <2>1, <3>2
      <4>4. backends' \subseteq Entries
        BY <1>1, <4>2, <4>3 DEF Entries
      <4> QED
        BY <4>1, <4>2, <4>3, <4>4 DEF OneEach
    <3> QED
      BY <3>1, <3>2
  <2>4. OneEach(backends)' /\ \A t \in Reloaders : OneEach(fresh[t])'
    BY <1>1, <2>1, <2>3 DEF MembersInv, OneEach
  <2> QED
    BY <1>1, <2>1, <2>2, <2>3, <2>4 DEF MembersInv
<1>6. ASSUME NEW t \in Reloaders, LoadRaises(t)
      PROVE  MembersInv'
  <2>1. MembersStep
    BY <1>6 DEF LoadRaises, MembersStep
  <2> QED
    BY <1>1, <2>1, MembersSame
<1>7. ASSUME NEW t \in Reloaders, LoadsFile(t) \/ Stamps(t) \/ ClosesLog(t) \/ OpensLog(t)
      PROVE  MembersInv'
  <2>1. PICK from \in Places, to \in Places \ {"swap"} :
          Goes(t, from, to) /\ UNCHANGED <<backends, fresh>>
    BY <1>7 DEF LoadsFile, Stamps, ClosesLog, OpensLog, Places
  <2> QED
    BY <1>2, <2>1
<1>8. ASSUME \/ LoadsDisk \/ Truncates \/ Dumps \/ Notes \/ ReloadAsked \/ Tunes
             \/ \E what : LoopLocks(what)
      PROVE  MembersInv'
  <2>1. PICK from \in Places, to \in Places \ {"swap"} :
          Goes("loop", from, to) /\ UNCHANGED <<backends, fresh>>
    BY <1>8 DEF LoadsDisk, Truncates, Dumps, Notes, ReloadAsked, Tunes, LoopLocks, Places
  <2> QED
    BY <1>1, <1>2, <2>1
<1>9. CASE Watches \/ Hangup
  <2>1. PICK t \in Reloaders : Goes(t, "rest", "load") /\ UNCHANGED <<backends, fresh>>
    BY <1>1, <1>9 DEF Watches, Hangup
  <2> QED
    BY <1>2, <2>1 DEF Places
<1>10. ASSUME Edits \/ Logs \/ UNCHANGED vars \/ \E t \in Flushers : Flushes(t)
       PROVE  MembersInv'
  <2>1. MembersStep
    BY <1>10 DEF Edits, Logs, vars, Flushes, MembersStep
  <2> QED
    BY <1>1, <2>1, MembersSame
<1> QED
  BY <1>1, <1>3, <1>4, <1>5, <1>6, <1>7, <1>8, <1>9, <1>10 DEF Next, LoopGoesOn, Reloads

-----------------------------------------------------------------------------
(* The file, LB.cfg and what was read of the file. *)
LEMMA FileSame ==
  ASSUME FileInv, UNCHANGED <<file, cfg, read, mtime, calls>>,
         op' \in Registers \union {"tune", None}, dead' \subseteq Flushers \union {"scan"},
         at'["loop"] \in {"truncate", "dump"} => at["loop"] \in {"truncate", "dump"},
         Rewriting => Rewriting' \/ ~file.whole
  PROVE  FileInv'
  BY DEF FileInv, Rewriting

LEMMA CallsAre ==
  ASSUME FileInv, LockInv
  PROVE  /\ MaxCalls \in Nat /\ calls \in Nat /\ calls <= MaxCalls
         /\ file.tuned \in Nat /\ cfg.tuned \in Nat /\ file.mtime \in Nat
         /\ \A t \in Reloaders : read[t].tuned \in Nat /\ read[t].rev \in Revs
         /\ {"loop", "hup", "scan"} = Reloaders
  BY SizesAssumption DEF FileInv, Contents, Reloaders

LEMMA FileKeeps ==
  ASSUME IInv, [Next]_vars
  PROVE  FileInv'
<1>1. /\ FileInv /\ LockInv /\ LockInv' /\ at \in [Reloaders -> Places]
      /\ read \in [Reloaders -> Contents] /\ cfg \in Contents
      /\ file \in [rev : Revs, tuned : 0..MaxCalls, whole : BOOLEAN, mtime : Nat]
      /\ op \in Registers \union {"tune", None} /\ dead \subseteq Flushers \union {"scan"}
  BY LockKeeps DEF IInv, LockInv, FileInv
<1>2. /\ MaxCalls \in Nat /\ calls \in Nat /\ calls <= MaxCalls
      /\ file.tuned \in Nat /\ cfg.tuned \in Nat /\ file.mtime \in Nat
      /\ \A t \in Reloaders : read[t].tuned \in Nat /\ read[t].rev \in Revs
      /\ {"loop", "hup", "scan"} = Reloaders
  BY <1>1, CallsAre
<1>3. ASSUME NEW t \in Reloaders, LoadsFile(t)
      PROVE  FileInv'
  <2> DEFINE c == [rev |-> file.rev, tuned |-> file.tuned]
  <2>1. /\ Goes(t, "load", "stamp") /\ read' = [read EXCEPT ![t] = c]
        /\ UNCHANGED <<file, cfg, mtime, calls, op, dead>>
    BY <1>3 DEF LoadsFile, fileVars
  <2>2. c \in Contents /\ c.tuned = file.tuned
    BY <1>1 DEF Contents
  <2> HIDE DEF c
  <2>3. /\ read' \in [Reloaders -> Contents]
        /\ \A s \in Reloaders : read'[s] = IF s = t THEN c ELSE read[s]
    BY <1>1, <2>1, <2>2
  <2>4. at["loop"] \in {"truncate", "dump", "disk"} => t # "loop"
    BY <2>1 DEF Goes
  <2>5. \A s \in Reloaders : at'[s] = IF s = t THEN "stamp" ELSE at[s]
    BY <1>1, <2>1, GoesGives DEF Places
  <2>6. at'["loop"] \in {"truncate", "dump"} => read'["loop"].tuned = calls
    BY <1>1, <1>2, <2>3, <2>4, <2>5 DEF FileInv
  <2>7. file.whole /\ ~Rewriting' => \A s \in Reloaders : read'[s].tuned <= file.tuned
    BY <1>1, <1>2, <2>2, <2>3, <2>4, <2>5 DEF FileInv, Rewriting
  <2>8. file.whole /\ ~Rewriting' => cfg.tuned <= file.tuned
    BY <1>1, <1>2, <2>4, <2>5 DEF FileInv, Rewriting
  <2>9. \A s \in Reloaders : read'[s].tuned <= calls
    BY <1>1, <1>2, <2>2, <2>3 DEF FileInv
  <2> QED
    BY <1>1, <2>1, <2>3, <2>6, <2>7, <2>8, <2>9 DEF FileInv
<1>4. ASSUME NEW t \in Reloaders, LoadRaises(t)
      PROVE  FileInv'
  <2>1. /\ ~file.whole /\ UNCHANGED <<file, cfg, read, mtime, calls, op>>
        /\ dead' \subseteq Flushers \union {"scan"}
        /\ at'["loop"] \in {"rest", at["loop"]}
    BY <1>1, <1>2, <1>4 DEF LoadRaises, fileVars
  <2> QED
    BY <1>1, <2>1, FileSame
<1>5. ASSUME NEW t \in Reloaders, Stamps(t)
      PROVE  FileInv'
  <2>1. /\ Goes(t, "stamp", "lock") /\ mtime' = file.mtime
        /\ UNCHANGED <<file, cfg, read, calls, op, dead>>
    BY <1>5 DEF Stamps
  <2>2. at'["loop"] = at["loop"] \/ (at["loop"] = "stamp" /\ at'["loop"] = "lock")
    BY <1>1, <1>2, <2>1, GoesGives DEF Places
  <2>3. mtime' \in 0..file.mtime
    BY <1>2, <2>1
  <2> QED
    BY <1>1, <2>1, <2>2, <2>3 DEF FileInv, Rewriting
<1>6. ASSUME NEW t \in Reloaders, Swaps(t)
      PROVE  FileInv'
  <2>1. /\ Goes(t, "swap", "close") /\ cfg' = read[t]
        /\ UNCHANGED <<file, mtime, read, calls, op, dead>>
    BY <1>6 DEF Swaps
  <2>2. at'["loop"] = at["loop"] \/ (at["loop"] = "swap" /\ at'["loop"] = "close")
    BY <1>1, <1>2, <2>1, GoesGives DEF Places
  <2>3. cfg' \in Contents /\ cfg'.tuned <= calls
    BY <1>1, <2>1 DEF FileInv
  <2> QED
    BY <1>1, <2>1, <2>2, <2>3 DEF FileInv, Rewriting
<1>7. ASSUME NEW t \in Reloaders, MakesList(t) \/ ClosesLog(t) \/ OpensLog(t)
      PROVE  FileInv'
  <2>1. PICK from \in {"lock", "close", "open"}, to \in {"swap", "open", "rest"} :
          Goes(t, from, to) /\ UNCHANGED <<file, cfg, read, mtime, calls, op, dead>>
    BY <1>7 DEF MakesList, ClosesLog, OpensLog, fileVars
  <2>2. at'["loop"] = at["loop"] \/ (at["loop"] = from /\ at'["loop"] = to)
    BY <1>1, <1>2, <2>1, GoesGives DEF Places
  <2> QED
    BY <1>1, <2>1, <2>2, FileSame DEF Rewriting
<1>8. CASE Watches
  <2>1. Goes("scan", "rest", "load") /\ UNCHANGED <<file, cfg, read, mtime, calls, op, dead>>
    BY <1>8 DEF Watches, fileVars
  <2>2. at'["loop"] = at["loop"]
    BY <1>1, <1>2, <2>1, GoesGives DEF Places
  <2> QED
    BY <1>1, <2>1, <2>2, FileSame DEF Rewriting
<1>9. CASE Hangup
  <2>1. Goes("hup", "rest", "load") /\ UNCHANGED <<file, cfg, read, mtime, calls, op, dead>>
    BY <1>9 DEF Hangup, fileVars
  <2>2. at'["loop"] = at["loop"]
    BY <1>1, <1>2, <2>1, GoesGives DEF Places
  <2> QED
    BY <1>1, <2>1, <2>2, FileSame DEF Rewriting
<1>10. ASSUME NEW to \in {"load", "held"}, Goes("loop", "rest", to),
              calls < MaxCalls, calls' = calls + 1,
              op' \in Registers \union {"tune", None}, UNCHANGED <<file, cfg, read, mtime, dead>>
       PROVE  FileInv'
  <2>1. at["loop"] = "rest" /\ at'["loop"] = to
    BY <1>1, <1>2, <1>10, GoesGives DEF Places
  <2>2. /\ calls' \in 0..MaxCalls /\ file.tuned <= calls' /\ cfg.tuned <= calls'
        /\ \A s \in Reloaders : read[s].tuned <= calls'
    BY <1>1, <1>2, <1>10 DEF FileInv
  <2> QED
    BY <1>1, <1>10, <2>1, <2>2 DEF FileInv, Rewriting
<1>11. CASE ReloadAsked
  BY <1>1, <1>10, <1>11 DEF ReloadAsked, fileVars
<1>12. ASSUME NEW what \in Registers \union {"tune"}, LoopLocks(what)
       PROVE  FileInv'
  BY <1>10, <1>12 DEF LoopLocks, fileVars
<1>13. CASE Edits
  <2>1. /\ file.rev < MaxEdits /\ file' = [file EXCEPT !.rev = @ + 1, !.mtime = @ + 1]
        /\ UNCHANGED <<cfg, mtime, read, at, calls, op, dead>>
    BY <1>13 DEF Edits
  <2>2. /\ file' \in [rev : Revs, tuned : 0..MaxCalls, whole : BOOLEAN, mtime : Nat]
        /\ file'.tuned = file.tuned /\ file'.whole = file.whole /\ file'.mtime = file.mtime + 1
    <3>1. file.rev + 1 \in Revs
      BY <1>1, <2>1, SizesAssumption
    <3>2. file' = [rev |-> file.rev + 1, tuned |-> file.tuned, whole |-> file.whole,
                   mtime |-> file.mtime + 1]
      BY <1>1, <2>1
    <3>3. file.tuned \in 0..MaxCalls /\ file.mtime + 1 \in Nat /\ file.whole \in BOOLEAN
      BY <1>1
    <3> QED
      BY <3>1, <3>2, <3>3
  <2>3. mtime' \in 0..file'.mtime
    BY <1>1, <1>2, <2>1, <2>2 DEF FileInv
  <2> QED
    BY <1>1, <2>1, <2>2, <2>3 DEF FileInv, Rewriting
<1>14. ASSUME NEW b \in Registers, Adds(b)
       PROVE  FileInv'
  <2>1. Goes("loop", "held", "rest") /\ op' = None /\ UNCHANGED <<file, cfg, read, mtime, calls, dead>>
    BY <1>14 DEF Adds, fileVars
  <2>2. at["loop"] = "held" /\ at'["loop"] = "rest"
    BY <1>1, <1>2, <2>1, GoesGives DEF Places
  <2> QED
    BY <1>1, <2>1, <2>2, FileSame DEF Rewriting
<1>15. CASE Tunes
  <2>1. /\ Goes("loop", "held", "disk") /\ op' = None /\ cfg' = [cfg EXCEPT !.tuned = calls]
        /\ UNCHANGED <<file, read, mtime, calls, dead>>
    BY <1>15 DEF Tunes
  <2>2. at'["loop"] = "disk"
    BY <1>1, <1>2, <2>1, GoesGives DEF Places
  <2>3. cfg' \in Contents /\ cfg'.tuned <= calls
    BY <1>1, <1>2, <2>1 DEF Contents
  <2> QED
    BY <1>1, <2>1, <2>2, <2>3 DEF FileInv, Rewriting
<1>16. CASE LoadsDisk
  <2> DEFINE c == [rev |-> file.rev, tuned |-> calls]
             to == IF file.whole THEN "truncate" ELSE "rest"
  <2>1. /\ Goes("loop", "disk", to) /\ read' = [read EXCEPT !["loop"] = c]
        /\ UNCHANGED <<file, cfg, mtime, calls, op, dead>>
    BY <1>16 DEF LoadsDisk, fileVars
  <2>2. c \in Contents /\ c.tuned = calls
    BY <1>1, <1>2 DEF Contents
  <2> HIDE DEF c
  <2>3. /\ read' \in [Reloaders -> Contents] /\ read'["loop"].tuned = calls
        /\ \A s \in Reloaders : read'[s].tuned <= calls
    BY <1>1, <1>2, <2>1, <2>2 DEF FileInv
  <2>4. file.whole => at'["loop"] = "truncate"
    BY <1>1, <1>2, <2>1, GoesGives DEF Places
  <2> QED
    BY <1>1, <2>1, <2>3, <2>4 DEF FileInv, Rewriting
<1>17. CASE Truncates
  <2>1. /\ Goes("loop", "truncate", "dump")
        /\ file' = [file EXCEPT !.whole = FALSE, !.mtime = @ + 1]
        /\ UNCHANGED <<cfg, mtime, read, calls, op, dead>>
    BY <1>17 DEF Truncates
  <2>2. at["loop"] = "truncate" /\ at'["loop"] = "dump"
    BY <1>1, <1>2, <2>1, GoesGives DEF Places
  <2>3. /\ file' \in [rev : Revs, tuned : 0..MaxCalls, whole : BOOLEAN, mtime : Nat]
        /\ file'.tuned = file.tuned /\ ~file'.whole /\ file'.mtime = file.mtime + 1
    <3>1. file' = [rev |-> file.rev, tuned |-> file.tuned, whole |-> FALSE,
                   mtime |-> file.mtime + 1]
      BY <1>1, <2>1
    <3>2. file.rev \in Revs /\ file.tuned \in 0..MaxCalls /\ file.mtime + 1 \in Nat
      BY <1>1
    <3> QED
      BY <3>1, <3>2
  <2>4. mtime' \in 0..file'.mtime
    BY <1>1, <1>2, <2>1, <2>3 DEF FileInv
  <2> QED
    BY <1>1, <2>1, <2>2, <2>3, <2>4 DEF FileInv, Rewriting
<1>18. CASE Dumps
  <2>1. /\ Goes("loop", "dump", "noted")
        /\ file' = [rev |-> read["loop"].rev, tuned |-> read["loop"].tuned, whole |-> TRUE,
                    mtime |-> file.mtime + 1]
        /\ UNCHANGED <<cfg, mtime, read, calls, op, dead>>
    BY <1>18 DEF Dumps
  <2>2. at["loop"] = "dump" /\ at'["loop"] = "noted"
    BY <1>1, <1>2, <2>1, GoesGives DEF Places
  <2>3. read["loop"].tuned = calls
    BY <1>1, <2>2 DEF FileInv
  <2>4. /\ file' \in [rev : Revs, tuned : 0..MaxCalls, whole : BOOLEAN, mtime : Nat]
        /\ file'.tuned = calls /\ file'.mtime = file.mtime + 1
    BY <1>1, <1>2, <2>1, <2>3
  <2>5. mtime' \in 0..file'.mtime
    BY <1>1, <1>2, <2>1, <2>4 DEF FileInv
  <2> QED
    BY <1>1, <1>2, <2>1, <2>2, <2>4, <2>5 DEF FileInv, Rewriting
<1>19. CASE Notes
  <2>1. /\ Goes("loop", "noted", "rest") /\ mtime' = file.mtime
        /\ UNCHANGED <<file, cfg, read, calls, op, dead>>
    BY <1>19 DEF Notes
  <2>2. at["loop"] = "noted" /\ at'["loop"] = "rest"
    BY <1>1, <1>2, <2>1, GoesGives DEF Places
  <2>3. mtime' \in 0..file.mtime
    BY <1>2, <2>1
  <2> QED
    BY <1>1, <2>1, <2>2, <2>3 DEF FileInv, Rewriting
<1>20. ASSUME Logs \/ UNCHANGED vars \/ \E t \in Flushers : Flushes(t)
       PROVE  FileInv'
  <2>1. UNCHANGED <<file, cfg, read, mtime, calls, op, at>> /\ dead' \subseteq Flushers \union {"scan"}
    BY <1>1, <1>20 DEF Logs, vars, Flushes, fileVars
  <2> QED
    BY <1>1, <2>1, FileSame DEF Rewriting
<1> QED
  BY <1>2, <1>3, <1>4, <1>5, <1>6, <1>7, <1>8, <1>9, <1>11, <1>12, <1>13, <1>14, <1>15, <1>16,
     <1>17, <1>18, <1>19, <1>20 DEF Next, LoopGoesOn, Reloads

-----------------------------------------------------------------------------
(* The access log. *)
LEMMA DrainKeeps ==
  ASSUME NEW lines \in Seq(Nat), written \in Seq(Nat), Drain(lines)
  PROVE  /\ written' \in Seq(Nat) /\ log_buf' \in Seq(Nat)
         /\ written' \o log_buf' = written \o lines
<1>1. CASE log_open
  <2>1. log_buf' = << >> /\ written' = written \o lines
    BY <1>1 DEF Drain
  <2>2. written \o lines \in Seq(Nat)
    BY ConcatProperties
  <2> QED
    BY <2>1, <2>2, EmptySeq, ConcatEmptySeq
<1>2. CASE ~log_open
  BY <1>2 DEF Drain
<1> QED
  BY <1>1, <1>2

LEMMA LogKeeps ==
  ASSUME IInv, [Next]_vars
  PROVE  LogInv'
<1>1. /\ log_open \in BOOLEAN /\ logged \in 0..MaxLines /\ MaxLines \in Nat
      /\ log_buf \in Seq(Nat) /\ written \in Seq(Nat)
      /\ written \o log_buf = [i \in 1..logged |-> i]
  BY SizesAssumption DEF IInv, LogInv, LinesWrittenOnce
<1>2. ASSUME log_open' \in BOOLEAN, UNCHANGED <<log_buf, logged, written>>
      PROVE  LogInv'
  BY <1>1, <1>2 DEF LogInv, LinesWrittenOnce
<1>3. CASE Logs
  <2> DEFINE n == logged + 1
             lines == Append(log_buf, n)
  <2>1. /\ logged < MaxLines /\ logged' = n /\ log_open' = log_open
        /\ Drain(lines) \/ (log_buf' = lines /\ written' = written)
    BY <1>3 DEF Logs
  <2>2. n \in Nat /\ n \in 0..MaxLines
    BY <1>1, <2>1
  <2>3. lines \in Seq(Nat) /\ lines = log_buf \o <<n>> /\ <<n>> \in Seq(Nat)
    BY <1>1, <2>2, AppendProperties, AppendIsConcat
  <2>4. written \o lines = [i \in 1..n |-> i]
    <3> DEFINE all == [i \in 1..logged |-> i]
    <3>0. all = written \o log_buf /\ logged \in Nat /\ n = logged + 1
      BY <1>1
    <3>1. written \o lines = all \o <<n>>
      <4>1. written \in Seq(Nat) /\ log_buf \in Seq(Nat) /\ <<n>> \in Seq(Nat)
        BY <1>1, <2>3
      <4> HIDE DEF n, lines, all
      <4>2. (written \o log_buf) \o <<n>> = written \o (log_buf \o <<n>>)
        BY <4>1, ConcatAssociative
      <4> QED
        BY <2>3, <3>0, <4>2
    <3>2. all \in Seq(Nat) /\ Len(all) = logged /\ \A i \in 1..logged : all[i] = i
      <4>1. all \in Seq(Nat) /\ DOMAIN all = 1..logged /\ \A i \in 1..logged : all[i] = i
        BY <1>1, ConcatProperties
      <4>2. Len(all) \in Nat /\ DOMAIN all = 1..Len(all)
        BY <4>1, LenProperties
      <4>3. Len(all) = logged
        BY <3>0, <4>1, <4>2
      <4> QED
        BY <4>1, <4>3
    <3> HIDE DEF n, all, lines
    <3>3. all \o <<n>> = Append(all, n)
      BY <2>2, <3>2, AppendIsConcat
    <3>4. /\ Append(all, n) \in Seq(Nat) /\ Len(Append(all, n)) = n
          /\ \A i \in 1..logged : Append(all, n)[i] = i
          /\ Append(all, n)[n] = n
      <4>1. /\ Append(all, n) \in Seq(Nat) /\ Len(Append(all, n)) = Len(all) + 1
            /\ \A i \in 1..Len(all) : Append(all, n)[i] = all[i]
            /\ Append(all, n)[Len(all) + 1] = n
        BY <2>2, <3>2, AppendProperties
      <4> QED
        BY <3>0, <3>2, <4>1
    <3>5. /\ DOMAIN Append(all, n) = 1..n /\ \A i \in 1..n : Append(all, n)[i] = i
      <4>1. DOMAIN Append(all, n) = 1..n
        BY <3>4, LenProperties
      <4>2. \A i \in 1..n : i \in 1..logged \/ i = n
        BY <3>0
      <4> QED
        BY <3>4, <4>1, <4>2
    <3> QED
      BY <3>1, <3>3, <3>4, <3>5, LenProperties
  <2> HIDE DEF lines, n
  <2>5. /\ written' \in Seq(Nat) /\ log_buf' \in Seq(Nat)
        /\ written' \o log_buf' = written \o lines
    BY <1>1, <2>1, <2>3, DrainKeeps
  <2>6. LinesWrittenOnce'
    BY <2>1, <2>4, <2>5 DEF LinesWrittenOnce
  <2> QED
    BY <1>1, <2>1, <2>2, <2>5, <2>6 DEF LogInv
<1>4. ASSUME NEW t \in Flushers, Flushes(t)
      PROVE  LogInv'
  <2>1. /\ UNCHANGED <<logged, log_open>>
        /\ Drain(log_buf) \/ UNCHANGED <<log_buf, written>>
    BY <1>4 DEF Flushes
  <2>2. CASE Drain(log_buf)
    <3>1. /\ written' \in Seq(Nat) /\ log_buf' \in Seq(Nat)
          /\ written' \o log_buf' = written \o log_buf
      BY <1>1, <2>2, DrainKeeps
    <3> QED
      BY <1>1, <2>1, <3>1 DEF LogInv, LinesWrittenOnce
  <2>3. CASE UNCHANGED <<log_buf, written>>
    BY <1>1, <1>2, <2>1, <2>3
  <2> QED
    BY <2>1, <2>2, <2>3
<1>5. ASSUME NEW t \in Reloaders, ClosesLog(t) \/ OpensLog(t)
      PROVE  LogInv'
  <2>1. log_open' \in BOOLEAN /\ UNCHANGED <<log_buf, logged, written>>
    BY <1>5 DEF ClosesLog, OpensLog
  <2> QED
    BY <1>2, <2>1
<1>6. ASSUME NEW t \in Reloaders,
             LoadsFile(t) \/ LoadRaises(t) \/ Stamps(t) \/ MakesList(t) \/ Swaps(t)
      PROVE  LogInv'
  <2>1. UNCHANGED logVars
    BY <1>6 DEF LoadsFile, LoadRaises, Stamps, MakesList, Swaps
  <2> QED
    BY <1>1, <1>2, <2>1 DEF logVars
<1>7. ASSUME \/ Tunes \/ LoadsDisk \/ Truncates \/ Dumps \/ Notes \/ \E b \in Registers : Adds(b)
             \/ Watches \/ ReloadAsked \/ Hangup \/ Edits \/ UNCHANGED vars
             \/ \E what \in Registers \union {"tune"} : LoopLocks(what)
      PROVE  LogInv'
  <2>1. UNCHANGED logVars
    BY <1>7 DEF Tunes, LoadsDisk, Truncates, Dumps, Notes, Adds, Watches, ReloadAsked, Hangup,
                Edits, LoopLocks, vars
  <2> QED
    BY <1>1, <1>2, <2>1 DEF logVars
<1> QED
  BY <1>3, <1>4, <1>5, <1>6, <1>7 DEF Next, LoopGoesOn, Reloads, Reloaders
-----------------------------------------------------------------------------
LEMMA InitIInv == Init => IInv
<1> SUFFICES ASSUME Init
             PROVE  IInv
  OBVIOUS
<1> USE SizesAssumption
<1>1. /\ at = [t \in Reloaders |-> "rest"] /\ lock = None /\ 0 \in Revs
      /\ "loop" \in Reloaders
  BY DEF Init, Reloaders
<1>2. LockInv
  BY <1>1 DEF LockInv, Places
<1>3. MembersInv
  <2>1. backends = InFile[0] \X {"config"} /\ fresh = [t \in Reloaders |-> {}]
    BY DEF Init
  <2>2. InFile[0] \subseteq Ids
    BY <1>1 DEF Ids
  <2>3. backends \subseteq Entries /\ OneEach(backends)
    BY <2>1, <2>2 DEF Entries, OneEach
  <2> QED
    BY <1>1, <2>1, <2>3 DEF MembersInv, OneEach
<1>4. FileInv
  <2>1. /\ file = [rev |-> 0, tuned |-> 0, whole |-> TRUE, mtime |-> 0]
        /\ cfg = [rev |-> 0, tuned |-> 0] /\ mtime = 0 /\ calls = 0
        /\ read = [t \in Reloaders |-> [rev |-> 0, tuned |-> 0]] /\ op = None /\ dead = {}
    BY DEF Init
  <2>2. [rev |-> 0, tuned |-> 0] \in Contents
    BY <1>1 DEF Contents
  <2>3. file \in [rev : Revs, tuned : 0..MaxCalls, whole : BOOLEAN, mtime : Nat]
    BY <1>1, <2>1
  <2>4. read \in [Reloaders -> Contents] /\ \A t \in Reloaders : read[t].tuned = 0
    BY <2>1, <2>2
  <2> QED
    BY <1>1, <2>1, <2>2, <2>3, <2>4 DEF FileInv
<1>5. LogInv
  <2>1. log_open = TRUE /\ log_buf = << >> /\ logged = 0 /\ written = << >>
    BY DEF Init
  <2>2. << >> \o << >> = << >> /\ << >> \in Seq(Nat)
    BY EmptySeq, ConcatEmptySeq
  <2>3. [i \in 1..0 |-> i] = << >>
    OBVIOUS
  <2> QED
    BY <2>1, <2>2, <2>3 DEF LogInv, LinesWrittenOnce
<1> QED
  BY <1>2, <1>3, <1>4, <1>5 DEF IInv

(* Every reachable state satisfies the inductive invariant. *)
THEOREM Invariant == Spec => []IInv
<1>1. IInv /\ [Next]_vars => IInv'
  BY LockKeeps, MembersKeep, FileKeeps, LogKeeps DEF IInv
<1> QED
  BY <1>1, InitIInv, PTL DEF Spec

(* Every variable has its type; no id is in the pool twice. *)
THEOREM TypeCorrect == Spec => []TypeOK
<1>1. IInv => TypeOK
  <2> SUFFICES ASSUME IInv
               PROVE  TypeOK
    OBVIOUS
  <2>1. Len(log_buf) <= MaxLines
    <3>1. /\ log_buf \in Seq(Nat) /\ written \in Seq(Nat) /\ logged \in 0..MaxLines
          /\ written \o log_buf = [i \in 1..logged |-> i]
      BY DEF IInv, LogInv, LinesWrittenOnce
    <3>2. Len(written) + Len(log_buf) = logged
      <4>1. Len(written \o log_buf) = Len(written) + Len(log_buf) /\ written \o log_buf \in Seq(Nat)
        BY <3>1, ConcatProperties
      <4>2. DOMAIN (written \o log_buf) = 1..logged
        BY <3>1
      <4>3. /\ DOMAIN (written \o log_buf) = 1..Len(written \o log_buf)
            /\ Len(written \o log_buf) \in Nat
        BY <4>1, LenProperties
      <4>4. Len(written \o log_buf) = logged
        BY <3>1, <4>2, <4>3
      <4> QED
        BY <4>1, <4>4
    <3>3. Len(written) \in Nat /\ Len(log_buf) \in Nat
      BY <3>1, LenProperties
    <3> QED
      BY <3>1, <3>2, <3>3, SizesAssumption
  <2> QED
    BY <2>1 DEF IInv, LockInv, MembersInv, FileInv, LogInv, TypeOK, OneEach, Entries, Places
<1> QED
  BY <1>1, Invariant, PTL

(* "dynamically discovered backends survive a config reload", whichever of   *)
(* the watcher, /lb/reload and SIGHUP reloads, and however often.            *)
THEOREM RegistrationsSurvive == Spec => RegisteredStays
<1>1. ASSUME IInv, [Next]_vars, NEW b \in Ids, <<b, "register">> \in backends
      PROVE  Registered(b)'
  <2>1. CASE \E t \in Reloaders : Swaps(t)
    <3>1. PICK t \in Reloaders : Swaps(t)
      BY <2>1
    <3>2. at[t] = "swap" /\ backends' = fresh[t]
      BY <3>1 DEF Swaps, Goes
    <3>3. \E s \in {"config", "register"} : <<b, s>> \in fresh[t]
      BY <1>1, <3>2 DEF IInv, MembersInv
    <3> QED
      BY <3>2, <3>3 DEF Registered
  <2>2. CASE ~\E t \in Reloaders : Swaps(t)
    <3>1. backends \subseteq backends'
      BY <1>1, <2>2 DEF Next, LoopGoesOn, Reloads, Reloaders, LoadsFile, LoadRaises, Stamps,
         MakesList, ClosesLog, OpensLog, Tunes, LoadsDisk, Truncates, Dumps, Notes, Adds,
         Watches, ReloadAsked, Hangup, Edits, Logs, LoopLocks, Flushes, vars
    <3> QED
      BY <1>1, <3>1 DEF Registered
  <2> QED
    BY <2>1, <2>2
<1>2. IInv /\ [Next]_vars => [\A b \in Ids : <<b, "register">> \in backends => Registered(b)']_vars
  BY <1>1
<1> QED
  BY <1>2, Invariant, PTL DEF Spec, RegisteredStays

(* LB.cfg loses a tuned value only to a reload that had read the file before *)
(* the value was there, or while it is written, or when that failed.         *)
THEOREM TunedValuesSurvive == Spec => TuningSurvives
<1>1. ASSUME IInv, [Next]_vars, cfg'.tuned < cfg.tuned, ~Rewriting, file.whole
      PROVE  \E t \in Reloaders : at[t] = "swap" /\ read[t].tuned # file.tuned
  <2>1. /\ MaxCalls \in Nat /\ calls \in Nat /\ file.tuned \in Nat /\ cfg.tuned \in Nat
        /\ \A t \in Reloaders : read[t].tuned \in Nat
        /\ cfg.tuned <= file.tuned /\ cfg.tuned <= calls /\ cfg \in Contents
    BY <1>1, CallsAre DEF IInv, FileInv
  <2>2. CASE \E t \in Reloaders : Swaps(t)
    <3>1. PICK t \in Reloaders : at[t] = "swap" /\ cfg' = read[t]
      BY <2>2 DEF Swaps, Goes
    <3> QED
      BY <1>1, <2>1, <3>1
  <2>3. CASE Tunes
    <3>1. cfg'.tuned = calls
      BY <2>1, <2>3 DEF Tunes, Contents
    <3> QED
      BY <1>1, <2>1, <3>1
  <2>4. CASE ~Tunes /\ ~\E t \in Reloaders : Swaps(t)
    <3>1. cfg' = cfg
      BY <1>1, <2>4 DEF Next, LoopGoesOn, Reloads, Reloaders, LoadsFile, LoadRaises, Stamps,
         MakesList, ClosesLog, OpensLog, LoadsDisk, Truncates, Dumps, Notes, Adds,
         Watches, ReloadAsked, Hangup, Edits, Logs, LoopLocks, Flushes, vars, fileVars
    <3> QED
      BY <1>1, <2>1, <3>1
  <2> QED
    BY <2>2, <2>3, <2>4
<1>2. IInv /\ [Next]_vars =>
        [cfg'.tuned < cfg.tuned =>
           \/ at["loop"] \in {"disk", "truncate", "dump"} \/ ~file.whole
           \/ \E t \in Reloaders : at[t] = "swap" /\ read[t].tuned # file.tuned]_vars
  BY <1>1 DEF Rewriting
<1> QED
  BY <1>2, Invariant, PTL DEF Spec, TuningSurvives

(* No line of the access log is lost, none is written twice, and they are    *)
(* written in order, whoever closes the file while another drains the buffer. *)
THEOREM EveryLineIsWrittenOnce == Spec => []LinesWrittenOnce
<1>1. IInv => LinesWrittenOnce
  BY DEF IInv, LogInv
<1> QED
  BY <1>1, Invariant, PTL
=============================================================================
