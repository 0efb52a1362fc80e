------------------------------- MODULE Config -------------------------------
(***************************************************************************)
(* The configuration of lb/loadbalancer.py while it runs: LB.reload, which *)
(* the watcher in discovery_loop, /lb/reload and SIGHUP call; the tuning   *)
(* by POST /lb/config, written back to the file; and the access log that a *)
(* reload closes and opens again while other threads write to it.          *)
(*                                                                         *)
(* A step of a thread ends where it can lose the interpreter lock to       *)
(* another between two things they share.  "hup" is the signal handler: it *)
(* runs in the main thread, which is the event loop, between any two       *)
(* instructions, and the loop goes on when it has ended.  LB.lock is not   *)
(* reentrant.  log_buf is only touched under log_lock, so what is done     *)
(* with it is one step.                                                    *)
(*                                                                         *)
(* Of the file two things are kept: rev, which stands for all that an      *)
(* operator edits, and tuned, the key that is tuned.  He saves by renaming *)
(* and does not edit a broken file.  MaxEdits, MaxCalls, MaxHups and       *)
(* MaxLines bound the run.                                                 *)
(*                                                                         *)
(* Left out: host, port and weight of a listed backend; the events, which  *)
(* recount the pool (Membership); writing errors (OSError), which are      *)
(* ignored where they can arise.                                           *)
(***************************************************************************)
EXTENDS Integers, Sequences

CONSTANTS InFile,      \* InFile[r]: the ids the file lists in its revision r
          Registers,   \* ids of backends that register
          Flushers,    \* log_flusher and health_loop
          LogBatch,    \* 512
          MaxEdits, MaxCalls, MaxHups, MaxLines

Revs  == DOMAIN InFile
Ids   == Registers \union UNION {InFile[r] : r \in Revs}

ASSUME SizesAssumption == /\ MaxEdits \in Nat /\ Revs = 0..MaxEdits /\ LogBatch \in Nat \ {0}
                          /\ MaxCalls \in Nat /\ MaxHups \in Nat /\ MaxLines \in Nat

VARIABLES file,     \* its rev and tuned, whole or truncated, and its mtime
          cfg,      \* LB.cfg
          mtime,    \* LB.conf_mtime
          backends, \* LB.backends: <<id, source>>
          lock,     \* who holds LB.lock
          at,       \* where loop, hup and scan are
          op,       \* what the loop does under LB.lock, or the value it tunes
          read,     \* what reload loaded from the file
          fresh,    \* the list it makes under the lock
          log_open, \* LB.log_fh is open
          log_buf, logged, written,
          dead,     \* threads that an exception ended
          calls, hups

fileVars == <<file, cfg, mtime>>
logVars  == <<log_open, log_buf, logged, written>>
vars == <<fileVars, backends, lock, at, op, read, fresh, logVars, dead, calls, hups>>

Reloaders == {"loop", "hup", "scan"}
None == "none"

Init == /\ file = [rev |-> 0, tuned |-> 0, whole |-> TRUE, mtime |-> 0]
        /\ cfg = [rev |-> 0, tuned |-> 0] /\ mtime = 0
        /\ backends = InFile[0] \X {"config"}
        /\ lock = None
        /\ at = [t \in Reloaders |-> "rest"]
        /\ op = None
        /\ read = [t \in Reloaders |-> [rev |-> 0, tuned |-> 0]]
        /\ fresh = [t \in Reloaders |-> {}]
        /\ log_open = TRUE /\ log_buf = << >> /\ logged = 0 /\ written = << >>
        /\ dead = {} /\ calls = 0 /\ hups = 0

(* A thread can run: it lives, and no handler interrupts it. *)
Runs(t) == t \notin dead /\ (t = "loop" => at["hup"] = "rest")

Goes(t, from, to) == Runs(t) /\ at[t] = from /\ at' = [at EXCEPT ![t] = to]

(* The wrong form in which LB.lock is not waited for. *)
Takes(t) == lock' = t

Acquires(t) == lock = None /\ lock' = t
Releases(t) == lock' = IF lock = t THEN None ELSE lock
-----------------------------------------------------------------------------
(* reload, called by t. *)

(* json.load.  A truncated file raises: that ends the watcher's thread, is   *)
(* answered by /lb/reload, and in the signal handler it hits POST /lb/config *)
(* while that rewrites the file, which is left as it is.                     *)
LoadsFile(t) ==
  /\ Goes(t, "load", "stamp") /\ file.whole
  /\ read' = [read EXCEPT ![t] = [rev |-> file.rev, tuned |-> file.tuned]]
  /\ UNCHANGED <<fileVars, backends, lock, op, fresh, logVars, dead, calls, hups>>

LoadRaises(t) ==
  /\ at[t] = "load" /\ Runs(t) /\ ~file.whole
  /\ dead' = IF t = "scan" THEN dead \union {t} ELSE dead
  /\ at' = [s \in Reloaders |-> IF s = t \/ (s = "loop" /\ t = "hup" /\ at[s] = "dump")
                                THEN "rest" ELSE at[s]]
  /\ UNCHANGED <<fileVars, backends, lock, op, read, fresh, logVars, calls, hups>>

Stamps(t) ==
  /\ Goes(t, "stamp", "lock")
  /\ mtime' = file.mtime
  /\ UNCHANGED <<file, cfg, backends, lock, op, read, fresh, logVars, dead, calls, hups>>

(* The members afterwards: those of the file, and of the others those that   *)
(* did not come from a file.                                                 *)
Members(r) == (InFile[r] \X {"config"})
              \union {b \in backends : b[1] \notin InFile[r] /\ b[2] # "config"}

MakesList(t) ==
  /\ Goes(t, "lock", "swap") /\ Acquires(t)
  /\ fresh' = [fresh EXCEPT ![t] = Members(read[t].rev)]
  /\ UNCHANGED <<fileVars, backends, op, read, logVars, dead, calls, hups>>

(* The wrong form that swaps the list and leaves LB.cfg as it is. *)
SwapsList(t) ==
  /\ Goes(t, "swap", "close") /\ Releases(t)
  /\ backends' = fresh[t]
  /\ fresh' = [fresh EXCEPT ![t] = {}]
  /\ UNCHANGED <<fileVars, op, read, logVars, dead, calls, hups>>

Swaps(t) ==
  /\ Goes(t, "swap", "close") /\ Releases(t)
  /\ backends' = fresh[t]
  /\ cfg' = read[t]
  /\ fresh' = [fresh EXCEPT ![t] = {}]
  /\ UNCHANGED <<file, mtime, op, read, logVars, dead, calls, hups>>

ClosesLog(t) ==
  /\ Goes(t, "close", "open")
  /\ log_open' = FALSE
  /\ UNCHANGED <<fileVars, backends, lock, op, read, fresh, log_buf, logged, written, dead,
                 calls, hups>>

OpensLog(t) ==
  /\ Goes(t, "open", "rest")
  /\ log_open' = TRUE
  /\ UNCHANGED <<fileVars, backends, lock, op, read, fresh, log_buf, logged, written, dead,
                 calls, hups>>

Reloads(t) == \/ LoadsFile(t) \/ LoadRaises(t) \/ Stamps(t) \/ MakesList(t) \/ Swaps(t)
              \/ ClosesLog(t) \/ OpensLog(t)
-----------------------------------------------------------------------------
(* Who calls it. *)

Watches ==
  /\ file.mtime # mtime
  /\ Goes("scan", "rest", "load")
  /\ UNCHANGED <<fileVars, backends, lock, op, read, fresh, logVars, dead, calls, hups>>

ReloadAsked ==
  /\ calls < MaxCalls /\ calls' = calls + 1
  /\ Goes("loop", "rest", "load")
  /\ UNCHANGED <<fileVars, backends, lock, op, read, fresh, logVars, dead, hups>>

(* A signal while the file is left broken would end the process; left out.   *)
Hangup ==
  /\ hups < MaxHups /\ hups' = hups + 1
  /\ file.whole \/ at["loop"] = "dump"
  /\ Goes("hup", "rest", "load")
  /\ UNCHANGED <<fileVars, backends, lock, op, read, fresh, logVars, dead, calls>>

Edits ==
  /\ file.rev < MaxEdits /\ file.whole
  /\ file' = [file EXCEPT !.rev = @ + 1, !.mtime = @ + 1]
  /\ UNCHANGED <<cfg, mtime, backends, lock, at, op, read, fresh, logVars, dead, calls, hups>>
-----------------------------------------------------------------------------
(* What else the event loop does under LB.lock: a registration, and the      *)
(* tuning.  (pick and drain_backend change nothing that is modelled here.)   *)

LoopLocks(what) ==
  /\ calls < MaxCalls /\ calls' = calls + 1
  /\ Goes("loop", "rest", "held") /\ Acquires("loop")
  /\ op' = what
  /\ UNCHANGED <<fileVars, backends, read, fresh, logVars, dead, hups>>

Registered(b) == \E s \in {"config", "register"} : <<b, s>> \in backends

(* add_backend. *)
Adds(b) ==
  /\ op = b
  /\ Goes("loop", "held", "rest") /\ Releases("loop")
  /\ backends' = IF Registered(b) THEN backends ELSE backends \union {<<b, "register">>}
  /\ op' = None
  /\ UNCHANGED <<fileVars, read, fresh, logVars, dead, calls, hups>>

(* POST /lb/config: the key in LB.cfg, then in the file.  No other value is  *)
(* tuned than the number of the call.                                        *)
Tunes ==
  /\ op = "tune"
  /\ Goes("loop", "held", "disk") /\ Releases("loop")
  /\ cfg' = [cfg EXCEPT !.tuned = calls]
  /\ op' = None
  /\ UNCHANGED <<file, mtime, backends, read, fresh, logVars, dead, calls, hups>>

(* The file is loaded; if it is broken the answer is an error. *)
LoadsDisk ==
  /\ Goes("loop", "disk", IF file.whole THEN "truncate" ELSE "rest")
  /\ read' = [read EXCEPT !["loop"] = [rev |-> file.rev, tuned |-> calls]]
  /\ UNCHANGED <<fileVars, backends, lock, op, fresh, logVars, dead, calls, hups>>

Truncates ==
  /\ Goes("loop", "truncate", "dump")
  /\ file' = [file EXCEPT !.whole = FALSE, !.mtime = @ + 1]
  /\ UNCHANGED <<cfg, mtime, backends, lock, op, read, fresh, logVars, dead, calls, hups>>

(* The wrong form that writes back what was loaded. *)
DumpsLoaded ==
  /\ Goes("loop", "dump", "noted")
  /\ file' = [file EXCEPT !.rev = read["loop"].rev, !.whole = TRUE, !.mtime = @ + 1]
  /\ UNCHANGED <<cfg, mtime, backends, lock, op, read, fresh, logVars, dead, calls, hups>>

Dumps ==
  /\ Goes("loop", "dump", "noted")
  /\ file' = [rev |-> read["loop"].rev, tuned |-> read["loop"].tuned, whole |-> TRUE,
              mtime |-> file.mtime + 1]
  /\ UNCHANGED <<cfg, mtime, backends, lock, op, read, fresh, logVars, dead, calls, hups>>

Notes ==
  /\ Goes("loop", "noted", "rest")
  /\ mtime' = file.mtime
  /\ UNCHANGED <<file, cfg, backends, lock, op, read, fresh, logVars, dead, calls, hups>>
-----------------------------------------------------------------------------
(* The access log. *)

(* The wrong form of the next definition: the lines are forgotten first. *)
DrainClears(lines) ==
  /\ log_buf' = << >>
  /\ written' = IF log_open THEN written \o lines ELSE written

(* _drain_locked: writing to a closed file raises, and the lines are kept.   *)
Drain(lines) ==
  IF log_open THEN log_buf' = << >> /\ written' = written \o lines
  ELSE log_buf' = lines /\ UNCHANGED written

(* LB.log, for a request that has been served.                               *)
Logs ==
  /\ Runs("loop") /\ at["loop"] = "rest" /\ logged < MaxLines
  /\ logged' = logged + 1
  /\ LET lines == Append(log_buf, logged')
     IN  IF Len(lines) >= LogBatch THEN Drain(lines)
         ELSE log_buf' = lines /\ UNCHANGED written
  /\ UNCHANGED <<fileVars, backends, lock, at, op, read, fresh, log_open, dead, calls, hups>>

(* The wrong form that waits for a full buffer, as log does. *)
FlushesBatches(t) ==
  /\ Runs(t)
  /\ IF Len(log_buf) >= LogBatch THEN Drain(log_buf) ELSE UNCHANGED <<log_buf, written>>
  /\ dead' = IF log_open THEN dead ELSE dead \union {t}
  /\ UNCHANGED <<fileVars, backends, lock, at, op, read, fresh, log_open, logged, calls, hups>>

(* flush_log: neither the write nor the flush may find the file closed.      *)
Flushes(t) ==
  /\ Runs(t)
  /\ IF log_buf # << >> THEN Drain(log_buf) ELSE UNCHANGED <<log_buf, written>>
  /\ dead' = IF log_open THEN dead ELSE dead \union {t}
  /\ UNCHANGED <<fileVars, backends, lock, at, op, read, fresh, log_open, logged, calls, hups>>
-----------------------------------------------------------------------------
LoopGoesOn == \/ Reloads("loop") \/ Tunes \/ LoadsDisk \/ Truncates \/ Dumps \/ Notes
              \/ \E b \in Registers : Adds(b)

Next == \/ LoopGoesOn \/ Reloads("hup") \/ Reloads("scan")
        \/ Watches \/ ReloadAsked \/ Hangup \/ Edits \/ Logs
        \/ \E what \in Registers \union {"tune"} : LoopLocks(what)
        \/ \E t \in Flushers : Flushes(t)

Spec == Init /\ [][Next]_vars

(* The threads are scheduled, and one that waits for the lock is woken now   *)
(* and then when it is free.                                                 *)
Fairness == /\ SF_vars(LoopGoesOn) /\ SF_vars(Reloads("hup"))
            /\ SF_vars(Reloads("scan") \/ Watches)
            /\ \A t \in Flushers : WF_vars(Flushes(t))

FairSpec == Spec /\ Fairness
-----------------------------------------------------------------------------
Contents == [rev : Revs, tuned : 0..MaxCalls]

TypeOK == /\ file \in [rev : Revs, tuned : 0..MaxCalls, whole : BOOLEAN, mtime : Nat]
          /\ cfg \in Contents /\ read \in [Reloaders -> Contents]
          /\ mtime \in 0..file.mtime
          /\ backends \subseteq Ids \X {"config", "register"}
          /\ \A b, c \in backends : b[1] = c[1] => b = c
          /\ lock \in Reloaders \union {None}
          /\ at \in [Reloaders -> {"rest", "load", "stamp", "lock", "swap", "close", "open",
                                   "held", "disk", "truncate", "dump", "noted"}]
          /\ op \in Registers \union {"tune", None}
          /\ fresh \in [Reloaders -> SUBSET (Ids \X {"config", "register"})]
          /\ log_open \in BOOLEAN /\ Len(log_buf) <= MaxLines
          /\ dead \subseteq Flushers \union {"scan"}

(* "dynamically discovered backends survive a config reload": also one that  *)
(* registers while the new list is made.                                     *)
RegisteredStays == [][\A b \in Ids : <<b, "register">> \in backends => Registered(b)']_vars

(* Every line of the access log is written once, whatever thread drains the  *)
(* buffer while another reloads and closes the file.                         *)
LinesWrittenOnce == written \o log_buf = [i \in 1..logged |-> i]

(* "Values are also written back so that a later reload does not undo them": *)
(* a tuned value is only undone by a reload that has read the file before it *)
(* was written there, or that runs while it is, or when writing it failed.   *)
TuningSurvives ==
  [][cfg'.tuned < cfg.tuned =>
       \/ at["loop"] \in {"disk", "truncate", "dump"} \/ ~file.whole
       \/ \E t \in Reloaders : at[t] = "swap" /\ read[t].tuned # file.tuned]_vars

(* The handler of SIGHUP waits for a lock that the code it interrupts holds. *)
Stuck == at["hup"] = "lock" /\ lock = "loop"

(* "re-read [...] (also SIGHUP, /lb/reload)": a reload by signal ends.  It   *)
(* does not hold: the balancer may be Stuck.                                 *)
HangupReloads == at["hup"] # "rest" ~> at["hup"] = "rest"

(* The file has revision r, which LB.cfg has not and the watcher will see;   *)
(* nobody is between loading the file and swapping or rewriting it.          *)
Unseen(r) ==
  /\ file.rev = r /\ cfg.rev # r /\ mtime # file.mtime
  /\ \A t \in Reloaders : at[t] \notin {"stamp", "lock", "swap", "truncate", "dump", "noted"}

(* "config file edited? reload without a restart": an edit that is not made  *)
(* while the file is loaded or rewritten reaches LB.cfg, however reloads by  *)
(* the watcher, by request and by signal overlap, unless another edit or a   *)
(* tuning comes before it is loaded.  (A truncated file may have ended the   *)
(* watcher's thread, and a signal handler may have stuck the balancer.)      *)
Reaches(r) == cfg.rev = r \/ "scan" \in dead \/ Stuck

UntunedEditsLoaded ==
  \A r \in 1..MaxEdits : Unseen(r) ~> Reaches(r) \/ file.rev # r \/ at["loop"] = "disk"

(* The same without the exception for a tuning.  It does not hold: POST      *)
(* /lb/config notes the time of the file it wrote, which has the edit.       *)
EditsLoaded == \A r \in 1..MaxEdits : Unseen(r) ~> Reaches(r) \/ file.rev # r

(* "re-read whenever its mtime changes": the last edit reaches LB.cfg.  It   *)
(* does not hold: an edit between json.load and getmtime is not read.        *)
LastEditLoaded == \A r \in 1..MaxEdits : file.rev = r ~> Reaches(r) \/ file.rev # r

(* Lines do not stay in the buffer while a thread that flushes it lives.     *)
LogDrains == log_buf # << >> ~> log_buf = << >> \/ Flushers \subseteq dead
=============================================================================
