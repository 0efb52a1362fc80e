------------------------------- MODULE Ledger -------------------------------
(***************************************************************************)
(* What the message path of the chat promises its clients: every message   *)
(* is stored at most once, the numbers of a room's messages are 1, 2, 3    *)
(* without a gap, a stored number never changes, and a client is told only *)
(* the number under which its message is stored.                           *)
(***************************************************************************)
EXTENDS Integers

CONSTANTS Msgs,      \* message ids
          RoomOf     \* the room each message is posted to

VARIABLES log,       \* the number of each message, 0 while it is not stored
          told       \* the numbers clients were given for each message

vars == <<log, told>>

InRoom(r) == {m \in Msgs : RoomOf[m] = r}

(* No number is used twice in a room. *)
Distinct(f) == \A m, n \in Msgs :
                  RoomOf[m] = RoomOf[n] /\ f[m] = f[n] /\ f[m] # 0 => m = n

(* Every number below one that is used in a room is used there too. *)
GapFree(f) == \A m \in Msgs : \A i \in 1..f[m] :
                 \E n \in InRoom(RoomOf[m]) : f[n] = i

Init == /\ log = [m \in Msgs |-> 0]
        /\ told = [m \in Msgs |-> {}]

(* Some messages are stored; the others keep their numbers. *)
Store == /\ log' \in [Msgs -> Nat]
         /\ log' # log
         /\ \A m \in Msgs : log[m] # 0 => log'[m] = log[m]
         /\ Distinct(log') /\ GapFree(log')
         /\ UNCHANGED told

(* The senders of some stored messages are told their numbers. *)
Tell(S) == /\ \A m \in S : log[m] # 0
           /\ told' = [m \in Msgs |-> IF m \in S THEN told[m] \union {log[m]}
                                                 ELSE told[m]]
           /\ UNCHANGED log

Next == Store \/ \E S \in SUBSET Msgs : Tell(S)

Spec == Init /\ [][Next]_vars
=============================================================================
