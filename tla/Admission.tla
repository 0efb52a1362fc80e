----------------------------- MODULE Admission -----------------------------
(***************************************************************************)
(* What the load balancer's bulkhead promises to the requests it admits:   *)
(* at most limit of them are let in, they are let in in the order in which *)
(* they arrived, and one that finds nobody waiting and a free place enters *)
(* at once.  How the places are counted, who wakes whom, and how many of   *)
(* the waiting are let in by one step is left open.  The promise ends when *)
(* the process starts to shut down (open becomes FALSE).                   *)
(***************************************************************************)
EXTENDS Naturals, Sequences, FiniteSets

CONSTANT Requests

VARIABLES line,      \* the requests that wait, in order of arrival
          members,   \* the requests that have been let in
          limit,     \* how many may be in
          open       \* the process is not shutting down

vars == <<line, members, limit, open>>

FirstOfLine(n) == {line[i] : i \in 1..n}

(* The first n of the line go in, and then at most limit' are in. *)
AdmitFirst(n, in) ==
  /\ line' = SubSeq(line, n + 1, Len(line))
  /\ members' = in \cup FirstOfLine(n)
  /\ n > 0 => Cardinality(members') <= limit'

Init == /\ line = << >>
        /\ members = {}
        /\ limit \in Nat \ {0}
        /\ open = TRUE

EnterAtOnce(r) == /\ line = << >>
                  /\ r \notin members
                  /\ members' = members \cup {r}
                  /\ Cardinality(members') <= limit
                  /\ UNCHANGED <<line, limit>>

JoinLine(r) == /\ r \notin members
               /\ \A i \in 1..Len(line) : line[i] # r
               /\ line' = Append(line, r)
               /\ UNCHANGED <<members, limit>>

Leave(r) == /\ r \in members
            /\ limit' = limit
            /\ \E n \in 0..Len(line) : AdmitFirst(n, members \ {r})

SetLimit == /\ limit' \in Nat \ {0}
            /\ \E n \in 0..Len(line) : AdmitFirst(n, members)

Serve == /\ open
         /\ open' = TRUE
         /\ \/ \E r \in Requests : EnterAtOnce(r) \/ JoinLine(r) \/ Leave(r)
            \/ SetLimit

(* From the start of the shutdown on, nothing is promised. *)
Shut == open' = FALSE

Next == Serve \/ Shut

Spec == Init /\ [][Next]_vars
============================================================================
