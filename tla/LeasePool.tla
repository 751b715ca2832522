----------------------------- MODULE LeasePool -----------------------------
(***************************************************************************)
(* What the port-lease layer promises its users: a pool of blocks, each    *)
(* held by at most one session at a time.  A session may take a block that *)
(* nobody holds, give back everything it holds, and a daemon start empties *)
(* the whole pool.  How a block is found (snapshot, probes, re-read) is    *)
(* the business of PortLeases, which is shown to implement this module.    *)
(***************************************************************************)
CONSTANTS
  Sessions,   \* session ids (the integration session is one of them)
  Blocks      \* what is leased: the base port of a block

VARIABLE held \* held[s]: the blocks whose lease rows of s are not released

Init == held = [s \in Sessions |-> {}]

Free(b) == \A s \in Sessions : b \notin held[s]

Take(s, b) ==
  /\ Free(b)
  /\ held' = [held EXCEPT ![s] = @ \cup {b}]

GiveBack(s) == held' = [held EXCEPT ![s] = {}]

Restart == held' = [s \in Sessions |-> {}]

Next ==
  \/ \E s \in Sessions, b \in Blocks : Take(s, b)
  \/ \E s \in Sessions : GiveBack(s)
  \/ Restart

Spec == Init /\ [][Next]_held

=============================================================================
