----------------------------- MODULE PortLeases -----------------------------
(***************************************************************************)
(* Port-block leases: allocatePortBlock (isolation/leases/ports.ts), the   *)
(* LeaseManager around it (isolation/leases/manager.ts) and the lease rows *)
(* it writes (db/repositories/lease.ts).                                   *)
(*                                                                         *)
(* Every `await isPortFree(...)` gives the event loop to another RPC, so   *)
(* several allocators interleave between probes; everything between two    *)
(* awaits is one action.  A probe LISTENS on the port it asks about, so    *)
(* two allocators probing one port disturb each other, as they do here.    *)
(***************************************************************************)
EXTENDS Integers, FiniteSets

CONSTANTS
  Sessions,     \* ids that acquire leases, the integration session included
  Base,         \* config.ports.base
  BlockSize,    \* config.ports.blockSize
  PortLimit,    \* 65536 in the code: one past the last port
  NoBlock       \* "no candidate left"

ASSUME PortConfig ==
  /\ Base \in Nat \ {0}
  /\ BlockSize \in Nat \ {0}
  /\ PortLimit \in Nat
  /\ Base + BlockSize < PortLimit
  /\ NoBlock \notin Int

\* Mutant: the loop runs while the base itself is a port.
CandidatesPastLimit ==
  {c \in Base .. (PortLimit - 1) : \E k \in 0 .. PortLimit : c = Base + k * BlockSize}

\* The bases the loop can reach: config.ports.base and every blockSize above it,
\* as long as the whole block stays below the port limit.
Candidates ==
  {c \in Base .. (PortLimit - BlockSize) :
     \E k \in 0 .. PortLimit : c = Base + k * BlockSize}

BlockPorts(c) == c .. (c + BlockSize - 1)

VARIABLES
  held,      \* held[s]: bases of the port rows of s with released_at IS NULL
  rows,      \* sessions whose row exists (a lease row references it)
  squatted,  \* ports some program outside the allocator listens on
  pc,        \* pc[s]: "idle", "probe" (about to listen), "bound" (listening)
  cand,      \* cand[s]: the candidate being probed
  off,       \* off[s]: the offset being probed
  taken,     \* taken[s]: the local set `taken`
  seenFree   \* history: ports of the candidate not squatted at some moment
             \* since the allocator turned to it

vars == <<held, rows, squatted, pc, cand, off, taken, seenFree>>
allocVars == <<pc, cand, off, taken, seenFree>>

TypeOK ==
  /\ held \in [Sessions -> SUBSET Candidates]
  /\ rows \subseteq Sessions
  /\ squatted \subseteq Int
  /\ pc \in [Sessions -> {"idle", "probe", "bound"}]
  /\ cand \in [Sessions -> Candidates \cup {NoBlock}]
  /\ off \in [Sessions -> 0 .. (BlockSize - 1)]
  /\ taken \in [Sessions -> SUBSET Candidates]
  /\ seenFree \in [Sessions -> SUBSET Int]

-----------------------------------------------------------------------------
Leased == UNION {held[s] : s \in Sessions}

\* Mutant: the step to the next candidate is lost.
NextCandidateAgain(from, t) ==
  LET left == {c \in Candidates : c >= from - 1 /\ c \notin t}
      first == {c \in left : \A d \in left : c <= d} IN
  IF first = {} THEN NoBlock ELSE CHOOSE c \in first : TRUE

\* The next candidate the loop tries from `from` on, skipping the taken ones.
NextCandidate(from, t) ==
  LET left == {c \in Candidates : c >= from /\ c \notin t}
      first == {c \in left : \A d \in left : c <= d} IN
  IF first = {} THEN NoBlock ELSE CHOOSE c \in first : TRUE

Init ==
  /\ held = [s \in Sessions |-> {}]
  /\ rows = Sessions
  /\ squatted = {}
  /\ pc = [s \in Sessions |-> "idle"]
  /\ cand = [s \in Sessions |-> NoBlock]
  /\ off = [s \in Sessions |-> 0]
  /\ taken = [s \in Sessions |-> {}]
  /\ seenFree = [s \in Sessions |-> {}]

\* `acquire` rejected: everything the session holds is released again, whoever
\* acquired it (manager.ts releases by session, not by row).
Fail(s) ==
  /\ held' = [held EXCEPT ![s] = {}]
  /\ pc' = [pc EXCEPT ![s] = "idle"]
  /\ cand' = [cand EXCEPT ![s] = NoBlock]
  /\ off' = [off EXCEPT ![s] = 0]
  /\ taken' = [taken EXCEPT ![s] = {}]
  /\ seenFree' = [seenFree EXCEPT ![s] = {}]

\* The loop turns to candidate c with the local set t, or throws NO_PORTS_AVAILABLE.
Try(s, c, t) ==
  IF c = NoBlock
    THEN Fail(s)
    ELSE /\ pc' = [pc EXCEPT ![s] = "probe"]
         /\ cand' = [cand EXCEPT ![s] = c]
         /\ off' = [off EXCEPT ![s] = 0]
         /\ taken' = [taken EXCEPT ![s] = t]
         /\ seenFree' = [seenFree EXCEPT ![s] = BlockPorts(c) \ squatted]
         /\ UNCHANGED held

\* acquire(s) up to the first await: the leased set is snapshotted.
BeginAcquire(s) ==
  /\ pc[s] = "idle"
  /\ Try(s, NextCandidate(Base, Leased), Leased)
  /\ UNCHANGED <<rows, squatted>>

\* Another allocator's probe listens on port p right now.
Probing(s, p) == \E r \in Sessions \ {s} : pc[r] = "bound" /\ p = cand[r] + off[r]

\* isPortFree: the probe's listen succeeds, or EADDRINUSE ends this candidate.
ProbeListens(s) ==
  LET p == cand[s] + off[s] IN
  /\ pc[s] = "probe"
  /\ p \notin squatted
  /\ ~Probing(s, p)
  /\ pc' = [pc EXCEPT ![s] = "bound"]
  /\ UNCHANGED <<held, rows, squatted, cand, off, taken, seenFree>>

ProbeRefused(s) ==
  LET p == cand[s] + off[s] IN
  /\ pc[s] = "probe"
  /\ p \in squatted \/ Probing(s, p)
  /\ Try(s, NextCandidate(cand[s] + 1, taken[s]), taken[s])
  /\ UNCHANGED <<rows, squatted>>

\* Mutant: an offset too many.
PortsLeftInclusive(s) == pc[s] = "bound" /\ off[s] + 1 <= BlockSize

PortsLeft(s) == pc[s] = "bound" /\ off[s] + 1 < BlockSize

\* The probe's close calls back and the block has ports left to probe.
ProbeNextPort(s) ==
  /\ PortsLeft(s)
  /\ pc' = [pc EXCEPT ![s] = "probe"]
  /\ off' = [off EXCEPT ![s] = @ + 1]
  /\ UNCHANGED <<held, rows, squatted, cand, taken, seenFree>>

\* Mutant: a free base port is taken for a free block.
BaseProbedFree(s) == pc[s] = "bound"

BlockProbedFree(s) == pc[s] = "bound" /\ off[s] + 1 = BlockSize

\* Mutant: the lease table is not read again after the probes.
UntakenInSnapshot(s) == cand[s] \notin taken[s]

\* The re-read: nobody recorded the candidate while it was being probed.
StillUntaken(s) == cand[s] \notin taken[s] \cup Leased

\* The whole block probed free, but the re-read of the lease table finds it gone.
LostCandidate(s) ==
  /\ BlockProbedFree(s)
  /\ ~StillUntaken(s)
  /\ Try(s, NextCandidate(cand[s] + 1, taken[s] \cup Leased), taken[s] \cup Leased)
  /\ UNCHANGED <<rows, squatted>>

\* Re-read, return, record the port row and acquire the rest, all without an await.
\* The insert fails when the session row is gone, and any later step (cache
\* directory, database copy) may fail: `acquire` then releases the session.
Grant(s) ==
  /\ BlockProbedFree(s)
  /\ StillUntaken(s)
  /\ \/ /\ s \in rows
        /\ held' = [held EXCEPT ![s] = @ \cup {cand[s]}]
        /\ pc' = [pc EXCEPT ![s] = "idle"]
        /\ cand' = [cand EXCEPT ![s] = NoBlock]
        /\ off' = [off EXCEPT ![s] = 0]
        /\ taken' = [taken EXCEPT ![s] = {}]
        /\ seenFree' = [seenFree EXCEPT ![s] = {}]
     \/ Fail(s)
  /\ UNCHANGED <<rows, squatted>>

\* release(s): the shell exited, was stopped, or its session landed.
Release(s) ==
  /\ held[s] # {}
  /\ held' = [held EXCEPT ![s] = {}]
  /\ UNCHANGED <<rows, squatted, allocVars>>

\* The session row is deleted; its lease rows cascade away.
DeleteRow(s) ==
  /\ s \in rows
  /\ rows' = rows \ {s}
  /\ held' = [held EXCEPT ![s] = {}]
  /\ UNCHANGED <<squatted, allocVars>>

\* The daemon dies with every allocation in flight; the next one starts with
\* releaseAll.
Restart ==
  /\ held' = [s \in Sessions |-> {}]
  /\ pc' = [s \in Sessions |-> "idle"]
  /\ cand' = [s \in Sessions |-> NoBlock]
  /\ off' = [s \in Sessions |-> 0]
  /\ taken' = [s \in Sessions |-> {}]
  /\ seenFree' = [s \in Sessions |-> {}]
  /\ UNCHANGED <<rows, squatted>>

\* Some program (a session's own server among them) starts or stops listening.
Squat(p) ==
  /\ p \notin squatted
  /\ ~\E s \in Sessions : pc[s] = "bound" /\ p = cand[s] + off[s]
  /\ squatted' = squatted \cup {p}
  /\ UNCHANGED <<held, rows, allocVars>>

Unsquat(p) ==
  /\ p \in squatted
  /\ squatted' = squatted \ {p}
  /\ seenFree' = [s \in Sessions |->
       IF pc[s] # "idle" /\ p \in BlockPorts(cand[s])
         THEN seenFree[s] \cup {p} ELSE seenFree[s]]
  /\ UNCHANGED <<held, rows, pc, cand, off, taken>>

Allocator(s) ==
  \/ ProbeListens(s)
  \/ ProbeRefused(s)
  \/ ProbeNextPort(s)
  \/ LostCandidate(s)
  \/ Grant(s)

Environment == \E p \in Base .. (PortLimit - 1) : Squat(p) \/ Unsquat(p)

Next ==
  \/ \E s \in Sessions : BeginAcquire(s) \/ Allocator(s) \/ Release(s) \/ DeleteRow(s)
  \/ Restart
  \/ Environment

\* A started probe always calls back: the allocator is fair, its callers are not.
Fairness == \A s \in Sessions : WF_vars(Allocator(s))

Spec == Init /\ [][Next]_vars /\ Fairness

-----------------------------------------------------------------------------
(* Properties *)

\* No port of one session's block lies in another session's block, whatever the
\* interleaving of two allocators that both probed the same block free: the
\* re-read of the lease table right before the row is written.
PortsExclusive ==
  \A s, t \in Sessions : s # t =>
    \A b \in held[s], c \in held[t] : BlockPorts(b) \cap BlockPorts(c) = {}

\* The inductive half of it, block by block.
BlocksExclusive ==
  \A s, t \in Sessions : s # t => held[s] \cap held[t] = {}

\* A block is never granted when one of its ports was occupied by another program
\* for the whole time the allocator looked at it: every port of the block is
\* probed, not only its base.
NeverGrantsSquatted ==
  [][\A s \in Sessions : \A b \in held'[s] \ held[s] : BlockPorts(b) \subseteq seenFree[s]]_vars

\* Every port handed out is a real port, up to the last block below the limit.
GrantedPortsInRange ==
  \A s \in Sessions : \A b \in held[s] : BlockPorts(b) \subseteq Base .. (PortLimit - 1)

\* An acquire that has begun ends, with a block or NO_PORTS_AVAILABLE, whatever the
\* squatters and the other allocators do.
AcquireEnds == \A s \in Sessions : pc[s] # "idle" ~> pc[s] = "idle"

\* The lease layer implements the abstract pool.
Pool == INSTANCE LeasePool WITH Blocks <- Candidates
ImplementsPool == Pool!Spec

=============================================================================
