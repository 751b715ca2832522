-------------------------- MODULE PortLeases_proofs --------------------------
(***************************************************************************)
(* Proofs about PortLeases, for every set of sessions, base, block size    *)
(* and port limit that the configuration check admits.                     *)
(***************************************************************************)
EXTENDS PortLeases, TLAPS

\* What the allocator knows while it probes: its candidate is real, and every port
\* it has got past (or listens on) was free of squatters since it chose the candidate.
ProbeTrail ==
  \A s \in Sessions : pc[s] # "idle" =>
    /\ cand[s] \in Candidates
    /\ BlockPorts(cand[s]) \ squatted \subseteq seenFree[s]
    /\ \A p \in BlockPorts(cand[s]) : p < cand[s] + off[s] => p \in seenFree[s]
    /\ pc[s] = "bound" => cand[s] + off[s] \in seenFree[s]

\* The inductive invariant behind every theorem of this module.
IInv == TypeOK /\ ProbeTrail /\ BlocksExclusive

-----------------------------------------------------------------------------
(* Operators *)

\* The loop only ever turns to a candidate, or gives up.
LEMMA NextCandidateType ==
  ASSUME NEW from, NEW t
  PROVE  NextCandidate(from, t) \in Candidates \cup {NoBlock}
BY DEF NextCandidate

\* Candidates are whole ports below the limit, and so are the ports of their blocks.
LEMMA CandidatePorts ==
  ASSUME NEW c \in Candidates
  PROVE  /\ c \in Int
         /\ c # NoBlock
         /\ BlockPorts(c) \subseteq Base .. (PortLimit - 1)
BY PortConfig DEF Candidates, BlockPorts

\* Two different candidates are at least a block apart: their blocks share no port.
LEMMA BlocksDisjoint ==
  ASSUME NEW c \in Candidates, NEW d \in Candidates, c < d
  PROVE  BlockPorts(c) \cap BlockPorts(d) = {}
<1>1. PICK k \in 0 .. PortLimit : c = Base + k * BlockSize
  BY DEF Candidates
<1>2. PICK j \in 0 .. PortLimit : d = Base + j * BlockSize
  BY DEF Candidates
<1>3. k \in Int /\ j \in Int /\ BlockSize \in Nat /\ BlockSize > 0 /\ Base \in Int
  BY PortConfig
<1>4. k * BlockSize \in Int /\ j * BlockSize \in Int
  BY <1>3
<1>5. k * BlockSize < j * BlockSize
  BY <1>1, <1>2, <1>3, <1>4
<1>6. k < j
  <2>1. SUFFICES ASSUME j <= k PROVE FALSE
    BY <1>3
  <2>2. j * BlockSize <= k * BlockSize
    BY <2>1, <1>3
  <2>3. QED
    BY <2>2, <1>4, <1>5
<1>7. k * BlockSize + BlockSize <= j * BlockSize
  <2>1. (k + 1) * BlockSize <= j * BlockSize
    BY <1>3, <1>6
  <2>2. (k + 1) * BlockSize = k * BlockSize + BlockSize
    BY <1>3
  <2>3. QED
    BY <2>1, <2>2
<1>8. c + BlockSize <= d
  BY <1>1, <1>2, <1>3, <1>4, <1>7
<1>9. QED
  BY <1>8, <1>3, CandidatePorts DEF BlockPorts

-----------------------------------------------------------------------------
(* The inductive invariant *)

\* Turning to a next candidate, or giving up, keeps the types and the trail: the
\* step every loop iteration ends in.
LEMMA TryPreserves ==
  ASSUME TypeOK, ProbeTrail, BlocksExclusive,
         NEW s \in Sessions, NEW c \in Candidates \cup {NoBlock},
         NEW t \in SUBSET Candidates,
         Try(s, c, t), UNCHANGED <<rows, squatted>>
  PROVE  IInv'
<1>1. CASE c = NoBlock
  <2>1. Fail(s)
    BY <1>1 DEF Try
  <2>2. TypeOK'
    BY <2>1, PortConfig DEF TypeOK, Fail
  <2>3. ProbeTrail'
    BY <2>1 DEF TypeOK, ProbeTrail, Fail
  <2>4. BlocksExclusive'
    BY <2>1 DEF TypeOK, BlocksExclusive, Fail
  <2>5. QED
    BY <2>2, <2>3, <2>4 DEF IInv
<1>2. CASE c # NoBlock
  <2>1. /\ pc' = [pc EXCEPT ![s] = "probe"]
        /\ cand' = [cand EXCEPT ![s] = c]
        /\ off' = [off EXCEPT ![s] = 0]
        /\ taken' = [taken EXCEPT ![s] = t]
        /\ seenFree' = [seenFree EXCEPT ![s] = BlockPorts(c) \ squatted]
        /\ UNCHANGED <<held, rows, squatted>>
    BY <1>2 DEF Try
  <2>2. c \in Candidates /\ c \in Int /\ BlockPorts(c) \subseteq Int
    BY <1>2, CandidatePorts DEF BlockPorts
  <2>3. TypeOK'
    BY <2>1, <2>2, PortConfig DEF TypeOK
  <2>4. ProbeTrail'
    <3> SUFFICES ASSUME NEW r \in Sessions, pc'[r] # "idle"
                 PROVE  /\ cand'[r] \in Candidates
                        /\ BlockPorts(cand'[r]) \ squatted' \subseteq seenFree'[r]
                        /\ \A p \in BlockPorts(cand'[r]) :
                             p < cand'[r] + off'[r] => p \in seenFree'[r]
                        /\ pc'[r] = "bound" => cand'[r] + off'[r] \in seenFree'[r]
      BY DEF ProbeTrail
    <3>1. CASE r = s
      BY <3>1, <2>1, <2>2 DEF TypeOK, BlockPorts
    <3>2. CASE r # s
      BY <3>2, <2>1 DEF TypeOK, ProbeTrail
    <3>3. QED
      BY <3>1, <3>2
  <2>5. BlocksExclusive'
    BY <2>1 DEF BlocksExclusive
  <2>6. QED
    BY <2>3, <2>4, <2>5 DEF IInv
<1>3. QED
  BY <1>1, <1>2

LEMMA InitIInv == Init => IInv
BY PortConfig DEF Init, IInv, TypeOK, ProbeTrail, BlocksExclusive

\* One step per action of the allocator, its callers and its environment.
LEMMA StepsPreserve ==
  ASSUME IInv, [Next]_vars
  PROVE  IInv'
<1>0. TypeOK /\ ProbeTrail /\ BlocksExclusive
  BY DEF IInv
<1>1. ASSUME NEW s \in Sessions, BeginAcquire(s) PROVE IInv'
  <2>1. Leased \in SUBSET Candidates
    BY <1>0 DEF TypeOK, Leased
  <2>2. QED
    BY <1>0, <1>1, <2>1, NextCandidateType, TryPreserves DEF BeginAcquire
<1>2. ASSUME NEW s \in Sessions, ProbeListens(s) PROVE IInv'
  <2>1. cand[s] \in Candidates /\ cand[s] \in Int /\ off[s] \in 0 .. (BlockSize - 1)
    BY <1>0, <1>2, CandidatePorts DEF ProbeListens, TypeOK, ProbeTrail
  <2>2. cand[s] + off[s] \in BlockPorts(cand[s])
    BY <2>1, PortConfig DEF BlockPorts
  <2>3. cand[s] + off[s] \in seenFree[s]
    BY <1>0, <1>2, <2>2 DEF ProbeListens, ProbeTrail
  <2>4. TypeOK'
    BY <1>0, <1>2 DEF ProbeListens, TypeOK
  <2>5. ProbeTrail'
    BY <1>0, <1>2, <2>3 DEF ProbeListens, TypeOK, ProbeTrail
  <2>6. BlocksExclusive'
    BY <1>0, <1>2 DEF ProbeListens, BlocksExclusive
  <2>7. QED
    BY <2>4, <2>5, <2>6 DEF IInv
<1>3. ASSUME NEW s \in Sessions, ProbeRefused(s) PROVE IInv'
  BY <1>0, <1>3, NextCandidateType, TryPreserves DEF ProbeRefused, TypeOK
<1>4. ASSUME NEW s \in Sessions, ProbeNextPort(s) PROVE IInv'
  <2>1. cand[s] \in Candidates /\ cand[s] \in Int /\ off[s] \in 0 .. (BlockSize - 1)
    BY <1>0, <1>4, CandidatePorts DEF ProbeNextPort, PortsLeft, TypeOK, ProbeTrail
  <2>2. TypeOK'
    BY <1>0, <1>4, <2>1, PortConfig DEF ProbeNextPort, PortsLeft, TypeOK
  <2>3. ProbeTrail'
    <3> SUFFICES ASSUME NEW r \in Sessions, pc'[r] # "idle"
                 PROVE  /\ cand'[r] \in Candidates
                        /\ BlockPorts(cand'[r]) \ squatted' \subseteq seenFree'[r]
                        /\ \A p \in BlockPorts(cand'[r]) :
                             p < cand'[r] + off'[r] => p \in seenFree'[r]
                        /\ pc'[r] = "bound" => cand'[r] + off'[r] \in seenFree'[r]
      BY DEF ProbeTrail
    <3>1. CASE r = s
      <4>1. /\ cand'[r] = cand[s] /\ off'[r] = off[s] + 1 /\ pc'[r] = "probe"
            /\ seenFree'[r] = seenFree[s] /\ squatted' = squatted
        BY <1>0, <1>4, <3>1 DEF ProbeNextPort, TypeOK
      <4>2. \A p \in BlockPorts(cand[s]) : p < cand[s] + off[s] + 1 =>
               p < cand[s] + off[s] \/ p = cand[s] + off[s]
        BY <2>1 DEF BlockPorts
      <4>3. cand[s] + off[s] \in seenFree[s]
        BY <1>0, <1>4 DEF ProbeNextPort, PortsLeft, ProbeTrail
      <4>4. cand'[r] + off'[r] = cand[s] + off[s] + 1
        BY <4>1, <2>1
      <4>5. QED
        BY <1>0, <1>4, <4>1, <4>2, <4>3, <4>4, <2>1 DEF ProbeNextPort, PortsLeft, ProbeTrail
    <3>2. CASE r # s
      BY <1>0, <1>4, <3>2 DEF ProbeNextPort, TypeOK, ProbeTrail
    <3>3. QED
      BY <3>1, <3>2
  <2>4. BlocksExclusive'
    BY <1>0, <1>4 DEF ProbeNextPort, BlocksExclusive
  <2>5. QED
    BY <2>2, <2>3, <2>4 DEF IInv
<1>5. ASSUME NEW s \in Sessions, LostCandidate(s) PROVE IInv'
  <2>1. taken[s] \cup Leased \in SUBSET Candidates
    BY <1>0 DEF TypeOK, Leased
  <2>2. QED
    BY <1>0, <1>5, <2>1, NextCandidateType, TryPreserves DEF LostCandidate
<1>6. ASSUME NEW s \in Sessions, Grant(s) PROVE IInv'
  <2>1. CASE Fail(s)
    <3>1. TypeOK'
      BY <1>0, <1>6, <2>1, PortConfig DEF Grant, Fail, TypeOK
    <3>2. ProbeTrail'
      BY <1>0, <1>6, <2>1 DEF Grant, Fail, TypeOK, ProbeTrail
    <3>3. BlocksExclusive'
      BY <1>0, <2>1 DEF Fail, TypeOK, BlocksExclusive
    <3>4. QED
      BY <3>1, <3>2, <3>3 DEF IInv
  <2>2. CASE held' = [held EXCEPT ![s] = @ \cup {cand[s]}] /\ ~Fail(s)
    <3>1. cand[s] \in Candidates /\ (\A r \in Sessions : cand[s] \notin held[r])
      BY <1>0, <1>6 DEF Grant, BlockProbedFree, StillUntaken, Leased, ProbeTrail
    <3>2. TypeOK'
      BY <1>0, <1>6, <2>2, <3>1, PortConfig DEF Grant, TypeOK
    <3>3. ProbeTrail'
      BY <1>0, <1>6, <2>2 DEF Grant, TypeOK, ProbeTrail
    <3>4. BlocksExclusive'
      BY <1>0, <2>2, <3>1 DEF TypeOK, BlocksExclusive
    <3>5. QED
      BY <3>2, <3>3, <3>4 DEF IInv
  <2>3. QED
    BY <1>6, <2>1, <2>2 DEF Grant
<1>7. ASSUME NEW s \in Sessions, Release(s) \/ DeleteRow(s) PROVE IInv'
  <2>1. held' = [held EXCEPT ![s] = {}] /\ UNCHANGED <<squatted, allocVars>> /\ rows' \subseteq rows
    BY <1>7 DEF Release, DeleteRow
  <2>2. TypeOK'
    BY <1>0, <2>1 DEF TypeOK, allocVars
  <2>3. ProbeTrail'
    BY <1>0, <2>1 DEF ProbeTrail, allocVars
  <2>4. BlocksExclusive'
    BY <1>0, <2>1 DEF TypeOK, BlocksExclusive
  <2>5. QED
    BY <2>2, <2>3, <2>4 DEF IInv
<1>8. CASE Restart
  BY <1>0, <1>8, PortConfig DEF Restart, IInv, TypeOK, ProbeTrail, BlocksExclusive
<1>9. ASSUME NEW p \in Base .. (PortLimit - 1), Squat(p) PROVE IInv'
  <2>1. TypeOK'
    BY <1>0, <1>9, PortConfig DEF Squat, allocVars, TypeOK
  <2>2. ProbeTrail'
    BY <1>0, <1>9 DEF Squat, allocVars, ProbeTrail
  <2>3. BlocksExclusive'
    BY <1>0, <1>9 DEF Squat, BlocksExclusive
  <2>4. QED
    BY <2>1, <2>2, <2>3 DEF IInv
<1>10. ASSUME NEW p \in Base .. (PortLimit - 1), Unsquat(p) PROVE IInv'
  <2>1. TypeOK'
    BY <1>0, <1>10, PortConfig DEF Unsquat, TypeOK
  <2>2. ProbeTrail'
    BY <1>0, <1>10 DEF Unsquat, TypeOK, ProbeTrail
  <2>3. BlocksExclusive'
    BY <1>0, <1>10 DEF Unsquat, BlocksExclusive
  <2>4. QED
    BY <2>1, <2>2, <2>3 DEF IInv
<1>11. CASE UNCHANGED vars
  BY <1>0, <1>11 DEF vars, IInv, TypeOK, ProbeTrail, BlocksExclusive
<1>12. QED
  BY <1>1, <1>2, <1>3, <1>4, <1>5, <1>6, <1>7, <1>8, <1>9, <1>10, <1>11
  DEF Next, Allocator, Environment

-----------------------------------------------------------------------------
(* Theorems *)

\* The inductive invariant holds throughout.
THEOREM InvariantHolds == Spec => []IInv
<1>1. Init => IInv
  BY InitIInv
<1>2. IInv /\ [Next]_vars => IInv'
  BY StepsPreserve
<1>3. QED
  BY <1>1, <1>2, PTL DEF Spec

\* Every variable keeps its type.
THEOREM TypeCorrect == Spec => []TypeOK
<1>1. IInv => TypeOK
  BY DEF IInv
<1>2. QED
  BY <1>1, InvariantHolds, PTL

\* No two sessions ever hold a common port (ports.ts allocatePortBlock: the final
\* re-read), whatever the number of concurrent allocators.
THEOREM PortExclusion == Spec => []PortsExclusive
<1>1. IInv => PortsExclusive
  <2>1. SUFFICES ASSUME IInv, NEW s \in Sessions, NEW t \in Sessions, s # t,
                        NEW b \in held[s], NEW c \in held[t]
                 PROVE  BlockPorts(b) \cap BlockPorts(c) = {}
    BY DEF PortsExclusive
  <2>2. b \in Candidates /\ c \in Candidates /\ b # c
    BY <2>1 DEF IInv, TypeOK, BlocksExclusive
  <2>3. b \in Int /\ c \in Int
    BY <2>2, CandidatePorts
  <2>4. CASE b < c
    BY <2>2, <2>4, BlocksDisjoint
  <2>5. CASE c < b
    BY <2>2, <2>5, BlocksDisjoint
  <2>6. QED
    BY <2>2, <2>3, <2>4, <2>5
<1>2. QED
  BY <1>1, InvariantHolds, PTL

\* Every granted block lies between config.ports.base and the port limit.
THEOREM GrantedInRange == Spec => []GrantedPortsInRange
<1>1. IInv => GrantedPortsInRange
  BY CandidatePorts DEF IInv, TypeOK, GrantedPortsInRange
<1>2. QED
  BY <1>1, InvariantHolds, PTL

\* What a step can do to the lease rows: one grant, one session's release, or the
\* start of a daemon.
LEMMA HeldSteps ==
  ASSUME [Next]_vars, held' # held
  PROVE  \/ \E s \in Sessions : held' = [held EXCEPT ![s] = {}] \/ Grant(s)
         \/ Restart
BY DEF Next, vars, Allocator, Environment, BeginAcquire, ProbeListens, ProbeRefused,
  ProbeNextPort, LostCandidate, Try, Fail, Release, DeleteRow, Squat, Unsquat

\* A grant only hands out ports seen free since the allocator chose the block.
THEOREM GrantsProbedBlocks == Spec => NeverGrantsSquatted
<1>1. IInv /\ [Next]_vars =>
        [\A s \in Sessions : \A b \in held'[s] \ held[s] : BlockPorts(b) \subseteq seenFree[s]]_vars
  <2>1. SUFFICES ASSUME IInv, Next, NEW s \in Sessions, NEW b \in held'[s] \ held[s]
                 PROVE  BlockPorts(b) \subseteq seenFree[s]
    OBVIOUS
  <2>2. held \in [Sessions -> SUBSET Candidates]
    BY <2>1 DEF IInv, TypeOK
  <2>3. Grant(s) /\ b = cand[s]
    <3>1. PICK r \in Sessions : Grant(r)
      BY <2>1, <2>2, HeldSteps DEF Restart
    <3>2. held' = [held EXCEPT ![r] = {}] \/ held' = [held EXCEPT ![r] = @ \cup {cand[r]}]
      BY <3>1 DEF Grant, Fail
    <3>3. QED
      BY <2>1, <2>2, <3>1, <3>2
  <2>4. /\ cand[s] \in Candidates /\ cand[s] \in Int
        /\ pc[s] = "bound" /\ off[s] \in 0 .. (BlockSize - 1) /\ off[s] + 1 = BlockSize
    BY <2>1, <2>3, CandidatePorts DEF Grant, BlockProbedFree, IInv, TypeOK, ProbeTrail
  <2>5. \A p \in BlockPorts(cand[s]) : p < cand[s] + off[s] \/ p = cand[s] + off[s]
    BY <2>4, PortConfig DEF BlockPorts
  <2>6. QED
    BY <2>1, <2>3, <2>4, <2>5 DEF IInv, ProbeTrail
<1>2. QED
  BY <1>1, InvariantHolds, PTL DEF Spec, NeverGrantsSquatted

\* The allocator, its callers and the daemon restarts implement the abstract pool.
THEOREM Refinement == Spec => ImplementsPool
<1>1. Init => Pool!Init
  BY DEF Init, Pool!Init
<1>2. IInv /\ [Next]_vars => [Pool!Next]_held
  <2>1. SUFFICES ASSUME IInv, [Next]_vars, held' # held
                 PROVE  Pool!Next
    OBVIOUS
  <2>2. held \in [Sessions -> SUBSET Candidates]
    BY <2>1 DEF IInv, TypeOK
  <2>3. ASSUME NEW s \in Sessions, held' = [held EXCEPT ![s] = {}]
        PROVE  Pool!Next
    BY <2>3 DEF Pool!Next, Pool!GiveBack
  <2>4. ASSUME NEW s \in Sessions, Grant(s)
        PROVE  Pool!Next
    <3>1. CASE Fail(s)
      BY <2>3, <3>1 DEF Fail
    <3>2. CASE ~Fail(s)
      <4>1. held' = [held EXCEPT ![s] = @ \cup {cand[s]}]
        BY <2>4, <3>2 DEF Grant
      <4>2. cand[s] \in Candidates /\ (\A r \in Sessions : cand[s] \notin held[r])
        BY <2>1, <2>4 DEF Grant, BlockProbedFree, StillUntaken, Leased, IInv, ProbeTrail
      <4>3. QED
        BY <4>1, <4>2 DEF Pool!Next, Pool!Take, Pool!Free
    <3>3. QED
      BY <3>1, <3>2
  <2>5. CASE Restart
    BY <2>5 DEF Restart, Pool!Next, Pool!Restart
  <2>6. \/ \E s \in Sessions : held' = [held EXCEPT ![s] = {}] \/ Grant(s)
        \/ Restart
    BY <2>1, HeldSteps
  <2>7. QED
    BY <2>3, <2>4, <2>5, <2>6
<1>3. QED
  BY <1>1, <1>2, InvariantHolds, PTL DEF Spec, ImplementsPool, Pool!Spec

=============================================================================
