-------------------------- MODULE Convergence_proofs --------------------------
(* Proofs about Convergence: its types, and that no test loses its merge. *)
EXTENDS Convergence, SequenceTheorems, TLAPS

(***************************************************************************)
(* TestSeesItsMerge rests on the lock: who resets the scratch worktree is  *)
(* at the head of the chain, and so is who tests in it.  That there is     *)
(* only one head is not enough, since a caller could be in the chain       *)
(* twice, or test after it gave the lock back.  ChainTells says that the   *)
(* chain holds exactly the tick and the land, each at most once and each   *)
(* as long as its stage says so.                                           *)
(***************************************************************************)

TickAlone == <<"tick">>
LandAlone == <<"land">>
TickFirst == <<"tick", "land">>
LandFirst == <<"land", "tick">>

WithTick == {TickAlone, TickFirst, LandFirst}
WithLand == {LandAlone, TickFirst, LandFirst}

ChainTells ==
  /\ queue \in {<<>>, TickAlone, LandAlone, TickFirst, LandFirst}
  /\ tick.at # "idle" <=> queue \in WithTick
  /\ land.at \in {"queued", "testing"} <=> queue \in WithLand
  /\ tick.at \in {"sweeping", "fullTesting"} => queue \in {TickAlone, TickFirst}
  /\ land.at = "testing" => queue \in {LandAlone, LandFirst}

IInv == TypeOK /\ ChainTells /\ TestSeesItsMerge

\* A second caller is chained behind the first.
LEMMA AppendToOne ==
  ASSUME NEW a, NEW b
  PROVE  Append(<<a>>, b) = <<a, b>>
  <1> DEFINE s == <<a>>
             t == <<a, b>>
             u == Append(s, b)
  <1>1. s \in Seq({a, b}) /\ t \in Seq({a, b}) /\ b \in {a, b}
    OBVIOUS
  <1>2. /\ u \in Seq({a, b}) /\ Len(u) = Len(s) + 1
        /\ \A i \in 1..Len(s) : u[i] = s[i]
        /\ u[Len(s) + 1] = b
    BY <1>1, AppendProperties
  <1>3. Len(s) = 1 /\ s[1] = a /\ Len(t) = 2 /\ t[1] = a /\ t[2] = b
    OBVIOUS
  <1> HIDE DEF s, t, u
  <1>4. Len(u) = Len(t) /\ \A i \in 1..Len(u) : u[i] = t[i]
    BY <1>2, <1>3
  <1>5. u = t
    BY <1>1, <1>2, <1>4, SeqEqual
  <1> QED BY <1>5 DEF s, t, u

\* What the operators of the lock do to a chain of this kind.
LEMMA ChainFacts ==
  /\ Append(<<>>, "tick") = TickAlone /\ Append(<<>>, "land") = LandAlone
  /\ Append(LandAlone, "tick") = LandFirst /\ Append(TickAlone, "land") = TickFirst
  /\ Tail(TickAlone) = <<>> /\ Tail(LandAlone) = <<>>
  /\ Tail(TickFirst) = LandAlone /\ Tail(LandFirst) = TickAlone
  /\ Head(TickAlone) = "tick" /\ Head(TickFirst) = "tick"
  /\ Head(LandAlone) = "land" /\ Head(LandFirst) = "land"
  <1>1. Append(<<>>, "tick") = TickAlone /\ Append(<<>>, "land") = LandAlone
    BY DEF TickAlone, LandAlone
  <1>2. Append(LandAlone, "tick") = LandFirst
    BY AppendToOne DEF LandAlone, LandFirst
  <1>3. Append(TickAlone, "land") = TickFirst
    BY AppendToOne DEF TickAlone, TickFirst
  <1>4. Tail(TickAlone) = <<>>
    BY DEF TickAlone
  <1>4b. Tail(LandAlone) = <<>>
    BY DEF LandAlone
  <1>5. Tail(TickFirst) = LandAlone
    BY DEF TickFirst, LandAlone
  <1>6. Tail(LandFirst) = TickAlone
    BY DEF LandFirst, TickAlone
  <1>7. Head(TickAlone) = "tick" /\ Head(TickFirst) = "tick"
    BY DEF TickAlone, TickFirst
  <1>8. Head(LandAlone) = "land" /\ Head(LandFirst) = "land"
    BY DEF LandAlone, LandFirst
  <1> QED BY <1>1, <1>2, <1>3, <1>4, <1>4b, <1>5, <1>6, <1>7, <1>8

LEMMA ChainsDiffer ==
  /\ <<>> # TickAlone /\ <<>> # LandAlone /\ <<>> # TickFirst /\ <<>> # LandFirst
  /\ TickAlone # LandAlone /\ TickAlone # TickFirst /\ TickAlone # LandFirst
  /\ LandAlone # TickFirst /\ LandAlone # LandFirst /\ TickFirst # LandFirst
  BY DEF TickAlone, LandAlone, TickFirst, LandFirst

LEMMA ChainTypes ==
  {<<>>, TickAlone, LandAlone, TickFirst, LandFirst} \subseteq Seq({"tick", "land"})
  BY DEF TickAlone, LandAlone, TickFirst, LandFirst

LEMMA InitOK == Init => IInv
  <1> SUFFICES ASSUME Init PROVE IInv
    OBVIOUS
  <1>1. TypeOK
    BY ConvergenceConfig DEF Init, TypeOK, IdleTick, IdleLand, TickStages, LandStages
  <1>2. ChainTells /\ TestSeesItsMerge
    BY ChainsDiffer DEF Init, ChainTells, WithTick, WithLand, IdleTick, IdleLand, TestSeesItsMerge
  <1> QED BY <1>1, <1>2 DEF IInv

-----------------------------------------------------------------------------

(***************************************************************************)
(* The chain and the scratch worktree, action by action.                   *)
(***************************************************************************)

\* The engine as a step finds it.
LEMMA EngineTypes ==
  ASSUME TypeOK
  PROVE  /\ tick = [at |-> tick.at, active |-> tick.active, due |-> tick.due, base |-> tick.base,
                    cur |-> tick.cur, seen |-> tick.seen, left |-> tick.left]
         /\ land = [at |-> land.at, branch |-> land.branch, base |-> land.base]
         /\ tick.at \in TickStages /\ land.at \in LandStages
  BY DEF TypeOK

LEMMA TickBeginsChain == IInv /\ TickBegins => ChainTells' /\ TestSeesItsMerge'
  <1> SUFFICES ASSUME IInv, TickBegins PROVE ChainTells' /\ TestSeesItsMerge'
    OBVIOUS
  <1>1. tick'.at \in {"queued", "fullQueued"}
    BY DEF TickBegins, IdleTick
  <1>2. queue \in {<<>>, LandAlone} /\ queue' \in {TickAlone, LandFirst}
    BY ChainFacts DEF IInv, ChainTells, WithTick, TickBegins, Chain
  <1>3. queue = <<>> => queue' = TickAlone
    BY ChainFacts DEF TickBegins, Chain
  <1>4. queue = LandAlone => queue' = LandFirst
    BY ChainFacts DEF TickBegins, Chain
  <1>5. land' = land /\ scratch' = scratch
    BY DEF TickBegins
  <1> QED BY <1>1, <1>2, <1>3, <1>4, <1>5, ChainsDiffer
          DEF IInv, ChainTells, WithTick, WithLand, TestSeesItsMerge

\* Whoever is at the head may leave: a land that waits moves up.
LEMMA TickLeaves ==
  ASSUME ChainTells, queue \in {TickAlone, TickFirst}, queue' = Tail(queue),
         tick'.at = "idle", land' = land, scratch' = "reset" \/ scratch' = scratch,
         TestSeesItsMerge, land.at # "testing"
  PROVE  ChainTells' /\ TestSeesItsMerge'
  <1>1. \/ queue = TickAlone /\ queue' = <<>>
        \/ queue = TickFirst /\ queue' = LandAlone
    BY ChainFacts
  <1> QED BY <1>1, ChainsDiffer DEF ChainTells, WithTick, WithLand, TestSeesItsMerge

LEMMA HeadTick == ASSUME ChainTells, Holds("tick") PROVE queue \in {TickAlone, TickFirst} /\ land.at # "testing"
  BY ChainFacts, ChainsDiffer DEF ChainTells, Holds

LEMMA HeadLand == ASSUME ChainTells, Holds("land")
  PROVE queue \in {LandAlone, LandFirst} /\ tick.at \notin {"sweeping", "fullTesting"}
  BY ChainFacts, ChainsDiffer DEF ChainTells, Holds

LEMMA TickHolds ==
  ASSUME ChainTells, tick.at \in {"sweeping", "fullTesting"}
  PROVE  queue \in {TickAlone, TickFirst} /\ land.at # "testing"
  BY ChainsDiffer DEF ChainTells

LEMMA SweepTurnsChain == IInv /\ SweepTurns => ChainTells' /\ TestSeesItsMerge'
  <1> SUFFICES ASSUME IInv, SweepTurns PROVE ChainTells' /\ TestSeesItsMerge'
    OBVIOUS
  <1>1. tick'.at = "sweeping"
    BY EngineTypes DEF IInv, TypeOK, SweepTurns
  <1>2. queue \in {TickAlone, TickFirst} /\ tick.at \in {"queued", "sweeping"}
    BY HeadTick, TickHolds DEF IInv, SweepTurns
  <1>3. land' = land /\ scratch' = scratch /\ queue' = queue
    BY DEF SweepTurns
  <1> QED BY <1>1, <1>2, <1>3, ChainsDiffer
          DEF IInv, ChainTells, WithTick, WithLand, TestSeesItsMerge

LEMMA SweepPairChain == IInv /\ SweepPair => ChainTells' /\ TestSeesItsMerge'
  <1> SUFFICES ASSUME IInv, SweepPair PROVE ChainTells' /\ TestSeesItsMerge'
    OBVIOUS
  <1>1. tick.at = "sweeping" /\ tick'.at = "sweeping"
    BY EngineTypes DEF IInv, TypeOK, SweepPair
  <1>2. land' = land /\ queue' = queue /\ land.at # "testing"
    BY <1>1, TickHolds DEF IInv, SweepPair
  <1> QED BY <1>1, <1>2 DEF IInv, ChainTells, TestSeesItsMerge

LEMMA SweepEndsChain == IInv /\ SweepEnds => ChainTells' /\ TestSeesItsMerge'
  <1> SUFFICES ASSUME IInv, SweepEnds PROVE ChainTells' /\ TestSeesItsMerge'
    OBVIOUS
  <1>1. queue \in {TickAlone, TickFirst} /\ land.at # "testing" /\ tick.at = "sweeping"
    BY TickHolds DEF IInv, SweepEnds
  <1>2. land' = land /\ scratch' = scratch
    BY DEF SweepEnds
  <1>3. CASE tick' = IdleTick /\ Settle
    BY <1>1, <1>2, <1>3, TickLeaves DEF IInv, Settle, IdleTick
  <1>4. CASE tick'.at = "fullQueued" /\ queue' = Append(Tail(queue), "tick")
    <2>1. \/ queue = TickAlone /\ queue' = TickAlone
          \/ queue = TickFirst /\ queue' = LandFirst
      BY <1>1, <1>4, ChainFacts
    <2> QED BY <1>1, <1>2, <1>4, <2>1, ChainsDiffer
            DEF IInv, ChainTells, WithTick, WithLand, TestSeesItsMerge
  <1> QED BY <1>3, <1>4 DEF SweepEnds, IdleTick

LEMMA FullTrialChain == IInv /\ FullTrial => ChainTells' /\ TestSeesItsMerge'
  <1> SUFFICES ASSUME IInv, FullTrial PROVE ChainTells' /\ TestSeesItsMerge'
    OBVIOUS
  <1>1. queue \in {TickAlone, TickFirst} /\ land.at # "testing" /\ tick.at = "fullQueued"
    BY HeadTick DEF IInv, FullTrial
  <1>2. land' = land
    BY DEF FullTrial
  <1>3. CASE tick' = IdleTick /\ Settle /\ scratch' = "reset"
    BY <1>1, <1>2, <1>3, TickLeaves DEF IInv, Settle, IdleTick
  <1>4. CASE /\ tick' = [tick EXCEPT !.at = "fullTesting", !.base = base]
             /\ scratch' = "tick"
             /\ queue' = queue
    <2>1. tick'.at = "fullTesting"
      BY <1>4, EngineTypes DEF IInv, TypeOK
    <2> QED BY <1>1, <1>2, <1>4, <2>1, ChainsDiffer
            DEF IInv, ChainTells, WithTick, WithLand, TestSeesItsMerge
  <1> QED BY <1>3, <1>4 DEF FullTrial

LEMMA FullEndsChain == IInv /\ FullEnds => ChainTells' /\ TestSeesItsMerge'
  <1> SUFFICES ASSUME IInv, FullEnds PROVE ChainTells' /\ TestSeesItsMerge'
    OBVIOUS
  <1>1. queue \in {TickAlone, TickFirst} /\ land.at # "testing"
    BY TickHolds DEF IInv, FullEnds
  <1>2. land' = land /\ scratch' = "reset" /\ queue' = Tail(queue) /\ tick'.at = "idle"
    BY DEF FullEnds, Settle, AfterRejection, IdleTick
  <1> QED BY <1>1, <1>2, TickLeaves DEF IInv

LEMMA LandBeginsChain ==
  ASSUME NEW x \in Branches, IInv, LandBegins(x)
  PROVE  ChainTells' /\ TestSeesItsMerge'
  <1>1. land'.at = "queued" /\ tick' = tick /\ scratch' = scratch
    BY DEF LandBegins
  <1>2. land.at = "idle" /\ queue \in {<<>>, TickAlone}
    BY DEF IInv, ChainTells, WithLand, LandBegins
  <1>3. \/ queue = <<>> /\ queue' = LandAlone
        \/ queue = TickAlone /\ queue' = TickFirst
    BY <1>2, ChainFacts DEF LandBegins, Chain
  <1> QED BY <1>1, <1>2, <1>3, ChainsDiffer
          DEF IInv, ChainTells, WithTick, WithLand, TestSeesItsMerge

LEMMA LandLeaves ==
  ASSUME ChainTells, queue \in {LandAlone, LandFirst}, queue' = Tail(queue),
         land'.at \in {"idle", "cleanup"}, tick' = tick,
         tick.at \notin {"sweeping", "fullTesting"}
  PROVE  ChainTells' /\ TestSeesItsMerge'
  <1>1. \/ queue = LandAlone /\ queue' = <<>>
        \/ queue = LandFirst /\ queue' = TickAlone
    BY ChainFacts
  <1> QED BY <1>1, ChainsDiffer DEF ChainTells, WithTick, WithLand, TestSeesItsMerge

LEMMA LandTrialChain == IInv /\ LandTrial => ChainTells' /\ TestSeesItsMerge'
  <1> SUFFICES ASSUME IInv, LandTrial PROVE ChainTells' /\ TestSeesItsMerge'
    OBVIOUS
  <1>1. /\ queue \in {LandAlone, LandFirst} /\ tick.at \notin {"sweeping", "fullTesting"}
        /\ land.at = "queued" /\ tick' = tick
    BY HeadLand DEF IInv, LandTrial
  <1>2. CASE LandThrows
    BY <1>1, <1>2, LandLeaves DEF IInv, LandThrows, AfterRejection, IdleLand
  <1>3. CASE land' = [land EXCEPT !.at = "testing"] /\ scratch' = "land" /\ UNCHANGED queue
    <2>1. land'.at = "testing"
      BY <1>3, EngineTypes DEF IInv, TypeOK
    <2> QED BY <1>1, <1>3, <2>1, ChainsDiffer
            DEF IInv, ChainTells, WithTick, WithLand, TestSeesItsMerge
  <1>4. CASE LandMerges
    <2>1. land'.at = "cleanup" /\ queue' = Tail(queue)
      BY <1>4, EngineTypes DEF IInv, TypeOK, LandMerges, Settle
    <2> QED BY <1>1, <2>1, LandLeaves DEF IInv
  <1> QED BY <1>2, <1>3, <1>4 DEF LandTrial

LEMMA LandTestedChain == IInv /\ LandTested => ChainTells' /\ TestSeesItsMerge'
  <1> SUFFICES ASSUME IInv, LandTested PROVE ChainTells' /\ TestSeesItsMerge'
    OBVIOUS
  <1>1. queue \in {LandAlone, LandFirst} /\ tick' = tick
    BY DEF IInv, ChainTells, LandTested
  <1>2. tick.at \notin {"sweeping", "fullTesting"}
    BY <1>1, ChainsDiffer DEF IInv, ChainTells
  <1>3. queue' = Tail(queue) /\ land'.at \in {"idle", "cleanup"}
    BY EngineTypes
       DEF IInv, TypeOK, LandTested, LandThrows, LandMerges, AfterRejection, Settle, IdleLand
  <1> QED BY <1>1, <1>2, <1>3, LandLeaves DEF IInv

LEMMA LandCleansUpChain == IInv /\ LandCleansUp => ChainTells' /\ TestSeesItsMerge'
  <1> SUFFICES ASSUME IInv, LandCleansUp PROVE ChainTells' /\ TestSeesItsMerge'
    OBVIOUS
  <1>1. /\ land.at = "cleanup" /\ land'.at \in {"idle", "cleanup"}
        /\ tick' = tick /\ queue' = queue /\ scratch' = scratch
    BY DEF LandCleansUp, IdleLand
  <1> QED BY <1>1, ChainsDiffer DEF IInv, ChainTells, WithLand, TestSeesItsMerge

LEMMA RestartChain == IInv /\ Restart => ChainTells' /\ TestSeesItsMerge'
  BY ChainsDiffer
     DEF Restart, IdleTick, IdleLand, ChainTells, WithTick, WithLand, TestSeesItsMerge

\* Everybody else leaves the engine alone.
LEMMA OthersChain ==
  ASSUME IInv, UNCHANGED engine
  PROVE  ChainTells' /\ TestSeesItsMerge'
  BY DEF IInv, engine, ChainTells, TestSeesItsMerge

-----------------------------------------------------------------------------

(***************************************************************************)
(* Types, action by action.                                                *)
(***************************************************************************)

TickTyped ==
  tick \in [at : TickStages, active : SUBSET Branches, due : SUBSET Branches, base : Nat,
            cur : Branches \cup {NoBranch}, seen : Nat, left : SUBSET Branches]
LandTyped ==
  /\ land \in [at : LandStages, branch : Branches \cup {NoBranch}, base : Nat]
  /\ land.at = "idle" \/ land.branch \in Branches
EvidenceTyped ==
  /\ fullRow \in [base : Nat, clean : BOOLEAN] \cup {NoTrial}
  /\ DOMAIN row = Pairs
  /\ \A p \in Pairs : row[p] \in [base : Nat, heads : [p -> Nat]] \cup {NoTrial}
  /\ last \in [Branches -> (Nat \X Nat) \cup {NoTrial}]
RepositoryTyped ==
  /\ testCommand \in {"none", "untrusted", "trusted"}
  /\ base \in Nat /\ head \in [Branches -> Nat]
  /\ live \subseteq Branches /\ gone \subseteq Branches

LEMMA TypedParts ==
  ASSUME TypeOK
  PROVE  /\ RepositoryTyped /\ EvidenceTyped /\ TickTyped /\ LandTyped
         /\ scratch \in {"reset", "tick", "land"} /\ events \in Nat
  BY DEF TypeOK, RepositoryTyped, EvidenceTyped, TickTyped, LandTyped

LEMMA IdleTyped ==
  /\ IdleTick \in [at : TickStages, active : SUBSET Branches, due : SUBSET Branches, base : Nat,
                   cur : Branches \cup {NoBranch}, seen : Nat, left : SUBSET Branches]
  /\ IdleLand \in [at : LandStages, branch : Branches \cup {NoBranch}, base : Nat]
  BY DEF IdleTick, IdleLand, TickStages, LandStages

\* The scheduler's steps keep the type of its own record.
LEMMA TickStepTyped == IInv /\ Scheduler => TickTyped'
  <1> SUFFICES ASSUME IInv, Scheduler PROVE TickTyped'
    OBVIOUS
  <1>1. TickTyped /\ RepositoryTyped
    BY TypedParts DEF IInv
  <1>2. CASE TickBegins
    <2>1. live \in SUBSET Branches /\ "queued" \in TickStages /\ "fullQueued" \in TickStages
      BY <1>1 DEF RepositoryTyped, TickStages
    <2>2. CASE Degraded(live)
      <3>1. tick' = [IdleTick EXCEPT !.at = "fullQueued", !.active = live]
        BY <1>2, <2>2 DEF TickBegins
      <3> QED BY <2>1, <3>1, IdleTyped DEF TickTyped
    <2>3. CASE ~Degraded(live)
      <3>1. PICK due \in SUBSET {x \in live \ gone : Changed(x)} :
              tick' = [IdleTick EXCEPT !.at = "queued", !.active = live, !.due = due]
        BY <1>2, <2>3 DEF TickBegins
      <3>2. due \in SUBSET Branches
        BY <2>1, <3>1
      <3> QED BY <2>1, <3>1, <3>2, IdleTyped DEF TickTyped
    <2> QED BY <2>2, <2>3
  <1>3. CASE SweepTurns
    <2>1. PICK x \in tick.due :
            LET sweep == [tick EXCEPT !.at = "sweeping", !.due = @ \ {x},
                                      !.base = IF tick.at = "queued" THEN base ELSE @] IN
            tick' = IF x \in gone THEN sweep
                    ELSE [sweep EXCEPT !.cur = x, !.seen = head[x], !.left = tick.active \ {x}]
      BY <1>3 DEF SweepTurns
    <2>2. /\ x \in Branches /\ head[x] \in Nat /\ base \in Nat /\ tick.base \in Nat
          /\ tick.due \ {x} \in SUBSET Branches /\ tick.active \ {x} \in SUBSET Branches
      BY <1>1 DEF TickTyped, RepositoryTyped
    <2> QED BY <1>1, <2>1, <2>2 DEF TickTyped, TickStages
  <1>4. CASE SweepPair
    <2>1. PICK y \in tick.left :
            tick' = IF tick.left = {y}
                      THEN [tick EXCEPT !.cur = NoBranch, !.seen = 0, !.left = {}]
                      ELSE [tick EXCEPT !.left = @ \ {y}]
      BY <1>4 DEF SweepPair
    <2>2. tick.left \ {y} \in SUBSET Branches
      BY <1>1 DEF TickTyped
    <2> QED BY <1>1, <2>1, <2>2 DEF TickTyped
  <1>5. CASE SweepEnds
    BY <1>1, <1>5, IdleTyped DEF SweepEnds, TickTyped, TickStages
  <1>6. CASE FullTrial
    BY <1>1, <1>6, IdleTyped DEF FullTrial, TickTyped, TickStages, RepositoryTyped
  <1>7. CASE FullEnds
    BY <1>7, IdleTyped DEF FullEnds, TickTyped
  <1> QED BY <1>2, <1>3, <1>4, <1>5, <1>6, <1>7 DEF Scheduler

\* A sweep records trials of pairs as identities, and captured heads as numbers.
LEMMA SweepPairTyped == IInv /\ SweepPair => EvidenceTyped'
  <1> SUFFICES ASSUME IInv, SweepPair PROVE EvidenceTyped'
    OBVIOUS
  <1>1. EvidenceTyped /\ RepositoryTyped /\ TickTyped
    BY TypedParts DEF IInv
  <1>2. tick.base \in Nat /\ tick.seen \in Nat
    BY <1>1 DEF TickTyped
  <1>3. DOMAIN row' = Pairs
    BY <1>1 DEF SweepPair, EvidenceTyped
  <1>4. ASSUME NEW p \in Pairs
        PROVE  row'[p] \in [base : Nat, heads : [p -> Nat]] \cup {NoTrial}
    <2>1. Identity(tick.base, head, p) \in [base : Nat, heads : [p -> Nat]]
      BY <1>1, <1>2, <1>4 DEF Identity, Pairs, RepositoryTyped
    <2>2. row'[p] = row[p] \/ row'[p] = Identity(tick.base, head, p)
      BY <1>1, <1>4 DEF SweepPair, EvidenceTyped
    <2> QED BY <1>1, <1>4, <2>1, <2>2 DEF EvidenceTyped
  <1>5. last' \in [Branches -> (Nat \X Nat) \cup {NoTrial}]
    <2>1. last' = last \/ last' = [last EXCEPT ![tick.cur] = <<tick.base, tick.seen>>]
      BY DEF SweepPair
    <2>2. <<tick.base, tick.seen>> \in Nat \X Nat
      BY <1>2
    <2> QED BY <1>1, <2>1, <2>2 DEF EvidenceTyped
  <1>6. fullRow' = fullRow
    BY DEF SweepPair
  <1> QED BY <1>1, <1>3, <1>4, <1>5, <1>6 DEF EvidenceTyped

\* A full-integration run records the base it merged onto.
LEMMA FullRowTyped ==
  IInv /\ (FullTrial \/ FullEnds) => fullRow' \in [base : Nat, clean : BOOLEAN] \cup {NoTrial}
  <1> SUFFICES ASSUME IInv, FullTrial \/ FullEnds
               PROVE  fullRow' \in [base : Nat, clean : BOOLEAN] \cup {NoTrial}
    OBVIOUS
  <1>1. /\ base \in Nat /\ tick.base \in Nat
        /\ fullRow \in [base : Nat, clean : BOOLEAN] \cup {NoTrial}
    BY TypedParts DEF IInv, RepositoryTyped, TickTyped, EvidenceTyped
  <1>2. \/ fullRow' = fullRow
        \/ \E n \in {base, tick.base}, passed \in BOOLEAN : fullRow' = [base |-> n, clean |-> passed]
    BY DEF FullTrial, FullEnds
  <1> QED BY <1>1, <1>2

LEMMA SchedulerTyped == IInv /\ Scheduler => /\ RepositoryTyped' /\ EvidenceTyped' /\ LandTyped'
                                            /\ scratch' \in {"reset", "tick", "land"} /\ events' \in Nat
  <1> SUFFICES ASSUME IInv, Scheduler
               PROVE  /\ RepositoryTyped' /\ EvidenceTyped' /\ LandTyped'
                      /\ scratch' \in {"reset", "tick", "land"} /\ events' \in Nat
    OBVIOUS
  <1>1. /\ RepositoryTyped /\ EvidenceTyped /\ LandTyped
        /\ scratch \in {"reset", "tick", "land"} /\ events \in Nat
    BY TypedParts DEF IInv
  <1>2. UNCHANGED <<testCommand, base, head, live, gone, land, events>>
    BY DEF Scheduler, TickBegins, SweepTurns, SweepPair, SweepEnds, FullTrial, FullEnds
  <1>3. EvidenceTyped'
    <2>1. CASE SweepPair
      BY <2>1, SweepPairTyped
    <2>2. CASE FullTrial \/ FullEnds
      <3>1. UNCHANGED <<row, last>>
        BY <2>2 DEF FullTrial, FullEnds
      <3> QED BY <1>1, <2>2, <3>1, FullRowTyped DEF EvidenceTyped
    <2>3. CASE TickBegins \/ SweepTurns \/ SweepEnds
      BY <1>1, <2>3 DEF TickBegins, SweepTurns, SweepEnds, evidence, EvidenceTyped
    <2> QED BY <2>1, <2>2, <2>3 DEF Scheduler
  <1>4. scratch' \in {"reset", "tick", "land"}
    BY <1>1 DEF Scheduler, TickBegins, SweepTurns, SweepPair, SweepEnds, FullTrial, FullEnds
  <1> QED BY <1>1, <1>2, <1>3, <1>4 DEF RepositoryTyped, LandTyped

LEMMA LandTypedSteps ==
  ASSUME IInv, LandSteps \/ \E x \in Branches : LandBegins(x)
  PROVE  /\ RepositoryTyped' /\ EvidenceTyped' /\ TickTyped' /\ LandTyped'
         /\ scratch' \in {"reset", "tick", "land"} /\ events' \in Nat
  <1>1. /\ RepositoryTyped /\ EvidenceTyped /\ TickTyped /\ LandTyped
        /\ scratch \in {"reset", "tick", "land"} /\ events \in Nat
    BY TypedParts DEF IInv
  <1>2. UNCHANGED <<testCommand, head, row, fullRow, last, tick, events>>
    BY DEF LandSteps, LandBegins, LandTrial, LandTested, LandCleansUp, evidence
  <1>3. base' \in Nat /\ scratch' \in {"reset", "tick", "land"}
    BY <1>1 DEF LandSteps, LandBegins, LandTrial, LandTested, LandCleansUp, LandThrows, LandMerges,
                RepositoryTyped
  <1>4. live' \subseteq Branches /\ gone' \subseteq Branches
    <2>1. CASE LandCleansUp
      <3>1. land.branch \in Branches
        BY <1>1, <2>1 DEF LandTyped, LandCleansUp
      <3> QED BY <1>1, <2>1, <3>1 DEF LandCleansUp, RepositoryTyped
    <2>2. CASE ~LandCleansUp
      <3>1. UNCHANGED <<live, gone>>
        BY <2>2 DEF LandSteps, LandBegins, LandTrial, LandTested
      <3> QED BY <1>1, <3>1 DEF RepositoryTyped
    <2> QED BY <2>1, <2>2
  <1>5. LandTyped'
    <2>1. CASE \E x \in Branches : LandBegins(x)
      BY <1>1, <2>1 DEF LandBegins, LandTyped, LandStages, RepositoryTyped
    <2>2. CASE LandSteps /\ land' = IdleLand
      BY <2>2, IdleTyped DEF LandTyped, IdleLand
    <2>3. CASE LandSteps /\ land' # IdleLand
      <3>1. /\ land.at # "idle"
            /\ \E stage \in {"testing", "cleanup"} : land' = land \/ land' = [land EXCEPT !.at = stage]
        BY <2>3 DEF LandSteps, LandTrial, LandTested, LandCleansUp, LandThrows, LandMerges
      <3> QED BY <1>1, <3>1 DEF LandTyped, LandStages
    <2> QED BY <2>1, <2>2, <2>3
  <1> QED BY <1>1, <1>2, <1>3, <1>4, <1>5 DEF RepositoryTyped, EvidenceTyped, TickTyped

LEMMA OthersTyped ==
  ASSUME IInv, Commit \/ Restart \/ TrustGiven \/ (\E x \in Branches : SessionEnds(x) \/ BranchDeleted(x))
  PROVE  /\ RepositoryTyped' /\ EvidenceTyped' /\ TickTyped' /\ LandTyped'
         /\ scratch' \in {"reset", "tick", "land"} /\ events' \in Nat
  <1>1. /\ RepositoryTyped /\ EvidenceTyped /\ TickTyped /\ LandTyped
        /\ scratch \in {"reset", "tick", "land"} /\ events \in Nat
    BY TypedParts DEF IInv
  <1>2. CASE Commit
    <2>1. base' \in Nat /\ head' \in [Branches -> Nat]
      BY <1>1, <1>2 DEF Commit, RepositoryTyped
    <2> QED BY <1>1, <1>2, <2>1
            DEF Commit, evidence, engine, RepositoryTyped, EvidenceTyped, TickTyped, LandTyped
  <1>3. CASE Restart
    <2>1. last' \in [Branches -> (Nat \X Nat) \cup {NoTrial}]
      BY <1>3 DEF Restart
    <2>2. TickTyped' /\ LandTyped'
      BY <1>3, IdleTyped DEF Restart, TickTyped, LandTyped, IdleLand
    <2> QED BY <1>1, <1>3, <2>1, <2>2 DEF Restart, RepositoryTyped, EvidenceTyped
  <1>4. CASE \E x \in Branches : SessionEnds(x) \/ BranchDeleted(x)
    BY <1>1, <1>4 DEF SessionEnds, BranchDeleted, evidence, engine,
                      RepositoryTyped, EvidenceTyped, TickTyped, LandTyped
  <1>5. CASE TrustGiven
    BY <1>1, <1>5 DEF TrustGiven, evidence, engine, RepositoryTyped, EvidenceTyped, TickTyped, LandTyped
  <1> QED BY <1>2, <1>3, <1>4, <1>5

-----------------------------------------------------------------------------

LEMMA NextOK == IInv /\ Next => IInv'
  <1> SUFFICES ASSUME IInv, Next PROVE IInv'
    OBVIOUS
  <1>1. ChainTells' /\ TestSeesItsMerge'
    <2>1. CASE Scheduler
      BY <2>1, TickBeginsChain, SweepTurnsChain, SweepPairChain, SweepEndsChain, FullTrialChain,
         FullEndsChain DEF Scheduler
    <2>2. CASE LandSteps
      BY <2>2, LandTrialChain, LandTestedChain, LandCleansUpChain DEF LandSteps
    <2>3. ASSUME NEW x \in Branches, LandBegins(x) PROVE ChainTells' /\ TestSeesItsMerge'
      BY <2>3, LandBeginsChain
    <2>4. CASE Restart
      BY <2>4, RestartChain
    <2>5. CASE Commit \/ TrustGiven \/ \E x \in Branches : SessionEnds(x) \/ BranchDeleted(x)
      BY <2>5, OthersChain DEF Commit, TrustGiven, SessionEnds, BranchDeleted, engine
    <2> QED BY <2>1, <2>2, <2>3, <2>4, <2>5 DEF Next
  <1>2. /\ RepositoryTyped' /\ EvidenceTyped' /\ TickTyped' /\ LandTyped'
        /\ scratch' \in {"reset", "tick", "land"} /\ events' \in Nat
    <2>1. CASE Scheduler
      BY <2>1, TickStepTyped, SchedulerTyped
    <2>2. CASE LandSteps \/ \E x \in Branches : LandBegins(x)
      BY <2>2, LandTypedSteps
    <2>3. CASE Commit \/ Restart \/ TrustGiven \/ \E x \in Branches : SessionEnds(x) \/ BranchDeleted(x)
      BY <2>3, OthersTyped
    <2> QED BY <2>1, <2>2, <2>3 DEF Next
  <1>3. TypeOK'
    \* The type of the chain comes with its shape.
    BY <1>1, <1>2, ChainTypes
       DEF TypeOK, RepositoryTyped, EvidenceTyped, TickTyped, LandTyped, ChainTells
  <1> QED BY <1>1, <1>3 DEF IInv

LEMMA StutterOK == IInv /\ UNCHANGED vars => IInv'
  BY DEF IInv, vars, evidence, engine, TypeOK, ChainTells, TestSeesItsMerge

\* The inductive invariant.
THEOREM InvariantHolds == Spec => []IInv
  <1>1. IInv /\ [Next]_vars => IInv'
    BY NextOK, StutterOK
  <1> QED BY InitOK, <1>1, PTL DEF Spec

\* The engine's variables keep their types, for any number of branches.
THEOREM TypeCorrect == Spec => []TypeOK
  <1>1. IInv => TypeOK
    BY DEF IInv
  <1> QED BY InvariantHolds, <1>1, PTL

\* However ticks, lands, commits, removals and restarts interleave, a test command of
\* convergence-scheduler.ts or land.ts runs on the merge that was checked out for it.
THEOREM TestsKeepTheirMerge == Spec => []TestSeesItsMerge
  <1>1. IInv => TestSeesItsMerge
    BY DEF IInv
  <1> QED BY InvariantHolds, <1>1, PTL

=============================================================================
