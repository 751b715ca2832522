----------------------------- MODULE Convergence -----------------------------
(***************************************************************************)
(* The convergence engine of one workspace: the scheduler's tick           *)
(* (daemon/convergence-scheduler.ts), the promise-chain lock over the      *)
(* scratch worktree (convergence/integration-worktree.ts), a land as far as*)
(* it uses that worktree and moves the base (convergence/land.ts), and the *)
(* verdict `converge.status` draws from the recorded trials, the pairwise  *)
(* and the full-integration ones (convergence/evidence.ts).                *)
(*                                                                         *)
(* A test command that is trusted runs after a trial and lets other RPCs   *)
(* run.  A pairwise sweep never gives up the event loop, but agents and    *)
(* users are other processes: they commit between any two trials of it.    *)
(***************************************************************************)
EXTENDS Naturals, Sequences, FiniteSets

CONSTANTS
  Branches,     \* session branches
  Conflicts,    \* the identities (see below) whose merge conflicts
  Threshold,    \* config.converge.pairwiseSessionThreshold
  NoTrial,
  NoBranch,
  MaxEvents     \* bound: commits on session branches and, by users, on the base, together
                \* with restarts of the daemon

ASSUME ConvergenceConfig ==
  /\ NoBranch \notin Branches
  /\ Threshold \in Nat /\ MaxEvents \in Nat

Pairs == {p \in SUBSET Branches : Cardinality(p) = 2}

\* What a pairwise trial is evidence about: the base and the heads it merged.
Identity(b, h, p) == [base |-> b, heads |-> [x \in p |-> h[x]]]

VARIABLES
  testCommand, \* converge.testCommand: "none", "untrusted" or "trusted"
  base,      \* the commit at HEAD of the main checkout
  head,      \* head[x]: the commit at the tip of x
  live,      \* branches of idle or running sessions
  gone,      \* branches that are deleted
  row,       \* row[p]: identity that p's latest pairwise trial merged, or NoTrial
  fullRow,   \* the latest full-integration trial: [base, clean], or NoTrial
  tried,     \* triedPairs
  last,      \* lastTrialHead[x], as <<base, head>>, or NoTrial
  tick,      \* the scheduler's tick in flight
  land,      \* the land in flight (SessionLifecycle: there is at most one)
  queue,     \* the promise chain: who holds the scratch worktree, then who waits
  scratch,   \* whose merge is checked out in it, or "reset"
  events     \* how many commits and restarts there were

evidence == <<row, fullRow, tried, last>>
engine == <<tick, land, queue, scratch>>
vars == <<testCommand, base, head, live, gone, evidence, engine, events>>

IdleTick ==
  [at |-> "idle", active |-> {}, due |-> {}, base |-> 0,
   cur |-> NoBranch, seen |-> 0, left |-> {}]
IdleLand == [at |-> "idle", branch |-> NoBranch, base |-> 0]

TickStages == {"idle", "queued", "sweeping", "fullQueued", "fullTesting"}
LandStages == {"idle", "queued", "testing", "cleanup"}

TypeOK ==
  /\ testCommand \in {"none", "untrusted", "trusted"}
  /\ fullRow \in [base : Nat, clean : BOOLEAN] \cup {NoTrial}
  /\ base \in Nat /\ head \in [Branches -> Nat]
  /\ live \subseteq Branches /\ gone \subseteq Branches
  /\ DOMAIN row = Pairs
  /\ \A p \in Pairs : row[p] \in [base : Nat, heads : [p -> Nat]] \cup {NoTrial}
  /\ last \in [Branches -> (Nat \X Nat) \cup {NoTrial}]
  /\ tick \in [at : TickStages, active : SUBSET Branches, due : SUBSET Branches, base : Nat,
               cur : Branches \cup {NoBranch}, seen : Nat, left : SUBSET Branches]
  /\ land \in [at : LandStages, branch : Branches \cup {NoBranch}, base : Nat]
  /\ land.at = "idle" \/ land.branch \in Branches
  /\ queue \in Seq({"tick", "land"})
  /\ scratch \in {"reset", "tick", "land"}
  /\ events \in Nat

Init ==
  /\ testCommand \in {"none", "untrusted", "trusted"}
  /\ fullRow = NoTrial
  /\ base = 0 /\ head = [x \in Branches |-> 1]
  /\ live = Branches /\ gone = {}
  /\ row = [p \in Pairs |-> NoTrial]
  /\ tried = {}
  /\ last = [x \in Branches |-> NoTrial]
  /\ tick = IdleTick /\ land = IdleLand
  /\ queue = <<>> /\ scratch = "reset"
  /\ events = 0

\* Other RPCs and callbacks of the daemon run: no sweep keeps the event loop.
LoopFree == tick.at # "sweeping"

-----------------------------------------------------------------------------
(* The lock: withIntegrationWorktreeLock *)

\* Mutant: `prior` is not awaited.
InChain(who) == \E i \in 1..Len(queue) : queue[i] = who

\* A caller runs when everything chained before it has settled.
Holds(who) == queue # <<>> /\ Head(queue) = who

Chain(who) == queue' = Append(queue, who)
Settle == queue' = Tail(queue)

\* Mutant: `prior.then(fn)`: whoever waits for a caller that fails never runs.
Wedged == queue

\* The chain after a caller whose fn rejected.
AfterRejection == Tail(queue)

-----------------------------------------------------------------------------
(* The scheduler *)

\* Mutant: a branch is due when its own head has moved.
HeadMoved(x) == last[x] = NoTrial \/ last[x][2] # head[x]

\* Its head moved or the base did.
Changed(x) == last[x] # <<base, head[x]>>

Degraded(active) == Cardinality(active) > Threshold

\* maybeRunFullIntegration up to its lock: outside degraded mode it wants a clean latest
\* trial of every active pair.  Its interval may have passed at any tick.
MayRunFull(active) ==
  Degraded(active) \/ \A p \in Pairs : p \subseteq active => row[p] # NoTrial /\ row[p] \notin Conflicts

\* tick and tickWorkspace up to the lock.  The due sessions are those that changed and
\* that trialDebounceMs does not hold back for now.
TickBegins ==
  /\ tick.at = "idle"
  /\ Cardinality(live) >= 2
  /\ IF Degraded(live)
       THEN tick' = [IdleTick EXCEPT !.at = "fullQueued", !.active = live]
       ELSE \E due \in SUBSET {x \in live \ gone : Changed(x)} :
              /\ due # {}
              /\ tick' = [IdleTick EXCEPT !.at = "queued", !.active = live, !.due = due]
  /\ Chain("tick")
  /\ UNCHANGED <<testCommand, base, head, live, gone, evidence, land, scratch, events>>

\* The next due session, its head captured once for all its partners.  The first turn
\* comes with the lock, under which the base is read again.  (A commit between these two
\* reads might as well come before or after both.)
SweepTurns ==
  /\ \/ tick.at = "queued" /\ Holds("tick")
     \/ tick.at = "sweeping" /\ tick.cur = NoBranch
  /\ \E x \in tick.due :
       LET sweep == [tick EXCEPT !.at = "sweeping", !.due = @ \ {x},
                                 !.base = IF tick.at = "queued" THEN base ELSE @] IN
       tick' = IF x \in gone THEN sweep
               ELSE [sweep EXCEPT !.cur = x, !.seen = head[x], !.left = tick.active \ {x}]
  /\ UNCHANGED <<testCommand, base, head, live, gone, evidence, land, queue, scratch, events>>

\* Mutant: trialIdentity without the base.
AlreadyTriedHeads(key) == \E k \in tried : k.heads = key.heads

AlreadyTried(key) == key \in tried

\* The pair is looked up by the captured head but merged by name: what the trial is
\* evidence about is whatever the branches are by now.  After its last partner the session
\* is not due until it or the base moves.
SweepPair ==
  /\ tick.at = "sweeping" /\ tick.cur # NoBranch
  /\ \E y \in tick.left :
       LET p == {tick.cur, y}
           key == Identity(tick.base, [head EXCEPT ![tick.cur] = tick.seen], p) IN
       /\ IF y \in gone \/ AlreadyTried(key)
            THEN UNCHANGED <<row, tried, scratch>>
            ELSE /\ row' = [row EXCEPT ![p] = Identity(tick.base, head, p)]
                 /\ tried' = tried \cup {key}
                 /\ scratch' = "reset"
       /\ IF tick.left = {y}
            THEN /\ last' = [last EXCEPT ![tick.cur] = <<tick.base, tick.seen>>]
                 /\ tick' = [tick EXCEPT !.cur = NoBranch, !.seen = 0, !.left = {}]
            ELSE /\ tick' = [tick EXCEPT !.left = @ \ {y}]
                 /\ UNCHANGED last
  /\ UNCHANGED <<testCommand, fullRow, base, head, live, gone, land, queue, events>>

\* The sweep ends and the lock passes on; a full run is chained behind whoever waits.
SweepEnds ==
  /\ tick.at = "sweeping" /\ tick.cur = NoBranch /\ tick.due = {}
  /\ \/ tick' = IdleTick /\ Settle
     \/ /\ MayRunFull(tick.active)
        /\ tick' = [IdleTick EXCEPT !.at = "fullQueued", !.active = tick.active]
        /\ queue' = Append(Tail(queue), "tick")
  /\ UNCHANGED <<testCommand, base, head, live, gone, evidence, land, scratch, events>>

\* The full-integration trial, on the base as it is under the lock: a conflict (which a
\* branch deleted meanwhile also looks like) and a merge that nothing may test are recorded
\* as such and reset; else a clean merge stays checked out for the test.
FullTrial ==
  /\ tick.at = "fullQueued" /\ Holds("tick")
  /\ \/ /\ tick' = IdleTick /\ Settle /\ scratch' = "reset"
        /\ fullRow' = [base |-> base, clean |-> FALSE]
     \/ /\ testCommand = "trusted" /\ tick.active \cap gone = {}
        /\ tick' = [tick EXCEPT !.at = "fullTesting", !.base = base]
        /\ scratch' = "tick"
        /\ UNCHANGED <<queue, fullRow>>
  /\ UNCHANGED <<testCommand, base, head, live, gone, row, tried, last, land, events>>

\* The test passed or failed, or its lease or its spawn failed and the tick throws.
FullEnds ==
  /\ tick.at = "fullTesting"
  /\ tick' = IdleTick
  /\ scratch' = "reset"
  /\ \/ Settle /\ \E passed \in BOOLEAN : fullRow' = [base |-> tick.base, clean |-> passed]
     \/ queue' = AfterRejection /\ UNCHANGED fullRow
  /\ UNCHANGED <<testCommand, base, head, live, gone, row, tried, last, land, events>>

-----------------------------------------------------------------------------
(* A land *)

\* landSession up to the lock: the base it will trial against is read before it waits.  (The
\* code lands dead sessions too; for everybody else that is a commit on the base.)
LandBegins(x) ==
  /\ LoopFree /\ land.at = "idle" /\ x \in live
  /\ land' = [at |-> "queued", branch |-> x, base |-> base]
  /\ Chain("land")
  /\ UNCHANGED <<testCommand, base, head, live, gone, evidence, tick, scratch, events>>

LandThrows ==
  /\ land' = IdleLand
  /\ scratch' = "reset"
  /\ queue' = AfterRejection
  /\ UNCHANGED base

\* On a base that is still the base the branch, as it is by now, is merged,
\* which leaves the base alone if the branch has nothing to add.
LandMerges ==
  /\ base = land.base /\ land.branch \notin gone
  /\ base' \in {base, base + 1}
  /\ land' = [land EXCEPT !.at = "cleanup"]
  /\ scratch' = "reset"
  /\ Settle

\* The trial conflicts (or finds no branch any more) or the test command is not trusted; or
\* its merge is left for the test; or there is none and the merge follows at once.
LandTrial ==
  /\ LoopFree /\ land.at = "queued" /\ Holds("land")
  /\ \/ LandThrows
     \/ /\ testCommand = "trusted" /\ land.branch \notin gone
        /\ land' = [land EXCEPT !.at = "testing"]
        /\ scratch' = "land"
        /\ UNCHANGED <<base, queue>>
     \/ testCommand = "none" /\ LandMerges
  /\ UNCHANGED <<testCommand, head, live, gone, evidence, tick, events>>

\* The test ended: the merge, or LAND_TEST_FAILED, LAND_BASE_MOVED, LAND_MERGE_FAILED.
LandTested ==
  /\ LoopFree /\ land.at = "testing"
  /\ LandThrows \/ LandMerges
  /\ UNCHANGED <<testCommand, head, live, gone, evidence, tick, events>>

\* Branch and status; in between the session still counts as active.
LandCleansUp ==
  /\ LoopFree /\ land.at = "cleanup"
  /\ IF land.branch \in gone
       THEN land' = IdleLand /\ live' = live \ {land.branch} /\ UNCHANGED gone
       ELSE /\ gone' = gone \cup {land.branch}
            /\ UNCHANGED <<land, live>>
  /\ UNCHANGED <<testCommand, base, head, evidence, tick, queue, scratch, events>>

-----------------------------------------------------------------------------
(* Agents, users, time, and a new daemon *)

\* session.kill writes `dead`, or deletes the row when it has removed worktree and branch.
SessionEnds(x) ==
  /\ LoopFree /\ x \in live
  /\ live' = live \ {x}
  /\ UNCHANGED <<testCommand, base, head, gone, evidence, engine, events>>

\* That removal, while the row is still there, or the one of an rm or gc that follows.
BranchDeleted(x) ==
  /\ LoopFree /\ x \notin gone
  /\ gone' = gone \cup {x}
  /\ UNCHANGED <<testCommand, base, head, live, evidence, engine, events>>

Commit ==
  /\ events < MaxEvents /\ events' = events + 1
  /\ \/ \E x \in live \ gone : head' = [head EXCEPT ![x] = @ + 1] /\ UNCHANGED base
     \/ base' = base + 1 /\ UNCHANGED head
  /\ UNCHANGED <<testCommand, live, gone, evidence, engine>>

\* An agent or a user drops the last commit of a branch or of the base again, as the last
\* thing anybody does to the repository (so that a commit number names one commit).
Undo ==
  /\ events < MaxEvents /\ events' = MaxEvents
  /\ \/ \E x \in live \ gone : head[x] > 0 /\ head' = [head EXCEPT ![x] = @ - 1] /\ UNCHANGED base
     \/ base > 0 /\ base' = base - 1 /\ UNCHANGED head
  /\ UNCHANGED <<testCommand, live, gone, evidence, engine>>

\* The rows and the scratch worktree stay as they are; everything in memory is lost.
Restart ==
  /\ events < MaxEvents /\ events' = events + 1
  /\ tried' = {} /\ last' = [x \in Branches |-> NoTrial]
  /\ tick' = IdleTick /\ land' = IdleLand /\ queue' = <<>>
  /\ UNCHANGED <<testCommand, base, head, live, gone, row, fullRow, scratch>>

\* config.trust
TrustGiven ==
  /\ LoopFree /\ testCommand = "untrusted"
  /\ testCommand' = "trusted"
  /\ UNCHANGED <<base, head, live, gone, evidence, engine, events>>

-----------------------------------------------------------------------------
Scheduler ==
  \/ TickBegins \/ FullTrial \/ FullEnds
  \/ SweepTurns \/ SweepPair \/ SweepEnds

LandSteps == LandTrial \/ LandTested \/ LandCleansUp

Next ==
  \/ Scheduler \/ LandSteps
  \/ \E x \in Branches : LandBegins(x) \/ SessionEnds(x) \/ BranchDeleted(x)
  \/ Commit \/ Restart \/ TrustGiven

\* The tick's interval fires, the debounce passes, git ends, and so do tests (the code
\* sets them no limit).  Nothing makes anybody commit, land or remove a session.
Fairness == WF_vars(Scheduler) /\ WF_vars(LandSteps)

Spec == Init /\ [][Next]_vars /\ Fairness
UndoSpec == Init /\ [][Next \/ Undo]_vars /\ Fairness

-----------------------------------------------------------------------------
(* The verdict *)

\* The latest full-integration result is not a clean one about the current base.
FullRunWanting == testCommand = "trusted" /\ fullRow # [base |-> base, clean |-> TRUE]

\* classifyLandability: a conflict or a clean result counts while it is about the current
\* base; nothing does if git cannot read that (`readBaseHead`, at each status anew).
Verdict(x, baseRead) ==
  LET partners == {p \in Pairs : x \in p /\ p \subseteq live}
      fresh == {p \in partners : row[p] # NoTrial /\ row[p].base = base} IN
  IF ~baseRead THEN "unknown"
  ELSE IF \E p \in fresh : row[p] \in Conflicts THEN "blocked"
  ELSE IF Degraded(live) \/ fresh # partners \/ FullRunWanting THEN "unknown"
  ELSE "ready"

\* What a trial of the branches as they are would show.
Truth(x) ==
  IF \E p \in Pairs : x \in p /\ p \subseteq live /\ Identity(base, head, p) \in Conflicts
    THEN "blocked" ELSE "ready"

-----------------------------------------------------------------------------
(* Properties *)

\* A test runs on the merge it is to judge: nobody resets or overwrites the scratch
\* worktree while a land's or the scheduler's test command runs in it.
TestSeesItsMerge ==
  /\ land.at = "testing" => scratch = "land"
  /\ tick.at = "fullTesting" => scratch = "tick"

\* Degraded mode makes no pairwise trials; and the crash of a land between deleting its
\* branch and writing its status leaves pairs that cannot be tried any more.
CannotBeTried == Degraded(live) \/ live \cap gone # {}

\* When commits stop, `converge.status` comes to say what the pairs show of every session,
\* and stays there: no branch is left unknown or blocked on what a land, a commit on the
\* base or a restart has made stale (convergence-scheduler.ts, trialIdentity).  The one
\* exception is the full-integration run: where a test command is trusted, sessions that
\* are clean in pairs stay unknown until one has passed on this base, and it need not come,
\* for tickWorkspace returns when no branch is due (:264), or with fewer than two sessions
\* (:236), before it looks at the interval.
VerdictsSettle ==
  <>[](CannotBeTried \/ \A x \in live :
         Verdict(x, TRUE) = IF FullRunWanting /\ Truth(x) = "ready" THEN "unknown" ELSE Truth(x))

\* A land is answered, whatever the land or the tick before it came to.
LandEnds == land.at # "idle" ~> land.at = "idle"

=============================================================================
