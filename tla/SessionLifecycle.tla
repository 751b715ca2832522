-------------------------- MODULE SessionLifecycle --------------------------
(***************************************************************************)
(* One workspace's sessions in one daemon: the session.* RPCs, land.session*)
(* as far as it touches sessions, workspace.gc and workspace.delete        *)
(* (daemon/methods.ts), the SessionManager, gc and land code behind them,  *)
(* the runtime's table of live shells (daemon/runtime.ts) and what a daemon*)
(* start reconciles (domain/reconciliation.ts).                            *)
(*                                                                         *)
(* The daemon runs every RPC as soon as it arrives and never serialises    *)
(* them: an RPC is a call that stops at each `await` on a timer, a process *)
(* or git, and whatever lies between two such awaits is one action.  An    *)
(* await on a promise that is already resolved continues before any other  *)
(* RPC runs, so it is no boundary; and all the calls that wait for one     *)
(* shell continue in the action in which that shell exits.                 *)
(***************************************************************************)
EXTENDS Naturals

CONSTANTS
  Sessions,   \* session ids (fresh ids: a removed id is never used again)
  Calls,      \* slots for RPCs in flight at the same time
  Blocks,     \* port blocks
  Ops,        \* what clients ask for, and "restart" where the daemon may die
  NoSession, NoShell

Kinds == {"new", "start", "resume", "stop", "kill", "kill_rm", "rm",
          "gc", "gc_force", "land", "land_force", "delete", "delete_force", "restart"}

ASSUME LifecycleConfig ==
  /\ Ops \subseteq Kinds
  /\ NoSession \notin Sessions
  /\ NoShell \notin Blocks

Ended == {"dead", "landed"}
Live == {"idle", "running"}
RowStates == Live \cup Ended \cup {"absent", "gone"}
Stages == {"idle", "forking", "inserting", "acquiring", "closing", "stopping", "checking",
           "testing", "teardown", "purging", "branch", "sweeping"}

VARIABLES
  row,        \* row[s]: the session row's status; "absent" before, "gone" after
  workspace,  \* the workspace row exists
  shell,      \* shell[s]: block in the environment of runtime.running's entry, or NoShell
  strays,     \* sessions whose shell a previous daemon left alive, as reconcile saw it
  leases,     \* leases[s]: port blocks leased to s
  starting,   \* the `starting` set
  landing,    \* the workspace is in the `landing` set
  worktree,   \* sessions whose worktree is on disk
  branch,     \* sessions whose branch exists
  merged,     \* sessions whose branch a land has merged into the base
  history,    \* history[s]: the final statuses recorded for s
  call        \* call[c]: the RPC in slot c

disk == <<worktree, branch, merged>>
vars == <<row, workspace, shell, strays, leases, starting, landing, disk, history, call>>

CallType ==
  [op : Kinds \cup {"none"}, s : Sessions \cup {NoSession}, at : Stages,
   seen : RowStates,                        \* the status the handler captured
   todo : SUBSET (Sessions \X Ended)]       \* ended rows gc has yet to reclaim

TypeOK ==
  /\ row \in [Sessions -> RowStates]
  /\ workspace \in BOOLEAN
  /\ shell \in [Sessions -> Blocks \cup {NoShell}]
  /\ strays \subseteq Sessions
  /\ leases \in [Sessions -> SUBSET Blocks]
  /\ starting \subseteq Sessions
  /\ landing \in BOOLEAN
  /\ worktree \subseteq Sessions /\ branch \subseteq Sessions /\ merged \subseteq Sessions
  /\ history \in [Sessions -> SUBSET Ended]
  /\ call \in [Calls -> CallType]

-----------------------------------------------------------------------------
(* Calls *)

NoCall == [op |-> "none", s |-> NoSession, at |-> "idle", seen |-> "absent", todo |-> {}]

Begin(c, o, s, stage) ==
  call' = [call EXCEPT ![c] = [NoCall EXCEPT !.op = o, !.s = s, !.at = stage]]
Goto(c, stage) == call' = [call EXCEPT ![c].at = stage]
End(c) == call' = [call EXCEPT ![c] = NoCall]

Asked(c, o) == o \in Ops /\ call[c] = NoCall
At(c, stage) == call[c].at = stage

\* SessionManager.resolve: the row is there.
Resolves(s) == row[s] \in Live \cup Ended

Init ==
  /\ row = [s \in Sessions |-> "absent"]
  /\ workspace = TRUE
  /\ shell = [s \in Sessions |-> NoShell]
  /\ strays = {}
  /\ leases = [s \in Sessions |-> {}]
  /\ starting = {}
  /\ landing = FALSE
  /\ worktree = {} /\ branch = {} /\ merged = {}
  /\ history = [s \in Sessions |-> {}]
  /\ call = [c \in Calls |-> NoCall]

-----------------------------------------------------------------------------
(* session.new: SessionManager.create *)

BeginNew(c, s) ==
  /\ Asked(c, "new")
  /\ workspace
  /\ row[s] = "absent" /\ s \notin worktree \cup branch
  /\ \A d \in Calls : ~(call[d].op = "new" /\ call[d].s = s)
  /\ Begin(c, "new", s, "forking")
  /\ UNCHANGED <<row, workspace, shell, strays, leases, starting, landing, disk, history>>

\* createWorktree: both exist on disk before anything points at them, or git refused.
ForkWorktree(c) ==
  /\ At(c, "forking")
  /\ \/ /\ worktree' = worktree \cup {call[c].s}
        /\ branch' = branch \cup {call[c].s}
        /\ Goto(c, "inserting")
     \/ End(c) /\ UNCHANGED <<worktree, branch>>
  /\ UNCHANGED <<row, workspace, shell, strays, leases, starting, landing, merged, history>>

\* The insert, or its failure (no workspace any more, name taken meanwhile) and the
\* best-effort unwinding of what was created.
InsertRow(c) ==
  LET s == call[c].s IN
  /\ At(c, "inserting")
  /\ \/ workspace /\ row' = [row EXCEPT ![s] = "idle"] /\ UNCHANGED <<worktree, branch>>
     \/ /\ UNCHANGED row
        /\ worktree' \in {worktree, worktree \ {s}}
        /\ branch' \in {branch, branch \ {s}}
  /\ End(c)
  /\ UNCHANGED <<workspace, shell, strays, leases, starting, landing, merged, history>>

-----------------------------------------------------------------------------
(* session.start, session.resume *)

\* Mutant: two starts of one session may both be acquiring.
NeverRefused(s) == FALSE

AlreadyStarting(s) == s \in starting

\* assertResumable, then resume's isRunning, then the synchronous check-and-mark.
BeginStart(c, s) ==
  \E o \in {"start", "resume"} :
    /\ Asked(c, o)
    /\ row[s] \in Live
    /\ o = "resume" => shell[s] = NoShell
    /\ ~AlreadyStarting(s)
    /\ starting' = starting \cup {s}
    /\ Begin(c, "start", s, "acquiring")
    /\ UNCHANGED <<row, workspace, shell, strays, leases, landing, disk, history>>

\* What allocatePortBlock can grant (PortLeases shows how it finds one).
FreeBlocks == {b \in Blocks : \A s \in Sessions : b \notin leases[s]}

\* Mutant: no `finally` around a start that fails.
StillStarting(s) == starting

\* The `finally` of `start`.
StartingWithout(s) == starting \ {s}

\* Mutant: a spawn that fails keeps the block it was to use.
SpawnKeepsBlock(s, b) == [leases EXCEPT ![s] = @ \cup {b}]

\* runtime.start threw: everything the session holds is released.
LeasesAfterThrow(s, b) == [leases EXCEPT ![s] = {}]

\* acquire rejected (no block, no row to reference, a cache or database step): it
\* releases everything the session holds.
AcquireFails(c) ==
  LET s == call[c].s IN
  /\ At(c, "acquiring")
  /\ leases' = [leases EXCEPT ![s] = {}]
  /\ starting' = StartingWithout(s)
  /\ End(c)
  /\ UNCHANGED <<row, workspace, shell, strays, landing, disk, history>>

\* The lease rows are written, then runtime.start throws SESSION_ALREADY_RUNNING, or
\* the spawn fails (a removed worktree, a missing $SHELL).
SpawnThrows(c) ==
  LET s == call[c].s IN
  /\ At(c, "acquiring")
  /\ Resolves(s)
  /\ \E b \in FreeBlocks : leases' = LeasesAfterThrow(s, b)
  /\ starting' = StartingWithout(s)
  /\ End(c)
  /\ UNCHANGED <<row, workspace, shell, strays, landing, disk, history>>

\* Lease, spawn and markStatus, whatever the row has become since it was resolved.
ShellStarts(c) ==
  LET s == call[c].s IN
  /\ At(c, "acquiring")
  /\ Resolves(s) /\ shell[s] = NoShell /\ s \in worktree
  /\ \E b \in FreeBlocks :
       /\ leases' = [leases EXCEPT ![s] = @ \cup {b}]
       /\ shell' = [shell EXCEPT ![s] = b]
  /\ row' = [row EXCEPT ![s] = "running"]
  /\ starting' = StartingWithout(s)
  /\ End(c)
  /\ UNCHANGED <<workspace, strays, landing, disk, history>>

-----------------------------------------------------------------------------
(* session.stop, session.kill, and the exit of a shell *)

\* Mutant: the row is written without waiting for the process.
NothingToStop(s) == FALSE

\* runtime.stop has a process to hang up and to wait for.
MustStop(s) == shell[s] # NoShell

BeginStop(c, s) ==
  /\ Asked(c, "stop")
  /\ Resolves(s)
  /\ IF MustStop(s)
       THEN Begin(c, "stop", s, "stopping") /\ UNCHANGED leases
       ELSE leases' = [leases EXCEPT ![s] = {}] /\ UNCHANGED call
  /\ UNCHANGED <<row, workspace, shell, strays, starting, landing, disk, history>>

\* kill without removeWorktree writes `dead` once onKill returns, whatever the status.
BeginKill(c, s) ==
  /\ Asked(c, "kill")
  /\ Resolves(s)
  /\ IF MustStop(s)
       THEN Begin(c, "kill", s, "stopping") /\ UNCHANGED row
       ELSE row' = [row EXCEPT ![s] = "dead"] /\ UNCHANGED call
  /\ UNCHANGED <<workspace, shell, strays, leases, starting, landing, disk, history>>

\* Mutant: only one of the calls waiting for a shell hears of its exit.
OneWaiter(s) ==
  LET all == {c \in Calls : At(c, "stopping") /\ call[c].s = s} IN
  IF all = {} THEN {} ELSE {CHOOSE c \in all : TRUE}

\* The calls whose runtime.stop waits for this shell.
Waiting(s) == {c \in Calls : At(c, "stopping") /\ call[c].s = s}

\* Mutant: the exit handler forgets the status column.
RowUntouched(s) == row[s]

\* clearRunning, then the `dead` that the kills waiting for the exit write.
RowAfterExit(s) ==
  IF ~Resolves(s) THEN row[s]
  ELSE IF \E c \in Waiting(s) : call[c].op \in {"kill", "land_force"} THEN "dead"
  ELSE IF row[s] \in Ended THEN row[s] ELSE "idle"

\* Mutant: `landing` is not consulted.
LandAlways == TRUE

LandLockFree == ~landing

\* The forced lands among the waiting calls that get into landSession: at most one
\* passes the `landing` check, and none when the row is gone or a tree is dirty.
EnteringLands(s) ==
  {{}} \cup (IF Resolves(s) /\ LandLockFree
             THEN {{c} : c \in {d \in Waiting(s) : call[d].op = "land_force"}}
             ELSE {})

AfterStop(c, entering) ==
  IF call[c].op = "kill_rm" THEN [call[c] EXCEPT !.at = "teardown"]
  ELSE IF c \in entering THEN [call[c] EXCEPT !.at = "testing"]
  ELSE NoCall

\* The shell is gone (stopped or on its own): running loses its entry, the row and the
\* leases follow, and every call waiting for it continues.
ShellExits(s) ==
  /\ shell[s] # NoShell
  /\ shell' = [shell EXCEPT ![s] = NoShell]
  /\ leases' = [leases EXCEPT ![s] = {}]
  /\ row' = [row EXCEPT ![s] = RowAfterExit(s)]
  /\ \E entering \in EnteringLands(s) :
       /\ landing' = (landing \/ entering # {})
       /\ call' = [c \in Calls |-> IF c \in Waiting(s) THEN AfterStop(c, entering) ELSE call[c]]
  /\ UNCHANGED <<workspace, strays, starting, disk, history>>

-----------------------------------------------------------------------------
(* session.kill with removeWorktree, session.rm *)

\* Both resolve the session and await the closing of its Terminal panes first.
BeginRemove(c, s) ==
  \E o \in {"kill_rm", "rm"} :
    /\ Asked(c, o)
    /\ Resolves(s)
    /\ Begin(c, o, s, "closing")
    /\ UNCHANGED <<row, workspace, shell, strays, leases, starting, landing, disk, history>>

\* kill resolves again, and stops the shell before the teardown.
KillAfterPanes(c) ==
  LET s == call[c].s IN
  /\ At(c, "closing") /\ call[c].op = "kill_rm"
  /\ IF ~Resolves(s) THEN End(c)
     ELSE Goto(c, IF MustStop(s) THEN "stopping" ELSE "teardown")
  /\ UNCHANGED <<row, workspace, shell, strays, leases, starting, landing, disk, history>>

\* Mutant: a live session is removed like an ended one.
RemovableIfThere(s) == Resolves(s)

\* SessionManager.remove's liveness refusal.
Removable(s) == row[s] \in Ended

\* remove resolves again, refuses a live session and captures the status it saw.
RemoveAfterPanes(c) ==
  LET s == call[c].s IN
  /\ At(c, "closing") /\ call[c].op = "rm"
  /\ IF Removable(s)
       THEN call' = [call EXCEPT ![c].at = "teardown", ![c].seen = row[s]]
       ELSE End(c)
  /\ UNCHANGED <<row, workspace, shell, strays, leases, starting, landing, disk, history>>

\* The teardown hook has run and git removed the worktree, or could not: kill then
\* fails with the row as it was, rm and gc go on.
TeardownDone(c) ==
  LET s == call[c].s IN
  /\ At(c, "teardown") /\ call[c].op \in {"kill_rm", "rm", "gc", "gc_force"}
  /\ \/ s \in worktree /\ worktree' = worktree \ {s} /\ Goto(c, "purging")
     \/ /\ UNCHANGED worktree
        /\ IF call[c].op = "kill_rm" THEN End(c) ELSE Goto(c, "purging")
  /\ UNCHANGED <<row, workspace, shell, strays, leases, starting, landing, branch, merged, history>>

\* recordHistory's final status: `dead` for a kill, else the captured status.
Recorded(c) == IF call[c].op = "kill_rm" THEN "dead" ELSE call[c].seen

\* Mutant: only SessionManager writes history; gc deletes the row and says nothing.
HistoryWithoutGc(c) ==
  IF call[c].op \in {"gc", "gc_force"} THEN history
  ELSE [history EXCEPT ![call[c].s] = @ \cup {Recorded(c)}]

HistoryAfter(c) == [history EXCEPT ![call[c].s] = @ \cup {Recorded(c)}]

\* The branch is deleted (best effort), the history row written and the session row
\* deleted, its lease rows with it.
DeleteRowOf(c) ==
  LET s == call[c].s IN
  /\ branch' \in {branch, branch \ {s}}
  /\ history' = HistoryAfter(c)
  /\ row' = [row EXCEPT ![s] = "gone"]
  /\ leases' = [leases EXCEPT ![s] = {}]

PurgeRemoved(c) ==
  /\ At(c, "purging") /\ call[c].op \in {"kill_rm", "rm"}
  /\ \/ workspace /\ DeleteRowOf(c)
     \/ /\ ~workspace                 \* the history row has no workspace to belong to
        /\ branch' \in {branch, branch \ {call[c].s}}
        /\ UNCHANGED <<row, leases, history>>
  /\ End(c)
  /\ UNCHANGED <<workspace, shell, strays, starting, landing, worktree, merged>>

-----------------------------------------------------------------------------
(* workspace.gc: reclaimEnded, then sweepOrphans *)

\* The call after gc turned to the next ended session it captured, or to the sweep.
GcTurns(o, todo) ==
  IF todo = {} THEN {[NoCall EXCEPT !.op = o, !.at = "sweeping"]}
  ELSE {[op |-> o, s |-> p[1], seen |-> p[2], todo |-> todo \ {p},
         at |-> IF p[2] = "dead" /\ o = "gc" THEN "checking" ELSE "teardown"] : p \in todo}

GcGoesOn(c) ==
  \E next \in GcTurns(call[c].op, call[c].todo) : call' = [call EXCEPT ![c] = next]

BeginGc(c) ==
  \E o \in {"gc", "gc_force"} :
    /\ Asked(c, o)
    /\ workspace
    /\ \E next \in GcTurns(o, {p \in Sessions \X Ended : row[p[1]] = p[2]}) :
         call' = [call EXCEPT ![c] = next]
    /\ UNCHANGED <<row, workspace, shell, strays, leases, starting, landing, disk, history>>

\* hasUnlandedWork answered: keep the session, or go on to remove it.
GcChecked(c) ==
  /\ At(c, "checking")
  /\ GcGoesOn(c) \/ Goto(c, "teardown")
  /\ UNCHANGED <<row, workspace, shell, strays, leases, starting, landing, disk, history>>

GcPurges(c) ==
  /\ At(c, "purging") /\ call[c].op \in {"gc", "gc_force"}
  /\ \/ workspace /\ DeleteRowOf(c) /\ GcGoesOn(c)
     \/ /\ ~workspace
        /\ branch' \in {branch, branch \ {call[c].s}}
        /\ End(c)
        /\ UNCHANGED <<row, leases, history>>
  /\ UNCHANGED <<workspace, shell, strays, starting, landing, worktree, merged>>

\* Worktrees no row claims; one that is just being created is within the grace period.
Orphans ==
  {s \in worktree : ~Resolves(s) /\ ~\E c \in Calls : At(c, "inserting") /\ call[c].s = s}

SweepOrphans(c) ==
  /\ At(c, "sweeping")
  /\ worktree' = worktree \ Orphans
  /\ End(c)
  /\ UNCHANGED <<row, workspace, shell, strays, leases, starting, landing, branch, merged, history>>

-----------------------------------------------------------------------------
(* land.session, landSession *)

\* The target's status is captured, then its panes are closed.
BeginLand(c, s) ==
  \E o \in {"land", "land_force"} :
    /\ Asked(c, o)
    /\ Resolves(s)
    /\ call' = [call EXCEPT ![c] = [NoCall EXCEPT !.op = o, !.s = s, !.at = "closing", !.seen = row[s]]]
    /\ UNCHANGED <<row, workspace, shell, strays, leases, starting, landing, disk, history>>

\* landSession up to its first await: the lock, the row, the liveness check (which sees
\* the status r), the main checkout's tree.
EnterLand(c, r) ==
  \/ /\ LandLockFree
     /\ r \in Live \cup Ended
     /\ r = "running" => call[c].op = "land_force"
     /\ landing' = TRUE
     /\ Goto(c, "testing")
  \/ End(c) /\ UNCHANGED landing

\* A forced land of a session captured as running kills it first.
LandAfterPanes(c) ==
  LET s == call[c].s
      kills == call[c].op = "land_force" /\ call[c].seen = "running" IN
  /\ At(c, "closing") /\ call[c].op \in {"land", "land_force"}
  /\ IF ~kills THEN EnterLand(c, row[s]) /\ UNCHANGED row
     ELSE IF ~Resolves(s) THEN End(c) /\ UNCHANGED <<row, landing>>
     ELSE IF MustStop(s) THEN Goto(c, "stopping") /\ UNCHANGED <<row, landing>>
     ELSE row' = [row EXCEPT ![s] = "dead"] /\ EnterLand(c, "dead")
  /\ UNCHANGED <<workspace, shell, strays, leases, starting, disk, history>>

\* Mutant: the strategy block is skipped for every branch.
MergedSkipped(s) == merged

MergedWith(s) == merged \cup {s}

\* Trial, test command, base re-check and merge; any of them may end the land, and so
\* may the reset of the scratch worktree after the merge, which then stays merged.
LandFails(c) ==
  /\ At(c, "testing")
  /\ \/ UNCHANGED merged
     \/ call[c].s \in branch /\ merged' = MergedWith(call[c].s)
  /\ landing' = FALSE
  /\ End(c)
  /\ UNCHANGED <<row, workspace, shell, strays, leases, starting, worktree, branch, history>>

LandMerges(c) ==
  /\ At(c, "testing")
  /\ call[c].s \in branch
  /\ merged' = MergedWith(call[c].s)
  /\ Goto(c, "teardown")
  /\ UNCHANGED <<row, workspace, shell, strays, leases, starting, landing, worktree, branch, history>>

\* Teardown hook and worktree removal (a failure is only a warning), then the leases.
LandRemoves(c) ==
  LET s == call[c].s IN
  /\ At(c, "teardown") /\ call[c].op \in {"land", "land_force"}
  /\ worktree' \in {worktree, worktree \ {s}}
  /\ leases' = [leases EXCEPT ![s] = {}]
  /\ Goto(c, "branch")
  /\ UNCHANGED <<row, workspace, shell, strays, starting, landing, branch, merged, history>>

\* Mutant: the lock is dropped on the success path only.
LockAfterLand(s) == ~Resolves(s)

\* The `finally` of landSession.
LandingAfter(s) == FALSE

\* The branch is deleted (best effort), the row becomes `landed`; on a row that is gone
\* the update changes nothing and the ledger's append fails.
LandFinishes(c) ==
  LET s == call[c].s IN
  /\ At(c, "branch")
  /\ branch' \in {branch, branch \ {s}}
  /\ row' = IF Resolves(s) THEN [row EXCEPT ![s] = "landed"] ELSE row
  /\ landing' = LandingAfter(s)
  /\ End(c)
  /\ UNCHANGED <<workspace, shell, strays, leases, starting, worktree, merged, history>>

-----------------------------------------------------------------------------
(* workspace.delete, and a new daemon *)

\* The workspace row and, by cascade, every session row and lease; shells and disk stay.
DeleteWorkspace ==
  /\ workspace
  /\ \/ "delete" \in Ops /\ \A s \in Sessions : row[s] \notin Live
     \/ "delete_force" \in Ops
  /\ workspace' = FALSE
  /\ row' = [s \in Sessions |-> IF Resolves(s) THEN "gone" ELSE row[s]]
  /\ leases' = [s \in Sessions |-> {}]
  /\ UNCHANGED <<shell, strays, starting, landing, disk, history, call>>

\* Shells that may outlive their daemon (they lose their pty, not their process) or whose
\* pid some other process has by now.
Survivors == {s \in worktree : row[s] = "running"}

Reconciled(s, alive) ==
  IF row[s] # "running" THEN row[s]
  ELSE IF s \notin worktree THEN "dead"
  ELSE IF s \in alive THEN "running" ELSE "idle"

\* The daemon dies at any point (daemon.shutdown stops the shells first, which is a
\* case of it) and the next one boots: releaseAll, reconcile, the orphan sweep.
Restart ==
  /\ "restart" \in Ops
  /\ \E alive \in SUBSET Survivors :
       /\ strays' = alive
       /\ row' = [s \in Sessions |-> Reconciled(s, alive)]
  /\ shell' = [s \in Sessions |-> NoShell]
  /\ leases' = [s \in Sessions |-> {}]
  /\ starting' = {}
  /\ landing' = FALSE
  /\ worktree' \in {worktree, {s \in worktree : Resolves(s)}}
  /\ call' = [c \in Calls |-> NoCall]
  /\ UNCHANGED <<workspace, branch, merged, history>>

-----------------------------------------------------------------------------
Request(c) ==
  \/ \E s \in Sessions : \/ BeginNew(c, s)    \/ BeginStart(c, s)  \/ BeginStop(c, s)
                         \/ BeginKill(c, s)   \/ BeginRemove(c, s) \/ BeginLand(c, s)
  \/ BeginGc(c)

Continue(c) ==
  \/ ForkWorktree(c)   \/ InsertRow(c)
  \/ AcquireFails(c)   \/ SpawnThrows(c)      \/ ShellStarts(c)
  \/ KillAfterPanes(c) \/ RemoveAfterPanes(c) \/ TeardownDone(c) \/ PurgeRemoved(c)
  \/ GcChecked(c)      \/ GcPurges(c)         \/ SweepOrphans(c)
  \/ LandAfterPanes(c) \/ LandFails(c) \/ LandMerges(c) \/ LandRemoves(c) \/ LandFinishes(c)

Next ==
  \/ \E c \in Calls : Request(c) \/ Continue(c)
  \/ \E s \in Sessions : ShellExits(s)
  \/ DeleteWorkspace
  \/ Restart

\* Git, hooks and probes come to an end, so does a land's test command (the code sets it no
\* limit), and a shell that is being stopped dies: SIGHUP, then SIGKILL after the grace
\* period.  Requests and free exits are not fair.
StoppedShellExits(s) == Waiting(s) # {} /\ ShellExits(s)

Fairness ==
  /\ \A c \in Calls : WF_vars(Continue(c))
  /\ \A s \in Sessions : WF_vars(StoppedShellExits(s))

Spec == Init /\ [][Next]_vars /\ Fairness

-----------------------------------------------------------------------------
(* Properties *)

\* A lease never outlives its shell: whichever way a start fails or a shell ends, the
\* block goes back to the pool (manager.ts: "each failed start burned a port block").
LeaseHeldByShell == \A s \in Sessions : leases[s] # {} => shell[s] # NoShell

\* A row says `running` only over a shell of this daemon, or over one that a previous
\* daemon left alive; every exit and every restart corrects it.
RunningHasShell ==
  \A s \in Sessions : row[s] = "running" => shell[s] # NoShell \/ s \in strays

\* A killed session has no live shell: `dead` is written only after the process is
\* confirmed gone, and a start that overlaps the kill does not leave `dead` over it.
DeadHasNoShell == \A s \in Sessions : row[s] = "dead" => shell[s] = NoShell

\* What a row says of its shell is so (RunningHasShell, DeadHasNoShell).
RowsMatchShells == RunningHasShell /\ DeadHasNoShell

\* No two live shells were given the same port block.
BlocksNotShared ==
  \A s, t \in Sessions : s # t /\ shell[s] # NoShell => shell[s] # shell[t]

\* A session is never stuck in `starting`: some call is still acquiring for it.
StartingHasCall ==
  \A s \in starting : \E c \in Calls : At(c, "acquiring") /\ call[c].s = s

\* Calls inside landSession.
InLand(c) ==
  \/ At(c, "testing") \/ At(c, "branch")
  \/ At(c, "teardown") /\ call[c].op \in {"land", "land_force"}

\* Two lands of one workspace never run at the same time.
OneLandAtATime == \A c, d \in Calls : InLand(c) /\ InLand(d) => c = d

\* The workspace is never left locked against landing.
LandLockHeld == landing => \E c \in Calls : InLand(c)

\* `landed`, in the row or in the history, is only said of work a land has merged:
\* gc's "`landed` is always safe" rests on it.
LandedWasMerged ==
  \A s \in Sessions : row[s] = "landed" \/ "landed" \in history[s] => s \in merged

\* While the workspace exists, a session row disappears only into the history.
RemovedIsRecorded ==
  \A s \in Sessions : workspace /\ row[s] = "gone" => history[s] # {}

\* Every RPC is answered.
CallsEnd == \A c \in Calls : call[c] # NoCall ~> call[c] = NoCall

\* "`dead` and `landed` are terminal" (methods.ts, assertResumable).
EndedIsTerminal ==
  [][\A s \in Sessions : row[s] \in Ended => row'[s] \in Ended \cup {"gone"}]_vars

=============================================================================
