# crossweave: specifications, model checking and proofs

crossweave runs several coding agents side by side on one repository. Each *session* has a
git worktree and branch of its own, a shell, and a block of ports; a *daemon* per project
owns all of them and is asked over a Unix socket; finished sessions are *landed*, merged
into the base branch through a scratch worktree. This directory holds TLA+ models of the
parts in which those promises can break, the TLC configurations that check them, and TLAPS
proofs of the main ones. Paths below are relative to the repository's root;
`PROJECT.json` maps every definition to the lines it models.

    tlc -workers 2 -config PortLeases.cfg PortLeases        # any run below
    tlapm PortLeases_proofs.tla                              # any *_proofs module

## 1. Inventory

### How the daemon executes

One Node process per project. `server.ts` parses a line, looks the method up and starts
its handler at once: **RPCs are never serialised against each other.** A handler runs
alone until it awaits a timer, a child process, a socket or git, and any other handler or
callback may run there. The exceptions are explicit: the `starting` set
(`methods.ts`), the `landing` set (`land.ts`), and two promise chains (the scratch
worktree, the checkpoints of one session). State lives in SQLite (synchronous, one
connection), in maps of the process (lost in a crash), on disk (worktrees, branches) and in
the shells.

### Components

| Component | State | Operations | Talks to | Must hold |
|---|---|---|---|---|
| Port-block leases (`isolation/leases`, `db/repositories/lease.ts`) | lease rows; per acquire a snapshot `taken` and a candidate | acquire, release, releaseAll, cascade | the machine's ports by probing; called by session start and land | no port in two blocks; blocks lie in the port range and were seen free; acquire ends |
| Session lifecycle (`domain/session.ts`, `daemon/methods.ts`, `daemon/runtime.ts`) | session rows, `running`, `starting`, worktrees, branches, history | new, start, resume, stop, kill, rm, shell exit | leases, git, hooks, pty | rows agree with shells; leases end with shells; nobody stuck; every RPC answered |
| Reconciliation (`domain/reconciliation.ts`) | the rows a dead daemon left | releaseAll, status correction, orphan sweep | liveness of pids, disk | no row says `running` of nothing |
| GC, workspace deletion (`domain/gc.ts`, `workspace.ts`) | as above | reclaim ended, sweep orphans, delete | git, hooks | nothing removed without history; unmerged work never called landed |
| Landing (`convergence/land.ts`) | `landing`, scratch worktree, base branch | land | runtime (kill), leases, git, trial, tests | one at a time; lock always released; base never corrupted |
| Convergence (`convergence-scheduler.ts`, `integration-worktree.ts`, `trial.ts`) | promise chain, `lastTrialHead`, trial rows | tick, trial, land's trial | git, the scratch worktree | one user of the scratch worktree; new commits are tried |
| Landability (`evidence.ts`, `graph.ts`, `land-order.ts`) | none (pure) | verdicts, order | trial rows | an order that exists is found; stale evidence is not used |
| Daemon socket (`server.ts`, `main.ts`, `rpc-client.ts`) | the file at the path, `boundIdentity` | spawn, bind, clear, serve, watchdog, close | file system, other daemons, clients | somebody serves; orphans leave; losers find the winner |
| Checkpoints (`domain/checkpoint.ts`) | refs, worktree, the chain per session | take, restore, delete, prune | git, an agent that keeps writing | a restore can be undone; none deletes another's |
| Checks (`checks.ts`, `auto-check.ts`) | runs, verdict rows, slot, owed runs | run, forget, automatic run | test processes, git counts | newest verdict wins; the slot is freed |
| Cockpit bridge (`bridge-registry.ts`) | registrations, pending requests | register, invoke, answer, disconnect | cockpit connection, timers | each request settled once |
| Output streams (`output-coalescer.ts`, `broadcast.ts`) | pending output, subscribers | write, flush, attach, exit | pty, clients | every byte once, in order |
| Extra terminals (`terminals.ts`) | panes, rows, snapshots | open, close, restore | pty, database | kept over a restart, closed ones gone |
| Client RPC (`transport.ts`, `framing.ts`) | pending calls | call, notify, close | socket | each call settled once |
| Session status (`session-status.ts`, `checkpoint-trigger.ts`) | a track per shell, what the last sweep of `ps` saw, starts owed a checkpoint | output, input, notify, sweep | shells, `ps`, checkpoints | a first turn gets its checkpoint from before it |
| Hooks and trust (`trust.ts`, `session-setup.ts`) | hashes in the workspace's row, setup marks | trust, untrust, start, teardown | shells, the repository's config file | only what a person agreed to runs; a session is set up once |
| Agents' hooks, notifications (`agent-hooks.ts`, `notify/`) | the agents' own settings files, budgets | install, remove, send | files an agent writes too | what it replaced can be had back; nobody is told what was switched off |
| Database, history, usage (`db`, `agent-usage.ts`) | SQLite, logs of the agents | open, migrate, trim, read on | several processes, files that grow | no build loses another's data; a figure is the logs' |
| Background readers (`disk-usage.ts`, `git-counts.ts`, `overlap.ts`) | cached figures, promises shared | measure, count, scan | disk, git | a figure is honest and comes; figures settle |
| Cockpit connections (`electron/daemon-bridge.ts`) | pool, attempts, the stage | attach, ensure, close | daemons | no link leaked, every ensure served |
| Cockpit window (`apps/cockpit/src`) | stage, panes, rail, command bar, editor, composer, dashboard, dialogs | every gesture and every answer | the main process, through it the daemons | what is shown is so, nothing is done unasked, nothing written is lost |
| Cockpit main process (`electron/main.ts`, `browser-agent.ts`) | the window, folders, the agent's browser | launch, open, attach a debugger | the window, files | no folder becomes a project by accident; a page is driven only while allowed |
| Command line (`src/cli`, `cw tui`) | one process each | every verb, attach, the console | the daemon, the terminal | nothing destroyed unconfirmed; the terminal is given back |
| Updates (`install.sh`, `src/update`) | pieces on disk, one config file | install, check, announce | other processes, no lock | all new or all old; choices stay |
| Shell adapters, website | - | - | - | see section 7 |

### What is hard here

* checks made before an `await` and relied on after it (`assertResumable`, the lease
  snapshot, gc's `hasUnlandedWork`, land's base);
* callbacks of a shell's exit running between the steps of stop, kill, land and start;
* release *by session*, not by row: a failing start also hits what the session held before;
* crashes: the rows outlive the shells, and the shells may outlive the daemon;
* several daemons starting at once over the debris of an earlier one, with no file lock;
* operations of several steps (removal, landing) whose middle step fails;
* several writers of one file (settings, config, the agents' hook files, the editor's), none
  of which locks it;
* a window that awaits answers while the person goes on: the answer belongs to a list, a
  dialog or a project that is no longer the one on the screen.

`PROJECT.json` lists each of these at its line, with the properties that watch it or the
reason why none does yet.

## 2. Modules

    LeasePool  <---- implemented by ----  PortLeases  <---- PortLeases_proofs
    SessionLifecycle  <---- MCSessionLifecycle (symmetry), SessionLifecycle_proofs
    Convergence       <---- MCConvergence (who conflicts), Convergence_proofs
    DaemonSocket, Records         <---- DaemonSocket_proofs
    CommandBridge, CockpitBridge, Terminals, OutputStream, AgentNotices <---- Services_proofs
    Checks, Hooks, Checkpoints    <---- Trust_proofs
    BrowserAgent, TerminalPanes   <---- Panes_proofs
    Tui, Settings, Composer, Updates, Dashboard <---- Promises
    LandOrder, Promises           <---- Window_proofs
    the daemon's services         <---- MCServices
    Layout <---- ProjectView;  it, Promises and the window's other parts <---- MCWindow

Throughout, **an action is what the code does between two awaits that really give up the
event loop** (timers, processes, sockets, git), and in `DaemonSocket`, where the actors are
processes, one system call. An `await` of a promise that is already resolved is no boundary:
microtasks run before the next I/O event, so no other RPC gets in.

**LeasePool** is the promise of the lease layer: blocks are held by one session each; a
session takes a free one, gives back all it has; a restart empties the pool.

**PortLeases** is `allocatePortBlock` and the `LeaseManager`. `held` are the unreleased
port rows, `taken`, `cand` and `off` the locals of the loop, `pc` says whether the next
thing to happen is a probe's `listen` or its `close`. A probe really occupies the port it
asks about, so two allocators can disturb each other (`ProbeRefused`). `LostCandidate` and
`Grant` are the two outcomes of the re-read before the row is written, and `Grant` includes
the failure of any later step of `acquire` (`Fail`: release by session). `squatted` is the
rest of the machine. `seenFree` is a history variable that records which ports of the
candidate were free at some moment while the allocator looked at it. The instance of
`LeasePool` maps its blocks to the candidates and its `held` to the rows.

**SessionLifecycle** is one workspace in one daemon: all `session.*` RPCs that change a
status, `land.session`, `workspace.gc`, `workspace.delete`, the exit of shells, and the
death and boot of the daemon. `call[c]` is an RPC in flight, with the stage it is
suspended at and what it captured earlier (`seen`: the status; `todo`: gc's list);
`row`, `shell`, `leases`, `starting`, `landing`, `worktree`, `branch`, `history` are the
status column, the entry of `runtime.running` with the port block in its environment, the
lease rows, the two sets of the daemon, the disk, and `session_history`. `merged`
records what lands have merged; `strays` which sessions' shells the last boot saw alive.
The correspondence of stages and code:

| Stage | The handler is suspended in |
|---|---|
| forking, inserting | `createWorktree`, the insert that follows in `SessionManager.create` |
| acquiring | `leaseManager.acquire` in `start`; the next action is the lease, the spawn and `markStatus`, or the failure of one of them |
| stopping | `runtime.stop`, waiting for the exit; `ShellExits` continues all waiters at once, because each resumes in microtasks of the exit callback |
| closing | the closing of the session's extra panes |
| teardown, purging | the teardown hook and `git worktree remove`; then branch, history and row |
| checking, sweeping | gc's `hasUnlandedWork`; `sweepOrphans` |
| testing, teardown, branch | land's trial, tests and merge; its clean-up; its last writes |

The model names the mistakes that could be made at each place (operators marked
`Mutant:`); no behaviour uses them, they are the yardstick for the properties.

**Convergence** is the convergence engine of one workspace. `queue` is the promise chain of
`withIntegrationWorktreeLock`: its head runs, the others wait. `tick` is the scheduler's tick
(`queued`, `sweeping`, `fullQueued`, `fullTesting`) with what it captured: the active sessions
and the due ones before the lock, the base under it, a session's head once for all its
partners. `land` is a land as far as the scratch worktree and the base are concerned;
`scratch` says whose merge is checked out. Commits are numbered along each branch and the
base, and a trial is about an `Identity`: a base and two heads. `row` is the latest pairwise
trial of a pair, `fullRow` the latest full-integration trial, `tried` and `last` the memory of the
scheduler (`triedPairs`, `lastTrialHead`), and `testCommand` whether there is one that may run, which
somebody may come to trust. A sweep keeps the event loop, so no RPC and no callback runs between its
trials; agents and users, who are other processes, still commit between any two of them.
`Verdict` is what `classifyLandability` says, with the full-integration evidence it wants under a
trusted test command and with a base that git may fail to read; `Truth` is what pairwise trials of
the branches as they are would show. `MCConvergence` chooses which identities conflict.

**DaemonSocket** is any number of daemon processes and the clients that spawned them. A
socket file is identified by the daemon that bound it (device and inode in the code).
`listen` is five steps (bind, probe, unlink, bind again, read the identity), any of which
may be separated from the next by steps of other daemons. `client` is the polling loop of
`connectOrStart` and its distinction of exit codes.

### The daemon's services

`MCServices` runs them side by side in one run, but one at a time: `part` is chosen in the
initial state, and only that part's variables change. They share no state in the code but
what is an input of the module here (a session's row, a setting, a worktree), so a product
would add states and no behaviour. Each property begins with the part it is about, and so
does each conjunct of the type invariant.

| Module | Models | State and steps |
|---|---|---|
| `Checks` | `checks.ts`, `auto-check.ts`, the cached counts of `git-counts.ts`, land's gate | `run[s]` is in flight, `verdict` and `stored` are memory and table, `counts` may lag behind `work`; `owed` and `slot` are the automatic runs. Edits, turns and purges fall between a run's end and git's answer |
| `Checkpoints` | `checkpoint.ts` | `chain` is `locked()`'s promise chain; a step is what an operation does between two git processes or two files (`at`), and the agent writes between any two |
| `CommandBridge` | `bridge-registry.ts`, `command-bridge.ts`, `renderer-bridge.ts` | waiters with timers in the daemon, requests and answers on their way, what the window still has |
| `CockpitBridge` | `daemon-bridge.ts` | connections are numbered by project, so a late end of an old one is told from the new one; `ensures` is the queue |
| `SessionStatus` | `session-status.ts`, `activity.ts`, `checkpoint-trigger.ts` | tracks cut to what the code compares time with; a sweep between its `ps` and its answer; polls that walk a copy of what is owed |
| `ClientRpc` | `transport.ts`, `framing.ts`, the serving side | chunks become lines (the framer), frames calls; `end`, `error` and `close` come in any order or, stalled, not at all |
| `OutputStream` | `output-coalescer.ts`, `runtime.ts`, `agent-screen.ts` | numbered chunks; the headless screen parses in slices and answers a snapshot when it is there |
| `Terminals` | `terminals.ts` and its rows | extra panes over shutdown, flush, crash, restart, and a setting that may change at any time |
| `Hooks` | `trust.ts`, `session-setup.ts`, `setup-exit-watcher.ts` | the config file, what a daemon read of it, the hashes a person agreed to, setups typed into shells |
| `AgentNotices` | `agent-hooks.ts`, `cw hooks`, `notify/gate.ts`, `dispatcher.ts` | two runs of `cw hooks`, each a read, for Claude's install a second one, the copy and the rename, and the agent rewriting the file between any two; a budget per key and window |
| `Records` | `agent-usage.ts`, `agent-logs.ts`, `db/open.ts`, `schema.ts`, `session-history.ts` | logs of which the last line may be half written; processes of different builds opening one database |
| `BackgroundReaders` | `disk-usage.ts`, `git-counts.ts`, `overlap.ts`, `repo-scan.ts` | a walk with a deadline; promises that several callers await while the folders change |

### The window, the main process and the console

`MCWindow` does the same for what a person works in (`windowPart`); `Layout` has the stage's
operators, which are recursive over its tree of splits.

| Module | Models |
|---|---|
| `Layout`, `ProjectView` | the stage of a project: tabs, splits, moves, zoom; loads of the daemon's lists racing each other, failing at `session.list` or going on without `terminal.list`, the person, shells and sessions created over an await, and pane requests of shell commands |
| `TerminalPanes` | a pane's link to its shell (attach epochs), its size, copy mode over a real scrollback, and the few GPU contexts that panes share |
| `Rail` | the projects of a window beside the main process's own list; actions that wait for a project; notices of checks and turns; the jump; inline renames |
| `Commands` | the key table with its prefix, the command language, the bar, its history and what runs |
| `Review` | the editor of a file the agent also writes, the daemon's save being a compare, a rename and a stat; comments on a diff that moves, and their Send |
| `Composer` | a draft sent to several shells while its dialog closes and opens; the refine command |
| `Dashboard` | figures of daemons that answer or not, suggestions, and what is deleted after a dialog that says what is lost |
| `Dialogs` | comparing two sessions, the debug bundle, checkpoints and their restore, the session picker and what it creates |
| `Settings` | the settings page, saved layouts and the guard for an older daemon, all writing one whole file |
| `BrowserAgent` | the switch of a Browser pane, its debugger, the log, and the asks that a person answers one at a time |
| `Launch` | the main process from a launch to the next one: second instances, plain folders, the four files that outlive it |
| `LandOrder` | `cw land all`, `cw land session` and the desktop's land with its questions over `converge.status`, and `land.session` with everything it refuses for, while agents and people work on |
| `Updates` | the installer's moves with failures and rollback; the config file every process writes |
| `Tui` | `cw tui`: keys, prompts, forms and attached children over a list that is refreshed |
| `Promises` | what `Tui`, `Settings`, `Composer`, `Updates` and `Dashboard` promise together; it adds no steps |
| `Cli` | every verb of `cw` as what it refuses, confirms, looks up and calls; `cw check`, `cw daemon stop`, `cw pane`, `cw attach` |


## 3. Runs

| Run | Instance | Shows |
|---|---|---|
| `port_leases` | 2 sessions, blocks of 2 ports, two blocks and one left-over port, any program may take or free any port | `PortsExclusive`, `GrantedPortsInRange`, `NeverGrantsSquatted`, `ImplementsPool`, `AcquireEnds` |
| `session_lands` | 2 sessions, 2 calls; new, start, kill, rm, gc, land (forced too) | `OneLandAtATime`, `LandLockHeld`, `LandedWasMerged` |
| `session_calls` | two stories: 1 session, 2 calls, every operation, restarts; and 2 sessions, 3 calls, 2 blocks, with new, resume, stop, kill, restart | `LeaseHeldByShell`, `RemovedIsRecorded`, `CallsEnd`, `RowsMatchShells`, `BlocksNotShared`, `StartingHasCall` |
| `convergence` | 3 branches, pairwise up to 2 sessions, one commit (of a branch or the base) or restart; no test command, one not trusted (until somebody does) or a trusted one; the commit of `a` conflicts with `b` | `TestSeesItsMerge`, `VerdictsSettle`, `LandEnds` |
| `daemon_socket` | 3 daemons, empty path or debris, one deletion of the file | `ExitLeavesNothing`, `StampedeServes`, `OrphansEnd`, `LosersConnect` |
| `services` | each service of section 2 alone, with the constants of `Services.cfg` | see below |
| `window` | each part of the window and of the console alone, with those of `Window.cfg` | see below |
| `ended_is_terminal` | 1 session, 2 calls; new, resume, kill | a disagreement, see section 4 |
| `dropped_commit` | 2 branches, two events, the last of which may drop a commit | a disagreement, see section 4 |
| `double_start` | 2 sessions, 2 calls; new, start, stop | a disagreement, see section 4 |
| `daemon_steal` | 2 daemons over debris | a disagreement, see section 4 |
| `cockpit_dead_link` | 2 projects, 2 connections each | a disagreement, see section 4 |

`services` and `window` have one type invariant each, made of those of their modules. `TypeOK`
of the four modules above is proved and needs no run.

**What `services` says.**

* `VerdictsAreTrue`: once a run has started no earlier verdict of the session is shown, kept
  over a restart or let through to a land; and what passed is the work that was judged.
* `AppliedIsTarget`, `RestoreIsUndoable`: a restore that says `applied` made every path what was
  asked for, but those the agent wrote meanwhile; what it destroys is in the newest checkpoint
  at every step, so wherever it fails.
* `WaitersAreWatched`: whoever waits, waits on the cockpit that is registered, connected and
  was asked. `SettledOnce`: a call's first settlement stands. `LinksAreKept`: no connection is
  leaked and an ensure that has begun is served.
* `ReportsAreTrue`: lines are whole whatever the chunks (`LinesAreWhole`); a viewer is sent chunks
  once and in order, the exit line last, and they are exactly those of its latest replay and those
  printed after it, so that of a TUI's snapshot the property says which chunks are lost
  (`StreamIsWhole`, section 4); builds of different schema
  versions lose no data and a trim nothing a listing could show (`StoreIsWhole`); usage counts
  each message once (`UsageIsWhole`); a disk figure is honest about what it left out
  (`FigureIsHonest`); counts and overlaps are right once the folders stand still
  (`FiguresSettle`); the user's own hooks stay whatever `cw hooks` does, unless a run replaced what it
  had not read, and a backup has them then if the copy came after the writing
  (`AgentHooksAreKept`, section 4); only what is wanted is sent, in its budget (`NoticesAreDue`).
* `EndedStaysEnded`: a terminal that ended is not reopened by a later daemon.
* `HooksAreAgreed`: what runs was agreed to word for word, a session is set up once and once
  more per request, and a list says what its last setup ended with.
* `AnswersCome` (liveness): a session owed an automatic run gets it, is refused or asks
  (`OwedIsServed`); a call is answered or rejected (`EveryCallSettles`); a walk ends (`WalksEnd`);
  and an agent at work has its checkpoint from before (`FirstTurnHasItsBefore`).

**What `window` says.**

* `ConsoleIsSound`: the console's keys come back after every prompt, form and action, and the
  shell gets its terminal back (`KeysComeBack`, `TerminalIsRestored`).
* `SavedIsKept`: the settings file (`NothingIsLost`), prompts and drafts (`PromptsAreSafe`,
  `DraftsAreKept`, `RefinesAreOwned`), what the dashboard suggests and a deletion loses, and that
  sizes are asked for until they are known (`SuggestionsAreSafe`, `LossesAreTold`,
  `MeasuringIsFollowed`), installations and the shared config (`InstallsWhole`, `ConfigIsKept`,
  `NoticeIsDue`).
* `NothingUnasked` (action property): only what a prompt named and `y` answered is killed or
  reclaimed, no older draft of the settings and no older figures replace newer ones. These three
  are stated in `Promises` and proved (section 5).
* `WindowIsSound`: one pane per shell, every running terminal shown once a load has heard of it, the
  keyboard has a pane (`OnePaneEach`, `ShellsAreShown`, `StageIsUsable`); window and bridge agree on the projects, an
  action runs once and in the project it was asked of, a launch shows what main attached and finds
  what was saved (`ProjectsAgree`, `ActionsAreRun`, `StageIsShown`, `SavedIsListed`,
  `RecentsAreExact`); what was created is what was asked for, what is looked at is fresh or says
  that it is old, restores were said yes to (`MadeIsAsked`, `LooksAreFresh`, `RestoresAreSaid`);
  failures told once, finished sessions marked only while nobody looks, the jump reaches all,
  renames saved once (`FailuresToldOnce`, `LookedAtIsSeen`, `JumpsReachAll`, `EditsSaveOnce`);
  the agent's browser is driven only as far as the switch and the person allow (`BrowserIsKept`);
  the prefix takes one key, the history is what was run (`KeysAreSound`, `HistoryIsExact`); no `cw`
  line destroys without its yes, starts a daemon it refuses to use, or says what is not so
  (`CommandsAreConfirmed`, `NothingIsStarted`, `CommandsTellTruth`); `cw attach` gives the terminal
  back, but for the one case of section 4, shows all, tells the size, and hands on exactly what was typed (`TerminalIsGivenBack`,
  `AttachShowsAll`, `AttachTellsSize`, `ShellHearsTyping`); a pane hears its shell, which knows its
  size, within the budget of GPU contexts, and three Escapes leave copy mode (`PaneHearsItsShell`,
  `ShellKnowsItsSize`, `ContextsInBudget`, `EscapesGiveKeysBack`); a settings file edited by hand
  loads to what can be saved (`LoadedIsSavable`); a save of the editor replaces what the pane was never
  told of in four cases only, and the dot says whether there is something to save
  (`AgentsEditsAreSeen`, `DotIsTrue`), comments (`CommentsAreKept`, `CommentsAreExact`), and the
  dashboard's totals and what its suggestions promise to free (`FiguresAddUp`).
* `LandsAreEvident`: the land of what a status called ready meets no conflict with the base and no base
  that moved, as long as nothing else moves; for want of a check, by its tests, an untrusted command,
  a rebase, a hook, another land or a dirty checkout it may still be refused (`ReadyMeetsNoConflict`). A
  `land all` that came to its end landed all that was ready, also what its own lands made ready, and
  none twice (`AllReadyAreLanded`); nothing an agent wrote while it was being stopped is thrown away
  (`LateWritesAreKept`); a land refused for want of a check has touched nothing (`RefusedIsUntouched`).
* `StepsAreMeant` (action property): a load takes only panes of the dead, but for two exceptions that it
  states, the rejected `terminal.list` and a session made after the load's list (section 4); a move loses and doubles
  none, a pane on screen keeps its context (`LoadsTakeOnlyTheDead`, `MovesKeepPanes`,
  `OnScreenKeepsItsGl`); a project runs nothing once closed, and only what a line, a picker or a click named is run, created or
  made a project (`ClosedRunsNoMore`, `CommandsAreTyped`, `PicksAreMeant`, `ProjectsAreMeant`); an
  older look never replaces a newer (`LooksOnlyNewer`).
* `CopyModeIsExact` (action property): movements stay in the text, words get on, a search finds the
  nearest, a yank is of the text. Proved for every set of scrollbacks (`CopyModeExact`).

**The bounds, and why they are enough.** Two allocators are what it takes to disturb each
other's probes and to lose a candidate; two blocks give a loser somewhere to go and let the
search run out; the left-over port makes the last candidate end above the limit.
The arithmetic for all sizes is proved. In the second story of `session_calls` three calls let two of them wait for
one shell while the third starts another session; the operations that delete rows are the
subject of the first story and of `session_lands`. That run needs a second session only as a rival for
the lock. The first story puts every pair of operations on one session, which is where they can
meet. Removed ids are not used again (they are random in the code), which bounds the state
space without a counter. In `convergence` three sessions exceed the threshold, so the engine starts degraded and
goes over to pairwise trials when the first one ends; two branches leave a pair that must be
tried again after each way in which its evidence can go stale: a land, a commit, a restart
(`MaxEvents` = 1 allows one of the last two per behaviour; lands and removals are bounded by
the sessions; the third session, there for degraded mode, goes before anybody else moves). The chain never holds more than a tick and a land, which is
proved for any number of branches. Three daemons are the smallest number in which a daemon clears the
socket of one that cleared another's; `MaxRemovals` = 1 bounds deletions of the file,
because each orphans a daemon independently. In `services` and `window` every actor that can
race another is there twice (two checks, cockpits, callers, viewers, processes, dialogs in a row,
sessions to confuse), every file or text can be changed once by somebody else at any moment
(`Max...Edits`, `MaxRewrites`, `Max...Moves`), and limits are so low that they are reached: one call
in flight, one chunk of scrollback, two entries of history, two contexts, a database that two builds
open. The comments of the constants name each bound. The safety results on sessions, ports and
exits and on the scratch worktree do not rest on these bounds: they are proved for all (section 5).

Deadlock checking is on, except where everything may end: all daemons exited
(`DaemonSocket`), all sessions ended (`Convergence`), or, without `gc` or `land`, no session left that a request could
address (`ended_is_terminal`, `double_start`).

**Fairness.** `PortLeases`: a probe that was started calls back (the kernel answers a
`listen` on localhost); nobody has to call acquire or release. `SessionLifecycle`: a
suspended call continues, because git ends and hooks and probes end or are killed at their
timeouts (a test command has no limit in the code, neither in a land nor in a tick: that it
ends is an assumption about the user's command); a shell that is being stopped exits, because `runtime.stop` sends SIGHUP and after a
grace period SIGKILL. Requests, shells that exit by themselves, deletions and restarts are
not fair. `Convergence`: the tick's interval fires, debounce and intervals pass, and a tick or land
that runs goes on, with the same assumption about tests; nothing makes anybody commit, land or
remove a session. `DaemonSocket`: processes make progress and the watchdog's interval fires; nothing
makes anyone spawn, signal, kill or delete. `MCServices`: a check ends or is killed at its limit and
the queue is looked at; the sweep's interval fires, `ps` answers and a poll walks on; of a
connection frames arrive, handlers answer and a closed socket tells its end; a directory that is
being read is answered. Nobody has to type, print, edit, connect or ask. `MCWindow` is safety only.

## 4. Where the code disagrees with what it says

* **A killed session can come back** (`ended_is_terminal`). `methods.ts` calls `dead` and
  `landed` terminal and tests it (`assertResumable`) before `start` awaits its ports. A
  `session.kill` in that window finds no process, writes `dead` and answers; `start` then
  spawns the shell and writes `running`. `DeadHasNoShell` still holds, because the status
  follows the shell; `EndedIsTerminal` does not.
* **`session.start` of a running session gives its ports away** (`double_start`). Unlike
  `session.resume` it does not look whether the session runs. It acquires a second block,
  `runtime.start` throws `SESSION_ALREADY_RUNNING`, and the handler releases *every* lease
  of the session, the live shell's too; the next session gets the same ports.
  With resume alone, `BlocksNotShared` is checked and proved.
* **A starting daemon can steal a live socket** (`daemon_steal`). Two daemons probe the same
  debris dead; one clears it, binds and serves; the other's `unlinkSync` then removes that
  live socket. The watchdog of the first notices and it exits (`OrphansEnd`), and somebody
  serves in the end (`StampedeServes`), but "never steals a socket" is too strong.
* **The verdict of a dropped commit stays** (`dropped_commit`). The scheduler promises a
  re-trial whenever a head or the base moved. A branch that goes back to a commit it was tried
  at (`git reset`) is due, but `triedPairs` still holds the pair's identity: the sweep skips it
  and notes the branch as tried, and the latest row remains that of the dropped commit.
  `converge.status` says `blocked` of branches that merge cleanly, or `unknown` if the base went
  back, until somebody commits or the daemon restarts. If commits only add, `VerdictsSettle` holds.

* **A connection that died during its registration stays in the pool** (`cockpit_dead_link`).
  `attach` awaits `bridge.register`; a daemon that goes meanwhile is told to a close handler that
  finds the project not pooled yet, the rejection is swallowed, and the dead client is pooled. Every
  later `workspace.ensure` is answered with it, although a test promises that it "reconnects
  after daemon.gone"; the project stays unreachable until it is closed.

In six places a comment or design document promises more than the code keeps, and the property about it
passes because it states the exception; that each exception occurs was seen by checking the property
without it. They are among the findings of `PROJECT.json`, with the lines they quote.

* **A full-integration run need not come** (`VerdictsSettle` of `convergence`). The design has one "at most every
  `converge.fullIntegrationIntervalMs`", but a tick returns when no branch is due
  (`convergence-scheduler.ts:264`), or with fewer than two sessions (`:236`), before it looks at the
  interval. Where a test command is trusted, sessions that are clean in pairs then stay `unknown`
  until somebody commits, lands or restarts; a lone session always does. `VerdictsSettle` says of everybody else that the
  verdict becomes true, and of these that it stays `unknown`.
* **Chunks are lost between a TUI's snapshot and its stream** (`StreamIsWhole` of `services`). A snapshot waits
  until the screen has parsed what was printed when it was asked for. If the parser's time slice ends
  just there, chunks that arrived meanwhile are in neither the snapshot nor the stream, which the viewer joins only then,
  against `runtime.ts:245` ("so it is in the snapshot") and `terminals.ts:229`. The property counts from the last
  chunk in the replay: the lost ones are those up to the moment of the replay, and no others.
* **`cw hooks` may replace what it has not read** (`TheirsIsKept` of `services`). `agent-hooks.ts:17` promises a read
  "immediately before write", but only Claude's install reads again; its removal and both of Codex's
  write what they made of the first read, and after any last read there is still the copy before the rename.
  A backup has what was lost unless it was written after the copy, or the file did not exist at first.
* **A rejected `terminal.list` closes panes** (`LoadsTakeOnlyTheDead`, `ShellsAreShown` of `window`). The load goes on with an
  empty list (`ProjectView.tsx:259`), so the panes of all terminals go, of living ones too, although
  "a reload must find the shells it had open". The next load that succeeds opens every terminal in a
  new tab, those that were put away as well; if the window is reloaded before that, its first load opens none and they run without a pane.
* **A save may overwrite the agent's edit silently** (`AgentsEditsAreSeen` of `window`), which `FilePane.tsx:38-40`
  excludes: a save before the first read, or after it failed, sends no time to compare; and the daemon
  compares, renames and stats in three steps (`worktree-files.ts:50-60`), so a write between the first two is
  replaced, and one between the last two gives the pane a time that is not its text's, with which its next save passes.
* **`cw attach` to a TUI that exits meanwhile waits for ever** (`TerminalIsGivenBack` of `window`). A TUI that exits while
  its snapshot is awaited is joined dead (`runtime.ts:236-252`), and nobody tells the CLI: what
  `attach.ts:102-104` excludes. The detach key, or the daemon's end, gives the terminal back.

Smaller ones met while modelling, which no property of a run contradicts because the models
follow the code:

* *Sessions.* A land, gc or removal that overlaps a resume releases the leases the resume took.
  `session.rm` closes the extra terminals before it may refuse (`methods.ts:955-963`), and so does a land
  that is then refused with `SESSION_STILL_LIVE` (`methods.ts:1353`). An idle session is landed from
  the CLI with its uncommitted files discarded, only a live one under a forced land is looked at
  (`methods.ts:1334-1338`); a forced land that fails leaves the session dead.
* *Lands.* `land all --force` may land a session that has nothing to land; a running session that
  is ready and first in the order ends an unforced `land all`; the order counts conflicts with
  sessions that are gone; a base that git cannot read ends `land all` as if nothing were ready.
* *Window.* A session just made loses its pane to a load listed before it, if its own load failed or
  was given up; it is in the rail at the next one.
* *Terminals.* A close still in flight at shutdown comes back with the next daemon; closing a tab
  leaves its terminals running; concurrent splits pass the limit of panes.
* *Checkpoints.* A session that is owed its start but is momentarily not at work when it is
  polled is dropped from what is owed (`checkpoint-trigger.ts:90`).
* *CLI.* `cw check` follows the name, not the session; `config trust`, `gc --force` and `workspace
  delete` ask nothing on the client's side; an update notice is appended after `--json`; flags of
  the bar such as `kill --rm=x` are silently ignored.
* *Editor and review.* Comments
  added and text typed while a Send is awaited are cleared unsent; the dirty mark is lost when
  a save's answer arrives after more typing.
* *Composer, dashboard.* An answer that is lost counts as failed, so a retry sends again; unknown
  counts say that nothing is lost; a failed refresh ends the polling.
* *Dialogs.* Checkpoint rows reload in any order; a second confirmation replaces a first one whose
  promise never settles; a picker's list may change under the chosen index.
* *Files without a lock.* `checkForUpdate` saves what it read up to two seconds before; settings
  import over a draft, and a layout saved over a settings change, are last writer wins; the list
  of projects is written in place.
* *Readers.* A rollout of which the first line was half written when it was read is never counted; a log rewritten to
  the same or a larger size is read on from the old offset; an older `readNow` may overwrite a newer.
* *Keys, browser.* A prefix of Escape cannot be reached; later commands of one browser request are
  not checked anew when the level changes between them.

## 5. Proofs

All theorems hold for every value of the constants that the modules' assumptions admit:
`PortConfig` (positive base and block size, as configuration validation enforces),
`LifecycleConfig`, `SocketConfig` and `ConvergenceConfig` (markers are no sessions, blocks,
daemons or branches; bounds are numbers), and those of the other modules: markers are no members,
limits and bounds are natural numbers (`ScrollbackLimit`, `Keep` and the like positive), and in
`LandOrder` the sessions come in one order without repetition; the composer's sessions are finitely many; a
terminal's buffer has a line at least, as xterm's has.

**PortLeases_proofs.** `PortsExclusive` is not inductive: the step that writes a row relies on what
the allocator learnt while probing. `IInv` = `TypeOK` + `BlocksExclusive` (the rows, block by
block) + `ProbeTrail` (an allocator's candidate is real; every port it got past was free
since it chose the candidate). `BlocksDisjoint` is the arithmetic: two candidates are
multiples of the block size apart, so different blocks share no port. From `IInv` follow
`TypeCorrect`, `PortExclusion`, `GrantedInRange`, `GrantsProbedBlocks` (an action property) and
`Refinement` (every step is a step of `LeasePool` or leaves the pool unchanged).

**SessionLifecycle_proofs.** `Typed` strengthens `TypeOK` by what a call knows at each stage
(a captured final status at a removal, a land operation at a land's stages). On it rest, each
inductive with it: `ShellInv` (`LeasesAreHeld`, `RowsTellTheShell`), `LandInv` (`LandsExclude`,
`LandLockIsHeld`: the lock is taken exactly while one call is inside), `StartInv`
(`StartingEnds`: marks and acquiring calls correspond one to one), `MergeInv`
(`LandedIsMerged`: a call past the merge, and every captured `landed`, is about merged work;
without the captured values the invariant breaks when a removal records what it saw earlier),
`RemovedIsRecorded` itself (`HistoryIsComplete`), and `BlocksInv` (`BlocksExclude`: the block
of a live shell is leased to its session, and nothing is leased twice). `BlocksExclude`
assumes that only new, resume, stop, kill and restart occur: with `session.start` it is
false (section 4), and removals and lands release a session's leases at a moment when a
shell may be starting, which the invariant does not cover.

**Convergence_proofs.** `TestSeesItsMerge` needs to know who may reset the scratch worktree while a
test runs. `ChainTells`: the chain has one of five shapes, the tick is in it exactly while it is
not idle, a land exactly while it is queued or testing, and whoever sweeps or tests is at
the head. `InvariantHolds` proves it together with `TypeOK` (`TypeCorrect`), one lemma per action;
`TestsKeepTheirMerge` follows.

**DaemonSocket_proofs.** *DaemonSocket:* `TypeCorrect`, and `NoDebrisAfterExit` from `OwnSocket`: a daemon that
has not bound, or has left, has no socket of its own at the path. *Records* (the database; not the usage of the
same module): one process at a time migrates, under SQLite's write lock, and what it works on is
whole: exactly the first migrations of the list, with every event that was written (`MigratesOnly`, `IsWhole`).
A commit puts that in the file's place, a crash drops it. That a process of an older build is served by a
newer file rests on `KindsMono`: migrations only add what an event may be. A history cut
again and again is the newest of all that ended (`HistoryIInv`, by `TrimIsEnough`: cutting what was cut
already loses nothing): `StoreHolds`, `StoreKept`.

**Services_proofs.** *Bridges:* in `CommandBridge` everything rests on one fact, `WaitersWait`: the calls with a
waiter are exactly those not yet answered. With `RegisteredIsOpen` and `AskedTheRegistered` (whoever
waits asked the cockpit registered now) it is inductive (`BridgeIInv`) and gives `WaitersWatched`,
`FirstSettlementWins` (an action property: a settled call has no waiter left for a late answer, a
timer or a disconnect to settle) and `InFlightIsBounded`. In `CockpitBridge` connections are told apart by
number (`LinksAreNumbered`), so that the close handler of an old one takes nothing of a new one;
`LinksIInv` and `QueueIInv` are kept apart because what `attach` does to the pool does not depend on
the queue. `WaitersWatched` and `LinksKept` are properties of the run, for any number of cockpits, callers and projects.

*Terminals:* that nothing comes back rests on ids being spent once they were given
(`IdsAreSpent`) and on a daemon that is off having no terminals (`OffIsEmpty`), so that restore opens exactly
the rows it reads: `TerminalsHold`, `EndedForGood`, `RowsAreOwned`. *OutputStream:* for each viewer, what it
was sent and what is still held for it are one sequence. `Whole` says of it that its chunks rise, are
those of the last replay and all that were printed since, and an exit line is its end; flushing does not change it, a push and the exit
add to its end, a replay begins it anew (`StreamHolds`, `StreamsAreWhole`).
*Notices:* what the gate remembers of a key is part of what was sent, and the time it has of its last notice is that of
the last one sent (`GateTells`); so a window without the last notice holds none, and what holds a notice
back is always that one. A stored setting is, column by column, what was asked for last
(`RowFollows`), which is why a kind switched on does not undo the master switch: `NoticesHold`, `NoticesSpaced`. What
`cw hooks` writes, of the same module, has no proof.

**Trust_proofs.** *Checks:* `VerdictsAreTrue` compares a verdict with what git saw at the end of the run;
inductive is that a run in flight leaves its session unjudged (`RunsOwe`) and that every verdict of a judged
one carries that mark (`Pins`); `OneAutoRun` comes with it (`VerdictsHold`, `SlotIsKept`).
*Hooks:* a hash in the row was agreed to (`TrustWasGiven`), a session that is not marked has one setup
left (`OneLeft`), and a code that was heard is the last setup's (`LastIsKept`): `HooksAreHonest`.
*Checkpoints:* `AppliedIsTarget` needs to know, at every step of a restore, of every path
whether it holds what was read or what was asked for, or was written by the agent since
(`PathsAreKnown`), and `RestoreIsUndoable` that the checkpoint before the restore stays the newest with the
tree that was read (`SnapIsKept`: nobody else runs in the chain, `ChainIsTold`, and a prune spares the
newest). From these (`CheckpointsHold`): `AppliedIsRight`, `NothingIsLost`, and `NumbersAreOrdered`.

**Panes_proofs.** *BrowserAgent:* a dialog is open no longer than its request's budget, and what was done was allowed or agreed to
(`AsksIInv`). That the switch shows what main holds to when nothing is under way needs to be said of every moment
before: once a pane is ready, it is main's, and the last message under way that is no refusal says the level that main has
(`ReadyIsTold`, `LastSaid`); before that it is off, and only its first call or the answer to it is under way (`FirstCall`). With
the types, the numbering of pages and what holds of a debugger (`PaneIInv`): `BrowserHolds`, `BrowserKept`.
*TerminalPanes*, of copy mode: the text may change under the cursor at any moment, so what is inductive is
little: the cursor is a pair of numbers, a query is there only while one is typed, and an anchor wherever something is
selected (`CopyIInv`, `CopyModeHolds`). The rest is about one key: whatever it is, it leaves the cursor alone or puts it
on the text of that moment (`CopyKeyOK`). That a search finds the nearest occurrence is `SearchIs`: the code walks once
round the lines and meets the cursor's own line twice, first past the cursor and at the end up to it; every occurrence is met
on exactly one step, the nearest on the first step that meets any, so that "not found" is said of no text
that has one. `CopyModeExact` is the property of the run.

**Window_proofs.** *LandOrder:* `LandsAreEvident` is not inductive: what a status said must still hold when the land it led to
ends. With every refusal of a land as an outcome, `ReadStands` carries through its stages, as long as nothing else moves, that no
session the status called ready is at odds with the base, and `SameBase` that the head the land read is still the base's; `StayLanded` and
`AllLanded` keep what `land all` has landed, and that nothing ready is left when it ends. `HandsOn`
says what is being landed and, once a live session was told to stop, that nobody
writes in its tree. That `land all` always finds a first candidate is
`OrderHasFirst`: fewest conflicts, then age, is well-founded on the finitely many sessions
(`LandsHold`, `EvidenceHolds`).
*Settings:* neither property is inductive, since what is in flight decides what the file will hold. Until a
layout is saved while the page is open (`mixed`, an admitted race: section 4), saves go one at a time (`OneAtATime`), the
file is no newer than the save in flight and that no newer than the pending draft (`PageLeads`), and the
last draft fit to be sent is pending, in flight or in the file (`LastIsKept`); what an older daemon left
out is mended from the draft it was sent (`LeftBy`). From `SettingsHold`: `NoChangeIsLost`, `SavedInOrder`.
*Composer:* a Send knows which of its items it is past, and a shell that took a text of its click is one of
them (`RunOK`, `TakeOK`); two Sends of one text are of two dialogs (`RunsApart`): `SendsHold`,
`PromptsGoWhereMeant`. That no refine is stopped but one given up is about messages that cross: refines are heard in the order
they were asked (`AskedInOrder`, `LastAsked`), so a Cancel, heard after all that was asked before it, finds active
one that somebody gave up (`CancelsTheStopped`): `RefinesHold`, `RefinesOwned`.
*Tui:* keys are refused for one reason at a time, and under a prompt the bindings are away (`BusyForOne`), so that a
key under a prompt is the prompt's and an action in flight is the one it named (`DoneSoundly`): `ConsoleHolds`,
`ConsoleComesBack`, `OnlyTheNamed`.
*Updates:* `InstallsWhole` speaks of how an installer ended; inductive is where each piece stands at each step
(`StepByStep`), and that a move which fails whole leaves its piece in one of three ways (`SomeWay`), from each of which
`MovedBack` restores it: `InstallHolds`, `InstalledWhole`. Of config.json, what is about to be written is the
file as it is but for one field (`StillOverlays`) as long as the count of writes is what it was at the reading; hence an
announced release is no newer than what runs or was told of last (`ToldInOrder`), and a corner notice no answer to a
look older than the click (`LaterIsHeard`): `ConfigHolds`, `ConfigStaysKept`.
*Dashboard:* `LossesAreTold` speaks of what is deleted at the end of a dialog, so the rows it was made from have to be
followed: one whose session has not changed since it was read has today's counts (`Remembers`), and a dialog names
what its rows count. That rows are measured until all are known rests on `MeasuringOn`: a timer, or a request
that no answer has overtaken, whose answer starts the next: `DashHolds`, `DashboardSound`, `FiguresAge`.
*Promises:* these parts share no state, so what each keeps alone they keep together: `ConsoleSound`,
`SavedStaysKept`, `NothingIsUnasked` are the properties of the run.

**Only model-checked.**

* Liveness (`AcquireEnds`, `CallsEnd`, `StampedeServes`, `OrphansEnd`, `LosersConnect`, `VerdictsSettle`,
  `LandEnds`, `AnswersCome`), which with ENABLED is out of the prover's reach.
* `Layout`'s operators are recursive over the tree of splits, so nothing is proved about them, nor
  in `ProjectView` and `MCWindow`, which use them; what they do to every tree would need an
  induction over data. `BackgroundReaders` and with it `MCServices` likewise. So the properties that join
  modules there (`ServicesTypeOK`, `ReportsAreTrue`, `AnswersCome`, `WindowTypeOK`, `WindowIsSound`, `StepsAreMeant`) are
  checked on the runs' instances; of `ReportsAreTrue`, `StreamIsWhole`, `StoreIsWhole` and `NoticesAreDue` are proved, of
  `WindowIsSound` `BrowserIsKept`.
* `VerdictsAreTrue` and `LandsAreEvident` are proved without the exact type
  invariants `ChecksTypeOK` and `LandOrderTypeOK`: that a filtered queue is a sequence of sessions is an induction over SelectSeq.
* `LoadedIsSavable` (Settings): what loading makes of any file is a fold over its entries, an
  induction over data; the run checks it on the files of `HandEdited`. So are `FiguresAddUp` (Dashboard), whose
  sums are folds, and `UsageIsWhole` (Records), which adds up lines.
* Parts that have no proof yet: of the window `Rail`, `Commands`, `Review`, `Dialogs`, `Launch`, `Cli`, and of `TerminalPanes`
  all but copy mode's `CopyModeIsExact`; of the services `SessionStatus`, `ClientRpc` and what `AgentNotices` says of `cw hooks`. The ones worth it next are
  `HistoryIsExact` (Commands) and `ShellHearsTyping` (Cli).

## 6. Abstractions

* A worktree or branch exists or not; what is in it is not modelled, so questions to git
  (`hasUnlandedWork`, dirty trees, conflicts, test results) are answered either way.
* Docker, cache and database leases are taken and released in the same steps as the port
  row and are part of it.
* Sessions without a worktree of their own (`--no-worktree`), rename, notes, budgets
  and launchers are left out: they change nothing the properties speak of, except that a
  shared worktree is never removed.
* A restart covers `daemon.shutdown`, crashes and signals: what differs is only whether
  shells were stopped before, and each is a case of a shell surviving or not.
* Within one RPC, failures that leave the same state (refused arguments, missing rows) are
  not told apart, and a request that changes nothing is not a step.
* `Convergence`: the scratch worktree exists and the scheduler's git reads succeed; the debounce and the
  interval of full runs are choices; trust once given is not taken back; old tried pairs are not
  evicted; no session is created (one more session is an instance with one more branch). Lands
  of dead sessions are left out: to everybody else they are a commit on the base. What
  `converge.status` adds to `classifyLandability` (nothing to land, conflicts with the base) is
  `LandOrder`'s. A full-integration row is kept as clean or not, of which base. `VerdictsSettle`
  speaks of a base that git can read, and excepts degraded mode, which makes no pairwise trials,
  and a session whose branch is gone while its row says it is active: a land or removal
  that was cut short by a crash leaves one, and its pairs stay `unknown` until it is removed.
* `LandOrder` leaves out the status `waiting`, which no code writes any more and every boot of a daemon
  turns to `dead`. Refusals of a land that no property tells apart are one outcome.
* `RowsMatchShells` and `LeaseHeldByShell` compare rows and leases with what runs; they would not notice a
  reconciliation that declared a session dead which could have been resumed.
* `LossesAreTold` (Dashboard) is about the text of the dialog: a row whose session has not moved since it was
  read has the counts of today, so what can fail is what is made of them.
* The client's ten second deadline and bind errors other than EADDRINUSE are left out of
  `DaemonSocket`.
* The modules of `MCServices` and `MCWindow` name their abstractions in their heads. Common to all: a
  text, a size or a time is what the code compares it with; what a person sees is the state it is drawn
  from; a call and its answer keep their order on one connection, as the transport does.
* Only one part of `services` or `window` moves in a behaviour. Where a part depends on another, what it
  takes from it is an input chosen each time (a session's status for the rail, git's answer for a
  count), so that no more is assumed of it than the code does.

## 7. Not modelled

* **Boot and leases together** (`methods.ts:212`): a starter builds its methods, and releases all
  leases, before it has the socket; the loser of the race has then released the winner's. The
  product of `DaemonSocket` and `PortLeases` is beyond a run; the hazard is listed without a property.
* **Sessions that share the folder** (`--no-worktree`), rename, notes and budgets in `SessionLifecycle`.
* **Reading a screen** (`agent-screen.ts`, `error-lines.ts`): heuristics over text; an answer either way.
* **What git, the shells and the pty library do**: external, as `src/` uses them.
* **Words and looks**: formatting, themes, icons, pages that only show what they are given, the
  scripts that make pictures and the website.
