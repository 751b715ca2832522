----------------------------- MODULE Dashboard ------------------------------
(***************************************************************************)
(* The dashboard of the settings (SettingsDashboard.tsx, dashboard.ts,     *)
(* electron/dashboard.ts): what the sessions of the open projects cost, as *)
(* far as their daemons answer, what could be stopped or deleted, and what *)
(* is done of it after a dialog that says what is lost, while the sessions *)
(* go on and the figures age.                                              *)
(*                                                                         *)
(* A row is a session as its daemon's stats.overview has it: Null is a     *)
(* figure not known, an age is in hours, a size in megabytes.              *)
(***************************************************************************)
EXTENDS Integers, FiniteSets, Sequences, FiniteSetsExt

CONSTANTS
    DashSessions,       \* the sessions
    ProjectOf,          \* the project of each, a number
    FirstFacts,         \* what the sessions may be at first
    MaxGets,            \* bound: requests
    MaxPolls,           \* looks again while sizes are measured
    MaxDashMoves,       \* bound: changes of the sessions
    MaxConfirmed        \* bound: actions confirmed

Unknown == -1
DashStatuses == {"idle", "running", "waiting", "dead", "landed"}
SessionStat ==
    [name : Nat, status : DashStatuses, shared : BOOLEAN, agent : BOOLEAN, working : BOOLEAN,
     age : Int, disk : Int, ahead : Int, changed : Int, moves : Nat]

ASSUME DashboardAssumption ==
    /\ {MaxGets, MaxPolls, MaxDashMoves, MaxConfirmed} \subseteq Nat
    /\ \A first \in FirstFacts : DOMAIN first \subseteq DashSessions /\ first \in [DOMAIN first -> SessionStat]

IDLE_SHELL_HOURS == 24
STALE_EMPTY_HOURS == 7 * 24
STALE_UNLANDED_HOURS == 14 * 24
MIN_DELETE == 5
DashProjects == {ProjectOf[s] : s \in DashSessions}
Kinds == {"cleanup", "delete", "unlanded", "stop"}

VARIABLES
    facts,          \* the sessions there are, as they are now
    dashMoves,      \* bound counter
    asking,         \* requests in flight: [start, entries]
    gate,           \* load-gate.ts: [started, applied]
    dashData,       \* the answer shown: [at, entries], at = 0 before the first
    dashLoading,
    polls,
    timer,          \* a look again is due
    pendingAction,  \* the dialog open: [kind, ids, told], or NoAction
    underWay,        \* confirmed actions: [kind, ids, told, step]
    confirmed,      \* actions confirmed so far
    lastLookFailed, \* no answer came since the last failure
    untoldLosses    \* sessions whose work went though the dialog did not say so

dashVars == <<facts, dashMoves, asking, gate, dashData, dashLoading, polls, timer, pendingAction, underWay,
              confirmed, lastLookFailed, untoldLosses>>

Silent == [state |-> "unreachable", rows |-> <<>>]
NoData == [at |-> 0, entries |-> [p \in DashProjects |-> Silent]]
NoAction == [kind |-> "none", ids |-> {}, told |-> {}]

-----------------------------------------------------------------------------
(* What is made of an answer                                               *)

rowsOf(d, p) == IF d.entries[p].state = "ok" THEN d.entries[p].rows ELSE <<>>
listedRows(d) == UNION {DOMAIN rowsOf(d, p) : p \in DashProjects}
rowOf(d, s) == d.entries[ProjectOf[s]].rows[s]

isRunning(r) == r.status \in {"running", "waiting"}
isEnded(r) == r.status \in {"dead", "landed"}
hasOwnWorktree(r) == ~r.shared
HoldsNothing(r) == r.ahead = 0 /\ r.changed = 0
Holds(r) == r.ahead > 0 \/ r.changed > 0

Count(d, P(_)) == Cardinality({s \in listedRows(d) : P(rowOf(d, s))})
DiskOf(d, ids) == MapThenSumSet(LAMBDA s : IF rowOf(d, s).disk = Unknown THEN 0 ELSE rowOf(d, s).disk, ids)
summarize(d) ==
    [running |-> Count(d, isRunning), ended |-> Count(d, isEnded),
     stopped |-> Count(d, LAMBDA r : ~isRunning(r) /\ ~isEnded(r)),
     disk |-> DiskOf(d, listedRows(d)),
     unmeasured |-> Count(d, LAMBDA r : r.disk = Unknown /\ ~r.shared)]
projectDisk(d, p) == DiskOf(d, DOMAIN rowsOf(d, p))
DiskBars(d) == {p \in DashProjects : d.entries[p].state = "ok" /\ projectDisk(d, p) > 0}

(* The order of two rows: the figure, unknown last, then the name, then the project. *)
Figure(r, sort) == IF sort = "disk" THEN r.disk ELSE IF r.age = Unknown THEN Unknown ELSE 10000 - r.age
SortedBefore(d, sort, s, t) ==
    LET x == Figure(rowOf(d, s), sort)
        y == Figure(rowOf(d, t), sort)
    IN \/ sort # "name" /\ x # y /\ (y = Unknown \/ (x # Unknown /\ x > y))
       \/ (sort = "name" \/ x = y)
          /\ \/ rowOf(d, s).name < rowOf(d, t).name
             \/ rowOf(d, s).name = rowOf(d, t).name /\ ProjectOf[s] < ProjectOf[t]

Proposed(kind, ids, reclaim, told) == [kind |-> kind, ids |-> ids, reclaim |-> reclaim, told |-> told]
Reclaimable(d, p) ==
    {s \in DOMAIN rowsOf(d, p) : /\ isEnded(rowOf(d, s)) /\ hasOwnWorktree(rowOf(d, s))
                                 /\ (rowOf(d, s).status = "landed" \/ HoldsNothing(rowOf(d, s)))}
ProposeCleanup(d) ==
    {Proposed("cleanup", Reclaimable(d, p),
              IF \A s \in Reclaimable(d, p) : rowOf(d, s).disk = Unknown THEN Unknown
              ELSE DiskOf(d, Reclaimable(d, p)), {}) :
       p \in {q \in DashProjects : Reclaimable(d, q) # {}}}
StaleEmpty(r) ==
    r.status = "idle" /\ hasOwnWorktree(r) /\ HoldsNothing(r) /\ r.age >= STALE_EMPTY_HOURS
ProposeDelete(d) ==
    {Proposed("delete", {s}, rowOf(d, s).disk, {[id |-> s, row |-> rowOf(d, s)]}) :
       s \in {t \in listedRows(d) : StaleEmpty(rowOf(d, t)) /\ rowOf(d, t).disk >= MIN_DELETE}}
StaleUnlanded(r) ==
    r.status = "idle" /\ hasOwnWorktree(r) /\ Holds(r) /\ r.age >= STALE_UNLANDED_HOURS
ProposeUnlanded(d) ==
    {Proposed("unlanded", {s}, rowOf(d, s).disk, {[id |-> s, row |-> rowOf(d, s)]}) :
       s \in {t \in listedRows(d) : StaleUnlanded(rowOf(d, t))}}
IdleShell(r) == isRunning(r) /\ ~r.agent /\ ~r.working /\ r.age >= IDLE_SHELL_HOURS
ProposeStop(d) == {Proposed("stop", {s}, Unknown, {}) : s \in {t \in listedRows(d) : IdleShell(rowOf(d, t))}}
suggestions(d) == ProposeCleanup(d) \cup ProposeDelete(d) \cup ProposeUnlanded(d) \cup ProposeStop(d)

-----------------------------------------------------------------------------
(* Asking                                                                  *)

DashInit ==
    /\ facts \in FirstFacts /\ dashMoves = 0
    /\ asking = {[start |-> 1, entries |-> <<>>]} /\ gate = [started |-> 1, applied |-> 0]
    /\ dashData = NoData /\ dashLoading = TRUE /\ polls = 0 /\ timer = FALSE
    /\ pendingAction = NoAction /\ underWay = {} /\ confirmed = 0
    /\ lastLookFailed = FALSE /\ untoldLosses = {}

Refreshes ==
    /\ gate' = [gate EXCEPT !.started = @ + 1] /\ gate.started < MaxGets
    /\ asking' = asking \cup {[start |-> gate'.started, entries |-> <<>>]} /\ dashLoading' = TRUE

PressRefresh ==
    /\ ~dashLoading /\ Refreshes /\ polls' = 0
    /\ UNCHANGED <<facts, dashMoves, dashData, timer, pendingAction, underWay, confirmed, lastLookFailed, untoldLosses>>

LooksAgainNow ==
    /\ timer /\ timer' = FALSE /\ polls' = polls + 1 /\ Refreshes
    /\ UNCHANGED <<facts, dashMoves, dashData, pendingAction, underWay, confirmed, lastLookFailed, untoldLosses>>

(* One project's daemon answers, is too old to, or does not in time. *)
ProjectAnswers(c, p) ==
    /\ p \in DashProjects \ DOMAIN c.entries
    /\ \E state \in {"ok", "needs-restart", "unreachable"} :
          LET rows == IF state = "ok" THEN [s \in {t \in DOMAIN facts : ProjectOf[t] = p} |-> facts[s]] ELSE <<>>
              more == [q \in DOMAIN c.entries \cup {p} |->
                          IF q = p THEN [state |-> state, rows |-> rows] ELSE c.entries[q]]
          IN asking' = (asking \ {c}) \cup {[c EXCEPT !.entries = more]}
    /\ UNCHANGED <<facts, dashMoves, gate, dashData, dashLoading, polls, timer, pendingAction, underWay,
                   confirmed, lastLookFailed, untoldLosses>>

(* The whole answer, or the failure of the request; shown unless a later one was. *)
Accepted(c) == c.start > gate.applied
WantsAnotherLook(d) == summarize(d).unmeasured > 0 /\ polls < MaxPolls
GetEnds(c) ==
    /\ asking' = asking \ {c} /\ dashLoading' = FALSE
    /\ gate' = IF Accepted(c) THEN [gate EXCEPT !.applied = c.start] ELSE gate
    /\ \/ /\ DOMAIN c.entries = DashProjects /\ Accepted(c)
          /\ dashData' = [at |-> c.start, entries |-> c.entries]
          /\ timer' = WantsAnotherLook(dashData') /\ lastLookFailed' = FALSE
       \/ /\ DOMAIN c.entries = DashProjects /\ ~Accepted(c)
          /\ UNCHANGED <<dashData, timer, lastLookFailed>>
       \/ /\ c.entries = <<>> /\ lastLookFailed' = (lastLookFailed \/ Accepted(c))
          /\ UNCHANGED <<dashData, timer>>
    /\ UNCHANGED <<facts, dashMoves, polls, pendingAction, underWay, confirmed, untoldLosses>>

-----------------------------------------------------------------------------
(* Acting                                                                  *)

Busy == UNION {a.ids : a \in underWay}

AsksFirst(action) ==
    /\ pendingAction = NoAction /\ action.ids \cap Busy = {} /\ pendingAction' = action
    /\ UNCHANGED <<facts, dashMoves, asking, gate, dashData, dashLoading, polls, timer, underWay, confirmed,
                   lastLookFailed, untoldLosses>>

AskStop(s) ==
    /\ s \in listedRows(dashData) /\ isRunning(rowOf(dashData, s))
    /\ AsksFirst([kind |-> "stop", ids |-> {s}, told |-> {}])
AskDelete(s) ==
    /\ s \in listedRows(dashData)
    /\ AsksFirst([kind |-> "delete", ids |-> {s}, told |-> {[id |-> s, row |-> rowOf(dashData, s)]}])
OnSuggestion(g) ==
    /\ g \in suggestions(dashData)
    /\ AsksFirst([kind |-> IF g.kind = "unlanded" THEN "delete" ELSE g.kind, ids |-> g.ids, told |-> g.told])
CancelsDialog ==
    /\ pendingAction # NoAction /\ pendingAction' = NoAction
    /\ UNCHANGED <<facts, dashMoves, asking, gate, dashData, dashLoading, polls, timer, underWay, confirmed,
                   lastLookFailed, untoldLosses>>

(* A session that was listed as ended is not killed first. *)
FirstStep(a) ==
    IF a.kind = "delete" /\ \A t \in a.told : ~isEnded(t.row) THEN "kill" ELSE a.kind
ConfirmPending ==
    /\ pendingAction # NoAction /\ confirmed < MaxConfirmed /\ confirmed' = confirmed + 1
    /\ underWay' = underWay \cup {[kind |-> pendingAction.kind, ids |-> pendingAction.ids, told |-> pendingAction.told,
                                 step |-> FirstStep(pendingAction)]}
    /\ pendingAction' = NoAction
    /\ UNCHANGED <<facts, dashMoves, asking, gate, dashData, dashLoading, polls, timer, lastLookFailed, untoldLosses>>

RowsGo(ids) == facts' = [s \in DOMAIN facts \ ids |-> facts[s]]
(* What the dialog said would be lost falls short of what is: not for the changes
   since the answer, nor for counts it did not have.                        *)
ToldOf(a, s) == (CHOOSE t \in a.told : t.id = s).row
Untold(a, s) ==
    /\ hasOwnWorktree(facts[s]) /\ Holds(facts[s])
    /\ LET t == ToldOf(a, s)
       IN /\ t.moves = facts[s].moves /\ t.ahead # Unknown /\ t.changed # Unknown
          /\ t.ahead < facts[s].ahead \/ t.changed < facts[s].changed

(* What the confirmed action asks of the daemon, step by step; each may fail, and
   a session that is gone or live again is refused.                         *)
ActionEnds(a) ==
    /\ underWay' = underWay \ {a} /\ polls' = 0 /\ Refreshes
ActionGoesOn(a) ==
    /\ a \in underWay
    /\ \/ ActionEnds(a) /\ UNCHANGED <<facts, untoldLosses>>
       \/ /\ a.step = "stop" /\ a.ids \subseteq DOMAIN facts /\ ActionEnds(a)
          /\ facts' = [s \in DOMAIN facts |->
                          IF s \in a.ids /\ isRunning(facts[s]) THEN [facts[s] EXCEPT !.status = "idle"] ELSE facts[s]]
          /\ UNCHANGED untoldLosses
       \/ /\ a.step = "kill" /\ a.ids \subseteq DOMAIN facts
          /\ facts' = [s \in DOMAIN facts |->
                          IF s \in a.ids /\ ~isEnded(facts[s]) THEN [facts[s] EXCEPT !.status = "dead"] ELSE facts[s]]
          /\ underWay' = (underWay \ {a}) \cup {[a EXCEPT !.step = "delete"]}
          /\ UNCHANGED <<polls, gate, asking, dashLoading, untoldLosses>>
       \/ /\ a.step = "delete" /\ \A s \in a.ids : s \in DOMAIN facts /\ isEnded(facts[s])
          /\ RowsGo(a.ids) /\ ActionEnds(a)
          /\ untoldLosses' = untoldLosses \cup {s \in a.ids : facts[s].status = "dead" /\ Untold(a, s)}
       \/ /\ a.step = "cleanup" /\ ActionEnds(a)
          /\ RowsGo({s \in DOMAIN facts : /\ \E t \in a.ids : ProjectOf[t] = ProjectOf[s]
                                        /\ \/ facts[s].status = "landed"
                                           \/ facts[s].status = "dead" /\ ~Holds(facts[s])})
          /\ UNCHANGED untoldLosses
    /\ UNCHANGED <<dashMoves, dashData, timer, pendingAction, confirmed, lastLookFailed>>

(* Agents work, shells start and end, sizes are measured, counts taken. *)
SessionChanges(s) ==
    /\ s \in DOMAIN facts /\ dashMoves < MaxDashMoves /\ dashMoves' = dashMoves + 1
    /\ \E next \in [status : {"idle", "running", "dead", "landed"}, disk : {Unknown, 6}, ahead : {Unknown, 0, 1}, age : {0}] :
          LET f == facts[s]
              g == [f EXCEPT !.status = next.status, !.ahead = next.ahead, !.age = next.age, !.moves = @ + 1]
          IN /\ \/ next.disk = f.disk /\ facts' = [facts EXCEPT ![s] = g]
                \/ next = [status |-> f.status, disk |-> 6, ahead |-> f.ahead, age |-> 0] /\ f.disk = Unknown
                   /\ facts' = [facts EXCEPT ![s] = [f EXCEPT !.disk = 6]]
             /\ facts' # facts
    /\ UNCHANGED <<asking, gate, dashData, dashLoading, polls, timer, pendingAction, underWay, confirmed,
                   lastLookFailed, untoldLosses>>

DashNext ==
    \/ PressRefresh \/ LooksAgainNow \/ CancelsDialog \/ ConfirmPending
    \/ \E c \in asking : GetEnds(c) \/ \E p \in DashProjects : ProjectAnswers(c, p)
    \/ \E s \in DashSessions : AskStop(s) \/ AskDelete(s) \/ SessionChanges(s)
    \/ \E g \in suggestions(dashData) : OnSuggestion(g)
    \/ \E a \in underWay : ActionGoesOn(a)

DashSpec == DashInit /\ [][DashNext]_dashVars

-----------------------------------------------------------------------------
DashTypeOK ==
    /\ DOMAIN facts \subseteq DashSessions /\ gate.applied <= gate.started
    /\ \A c \in asking : c.start \in 1..gate.started
    /\ polls \in 0..MaxPolls /\ pendingAction.ids \subseteq DashSessions /\ untoldLosses \subseteq DashSessions

(* "Sessions you are working in are never suggested", a session is suggested once,
   a deletion that may lose nothing rests on counts that are known, and a Clean up
   on what gc would take if nothing changed (dashboard.ts suggestions, domain/gc.ts). *)
SuggestionsAreSafe ==
    /\ \A g, h \in suggestions(dashData) : g.ids \cap h.ids # {} => g = h
    /\ \A g \in suggestions(dashData) : \A s \in g.ids :
          LET r == rowOf(dashData, s)
          IN /\ ~(r.agent /\ isRunning(r)) /\ (g.kind # "cleanup" => r.age >= IDLE_SHELL_HOURS)
             /\ g.kind # "stop" => ~r.shared
             /\ g.kind \in {"cleanup", "delete"} => r.status = "landed" \/ (r.ahead = 0 /\ r.changed = 0)
             /\ g.kind = "unlanded" => \E t \in g.told : t.row.ahead > 0 \/ t.row.changed > 0

(* Work that was counted when the numbers were read, and has not changed since, is
   never deleted behind a dialog that did not name it (SettingsDashboard.tsx askDelete):
   what the dialog says is of the session that is deleted, whatever was read again or
   asked about since.  Work done after the answer was read goes untold.      *)
LossesAreTold == untoldLosses = {}

(* Until every size is known it is asked again, as often as it may be, unless a
   request failed (SettingsDashboard.tsx, the effect on `data`); and nothing says
   "refreshing" for ever.                                                   *)
MeasuringIsFollowed ==
    /\ summarize(dashData).unmeasured > 0 /\ polls < MaxPolls /\ ~lastLookFailed => timer \/ asking # {}
    /\ asking = {} => ~dashLoading

(* Of overlapping requests a later one's answer is not replaced by an older one's
   (lib/load-gate.ts).                                                      *)
FiguresOnlyNewer == [][dashData' # dashData => dashData'.at >= dashData.at]_dashVars

(* The totals are those of the projects' rows, whatever daemons are silent; what the
   suggestions promise to free together is no more than the total; and the sessions
   have one order however the answers came in (dashboard.ts).                *)
FiguresAddUp ==
    LET sum == summarize(dashData)
    IN /\ sum.running + sum.stopped + sum.ended = Cardinality(listedRows(dashData))
       /\ sum.disk = MapThenSumSet(LAMBDA p : projectDisk(dashData, p), DiskBars(dashData))
       /\ MapThenSumSet(LAMBDA g : IF g.reclaim = Unknown THEN 0 ELSE g.reclaim, suggestions(dashData)) <= sum.disk
       /\ \A sort \in {"disk", "activity", "name"} : \A s, t \in listedRows(dashData) :
             /\ s # t => (SortedBefore(dashData, sort, s, t) <=> ~SortedBefore(dashData, sort, t, s))
             /\ \A u \in listedRows(dashData) :
                   SortedBefore(dashData, sort, s, t) /\ SortedBefore(dashData, sort, t, u) => SortedBefore(dashData, sort, s, u)
=============================================================================
