-------------------------------- MODULE Rail --------------------------------
(***************************************************************************)
(* The projects of a cockpit window (App.tsx): which are open and in what  *)
(* order, which is on the stage, which keep a live view, and the actions   *)
(* the rail asks of them.  The bridge in the main process has its own list *)
(* and its own stage (daemon-bridge.ts, handle); calls to it and its       *)
(* answers keep their order, except that a list never waits.  How a        *)
(* project is attached is CockpitBridge's.                                 *)
(***************************************************************************)
EXTENDS Integers, FiniteSets, SequencesExt

CONSTANTS
    Roots,          \* project folders
    NoRoot,
    LiveViews,      \* how many projects keep their panes
    MaxAsked        \* bound: what a person, or `cw <dir>`, asks for

ASSUME ProjectsAssumption ==
    /\ NoRoot \notin Roots /\ LiveViews \in Nat \ {0} /\ MaxAsked \in Nat

VARIABLES
    bridge,         \* the main process: [open, stage, pool: connections kept]
    calls,          \* asked of it and not answered yet, in order
    answers,        \* answered, on the way to the window
    openRoots, activeRoot, recent,
    loadedViews,    \* live views that have loaded their project
    pending,        \* actions for a project without a view
    queued,         \* actions given to a view that has not loaded
    askedOf,          \* how much was asked for; an action is <<project, its number>>
    ran,            \* the actions that ran, in order
    dropped,        \* actions asked of a project before it was closed
    stranded        \* once a project could not be shown after the one on the stage was closed

windowProjects == <<openRoots, activeRoot, recent, loadedViews, pending, queued>>
projectsVars == <<bridge, calls, answers, windowProjects, askedOf, ran, dropped, stranded>>

-----------------------------------------------------------------------------
(* mounted-views.ts and moveProject                                        *)

WithoutRoot(order, r) == SelectSeq(order, LAMBDA x : x # r)
TouchRecent(order, r) == <<r>> \o WithoutRoot(order, r)

MoveProject(order, r, delta) ==
    LET from == IndexFirstSubSeq(<<r>>, order)
        to == IF from + delta < 1 THEN 1 ELSE IF from + delta > Len(order) THEN Len(order) ELSE from + delta
    IN InsertAt(WithoutRoot(order, r), to, r)

Mounted(shown, order, open) ==
    LET live == SelectSeq(IF shown = NoRoot THEN order ELSE TouchRecent(order, shown), LAMBDA r : r \in ToSet(open))
    IN ToSet(SubSeq(live, 1, IF Len(live) < LiveViews THEN Len(live) ELSE LiveViews))

LiveRoots == Mounted(activeRoot, recent, openRoots)

(* After a render a view that is no longer mounted is gone, with its queue q. *)
RendersWith(q) ==
    LET live == Mounted(activeRoot', recent', openRoots')
    IN /\ loadedViews' = loadedViews \cap live
       /\ queued' = [r \in Roots |-> IF r \in live THEN q[r] ELSE <<>>]

DropPending(r) == [pending EXCEPT ![r] = <<>>]
TakePending(r) == [pending EXCEPT ![r] = <<>>]

-----------------------------------------------------------------------------
ProjectsInit ==
    /\ \E open \in SeqOf(Roots, 2) :
          /\ open # <<>> /\ IsInjective(open)
          /\ bridge = [open |-> open, stage |-> open[1], pool |-> {open[1]}]
          /\ openRoots = open /\ activeRoot = open[1] /\ recent = <<open[1]>>
    /\ calls = <<>> /\ answers = <<>> /\ loadedViews = {}
    /\ pending = [r \in Roots |-> <<>>] /\ queued = [r \in Roots |-> <<>>]
    /\ askedOf = 0 /\ ran = <<>> /\ dropped = {} /\ stranded = FALSE

(* A call: an ensure brings an action along (0: none), a close the projects of the
   render that it was clicked in, a reorder the order wanted.                *)
Call(kind, r, act, roots, why) == [kind |-> kind, root |-> r, act |-> act, roots |-> roots, why |-> why, at |-> askedOf, ok |-> TRUE]
ListCall == Call("list", NoRoot, 0, <<>>, "refresh")

(* enqueue: to the project's view, which runs it or queues it until it has loaded,
   or kept until there is a view.                                           *)
Added(f, r, act, here) == IF act # 0 /\ here THEN [f EXCEPT ![r] = Append(@, act)] ELSE f
Enqueue(r, act) ==
    /\ pending' = Added(pending, r, act, r \notin LiveRoots)
    /\ ran' = IF act # 0 /\ r \in loadedViews THEN Append(ran, <<r, act>>) ELSE ran
    /\ RendersWith(Added(queued, r, act, r \in LiveRoots \ loadedViews))

AsksMore == askedOf < MaxAsked /\ askedOf' = askedOf + 1

(* activate(r, act). *)
Activates(r, act) ==
    IF r = activeRoot
      THEN Enqueue(r, act) /\ UNCHANGED calls
      ELSE /\ calls' = Append(calls, Call("ensure", r, act, openRoots, "activate"))
           /\ UNCHANGED <<loadedViews, pending, queued, ran>>

(* A project is clicked, with something to do there or not.  A folder that is not
   open and not the top of a repository gets a dialog instead of a call.    *)
ActivateProject(r, withAct) ==
    /\ AsksMore /\ UNCHANGED <<bridge, answers, openRoots, activeRoot, recent, dropped, stranded>>
    /\ Activates(r, IF withAct THEN askedOf + 1 ELSE 0)

(* runIn: in r's view, which need not be on the stage. *)
RunIn(r) ==
    /\ AsksMore /\ r \in ToSet(openRoots) /\ r # activeRoot
    /\ recent' = IF r \in ToSet(recent) \/ recent = <<>>
                   THEN (IF recent = <<>> THEN <<r>> ELSE recent)
                   ELSE <<Head(recent), r>> \o Tail(recent)
    /\ UNCHANGED <<bridge, calls, answers, openRoots, activeRoot, dropped, stranded>>
    /\ Enqueue(r, askedOf + 1)

CloseProject(r) ==
    /\ AsksMore /\ r \in ToSet(openRoots)
    /\ calls' = Append(calls, Call("close", r, 0, openRoots, "close"))
    /\ UNCHANGED <<bridge, answers, windowProjects, ran, dropped, stranded>>

ReorderProjects(r, delta) ==
    /\ AsksMore /\ r \in ToSet(openRoots)
    /\ openRoots' = MoveProject(openRoots, r, delta)
    /\ calls' = Append(calls, Call("reorder", r, 0, openRoots', "reorder"))
    /\ UNCHANGED <<bridge, answers, activeRoot, recent, loadedViews, pending, queued, ran, dropped, stranded>>

(* onProjectInvalidate: a project without a live view changed. *)
Invalidated ==
    /\ AsksMore /\ calls' = Append(calls, ListCall)
    /\ UNCHANGED <<bridge, answers, windowProjects, ran, dropped, stranded>>

(* `cw <dir>` or Open Recent: the main process attaches it, then tells the window. *)
OpenedElsewhere(r) ==
    /\ AsksMore /\ calls' = Append(calls, Call("ensure", r, 0, <<>>, "main"))
    /\ UNCHANGED <<bridge, answers, windowProjects, ran, dropped, stranded>>

-----------------------------------------------------------------------------
(* The bridge                                                              *)

(* The calls are answered in their turn; but a list does not wait for an ensure
   (ensureTail), as those behind the ensure do.                             *)
BridgeLists ==
    \E i \in DOMAIN calls :
        /\ calls[i].kind = "list" /\ \A j \in 1..(i-1) : calls[j].kind # "list"
        /\ i > 1 => calls[1].kind = "ensure"
        /\ calls' = RemoveAt(calls, i)
        /\ answers' = Append(answers, [calls[i] EXCEPT !.roots = bridge.open])
        /\ UNCHANGED <<bridge, windowProjects, askedOf, ran, dropped, stranded>>

Attached == bridge.stage # NoRoot

BridgeServes(ok) ==
    /\ calls # <<>> /\ Head(calls).kind # "list"
    /\ LET c == Head(calls) IN
       /\ calls' = Tail(calls)
       /\ CASE c.kind = "ensure" /\ ok ->
                 bridge' = [open |-> IF c.root \in ToSet(bridge.open) THEN bridge.open ELSE Append(bridge.open, c.root),
                            stage |-> c.root, pool |-> bridge.pool \cup {c.root}]
            [] c.kind = "close" /\ ok ->
                 /\ Attached
                 /\ bridge' = [open |-> WithoutRoot(bridge.open, c.root),
                               stage |-> IF bridge.stage = c.root THEN NoRoot ELSE bridge.stage,
                               pool |-> bridge.pool \ {c.root}]
            [] c.kind = "reorder" /\ ok ->
                 /\ Attached /\ ToSet(c.roots) = ToSet(bridge.open) /\ Len(c.roots) = Len(bridge.open)
                 /\ bridge' = [bridge EXCEPT !.open = c.roots]
            [] OTHER ->
                 /\ c.kind = "ensure" => c.root \notin bridge.pool
                 /\ c.kind = "close" => ~Attached
                 /\ c.kind = "reorder" => ~Attached \/ ToSet(c.roots) # ToSet(bridge.open)
                 /\ UNCHANGED bridge
       /\ answers' = IF c.why = "main" /\ ~ok THEN answers ELSE Append(answers, [c EXCEPT !.ok = ok])
    /\ UNCHANGED <<windowProjects, askedOf, ran, dropped, stranded>>

-----------------------------------------------------------------------------
(* The window hears                                                        *)

Answer == Head(answers)
Hears(kind, why) == answers # <<>> /\ Answer.kind = kind /\ Answer.why \in why /\ answers' = Tail(answers)

(* refreshProjects ends: what the bridge had open. *)
Refreshed ==
    /\ Hears("list", {"refresh"})
    /\ openRoots' = Answer.roots
    /\ UNCHANGED <<bridge, calls, activeRoot, recent, pending, askedOf, ran, dropped, stranded>> /\ RendersWith(queued)

(* ensureWorkspace answered: show(r), then its action; the projects of the render
   that it was asked in say whether the rail needs a refresh.               *)
ProjectShown ==
    /\ Hears("ensure", {"activate", "next"}) /\ Answer.ok
    /\ LET r == Answer.root IN
       /\ openRoots' = IF r \in ToSet(openRoots) THEN openRoots ELSE Append(openRoots, r)
       /\ activeRoot' = r /\ recent' = TouchRecent(recent, r)
       /\ Enqueue(r, Answer.act)
       /\ calls' = IF Answer.why = "next" \/ r \notin ToSet(Answer.roots) THEN Append(calls, ListCall) ELSE calls
    /\ UNCHANGED <<bridge, askedOf, dropped, stranded>>

NotShown ==
    /\ Hears("ensure", {"activate", "next"}) /\ ~Answer.ok
    /\ calls' = IF Answer.why = "next" THEN Append(calls, ListCall) ELSE calls
    /\ stranded' = (stranded \/ ~Attached \/ activeRoot \notin ToSet(openRoots))
    /\ UNCHANGED <<bridge, windowProjects, askedOf, ran, dropped>>

(* show-project: the window activates what the main process attached. *)
ToldToShow ==
    /\ Hears("ensure", {"main"})
    /\ UNCHANGED <<bridge, openRoots, activeRoot, recent, askedOf, dropped, stranded>>
    /\ Activates(Answer.root, 0)

(* The next project, or the welcome when it was the last. *)
StagesNext(rest) ==
    IF rest = <<>> THEN activeRoot' = NoRoot /\ calls' = Append(calls, ListCall)
    ELSE UNCHANGED activeRoot /\ calls' = Append(calls, Call("ensure", rest[1], 0, Answer.roots, "next"))

ClosedProject ==
    /\ Hears("close", {"close"}) /\ Answer.ok
    /\ LET r == Answer.root  rest == WithoutRoot(Answer.roots, r) IN
       /\ openRoots' = rest /\ recent' = WithoutRoot(recent, r)
       /\ pending' = DropPending(r)
       /\ IF r = activeRoot THEN StagesNext(rest)
          ELSE UNCHANGED activeRoot /\ calls' = Append(calls, ListCall)
       /\ dropped' = dropped \cup {<<r, i>> : i \in 1..Answer.at}
    /\ UNCHANGED <<bridge, askedOf, ran, stranded>> /\ RendersWith(queued)

NotClosed ==
    /\ Hears("close", {"close"}) /\ ~Answer.ok
    /\ UNCHANGED <<bridge, calls, windowProjects, askedOf, ran, dropped, stranded>>

Reordered ==
    /\ Hears("reorder", {"reorder"})
    /\ calls' = IF Answer.ok THEN calls ELSE Append(calls, ListCall)
    /\ UNCHANGED <<bridge, windowProjects, askedOf, ran, dropped, stranded>>

(* A mounted view's first load: what it was given, then what waited for it. *)
ViewLoads(r) ==
    /\ r \in LiveRoots \ loadedViews
    /\ loadedViews' = loadedViews \cup {r}
    /\ LET acts == queued[r] \o pending[r]
       IN ran' = ran \o [i \in DOMAIN acts |-> <<r, acts[i]>>]
    /\ queued' = [queued EXCEPT ![r] = <<>>] /\ pending' = TakePending(r)
    /\ UNCHANGED <<bridge, calls, answers, openRoots, activeRoot, recent, askedOf, dropped, stranded>>

ProjectsNext ==
    \/ \E r \in Roots : \/ RunIn(r) \/ CloseProject(r) \/ OpenedElsewhere(r) \/ ViewLoads(r)
                        \/ \E w \in BOOLEAN : ActivateProject(r, w)
                        \/ \E d \in {-1, 1} : ReorderProjects(r, d)
    \/ Invalidated \/ BridgeLists \/ (\E ok \in BOOLEAN : BridgeServes(ok))
    \/ Refreshed \/ ProjectShown \/ NotShown \/ ToldToShow \/ ClosedProject \/ NotClosed \/ Reordered

-----------------------------------------------------------------------------
WindowQuiet == calls = <<>> /\ answers = <<>> /\ LiveRoots \subseteq loadedViews

(* When nothing is under way the window and the bridge have the same projects
   open and the same one on the stage; unless one was closed there and
   the next could not be reached (App.tsx, closeProject, activate,
   refreshProjects; daemon-bridge.ts, closeProject).                        *)
ProjectsAgree ==
    WindowQuiet /\ ~stranded =>
        ToSet(openRoots) = ToSet(bridge.open) /\ activeRoot = bridge.stage

(* An action runs once, in the project it was asked of, never after that project
   was closed (App.tsx, pending), and none waits for the project on the stage. *)
ActionsAreRun ==
    /\ IsInjective(ran)
    /\ WindowQuiet /\ activeRoot # NoRoot => pending[activeRoot] = <<>> \/ activeRoot \notin ToSet(openRoots)
ClosedRunsNoMore ==
    [][ran' # ran => \A i \in (Len(ran) + 1)..Len(ran') : ran'[i] \notin dropped]_projectsVars

ProjectsTypeOK ==
    /\ {openRoots, recent, bridge.open} \subseteq SeqOf(Roots, Cardinality(Roots))
    /\ {activeRoot, bridge.stage} \subseteq Roots \cup {NoRoot}
    /\ loadedViews \subseteq LiveRoots /\ Cardinality(LiveRoots) <= LiveViews

-----------------------------------------------------------------------------
(***************************************************************************)
(* The rail of the cockpit (Sidebar.tsx, rail.ts): what a project's list   *)
(* of sessions tells a person, when a list is news enough for a desktop    *)
(* notification (ProjectView.tsx, load), what a menu offers, where the     *)
(* jump keys go, and a name or a note edited in its row.                   *)
(*                                                                         *)
(* The daemon's inference of a session's activity is SessionStatus's, the  *)
(* gate of the loads is ProjectView's.                                     *)
(***************************************************************************)

CONSTANTS
    RailSessions,
    MaxNews,        \* bound: what happens to the sessions
    MaxEdits        \* bound: names and notes edited

ASSUME RailAssumption == {MaxNews, MaxEdits} \subseteq Nat

NoEdit == [n |-> 0, of |-> "none", err |-> "no", done |-> FALSE]
NotListed == <<"not listed">>

VARIABLES
    rowFacts,          \* a session: [status, activity, rang, signal, check]
    railMoved,          \* how much has happened to the sessions
    listAnswer,         \* session.list on its way to the window: facts, or NotListed
    railRows,           \* what the window lists: facts, or NotListed before the first load
    place,          \* the person: "here", with the window "blurred", or at a "hidden" project's
    focusedRow,     \* the session of the focused pane
    doneIds,        \* finished and not looked at
    told,           \* failed checks the window has taken note of: <<session, run>>
    alerts,         \* notifications about checks, in order
    firstSeen,      \* failed checks of the first list
    landable,       \* what converge.status says of a session, or "none"
    jumps,          \* the sessions the last jumps went to
    rowEdit,           \* the name or note edited in place
    editsBegun,          \* edits begun
    saves,          \* saves asked of the daemon, not answered: [edit, of]
    savedEdits, cancelled    \* edits that were saved (as often), edits given up

railLists == <<rowFacts, railMoved, listAnswer, railRows, place, focusedRow, doneIds, told, alerts, firstSeen, landable, jumps>>
railEdits == <<rowEdit, editsBegun, saves, savedEdits, cancelled>>
railVars == <<railLists, railEdits>>

Whereabouts == {"here", "blurred", "hidden"}
Away == place # "here"

-----------------------------------------------------------------------------
(* What wants attention                                                    *)

LiveStatus == {"running", "waiting"}

DeriveAttention(status, landability) ==
    CASE status = "landed" -> "unknown"
      [] status # "landed" /\ landability = "blocked" -> "conflict"
      [] status # "landed" /\ landability = "ready" -> "ready"
      [] status # "landed" /\ landability = "none" /\ status \in LiveStatus -> "working"
      [] OTHER -> "unknown"

AttentionOf(s) == DeriveAttention(railRows[s].status, landable[s])
Urgent ==
    LET of(kind) == {s \in RailSessions : AttentionOf(s) = kind}
    IN IF of("conflict") # {} THEN of("conflict") ELSE of("ready")

(* What the jump to attention shows next: of the most urgent, in the order of the
   list, the one after the focused one.                                     *)
NextAttention(order) ==
    LET candidates == SelectSeq(order, LAMBDA s : s \in Urgent)
        at == IF focusedRow \in Urgent THEN IndexFirstSubSeq(<<focusedRow>>, candidates) ELSE 0
    IN candidates[(at % Len(candidates)) + 1]

(* The session is focused: it has been looked at. *)
JumpToAttention ==
    /\ railRows # NotListed /\ ~Away /\ Urgent # {} /\ Len(jumps) < 2 * Cardinality(RailSessions)
    /\ focusedRow' = NextAttention(SetToSeq(RailSessions))
    /\ jumps' = Append(jumps, focusedRow') /\ doneIds' = doneIds \ {focusedRow'}
    /\ UNCHANGED <<rowFacts, railMoved, listAnswer, railRows, place, told, alerts, firstSeen, landable, railEdits>>

-----------------------------------------------------------------------------
(* News: two lists in a row                                                *)

NewlyFinished(was, now) ==
    {s \in RailSessions : was[s].activity = "working" /\ now[s].status \in LiveStatus
                          /\ (now[s].activity = "idle" \/ (now[s].activity = "asked" /\ ~now[s].rang))}
NewlySignalled(was, now) == {s \in RailSessions : now[s].signal # 0 /\ was[s].signal # now[s].signal}

Failing(f) == f.check.state = "fail" /\ ~f.check.stale
Failures(now) == {<<s, now[s].check.at>> : s \in {x \in RailSessions : Failing(now[x])}}

CheckNews(now) == Failures(now) \ told

RailInit ==
    /\ rowFacts \in [RailSessions ->
         [status : {"running"}, activity : {"working", "idle"}, rang : {FALSE}, signal : {0},
          check : {[state |-> "none", at |-> 0, stale |-> FALSE], [state |-> "fail", at |-> 1, stale |-> FALSE]}]]
    /\ railMoved = 0 /\ listAnswer = NotListed /\ railRows = NotListed
    /\ place \in Whereabouts /\ focusedRow \in RailSessions \cup {"none"}
    /\ doneIds = {} /\ told = {} /\ alerts = <<>> /\ firstSeen = {}
    /\ landable \in [RailSessions -> {"none", "ready", "blocked"}] /\ jumps = <<>>
    /\ rowEdit = NoEdit /\ editsBegun = 0 /\ saves = <<>> /\ savedEdits = <<>> /\ cancelled = {}

SessionMoves(s, f) ==
    /\ railMoved < MaxNews /\ railMoved' = railMoved + 1 /\ rowFacts' = [rowFacts EXCEPT ![s] = f]
    /\ UNCHANGED <<listAnswer, railRows, place, focusedRow, doneIds, told, alerts, firstSeen, landable, jumps, railEdits>>

ActivityTurns(s) ==
    \E a \in {"working", "idle", "asked"}, r \in BOOLEAN :
        /\ a # rowFacts[s].activity /\ (r => a = "asked")
        /\ SessionMoves(s, [rowFacts[s] EXCEPT !.activity = a, !.rang = r])
Signals(s) == SessionMoves(s, [rowFacts[s] EXCEPT !.signal = @ + 1])
CheckEnds(s, state) ==
    SessionMoves(s, [rowFacts[s] EXCEPT !.check = [state |-> state, at |-> @.at + 1, stale |-> FALSE]])
WorkMovesOn(s) == Failing(rowFacts[s]) /\ SessionMoves(s, [rowFacts[s] EXCEPT !.check.stale = TRUE])
ShellCloses(s) ==
    /\ rowFacts[s].status = "running"
    /\ SessionMoves(s, [rowFacts[s] EXCEPT !.status = "idle", !.activity = "idle", !.rang = FALSE])

(* Focused in a view on screen is seen, the window in front or not. *)
SeenOf(ids) == IF place' = "hidden" THEN ids ELSE ids \ {focusedRow'}

(* The person leaves, comes back, or focuses another pane. *)
Looks(where, s) ==
    /\ where # place \/ s # focusedRow
    /\ place' = where /\ focusedRow' = s
    /\ doneIds' = SeenOf(doneIds)
    /\ jumps' = <<>>
    /\ UNCHANGED <<rowFacts, railMoved, listAnswer, railRows, told, alerts, firstSeen, landable, railEdits>>

ListRead ==
    /\ listAnswer = NotListed /\ listAnswer' = rowFacts
    /\ UNCHANGED <<rowFacts, railMoved, railRows, place, focusedRow, doneIds, told, alerts, firstSeen, landable, jumps, railEdits>>

(* A first list is not news; its failed checks are taken note of. *)
FirstListed ==
    /\ listAnswer # NotListed /\ railRows = NotListed
    /\ railRows' = listAnswer /\ listAnswer' = NotListed
    /\ told' = Failures(listAnswer) /\ firstSeen' = Failures(listAnswer)
    /\ UNCHANGED <<rowFacts, railMoved, place, focusedRow, doneIds, alerts, landable, jumps, railEdits>>

(* A later one; keep says whether another answer is read before this one is shown,
   and shown after it.                                                     *)
ListShown(list) ==
    LET finished == NewlyFinished(railRows, list) \cup NewlySignalled(railRows, list)
        news == CheckNews(list)
    IN /\ UNCHANGED <<rowFacts, railMoved, place, focusedRow, firstSeen, landable, railEdits>>
       /\ railRows' = list
       /\ doneIds' = SeenOf(doneIds \cup {s \in finished : Away \/ s # focusedRow})
       /\ told' = told \cup news
       /\ alerts' = IF Away THEN alerts \o SetToSeq(news) ELSE alerts
       /\ jumps' = <<>>

InTurn == listAnswer # NotListed /\ railRows # NotListed /\ listAnswer' = NotListed /\ ListShown(listAnswer)
(* The terminals of a later load were answered first (ProjectView.tsx, load). *)
OutOfTurn == listAnswer # NotListed /\ railRows # NotListed /\ UNCHANGED listAnswer /\ ListShown(rowFacts)

-----------------------------------------------------------------------------
(* A name edited where it is shown (InlineRename)                          *)

(* commit: a bad value is refused on the spot; the value as it was closes the
   field; another is asked of the daemon.                                   *)
Commits(value) ==
    IF rowEdit.done THEN UNCHANGED <<rowEdit, saves>>
    ELSE CASE value = "bad" -> rowEdit' = [rowEdit EXCEPT !.err = "bad"] /\ UNCHANGED saves
           [] value = "same" -> rowEdit' = NoEdit /\ UNCHANGED saves
           [] value = "new" -> /\ rowEdit' = [rowEdit EXCEPT !.done = TRUE]
                               /\ saves' = Append(saves, [edit |-> rowEdit.n, of |-> rowEdit.of])

EditDropped == rowEdit' = NoEdit /\ UNCHANGED saves

(* Leaving a refused name keeps nothing. *)
LeavesField(value) == IF rowEdit.err # "no" THEN EditDropped ELSE Commits(value)

Editing == rowEdit # NoEdit
EditCancelled == IF Editing /\ rowEdit' = NoEdit /\ ~rowEdit.done THEN cancelled \cup {rowEdit.n} ELSE cancelled

EnterPressed(value) ==
    /\ Editing /\ rowEdit.err \in {"no", value} /\ Commits(value) /\ cancelled' = cancelled
    /\ UNCHANGED <<editsBegun, savedEdits, railLists>>
EscapePressed ==
    /\ Editing /\ EditDropped /\ cancelled' = EditCancelled
    /\ UNCHANGED <<editsBegun, savedEdits, railLists>>
FieldLeft(value) ==
    /\ Editing /\ rowEdit.err \in {"no", value} /\ LeavesField(value)
    /\ cancelled' = IF rowEdit.err # "no" /\ ~rowEdit.done THEN cancelled \cup {rowEdit.n} ELSE cancelled
    /\ UNCHANGED <<editsBegun, savedEdits, railLists>>
(* A value that was refused is still there until something is typed, which clears the refusal. *)
Typed ==
    /\ Editing /\ rowEdit.err # "no" /\ rowEdit' = [rowEdit EXCEPT !.err = "no"]
    /\ UNCHANGED <<editsBegun, saves, savedEdits, cancelled, railLists>>

(* A double click, F2 or the menu; the field edited before was left by that. *)
EditBegins(s) ==
    /\ editsBegun < MaxEdits /\ editsBegun' = editsBegun + 1
    /\ Editing => rowEdit.done \/ rowEdit.err # "no"
    /\ cancelled' = IF Editing /\ ~rowEdit.done THEN cancelled \cup {rowEdit.n} ELSE cancelled
    /\ rowEdit' = [NoEdit EXCEPT !.n = editsBegun + 1, !.of = s]
    /\ UNCHANGED <<saves, savedEdits, railLists>>

(* The daemon renamed it: the field closes, whichever row is edited by now. *)
SaveTaken(i) ==
    /\ saves' = RemoveAt(saves, i) /\ savedEdits' = Append(savedEdits, saves[i].edit)
    /\ rowEdit' = NoEdit
    /\ UNCHANGED <<editsBegun, cancelled, railLists>>

(* It refused: the field says so, if it is still there. *)
SaveRefused(i) ==
    /\ saves' = RemoveAt(saves, i)
    /\ rowEdit' = IF rowEdit.n = saves[i].edit THEN [rowEdit EXCEPT !.done = FALSE, !.err = "new"] ELSE rowEdit
    /\ UNCHANGED <<editsBegun, savedEdits, cancelled, railLists>>

RailNext ==
    \/ \E s \in RailSessions :
          \/ ActivityTurns(s) \/ Signals(s) \/ WorkMovesOn(s) \/ ShellCloses(s)
          \/ \E st \in {"running", "pass", "fail"} : CheckEnds(s, st)
    \/ \E w \in Whereabouts, s \in RailSessions \cup {"none"} : Looks(w, s)
    \/ ListRead \/ FirstListed \/ InTurn \/ OutOfTurn \/ JumpToAttention

EditNext ==
    \/ \E v \in {"same", "new", "bad"} : EnterPressed(v) \/ FieldLeft(v)
    \/ EscapePressed \/ Typed
    \/ \E s \in RailSessions : EditBegins(s)
    \/ \E i \in DOMAIN saves : SaveTaken(i) \/ SaveRefused(i)

-----------------------------------------------------------------------------
(* A failed check is announced at most once, though an older list may be shown
   after a newer one, and none that the first list showed (check-alert.ts).  *)
FailuresToldOnce == IsInjective(alerts) /\ ToSet(alerts) \cap firstSeen = {}

(* No session a person looks at is marked as finished and not looked at
   (ProjectView.tsx, doneIds).                                              *)
LookedAtIsSeen == place # "hidden" => focusedRow \notin doneIds

(* An edit is saved at most once, by Enter and by leaving the field; given up,
   it is never saved (Sidebar.tsx, InlineRename).                           *)
EditsSaveOnce ==
    /\ IsInjective(savedEdits) /\ IsInjective(saves)
    /\ ToSet(savedEdits) \cap cancelled = {}

(* Pressed again and again, the jump goes to every session of the most urgent
   kind before it comes back to one (attention-jump.ts, nextAttentionSession). *)
JumpsReachAll ==
    \A i, j \in DOMAIN jumps :
        /\ \/ AttentionOf(jumps[i]) = "conflict"
           \/ AttentionOf(jumps[i]) = "ready" /\ \A s \in RailSessions : AttentionOf(s) # "conflict"
        /\ (jumps[i] = jumps[j]) <=> (i - j) % Cardinality(Urgent) = 0

RailTypeOK ==
    /\ {told, firstSeen, ToSet(alerts)} \subseteq SUBSET (RailSessions \X (0..MaxNews + 1))
    /\ firstSeen \subseteq told
    /\ doneIds \subseteq RailSessions /\ rowEdit.n \in 0..editsBegun
=============================================================================
