---------------------------- MODULE ProjectView -----------------------------
(***************************************************************************)
(* One project's stage in a cockpit window (ui/ProjectView.tsx,            *)
(* lib/pane-bridge.ts): loads of the daemon's lists racing each other and  *)
(* the user, shells and sessions opened across an await, requests of shell *)
(* commands, and the window reloading.  The stage is Layout's record.      *)
(***************************************************************************)
EXTENDS Layout, FiniteSets

CONSTANTS
    ViewSessions,   \* ids of sessions
    ViewTerms,      \* ids of extra terminals
    MaxPanes,       \* MAX_PANES of lib/pane-bridge.ts
    MaxIds,         \* bound: panes and tabs opened
    MaxLoads,       \* bound: loads in flight
    MaxShells       \* bound: openShell calls in flight

ASSUME ViewAssumption ==
    /\ IsFiniteSet(ViewSessions) /\ ViewSessions # {} /\ IsFiniteSet(ViewTerms)
    /\ {MaxPanes, MaxIds, MaxLoads, MaxShells} \subseteq Nat

VARIABLES
    desk,       \* the stage
    lastDesk,   \* what localStorage restores when the window has reloaded
    viewKnown,  \* knownRef: the terminals of the last load, or NotLoaded
    rail,       \* the sessions shown, how recent they are, and whether the load that
                \* ended last was told all it asked
    loads,      \* loads in flight, in the order they started
    shells,     \* openShell calls in flight
    making,     \* createAndOpen: "no", "asked", or "loading" until its load ends
    world,      \* the daemon's sessions and terminals; changes of its sessions so far
    nextId,     \* uid
    putAway     \* history: terminals whose pane went without ending them

viewVars == <<desk, lastDesk, viewKnown, rail, loads, shells, making, world, nextId, putAway>>

NotLoaded == {"not loaded"}
NoTerm == ""
Nowhere == [tab |-> 0, pane |-> 0]
NoRail == [sessions |-> {}, epoch |-> 0, told |-> TRUE]
SessionPane(s) == <<"session", s, NoTerm>>
ChangesPane(s) == <<"changes", s, NoTerm>>
TermPanes == {"terminal"} \X ViewSessions \X ViewTerms
TermsOn(st) == Shown(st) \cap TermPanes

ViewInit ==
    /\ desk = EmptyStage /\ lastDesk = EmptyStage /\ viewKnown = NotLoaded
    /\ \E s \in ViewSessions : world = [sessions |-> {s}, terms |-> {}, epoch |-> 0]
    /\ rail = NoRail
    /\ loads = <<>> /\ shells = {} /\ making = "no" /\ nextId = 0 /\ putAway = {}

-----------------------------------------------------------------------------
(* load *)

NewLoad(made) == [at |-> "list", sessions |-> {}, epoch |-> 0, overtaken |-> FALSE, made |-> made]
Loading(made) == Len(loads) < MaxLoads /\ loads' = Append(loads, NewLoad(made))

(* tui.invalidate, an event, or daemon.gone, which rejects what was pending: each of
   those calls on its own (ListFails, Applies, ShellRefused, CreateFails). *)
Refresh == Loading("") /\ UNCHANGED <<desk, lastDesk, viewKnown, rail, shells, making, world, nextId, putAway>>

(* session.list is answered, in the order of the asking; what else the load
   reads takes its time. *)
Lists(i) ==
    /\ loads[i].at = "list" /\ \A j \in 1..(i - 1) : loads[j].at # "list"
    /\ loads' = [loads EXCEPT ![i].at = "rest", ![i].sessions = world.sessions, ![i].epoch = world.epoch]
    /\ UNCHANGED <<desk, lastDesk, viewKnown, rail, shells, making, world, nextId, putAway>>

\* Mutant: any load is accepted.
NeverOvertaken(load) == FALSE

(* createLoadGate: no, when a load that started later was accepted. *)
Overtaken(load) == load.overtaken

Accepts(i) ==
    /\ loads[i].at = "rest" /\ ~Overtaken(loads[i])
    /\ loads' = [j \in DOMAIN loads |->
                    IF j = i THEN [loads[i] EXCEPT !.at = "terminals"]
                    ELSE [loads[j] EXCEPT !.overtaken = @ \/ j < i]]
    /\ UNCHANGED <<desk, lastDesk, viewKnown, rail, shells, making, world, nextId, putAway>>

(* focusSession: its own pane, else a terminal of it, else a new tab. *)
FocusSession(st, s, id) ==
    LET terms == {x \in TermsOn(st) : x[2] = s}
        at == Located(st, IF SessionPane(s) \in Shown(st) THEN SessionPane(s) ELSE CHOOSE x \in terms : TRUE)
    IN  IF SessionPane(s) \notin Shown(st) /\ terms = {}
        THEN OpenInNewTab(st, id, Leaf(id, SessionPane(s)))
        ELSE FocusPane(st, at.tab, at.pane)

(* When its load is over, however it went, createAndOpen shows the session it made
   and runAction loads once more. *)
LoadEnds(i, st, ids) ==
    IF loads[i].made = ""
    THEN /\ loads' = RemoveAt(loads, i)
         /\ desk' = st /\ nextId' = nextId + ids /\ UNCHANGED making
    ELSE /\ loads' = Append(RemoveAt(loads, i), NewLoad(""))
         /\ desk' = FocusSession(st, loads[i].made, nextId + ids + 1) /\ nextId' = nextId + ids + 1 /\ making' = "no"

(* session.list is rejected: the daemon went, or cannot be reached again.  The other
   answers of the "rest" may be rejected too: a load goes on without them. *)
ListFails(i) ==
    /\ loads[i].at = "list" /\ nextId < MaxIds
    /\ LoadEnds(i, desk, 0) /\ rail' = [rail EXCEPT !.told = FALSE]
    /\ UNCHANGED <<lastDesk, viewKnown, shells, world, putAway>>

GivesUp(i) ==
    /\ loads[i].at = "rest" /\ Overtaken(loads[i]) /\ nextId < MaxIds
    /\ LoadEnds(i, desk, 0)
    /\ UNCHANGED <<lastDesk, viewKnown, rail, shells, world, putAway>>

(* syncStage, given the terminals listed: panes of what has gone go; on the first load
   one session shows when nothing was restored, later on the terminals not known so
   far. *)
Lives(x, sessions, terms) == IF x \in TermPanes THEN x \in terms ELSE x[2] \in sessions

\* Mutant: what is not known is opened, although its pane is there.
NotShownYet(st, terms) == IF viewKnown = NotLoaded THEN {} ELSE terms \ viewKnown

NotYetKnown(st, terms) == IF viewKnown = NotLoaded THEN {} ELSE terms \ (viewKnown \cup Shown(st))

Synced(st, sessions, terms) ==
    LET left == Reconcile(st, {x \in Shown(st) : Lives(x, sessions, terms)})
        fresh == SetToSeq(NotYetKnown(left, terms))
        first == CHOOSE s \in sessions : TRUE
        open(acc, n) == OpenInNewTab(acc, nextId + n, Leaf(nextId + n, fresh[n]))
    IN  CASE viewKnown = NotLoaded /\ left.tabs = <<>> /\ sessions # {} ->
                [stage |-> OpenInNewTab(left, nextId + 1, Leaf(nextId + 1, SessionPane(first))), ids |-> 1]
          [] OTHER -> [stage |-> FoldLeft(open, left, [n \in DOMAIN fresh |-> n]), ids |-> Len(fresh)]

(* terminal.list is answered, in the order of the asking, or rejected: the load then
   goes on as if there were no terminal. *)
Applies(i, told) ==
    /\ loads[i].at = "terminals" /\ \A j \in 1..(i - 1) : loads[j].at # "terminals"
    /\ LET terms == IF told THEN world.terms ELSE {}
           base == IF viewKnown = NotLoaded /\ lastDesk # EmptyStage THEN lastDesk ELSE desk
           synced == Synced(base, loads[i].sessions, terms)
       IN  nextId + synced.ids < MaxIds /\ LoadEnds(i, synced.stage, synced.ids)
    /\ rail' = [sessions |-> loads[i].sessions, epoch |-> loads[i].epoch, told |-> told]
    /\ lastDesk' = EmptyStage
    /\ putAway' = IF viewKnown = NotLoaded /\ told THEN world.terms \ Shown(desk')
                  ELSE (putAway \cap world.terms) \ Shown(desk')
    /\ UNCHANGED <<shells, world>>
    /\ viewKnown' = IF told THEN world.terms ELSE {}

-----------------------------------------------------------------------------
(* openShell, createAndOpen *)

(* From the rail, a split button, a shortcut, or a shell command's request. *)
Asking(s, at) ==
    /\ Cardinality(shells) < MaxShells /\ nextId < MaxIds
    /\ shells' = shells \cup {[of |-> s, at |-> at, term |-> NoTerm, id |-> nextId + 1]}
    /\ nextId' = nextId + 1
    /\ UNCHANGED <<desk, lastDesk, viewKnown, rail, loads, making, world, putAway>>

(* Any pane of any tab: a click on its bar, or the focused one. *)
Places == {[tab |-> b.id, pane |-> p] : <<b, p>> \in {q \in Range(desk.tabs) \X (1..MaxIds) : q[2] \in PaneIds(q[1].root)}}

OpenShell(s) == s \in rail.sessions /\ Asking(s, Nowhere)
Split(at) == at \in Places /\ Asking(PaneAt(TabOf(desk, at.tab).root, at.pane).shows[2], at)

(* pane.split: refused at the limit. *)
PanesFull == Len(StagePanes(desk)) >= MaxPanes
SplitAsked(at) ==
    /\ viewKnown # NotLoaded /\ ~PanesFull /\ at \in Places
    /\ Asking(PaneAt(TabOf(desk, at.tab).root, at.pane).shows[2], at)

DaemonOpens(sh, t) ==
    /\ sh \in shells /\ sh.term = NoTerm /\ sh.of \in world.sessions
    /\ \A x \in world.terms \cup Shown(desk) \cup Shown(lastDesk) : x[3] # t
    /\ viewKnown = NotLoaded \/ \A x \in viewKnown : x[3] # t
    /\ \A other \in shells : other.term # t
    /\ world' = [world EXCEPT !.terms = @ \cup {<<"terminal", sh.of, t>>}]
    /\ shells' = (shells \ {sh}) \cup {[sh EXCEPT !.term = t]}
    /\ UNCHANGED <<desk, lastDesk, viewKnown, rail, loads, making, nextId, putAway>>

(* A load that raced the call may have opened it already. *)
PlacedShell(sh) ==
    LET x == <<"terminal", sh.of, sh.term>>
        at == Located(desk, x)
    IN  IF x \in Shown(desk) THEN FocusPane(desk, at.tab, at.pane)
        ELSE IF sh.at = Nowhere THEN PlaceBeside(desk, sh.id, Leaf(sh.id, x))
        ELSE SplitPane(desk, sh.at.tab, sh.at.pane, Leaf(sh.id, x))

ShellAnswered(sh) ==
    /\ sh \in shells /\ sh.term # NoTerm
    /\ desk' = PlacedShell(sh) /\ shells' = shells \ {sh} /\ Loading("")
    /\ UNCHANGED <<lastDesk, viewKnown, rail, making, world, nextId, putAway>>

\* Mutant: the pane opens although the daemon refused.
RefusedShellShown(sh) ==
    /\ sh \in shells /\ sh.term = NoTerm
    /\ desk' = PlacedShell(sh) /\ shells' = shells \ {sh} /\ Loading("")
    /\ UNCHANGED <<lastDesk, viewKnown, rail, making, world, nextId, putAway>>

(* terminal.open is refused, or its answer is lost with the daemon: the load that
   follows finds the terminal if there is one. *)
ShellRefused(sh) ==
    /\ sh \in shells
    /\ shells' = shells \ {sh} /\ Loading("")
    /\ UNCHANGED <<desk, lastDesk, viewKnown, rail, making, world, nextId, putAway>>

Create ==
    /\ making = "no" /\ viewKnown # NotLoaded /\ making' = "asked"
    /\ UNCHANGED <<desk, lastDesk, viewKnown, rail, loads, shells, world, nextId, putAway>>

(* session.new and session.resume are answered, and createAndOpen loads. *)
Created(s) ==
    /\ making = "asked" /\ s \notin world.sessions /\ world.epoch = 0
    /\ world' = [world EXCEPT !.sessions = @ \cup {s}, !.epoch = @ + 1]
    /\ Loading(s) /\ making' = "loading"
    /\ UNCHANGED <<desk, lastDesk, viewKnown, rail, shells, nextId, putAway>>

(* Or one of the two is rejected. *)
CreateFails ==
    /\ making = "asked" /\ making' = "no" /\ Loading("")
    /\ UNCHANGED <<desk, lastDesk, viewKnown, rail, shells, world, nextId, putAway>>

-----------------------------------------------------------------------------
(* The user, the daemon, the window *)

Rearranged(st) ==
    /\ desk # st /\ desk' = st /\ putAway' = putAway \cup (TermsOn(desk) \ TermsOn(st))
    /\ UNCHANGED <<lastDesk, viewKnown, rail, loads, shells, making, world, nextId>>

FocusRow(s) ==
    /\ s \in rail.sessions /\ nextId < MaxIds
    /\ desk' = FocusSession(desk, s, nextId + 1) /\ nextId' = nextId + 1
    /\ UNCHANGED <<lastDesk, viewKnown, rail, loads, shells, making, world, putAway>>

(* Closing a tab, or applying a layout kept under a name, ends no shell. *)
CloseTabs == \E b \in Range(desk.tabs) :
    Rearranged(CloseTab(desk, b.id)) \/ Rearranged(CloseOthers(desk, b.id))

ApplyLayout ==
    /\ nextId + Len(StagePanes(desk)) <= MaxIds
    /\ LET st == FromSavedLayout(SavedLayout(desk, {x \in Shown(desk) : x[1] = "session"}), nextId)
       IN  /\ desk # st /\ desk' = st /\ putAway' = putAway \cup TermsOn(desk)
           /\ nextId' = nextId + Len(StagePanes(st))
    /\ UNCHANGED <<lastDesk, viewKnown, rail, loads, shells, making, world>>

(* handleClosePane: an extra shell's pane ends it, when the daemon gets to it. *)
ClosesPane(at) ==
    /\ at \in Places /\ desk' = ClosePane(desk, at.tab, at.pane)
    /\ putAway' = putAway \cup (TermsOn(desk) \ TermsOn(desk'))
    /\ Loading("")
    /\ UNCHANGED <<lastDesk, viewKnown, rail, shells, making, world, nextId>>

ToggleChanges(s) ==
    /\ viewKnown # NotLoaded /\ s \in rail.sessions /\ nextId < MaxIds
    /\ LET at == Located(desk, ChangesPane(s)) IN
       desk' = IF ChangesPane(s) \in Shown(desk) THEN ClosePane(desk, at.tab, at.pane)
               ELSE PlaceBeside(desk, nextId + 1, Leaf(nextId + 1, ChangesPane(s)))
    /\ nextId' = nextId + 1
    /\ UNCHANGED <<lastDesk, viewKnown, rail, loads, shells, making, world, putAway>>

TermEnds(x) ==
    /\ x \in world.terms
    /\ world' = [world EXCEPT !.terms = @ \ {x}] /\ putAway' = putAway \ {x}
    /\ UNCHANGED <<desk, lastDesk, viewKnown, rail, loads, shells, making, nextId>>

SessionRemoved(s) ==
    /\ s \in world.sessions /\ world.epoch < 2 /\ making # "loading"
    /\ world' = [sessions |-> world.sessions \ {s}, terms |-> {x \in world.terms : x[2] # s},
                 epoch |-> world.epoch + 1]
    /\ putAway' = {x \in putAway : x[2] # s}
    /\ UNCHANGED <<desk, lastDesk, viewKnown, rail, loads, shells, making, nextId>>

ReloadWindow ==
    /\ viewKnown # NotLoaded
    /\ lastDesk' = desk /\ desk' = EmptyStage /\ viewKnown' = NotLoaded
    /\ rail' = NoRail
    /\ loads' = <<NewLoad("")>> /\ shells' = {} /\ making' = "no"
    /\ UNCHANGED <<world, nextId, putAway>>

ViewNext ==
    \/ Refresh
    \/ \E i \in DOMAIN loads :
          Lists(i) \/ ListFails(i) \/ Accepts(i) \/ GivesUp(i) \/ \E told \in BOOLEAN : Applies(i, told)
    \/ \E s \in ViewSessions : OpenShell(s) \/ Created(s) \/ FocusRow(s) \/ ToggleChanges(s) \/ SessionRemoved(s)
    \/ \E at \in Places : Split(at) \/ SplitAsked(at) \/ ClosesPane(at)
    \/ \E sh \in shells : ShellAnswered(sh) \/ ShellRefused(sh) \/ \E t \in ViewTerms : DaemonOpens(sh, t)
    \/ \E x \in world.terms : TermEnds(x)
    \/ Create \/ CreateFails \/ CloseTabs \/ ApplyLayout \/ ReloadWindow

-----------------------------------------------------------------------------
ViewTypeOK ==
    /\ Shown(desk) \subseteq ({"session", "changes"} \X ViewSessions \X {NoTerm}) \cup TermPanes
    /\ viewKnown = NotLoaded \/ viewKnown \subseteq TermPanes
    /\ rail.sessions \subseteq ViewSessions /\ rail.epoch \in 0..2 /\ rail.told \in BOOLEAN
    /\ making \in {"no", "asked", "loading"} /\ nextId \in 0..MaxIds
    /\ world.sessions \subseteq ViewSessions /\ world.terms \subseteq TermPanes
    /\ putAway \subseteq TermPanes

(* No two panes attach to one shell, and nothing is zoomed that is not there:
   a load, an answer and a click each see what the others put on the stage. *)
OnePaneEach ==
    /\ \A i, j \in DOMAIN StagePanes(desk) :
          i # j => /\ StagePanes(desk)[i].shows # StagePanes(desk)[j].shows
                   /\ StagePanes(desk)[i].id # StagePanes(desk)[j].id
    /\ \A b \in Range(desk.tabs) : b.zoomed = NotZoomed \/ b.zoomed \in PaneIds(b.root)

(* Once nothing is in flight, a terminal that runs and was not put away has its pane,
   also when the pane it was to stand beside had gone: unless the last load failed, or
   was not told the terminals (ProjectView.tsx:259).  The next one makes it good. *)
ShellsAreShown ==
    loads = <<>> /\ shells = {} /\ viewKnown # NotLoaded /\ rail.told =>
        world.terms \subseteq Shown(desk) \cup putAway

(* A load never brings back an older list (lib/load-gate.ts) and takes away panes of
   the dead only, with two exceptions, which are exact.  A load whose terminal.list was
   rejected takes every terminal for dead, and leaves no pane of one, living or not.
   And a load listed before a session was made takes its pane if the rail does not
   have the session yet: its own load failed, or was given up for one still under way. *)
LoadsTakeOnlyTheDead ==
    [][<<desk, rail>>' # <<desk, rail>> => \A i \in DOMAIN loads, told \in BOOLEAN :
         viewKnown # NotLoaded /\ Applies(i, told) =>
            /\ \A x \in Shown(desk) \ Shown(desk') :
                  \/ ~Lives(x, world.sessions, world.terms)
                  \/ IF x \in TermPanes THEN ~told ELSE x[2] \notin rail.sessions
            /\ ~told => TermsOn(desk') = {}
            /\ rail'.epoch >= rail.epoch]_viewVars

-----------------------------------------------------------------------------
(***************************************************************************)
(* What a person does to the tabs and panes of a stage with mouse and      *)
(* keyboard (ui/ProjectView.tsx's commands and the handlers it gives the   *)
(* stage).  Each gesture is one operation of Layout on the stage as it is. *)
(***************************************************************************)

CONSTANTS
    StageContents,  \* what the panes show, one pane each at the start
    MaxGestures     \* bound: gestures in a row

ASSUME StageAssumption == StageContents # {} /\ MaxGestures \in Nat

VARIABLES
    arranged,   \* the stage
    gestures    \* bound: gestures so far

stageVars == <<arranged, gestures>>

(* A tab for each content but the last, which is split off the first. *)
StageInit ==
    LET contents == SetToSeq(StageContents)
        open(st, n) == IF n = Len(contents) /\ n > 1
                       THEN SplitPane(st, 1, 1, Leaf(n, contents[n]))
                       ELSE OpenInNewTab(st, n, Leaf(n, contents[n]))
    IN  arranged = FoldLeft(open, EmptyStage, [n \in DOMAIN contents |-> n]) /\ gestures = 0

StageIds == 1..(Len(StagePanes(arranged)) + Len(arranged.tabs) + 1)
FreshId == CHOOSE n \in StageIds :
    /\ \A p \in Range(StagePanes(arranged)) : p.id # n
    /\ n \notin TabIds(arranged)
    /\ \A m \in 1..(n - 1) : m \in TabIds(arranged) \/ \E p \in Range(StagePanes(arranged)) : p.id = m

Does(st) ==
    /\ gestures < MaxGestures /\ gestures' = gestures + 1
    /\ arranged' = st

Tabs == TabIds(arranged)
PanesIn(t) == PaneIds(TabOf(arranged, t).root)

Activate == \E t \in Tabs : Does([arranged EXCEPT !.active = t])
Focus == \E t \in Tabs : \E p \in PanesIn(t) : Does(FocusPane(arranged, t, p))
Zoom == \E t \in Tabs : \E p \in PanesIn(t) : Does(ToggleZoom(arranged, t, p))
Preset == \E t \in Tabs : \E k \in {"even", "main-left", "tiled"} : Does(ApplyPreset(arranged, t, k))
Swap == \E t \in Tabs : \E p \in PanesIn(t) : Does(SwapNext(arranged, t, p))
Pin == \E t \in Tabs, pinned \in BOOLEAN : Does(SetPinned(arranged, t, pinned))
DragTab == \E t \in Tabs : \E to \in DOMAIN arranged.tabs : Does(MoveTab(arranged, t, to))
NextTab == \E step \in {1, -1} : Does(AdjacentTab(arranged, step))
DragPane ==
    \E t \in Tabs : \E from, to \in PanesIn(t), before \in BOOLEAN : Does(MovePane(arranged, t, from, to, before))
BreakPane == \E t \in Tabs : \E p \in PanesIn(t) : Does(PaneToTab(arranged, t, p, FreshId))
JoinPane == \E t, to \in Tabs : \E p \in PanesIn(t) : Does(MovePaneToTab(arranged, t, p, to, FreshId))

ClosesOnePane == \E t \in Tabs : \E p \in PanesIn(t) : Does(ClosePane(arranged, t, p))
ClosesTabs == \E t \in Tabs :
    Does(CloseTab(arranged, t)) \/ Does(CloseOthers(arranged, t)) \/ Does(CloseToRight(arranged, t))

Moves == Activate \/ Focus \/ Zoom \/ Preset \/ Swap \/ Pin \/ DragTab \/ NextTab \/ DragPane \/ BreakPane \/ JoinPane

StageNext == Moves \/ ClosesOnePane \/ ClosesTabs

-----------------------------------------------------------------------------
(* A pane is never lost or duplicated, wherever it is moved
   (core/layout/index.ts:587): only what closes takes one away. *)
MovesKeepPanes ==
    [][arranged' # arranged /\ Moves =>
                /\ Shown(arranged') = Shown(arranged)
                /\ Len(StagePanes(arranged')) = Len(StagePanes(arranged))]_stageVars

(* Whatever was done, the keyboard has a pane: each tab's focus is one of its
   panes, an open tab is shown, pinned tabs come first, and what is zoomed is
   the tab's own. *)
StageIsUsable ==
    /\ arranged.tabs # <<>> => arranged.active \in Tabs
    /\ PinnedFirst(arranged.tabs) = arranged.tabs
    /\ \A b \in Range(arranged.tabs) :
          /\ b.focused \in PaneIds(b.root)
          /\ b.zoomed \in PaneIds(b.root) \cup {NotZoomed}
          /\ Cardinality(PaneIds(b.root)) = Len(PanesOf(b.root))
=============================================================================
