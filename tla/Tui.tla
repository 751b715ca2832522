--------------------------------- MODULE Tui ---------------------------------
(***************************************************************************)
(* `cw tui` (src/cli/commands/tui.ts): keys that act on the session under  *)
(* the cursor, a y/n prompt that takes the keyboard from the other         *)
(* bindings, a form, an attached child process, all while the list under   *)
(* the cursor is refreshed and the daemon or the terminal may go away.     *)
(***************************************************************************)
EXTENDS Integers, SequencesExt

CONSTANTS
    TuiSessions,
    MaxRefreshes,   \* bound: refreshes in flight
    MaxChanges      \* bound: changes of the daemon's list

ASSUME TuiAssumption == IsFiniteSet(TuiSessions) /\ {MaxRefreshes, MaxChanges} \subseteq Nat

VARIABLES
    there,      \* the sessions the daemon lists
    changes,    \* changes so far
    refreshes,  \* answers of session.list whose refresh is not over
    listed,     \* latestSessions, as the list shows them
    cursor,     \* the index selected in it
    line,       \* the connection: "up" or "lost"
    screen,     \* the renderer: "none", "up", "suspended" or "restored"
    exited,     \* the process is gone
    layer,      \* the key bindings are registered
    uiBusy,
    form,       \* the form for a new session has the focus
    prompt,     \* what the y/n prompt asks about
    doing       \* the guarded action in flight, after its prompt

tuiVars == <<there, changes, refreshes, listed, cursor, line, screen, exited,
             layer, uiBusy, form, prompt, doing>>

Noone == "noone"
NoPrompt == [op |-> "none", of |-> Noone]
Idle == [op |-> "none", of |-> Noone, fresh |-> FALSE]
Act(op, s) == [op |-> op, of |-> s, fresh |-> FALSE]

TuiInit ==
    /\ there = TuiSessions /\ changes = 0 /\ refreshes = <<>>
    /\ listed = SetToSeq(TuiSessions) /\ cursor = 1
    /\ line = "up" /\ screen = "none" /\ exited = FALSE
    /\ layer = FALSE /\ uiBusy = FALSE /\ form = FALSE /\ prompt = NoPrompt /\ doing = Idle

Live == ~exited
Seen == <<there, changes, refreshes, listed, cursor, line>>
Console == <<screen, exited, layer, uiBusy, form, prompt, doing>>

-----------------------------------------------------------------------------
(* What comes from the daemon *)

(* tui.invalidate: a refresh asks at once, whatever other ones are under way. *)
ListChanges ==
    /\ Live /\ line = "up" /\ changes < MaxChanges /\ Len(refreshes) < MaxRefreshes
    /\ changes' = changes + 1
    /\ there' \in SUBSET TuiSessions \ {there}
    /\ refreshes' = Append(refreshes, there')
    /\ UNCHANGED <<listed, cursor, line>> /\ UNCHANGED Console

(* The slowest of its three calls decides when: an older list may come last. *)
RefreshEnds(i) ==
    /\ Live /\ line = "up"
    /\ refreshes' = RemoveAt(refreshes, i) /\ listed' = SetToSeq(refreshes[i])
    /\ UNCHANGED <<there, changes, cursor, line>> /\ UNCHANGED Console

RefreshFails(i) ==
    /\ Live /\ refreshes' = RemoveAt(refreshes, i)
    /\ UNCHANGED <<there, changes, listed, cursor, line>> /\ UNCHANGED Console

LineLost ==
    /\ Live /\ line = "up" /\ line' = "lost"
    /\ UNCHANGED <<there, changes, refreshes, listed, cursor>> /\ UNCHANGED Console

-----------------------------------------------------------------------------
(* The keyboard *)

Selected == IF cursor \in DOMAIN listed THEN listed[cursor] ELSE Noone

\* Mutant: the bindings stay registered, and eat the keys of the prompt.
LayerStays == TRUE

(* confirmWithLayerPaused: its keys are the prompt's while that waits. *)
LayerDuringPrompt == FALSE

(* confirmDestructive *)
Prompts(op, s) ==
    /\ prompt' = [op |-> op, of |-> s] /\ layer' = LayerDuringPrompt /\ uiBusy' = TRUE
    /\ UNCHANGED <<screen, exited, form, doing>>

Begins(op, s) ==
    /\ doing' = Act(op, s) /\ uiBusy' = TRUE
    /\ UNCHANGED <<screen, exited, layer, form, prompt>>

Quits ==
    /\ screen' = "restored" /\ exited' = TRUE
    /\ UNCHANGED <<layer, uiBusy, form, prompt, doing>>

(* buildActionLayerBindings; but for `q`, none while an action is under way. *)
Bound == {"n", "s", "l", "shift+l", "x", "g", "q"}

Handles(key) ==
    \/ key = "q" /\ Quits
    \/ key # "q" /\ uiBusy /\ UNCHANGED Console
    \/ /\ ~uiBusy
       /\ \/ key = "n" /\ form' = TRUE /\ uiBusy' = TRUE
             /\ UNCHANGED <<screen, exited, layer, prompt, doing>>
          \/ key = "s" /\ Selected # Noone /\ Begins("start", Selected)
          \/ key = "l" /\ Selected # Noone /\ Begins("land", Selected)
          \/ key = "x" /\ Selected # Noone /\ Prompts("kill", Selected)
          \/ key = "g" /\ Prompts("gc", Noone)
          \/ key = "shift+l" /\ Begins("status", Noone)
          \/ key \in {"s", "l", "x"} /\ Selected = Noone /\ UNCHANGED Console

\* Mutant: the session is looked up again after the answer.
ConfirmedSelection == [prompt EXCEPT !.of = IF prompt.op = "kill" THEN Selected ELSE @]

(* What the prompt asked about, whatever the list shows by now. *)
Confirmed == prompt

(* Any other key than `y` cancels; the bindings come back either way. *)
Answers(key) ==
    /\ prompt' = NoPrompt /\ layer' = TRUE
    /\ IF key = "y" THEN doing' = Act(Confirmed.op, Confirmed.of) /\ UNCHANGED uiBusy
                    ELSE uiBusy' = FALSE /\ UNCHANGED doing
    /\ UNCHANGED <<screen, exited, form>>

(* attachSelected: the child has the terminal until it exits. *)
Attaches ==
    /\ ~uiBusy /\ Selected # Noone
    /\ doing' = Act("attach", Selected) /\ uiBusy' = TRUE /\ screen' = "suspended"
    /\ UNCHANGED <<exited, layer, form, prompt>>

KeyPress(key) ==
    /\ Live /\ screen = "up" /\ UNCHANGED Seen
    /\ \/ form /\ UNCHANGED Console
       \/ ~form /\ layer /\ key \in Bound /\ Handles(key)
       \/ ~form /\ ~(layer /\ key \in Bound) /\ prompt # NoPrompt /\ Answers(key)
       \/ ~form /\ prompt = NoPrompt /\ key = "enter" /\ Attaches

MoveCursor ==
    /\ Live /\ screen = "up" /\ ~form /\ prompt = NoPrompt
    /\ cursor' \in DOMAIN listed
    /\ UNCHANGED <<there, changes, refreshes, listed, line>> /\ UNCHANGED Console

(* Enter with a name, whose session.new nothing waits for, or Escape. *)
FormCloses ==
    /\ Live /\ screen = "up" /\ form
    /\ form' = FALSE /\ uiBusy' = FALSE
    /\ UNCHANGED <<screen, exited, layer, prompt, doing>> /\ UNCHANGED Seen

-----------------------------------------------------------------------------
(* Actions under way *)

\* Mutant: an action that fails leaves the keys refused.
StillBusy(fails) == IF fails THEN uiBusy ELSE FALSE

(* The `finally` of every action. *)
BusyAfter(fails) == FALSE

(* The daemon answers, refuses, or has gone; the child exits. *)
Ends(fails) ==
    /\ Live /\ doing.op \in {"start", "land", "kill", "gc", "attach"}
    /\ doing' = Idle /\ uiBusy' = BusyAfter(fails)
    /\ screen' = IF doing.op = "attach" THEN "up" ELSE screen
    /\ UNCHANGED <<exited, layer, form, prompt>> /\ UNCHANGED Seen

\* Mutant: the next one of the list read before the land.
NextReady(landed) == [doing EXCEPT !.op = "land all", !.fresh = FALSE]

(* landAllInOrder: after each land what is ready is read again. *)
AfterLand(landed) == [doing EXCEPT !.op = "status", !.fresh = FALSE]

StatusRead ==
    /\ Live /\ line = "up" /\ doing.op = "status"
    /\ \E s \in there : doing' = [op |-> "land all", of |-> s, fresh |-> TRUE]
    /\ UNCHANGED <<screen, exited, layer, uiBusy, form, prompt>> /\ UNCHANGED Seen

OneLanded ==
    /\ Live /\ line = "up" /\ doing.op = "land all"
    /\ there' = there \ {doing.of} /\ doing' = AfterLand(doing.of)
    /\ UNCHANGED <<changes, refreshes, listed, cursor, line>>
    /\ UNCHANGED <<screen, exited, layer, uiBusy, form, prompt>>

LandAllEnds ==
    /\ Live /\ doing.op \in {"status", "land all"}
    /\ doing' = Idle /\ uiBusy' = FALSE
    /\ UNCHANGED <<screen, exited, layer, form, prompt>> /\ UNCHANGED Seen

-----------------------------------------------------------------------------
(* The process *)

RendererUp ==
    /\ Live /\ screen = "none" /\ screen' = "up"
    /\ UNCHANGED <<exited, layer, uiBusy, form, prompt, doing>> /\ UNCHANGED Seen

PanesBuilt ==
    /\ Live /\ screen = "up" /\ ~layer /\ prompt = NoPrompt /\ layer' = TRUE
    /\ UNCHANGED <<screen, exited, uiBusy, form, prompt, doing>> /\ UNCHANGED Seen

\* Mutant: the renderer is destroyed in a `finally`, which exit() never runs.
RestoredInFinally == screen

(* destroyRendererBeforeReporting *)
RestoredBeforeReport == IF screen = "none" THEN "none" ELSE "restored"

(* No daemon, no workspace, or a pane that could not be built. *)
SetupThrows ==
    /\ Live /\ ~layer /\ prompt = NoPrompt
    /\ screen' = RestoredBeforeReport /\ exited' = TRUE
    /\ UNCHANGED <<layer, uiBusy, form, prompt, doing>> /\ UNCHANGED Seen

(* SIGINT and the like, at the renderer's own handler. *)
Signal == Live /\ screen = "up" /\ layer /\ Quits /\ UNCHANGED Seen

TuiKeys == Bound \cup {"y", "enter"}

TuiNext ==
    \/ ListChanges \/ LineLost \/ \E i \in DOMAIN refreshes : RefreshEnds(i) \/ RefreshFails(i)
    \/ \E key \in TuiKeys : KeyPress(key)
    \/ MoveCursor \/ FormCloses
    \/ \E fails \in BOOLEAN : Ends(fails)
    \/ StatusRead \/ OneLanded \/ LandAllEnds
    \/ RendererUp \/ PanesBuilt \/ SetupThrows \/ Signal

TuiSpec == TuiInit /\ [][TuiNext]_tuiVars

-----------------------------------------------------------------------------
TuiTypeOK ==
    /\ there \subseteq TuiSessions /\ ToSet(listed) \subseteq TuiSessions /\ cursor \in Nat
    /\ line \in {"up", "lost"} /\ screen \in {"none", "up", "suspended", "restored"}
    /\ {exited, layer, uiBusy, form, doing.fresh} \subseteq BOOLEAN

(* The keyboard is never taken for good: keys are refused only while there is
   something to wait for, and the bindings are away only under a prompt. *)
KeysComeBack ==
    Live /\ screen = "up" /\ uiBusy => form \/ prompt # NoPrompt \/ doing # Idle

(* However the process ends, the shell gets its terminal back. *)
TerminalIsRestored == exited => screen \in {"none", "restored"}

(* Nothing is killed or reclaimed but what a prompt named and `y` answered,
   though the list moved meanwhile; every key answers a prompt; and land-all
   lands only what was ready after its own last land. *)
DestroysOnlyTheNamed ==
    [][/\ doing' # doing /\ doing'.op \in {"kill", "gc"} =>
            prompt.op = doing'.op /\ prompt.of = doing'.of
       /\ \A key \in TuiKeys : KeyPress(key) /\ prompt # NoPrompt => prompt' = NoPrompt
       /\ doing'.op = "land all" => doing'.fresh]_tuiVars
=============================================================================
