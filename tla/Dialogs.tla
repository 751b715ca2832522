------------------------------ MODULE Dialogs -------------------------------
(***************************************************************************)
(* What the cockpit shows of an answer that takes time: two sessions side  *)
(* by side (CompareView.tsx), one session's debug bundle (DebugPane.tsx),  *)
(* and the dialog of its checkpoints (CheckpointsDialog.tsx), which also   *)
(* takes one and restores one after a yes.  `revision` counts the changes  *)
(* of the session list: an answer is of the revision it was read at.       *)
(***************************************************************************)
EXTENDS Integers, FiniteSets, SequencesExt

CONSTANTS
    LookSessions,   \* sessions with a branch of their own
    MaxRevisions,   \* bound: changes of the session list
    MaxCheckpoints, \* bound: checkpoints ever taken
    MaxRestores     \* bound: restores asked for

ASSUME LooksAssumption ==
    /\ Cardinality(LookSessions) >= 2 /\ {MaxRevisions, MaxCheckpoints, MaxRestores} \subseteq Nat

VARIABLES
    revision,
    reads,          \* reads under way: {[about, wanted: its result is still taken, at: revision read, or 0]}
    comparing,      \* [ids: two sessions, or <<>>; loaded: id -> revision, 0 none, -1 an error]
    debugPane,      \* [visible, seen: revision or 0, stale, shown: revision, 0 none, error]
    keptPoints,     \* the session's checkpoints, the newest last
    pointRows,      \* the rows of the dialog, the newest first; <<>> also before the first answer
    pointRead,      \* the two checkpoints a diff was last asked of, <<from, to>>, 0: up to now
    restores,       \* restores asked for: [seq, step, working]
    askedAbout,     \* the confirmation on screen: the index of its restore, or 0
    restoresSent,   \* those sent to the daemon: [seq, force]
    saidYes,        \* the confirmations answered yes: [seq, warned]
    agentWorks      \* the session looks busy

lookVars == <<revision, reads, comparing, debugPane, keptPoints, pointRows, pointRead, restores, askedAbout,
              restoresSent, saidYes, agentWorks>>
pointVars == <<keptPoints, pointRows, pointRead, restores, askedAbout, restoresSent, saidYes, agentWorks>>

Read(about) == [about |-> about, wanted |-> TRUE, at |-> 0]
NotWanted(rs, abouts) == {IF r.about \in abouts THEN [r EXCEPT !.wanted = FALSE] ELSE r : r \in rs}
WantedOf(about) == {r \in reads : r.wanted /\ r.about = about}

LooksInit ==
    /\ revision = 1 /\ reads = {}
    /\ comparing = [ids |-> <<>>, loaded |-> [s \in LookSessions |-> 0]]
    /\ debugPane = [visible |-> FALSE, seen |-> 0, stale |-> FALSE, shown |-> 0, error |-> FALSE]
    /\ keptPoints = <<1, 2>> /\ pointRows = <<>> /\ pointRead = <<>>
    /\ restores = <<>> /\ askedAbout = 0 /\ restoresSent = <<>> /\ saidYes = <<>>
    /\ agentWorks = FALSE

-----------------------------------------------------------------------------
(* Compare: the effect of another pair or another revision drops the reads of the
   last one and reads both again.                                            *)
Rereads(rs, ids) == NotWanted(rs, LookSessions) \cup {Read(id) : id \in ToSet(ids)}

defaultCompareTarget(s) == LookSessions \ {s}
OpensCompare(s) ==
    /\ comparing.ids = <<>>
    /\ \E other \in defaultCompareTarget(s) :
          /\ comparing' = [ids |-> <<s, other>>, loaded |-> [x \in LookSessions |-> 0]]
          /\ reads' = Rereads(reads, <<s, other>>)
    /\ UNCHANGED <<revision, debugPane, pointVars>>

PicksSide(side, s) ==
    /\ comparing.ids # <<>> /\ s \notin ToSet(comparing.ids)
    /\ comparing' = [comparing EXCEPT !.ids[side] = s]
    /\ reads' = Rereads(reads, comparing'.ids)
    /\ UNCHANGED <<revision, debugPane, pointVars>>

ClosesCompare ==
    /\ comparing.ids # <<>> /\ comparing' = [comparing EXCEPT !.ids = <<>>]
    /\ reads' = NotWanted(reads, LookSessions)
    /\ UNCHANGED <<revision, debugPane, pointVars>>

-----------------------------------------------------------------------------
(* Debug: read when visible and not of this revision, or asked to. *)
FetchesDebug(rs) == NotWanted(rs, {"debug"}) \cup {Read("debug")}

(* The pane's effect once `v` says whether it is visible, at revision `n`. *)
DebugEffect(pane, n) ==
    IF pane.visible /\ pane.seen # n THEN [pane EXCEPT !.seen = n, !.stale = FALSE]
    ELSE IF pane.seen \notin {0, n} THEN [pane EXCEPT !.stale = TRUE] ELSE pane

ShowsDebug(shown) ==
    /\ debugPane.visible # shown
    /\ debugPane' = IF shown THEN DebugEffect([debugPane EXCEPT !.visible = TRUE], revision)
                    ELSE [debugPane EXCEPT !.visible = FALSE]
    /\ reads' = IF debugPane'.seen # debugPane.seen THEN FetchesDebug(reads) ELSE reads
    /\ UNCHANGED <<revision, comparing, pointVars>>

(* Refresh is offered beside a bundle, not beside an error. *)
RefreshesDebug ==
    /\ debugPane.visible /\ debugPane.shown > 0 /\ ~debugPane.error
    /\ debugPane' = [debugPane EXCEPT !.seen = revision, !.stale = FALSE]
    /\ reads' = FetchesDebug(reads)
    /\ UNCHANGED <<revision, comparing, pointVars>>

-----------------------------------------------------------------------------
(* The session list changes: every effect runs again.  Those of the debug pane
   drop the read under way, whoever is visible.                             *)
RevisionMoves ==
    /\ revision < MaxRevisions /\ revision' = revision + 1
    /\ comparing' = comparing /\ debugPane' = DebugEffect(debugPane, revision + 1)
    /\ LET letGo == NotWanted(reads, {"debug"})
           debugged == IF debugPane'.seen # debugPane.seen THEN FetchesDebug(letGo) ELSE letGo
       IN reads' = (IF comparing.ids # <<>> THEN Rereads(debugged, comparing.ids) ELSE debugged)
    /\ UNCHANGED pointVars

DaemonReads(r) ==
    /\ r.at = 0 /\ reads' = (reads \ {r}) \cup {[r EXCEPT !.at = revision]}
    /\ UNCHANGED <<revision, comparing, debugPane, pointVars>>

(* An answer, or a failure, is taken unless its read was let go of. *)
ReadEnds(r, ok) ==
    /\ ok => r.at > 0
    /\ reads' = reads \ {r}
    /\ comparing' = IF r.wanted /\ r.about \in LookSessions
                    THEN [comparing EXCEPT !.loaded[r.about] = IF ok THEN r.at ELSE -1] ELSE comparing
    /\ debugPane' = IF ~r.wanted \/ r.about # "debug" THEN debugPane
                    ELSE IF ok THEN [debugPane EXCEPT !.shown = r.at, !.error = FALSE]
                    ELSE [debugPane EXCEPT !.error = TRUE]
    /\ UNCHANGED <<revision, pointVars>>

-----------------------------------------------------------------------------
(* Checkpoints: rows are read again after each turn, take and restore, in no
   order of their own; the oldest are pruned.                               *)
NewestFirst == Reverse(keptPoints)
RowsAnswered ==
    /\ pointRows' = NewestFirst /\ pointRows # pointRows'
    /\ UNCHANGED <<revision, reads, comparing, debugPane, keptPoints, pointRead, restores, askedAbout, restoresSent,
                   saidYes, agentWorks>>

TakesPoint ==
    /\ keptPoints # <<>> /\ Last(keptPoints) < MaxCheckpoints
    /\ keptPoints' = Append(keptPoints, Last(keptPoints) + 1)
    /\ UNCHANGED <<revision, reads, comparing, debugPane, pointRows, pointRead, restores, askedAbout, restoresSent,
                   saidYes, agentWorks>>

LosesPoint ==
    /\ Len(keptPoints) > 1 /\ keptPoints' = Tail(keptPoints)
    /\ UNCHANGED <<revision, reads, comparing, debugPane, pointRows, pointRead, restores, askedAbout, restoresSent,
                   saidYes, agentWorks>>

AgentTurns ==
    /\ agentWorks' = ~agentWorks
    /\ UNCHANGED <<revision, reads, comparing, debugPane, keptPoints, pointRows, pointRead, restores, askedAbout,
                   restoresSent, saidYes>>

(* "This turn": from the row below; "Since": up to now. *)
RowBelow(i) == i + 1
AsksTurn(i) ==
    /\ RowBelow(i) \in DOMAIN pointRows /\ pointRead' = <<pointRows[RowBelow(i)], pointRows[i]>>
    /\ UNCHANGED <<revision, reads, comparing, debugPane, keptPoints, pointRows, restores, askedAbout, restoresSent,
                   saidYes, agentWorks>>
AsksSince(i) ==
    /\ pointRead' = <<pointRows[i], 0>>
    /\ UNCHANGED <<revision, reads, comparing, debugPane, keptPoints, pointRows, restores, askedAbout, restoresSent,
                   saidYes, agentWorks>>

(* Restore: the plan, its confirmation (a later one takes the screen, and the one
   before is never answered), the restore, forced if the session looked busy when asked. *)
AsksRestore(i) ==
    /\ Len(restores) < MaxRestores
    /\ restores' = Append(restores, [seq |-> pointRows[i], step |-> "preview", working |-> agentWorks])
    /\ UNCHANGED <<revision, reads, comparing, debugPane, keptPoints, pointRows, pointRead, askedAbout, restoresSent,
                   saidYes, agentWorks>>

PlanAnswered(i) ==
    /\ restores[i].step = "preview"
    /\ \/ /\ restores[i].seq \in ToSet(keptPoints)
          /\ restores' = [restores EXCEPT ![i].step = "confirm"] /\ askedAbout' = i
       \/ restores' = [restores EXCEPT ![i].step = "ended"] /\ askedAbout' = askedAbout
    /\ UNCHANGED <<revision, reads, comparing, debugPane, keptPoints, pointRows, pointRead, restoresSent, saidYes,
                   agentWorks>>

(* The answer settles the question on the screen, and no other. *)
AnswersAsk == askedAbout
ConfirmAnswered(yes) ==
    LET about == restores[askedAbout]
        r == restores[AnswersAsk]
    IN /\ askedAbout > 0 /\ askedAbout' = 0
       /\ restores' = [restores EXCEPT ![AnswersAsk].step = "ended"]
       /\ saidYes' = IF yes THEN Append(saidYes, [seq |-> about.seq, warned |-> about.working]) ELSE saidYes
       /\ restoresSent' = IF yes THEN Append(restoresSent, [seq |-> r.seq, force |-> r.working]) ELSE restoresSent
       /\ UNCHANGED <<revision, reads, comparing, debugPane, keptPoints, pointRows, pointRead, agentWorks>>

PointsNext ==
    \/ RowsAnswered \/ TakesPoint \/ LosesPoint \/ AgentTurns
    \/ \E i \in DOMAIN pointRows : AsksTurn(i) \/ AsksSince(i) \/ AsksRestore(i)
    \/ \E i \in DOMAIN restores : PlanAnswered(i)
    \/ \E yes \in BOOLEAN : ConfirmAnswered(yes)

LooksNext ==
    \/ \E s \in LookSessions : OpensCompare(s) \/ \E side \in {1, 2} : PicksSide(side, s)
    \/ ClosesCompare
    \/ \E shown \in BOOLEAN : ShowsDebug(shown)
    \/ RefreshesDebug \/ RevisionMoves
    \/ \E r \in reads : DaemonReads(r) \/ \E ok \in BOOLEAN : ReadEnds(r, ok)

-----------------------------------------------------------------------------
LooksTypeOK ==
    /\ revision \in 1..MaxRevisions
    /\ reads \subseteq [about : LookSessions \cup {"debug"}, wanted : BOOLEAN, at : 0..MaxRevisions]
    /\ comparing.loaded \in [LookSessions -> -1..MaxRevisions]
    /\ debugPane \in [visible : BOOLEAN, seen : 0..MaxRevisions, stale : BOOLEAN, shown : 0..MaxRevisions, error : BOOLEAN]
    /\ askedAbout \in 0..Len(restores)

(* Once nothing is being read, what is compared is of the session list as it is, or an
   error; the debug bundle is, or says that it is old, or is not on the screen.  A pane
   that is visible has asked about the list as it is.                           *)
LooksAreFresh ==
    /\ \A s \in ToSet(comparing.ids) : WantedOf(s) # {} \/ comparing.loaded[s] \in {-1, revision}
    /\ debugPane.visible => debugPane.seen = revision
    /\ debugPane.stale \/ debugPane.error \/ WantedOf("debug") # {} \/ debugPane.shown \in {0, revision}

(* A restore is sent for a yes to the confirmation that named its checkpoint, one for
   each, and over a busy agent only if that confirmation said so.               *)
RestoresAreSaid ==
    /\ Len(restoresSent) = Len(saidYes)
    /\ \A i \in DOMAIN restoresSent :
          restoresSent[i].seq = saidYes[i].seq /\ (restoresSent[i].force => saidYes[i].warned)

(* An answer that comes late never puts back what an older one showed; and the diff of
   one turn leaves out no checkpoint that is kept, however old the rows on the screen are. *)
LateIsDropped ==
    /\ comparing'.ids = comparing.ids =>
          \A s \in ToSet(comparing.ids) : comparing'.loaded[s] > 0 => comparing'.loaded[s] >= comparing.loaded[s]
    /\ debugPane'.shown >= debugPane.shown
    /\ pointRead' # pointRead /\ pointRead'[2] > 0 =>
          /\ pointRead'[1] < pointRead'[2]
          /\ \A k \in ToSet(keptPoints) : ~(pointRead'[1] < k /\ k < pointRead'[2])
LooksOnlyNewer == [][LateIsDropped]_lookVars

LooksSpec == LooksInit /\ [][LooksNext \/ PointsNext]_lookVars

-----------------------------------------------------------------------------
(***************************************************************************)
(* How the cockpit starts a session: the picker (QuickPicker.tsx), opened  *)
(* with the launchers and branches of that moment (ProjectView.tsx,        *)
(* handleNew), the create it asks for (createAndOpen), a preset's one      *)
(* click (startPreset, lib/presets.ts); and the file finder (QuickOpen.tsx)*)
(* beside it, whose files come with an answer too.                         *)
(***************************************************************************)

CONSTANTS
    PickRoots, HereRoot,    \* the open projects, and the one whose picker it is
    PickLaunchers,          \* launcher ids beside "terminal"
    PickDefaults,           \* project -> [worktree, base, launcher, plain]: what its settings say
    NoBase,
    MaxCreates,             \* bound: requests made
    MaxPicks,               \* bound: pickers opened
    MaxPickMoves            \* bound: launchers installed or removed, sessions listed or gone, by others

ASSUME NewSessionAssumption ==
    /\ HereRoot \in PickRoots /\ {MaxCreates, MaxPicks, MaxPickMoves} \subseteq Nat
    /\ \A r \in PickRoots : PickDefaults[r].plain => ~PickDefaults[r].worktree /\ PickDefaults[r].base = NoBase

VARIABLES
    installed,      \* the launchers that are enabled and installed
    namesHere,      \* the names listed in this project
    opening,        \* answers a picker to be opened waits for, oldest first: the launchers, or "asked"
    picker,         \* [open, offered, index, name, touched, root, base, isolated]
    lastLauncher,   \* the launcher of the last session started here
    creates,        \* requests under way: [name, root, worktree, base, launcher, preset, step]
    sessionsMade,   \* sessions made here of them: [name, worktree, base, shell]
    pickMoves,
    finder,         \* the file finder: [session, files], and reads under way
    fileShown       \* the file last opened in a pane: [session, path]

newSessionVars == <<installed, namesHere, opening, picker, lastLauncher, creates, sessionsMade, pickMoves, finder, fileShown>>

-----------------------------------------------------------------------------
Branches == {"b1"}
PickChoices == <<"terminal">> \o SetToSeq(PickLaunchers)
Usable(offered) == {"terminal"} \cup offered

(* A name is what it is for and a number; one a person typed is for nothing. *)
suggestSessionName(for, used) ==
    <<for, CHOOSE n \in 1..(Cardinality(used) + 1) :
              <<for, n>> \notin used /\ \A m \in 1..(n - 1) : <<for, m>> \in used>>
NamePrefix(launcher) == IF launcher = "terminal" THEN "shell" ELSE launcher
TypedName == <<"typed", 1>>
BadName == <<"bad", 1>>

ClosedPicker == [open |-> FALSE, offered |-> {}, index |-> 1, name |-> BadName, touched |-> FALSE,
                 root |-> HereRoot, base |-> NoBase, isolated |-> FALSE]
NoFinder == [session |-> 0, files |-> 0, read |-> {}]

NewSessionInit ==
    /\ installed \in SUBSET PickLaunchers /\ namesHere = {} /\ opening = <<>> /\ picker = ClosedPicker
    /\ lastLauncher \in {"terminal"} \cup PickLaunchers
    /\ creates = <<>> /\ sessionsMade = {} /\ pickMoves = [picks |-> 0, others |-> 0, asks |-> 0]
    /\ finder = NoFinder /\ fileShown = [session |-> 0, path |-> 0]

(* Asked for, it opens with what was answered last: a second answer while it is open
   changes what is offered under the index.                                  *)
AsksPicker ==
    /\ pickMoves.picks < MaxPicks /\ pickMoves' = [pickMoves EXCEPT !.picks = @ + 1]
    /\ opening' = Append(opening, {"asked"})
    /\ UNCHANGED <<installed, namesHere, picker, lastLauncher, creates, sessionsMade, finder, fileShown>>

DaemonLists(i) ==
    /\ opening[i] = {"asked"} /\ opening' = [opening EXCEPT ![i] = installed]
    /\ UNCHANGED <<installed, namesHere, picker, lastLauncher, creates, sessionsMade, pickMoves, finder, fileShown>>

IndexOf(launcher) == CHOOSE i \in DOMAIN PickChoices : PickChoices[i] = launcher
FirstChoice(offered) ==
    IF PickDefaults[HereRoot].launcher \in Usable(offered) THEN IndexOf(PickDefaults[HereRoot].launcher)
    ELSE IF lastLauncher \in Usable(offered) THEN IndexOf(lastLauncher) ELSE 1

OpensPicker(i) ==
    /\ opening[i] # {"asked"} /\ opening' = RemoveAt(opening, i)
    /\ picker' = IF picker.open THEN [picker EXCEPT !.offered = opening[i]]
                 ELSE LET first == FirstChoice(opening[i]) IN
                      [open |-> TRUE, offered |-> opening[i], index |-> first,
                       name |-> suggestSessionName(NamePrefix(PickChoices[first]), namesHere), touched |-> FALSE,
                       root |-> HereRoot, base |-> PickDefaults[HereRoot].base,
                       isolated |-> PickDefaults[HereRoot].worktree]
    /\ UNCHANGED <<installed, namesHere, lastLauncher, creates, sessionsMade, pickMoves, finder, fileShown>>

Chosen == PickChoices[picker.index]
Plain == PickDefaults[picker.root].plain
NameError == picker.name = BadName \/ (picker.root = HereRoot /\ picker.name \in namesHere)

PickerTurns(p) ==
    /\ picker.open /\ picker' = p
    /\ UNCHANGED <<installed, namesHere, opening, lastLauncher, creates, sessionsMade, pickMoves, finder, fileShown>>

ChoosesLauncher(i) ==
    /\ PickChoices[i] \in Usable(picker.offered)
    /\ PickerTurns([picker EXCEPT !.index = i,
         !.name = IF picker.touched THEN @ ELSE suggestSessionName(NamePrefix(PickChoices[i]), namesHere)])
TypesName(n) == PickerTurns([picker EXCEPT !.name = n, !.touched = TRUE])
(* Another project brings its own defaults. *)
AtProject(root) == [picker EXCEPT !.root = root, !.isolated = PickDefaults[root].worktree,
                                  !.base = PickDefaults[root].base]
ChoosesProject(root) == PickerTurns(AtProject(root))
ChoosesBase(b) ==
    ~Plain /\ picker.isolated /\ picker.root = HereRoot /\ PickerTurns([picker EXCEPT !.base = b])
TicksIsolated == ~Plain /\ PickerTurns([picker EXCEPT !.isolated = ~@])
CancelsPicker == PickerTurns(ClosedPicker)

AsksCreate(name, root, worktree, base, launcher, preset) ==
    /\ Len(creates) < MaxCreates
    /\ creates' = Append(creates, [name |-> name, root |-> root, worktree |-> worktree, base |-> base,
                                   launcher |-> launcher, preset |-> preset, step |-> "new"])
    /\ picker' = ClosedPicker
    /\ UNCHANGED <<installed, namesHere, opening, lastLauncher, sessionsMade, pickMoves, finder, fileShown>>

SubmitsPicker ==
    /\ picker.open /\ ~NameError /\ Chosen \in Usable(picker.offered)
    /\ AsksCreate(picker.name, picker.root, picker.isolated,
            IF picker.isolated THEN picker.base ELSE NoBase, Chosen, FALSE)

(* A preset goes where the picker is, in a worktree or not as it says itself. *)
ClicksPreset(worktree, launcher) ==
    /\ picker.open /\ picker.root = HereRoot /\ ~Plain
    /\ AsksCreate(IF picker.touched THEN picker.name ELSE suggestSessionName("preset", namesHere), HereRoot,
            worktree, IF worktree THEN PickDefaults[HereRoot].base ELSE NoBase, launcher, TRUE)

-----------------------------------------------------------------------------
(* The request, step by step: the session, its shell, the list; a preset then types
   its commands in terminals of the session, whether or not its shell started.   *)
CreateStep(i, step) == creates' = [creates EXCEPT ![i].step = step]

DaemonMakes(i, ok) ==
    LET c == creates[i] IN
    /\ c.step = "new" /\ c.root = HereRoot
    /\ ok => \A m \in sessionsMade : m.name # c.name
    /\ CreateStep(i, IF ok THEN "resume" ELSE "failed")
    /\ sessionsMade' = IF ok THEN sessionsMade \cup {[name |-> c.name, worktree |-> c.worktree, base |-> c.base, shell |-> "none", typed |-> FALSE]}
               ELSE sessionsMade
    /\ UNCHANGED <<installed, namesHere, opening, picker, lastLauncher, pickMoves, finder, fileShown>>

WithMade(c, shell, typed) ==
    sessionsMade' = {IF m.name = c.name
                     THEN [m EXCEPT !.shell = IF shell = "none" THEN @ ELSE shell, !.typed = @ \/ typed]
                     ELSE m : m \in sessionsMade}

DaemonStarts(i, ok) ==
    LET c == creates[i] IN
    /\ c.step = "resume"
    /\ CreateStep(i, IF c.preset THEN "terminals" ELSE IF ok THEN "done" ELSE "failed")
    /\ WithMade(c, IF ok THEN c.launcher ELSE "none", FALSE)
    /\ lastLauncher' = IF ok THEN c.launcher ELSE lastLauncher
    /\ namesHere' = IF ok THEN {m.name : m \in sessionsMade} ELSE namesHere
    /\ UNCHANGED <<installed, opening, picker, pickMoves, finder, fileShown>>

PresetTypes(i) ==
    /\ creates[i].step = "terminals" /\ CreateStep(i, "done")
    /\ WithMade(creates[i], "none", TRUE)
    /\ UNCHANGED <<installed, namesHere, opening, picker, lastLauncher, pickMoves, finder, fileShown>>

(* Others: a launcher comes or goes, the list catches up. *)
OthersMove ==
    /\ pickMoves.others < MaxPickMoves /\ pickMoves' = [pickMoves EXCEPT !.others = @ + 1]
    /\ \/ \E l \in PickLaunchers :
             /\ installed' = IF l \in installed THEN installed \ {l} ELSE installed \cup {l}
             /\ UNCHANGED namesHere
       \/ namesHere' = {m.name : m \in sessionsMade} /\ namesHere' # namesHere /\ UNCHANGED installed
    /\ UNCHANGED <<opening, picker, lastLauncher, creates, sessionsMade, finder, fileShown>>

-----------------------------------------------------------------------------
(* The file finder: two sessions, 1 and 2, whose files are 1 and 2. *)
AsksFiles(s) ==
    /\ pickMoves.asks < 2 /\ pickMoves' = [pickMoves EXCEPT !.asks = @ + 1]
    /\ finder' = [finder EXCEPT !.read = @ \cup {s}]
    /\ UNCHANGED <<installed, namesHere, opening, picker, lastLauncher, creates, sessionsMade, fileShown>>
FilesAnswered(s) ==
    /\ s \in finder.read
    /\ finder' = [session |-> s, files |-> s, read |-> finder.read \ {s}]
    /\ UNCHANGED <<installed, namesHere, opening, picker, lastLauncher, creates, sessionsMade, pickMoves, fileShown>>
OpensFile ==
    /\ finder.session # 0 /\ fileShown' = [session |-> finder.session, path |-> finder.files]
    /\ finder' = [finder EXCEPT !.session = 0, !.files = 0]
    /\ UNCHANGED <<installed, namesHere, opening, picker, lastLauncher, creates, sessionsMade, pickMoves>>

NewSessionNext ==
    \/ AsksPicker \/ TicksIsolated \/ CancelsPicker \/ SubmitsPicker \/ OthersMove \/ OpensFile
    \/ \E i \in DOMAIN opening : DaemonLists(i) \/ OpensPicker(i)
    \/ \E i \in DOMAIN PickChoices : ChoosesLauncher(i)
    \/ \E n \in {TypedName, BadName} : TypesName(n)
    \/ \E r \in PickRoots : ChoosesProject(r)
    \/ \E b \in Branches \cup {NoBase} : ChoosesBase(b)
    \/ \E w \in BOOLEAN : ClicksPreset(w, "terminal")
    \/ \E i \in DOMAIN creates : PresetTypes(i) \/ \E ok \in BOOLEAN : DaemonMakes(i, ok) \/ DaemonStarts(i, ok)
    \/ \E s \in {1, 2} : AsksFiles(s) \/ FilesAnswered(s)

-----------------------------------------------------------------------------
NewSessionTypeOK ==
    /\ installed \subseteq PickLaunchers /\ lastLauncher \in {"terminal"} \cup PickLaunchers
    /\ picker.index \in DOMAIN PickChoices /\ picker.root \in PickRoots
    /\ \A i \in DOMAIN creates : creates[i].step \in {"new", "resume", "terminals", "done", "failed"}

(* A session asked for by the picker has a name no session listed here has, a base only
   in a worktree, and one of the project it goes to, a branch of it or its default; in a
   plain folder it has neither.  What the picker shows first may be started.        *)
AskedOfPicker ==
    /\ \A i \in DOMAIN creates' \ DOMAIN creates :
          LET c == creates'[i] IN
          /\ c.root = HereRoot /\ ~c.preset => c.name \notin namesHere
          /\ c.base # NoBase => c.worktree
          /\ c.base \in {NoBase, PickDefaults[c.root].base} \cup (IF c.root = HereRoot THEN Branches ELSE {})
          /\ PickDefaults[c.root].plain => ~c.worktree /\ c.base = NoBase
    /\ picker'.open /\ ~picker.open =>
          PickChoices[picker'.index] \in Usable(picker'.offered) /\ picker'.name \notin namesHere
    /\ fileShown' # fileShown => fileShown'.path = fileShown'.session
PicksAreMeant == [][AskedOfPicker]_newSessionVars

(* What was made is what was asked for: every session here is one request's, as it
   said, with its launcher or, if that did not start, no shell.                  *)
MadeIsAsked ==
    \A m \in sessionsMade :
        \E i \in DOMAIN creates :
            LET c == creates[i] IN
            /\ <<m.name, m.worktree, m.base>> = <<c.name, c.worktree, c.base>> /\ c.step # "new"
            /\ m.shell \in {"none", c.launcher} /\ (c.step = "done" /\ ~c.preset => m.shell = c.launcher)
            /\ m.typed => c.preset
=============================================================================
