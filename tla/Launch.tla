------------------------------- MODULE Launch -------------------------------
(***************************************************************************)
(* The cockpit's main process (electron/main.ts) from a launch to the next *)
(* one: the folder named on the command line or by a second `cw`, the one  *)
(* process that keeps the window, what it attaches (by way of the bridge,  *)
(* daemon-bridge.ts, ensure), the folders that are not repositories and    *)
(* their dialog (OpenFolderDialog.tsx), and the files that outlive it:     *)
(* the last project, the recent ones, the open ones, the plain folders.    *)
(* Rail has what the window does with many projects.                       *)
(***************************************************************************)
EXTENDS Integers, FiniteSets, SequencesExt

CONSTANTS
    Folders,
    NoFolder,
    Inside,         \* pairs <<folder, the folder it is in>>
    MaxRecent,      \* recent folders kept
    MaxLaunches,    \* bound: starts of the app, and folders asked for while it runs
    MaxFolderMoves  \* bound: folders made, changed or deleted by others

ASSUME LaunchAssumption ==
    /\ NoFolder \notin Folders /\ {MaxLaunches, MaxFolderMoves} \subseteq Nat /\ MaxRecent \in Nat \ {0}

VARIABLES
    folder,         \* what each folder is: "repo", "plain" or "missing", and folderMoves so far
    files,          \* [saved, recents, opens, plains]
    app,            \* [state: "off", "starting", "running"; named, pendingRoot; starts]
    stageRoot,      \* the project on the bridge's stage
    ensures,        \* ensures to run, in order: [root, by, boot: the window's boot joined it]
    events,         \* to the window, in order: [kind, root, ok]
    frame,          \* the window: [state: "none", "loading", "loaded"; booted, shown, dialog]
    gitInit,        \* git init under way in a folder: [root, step], or NoInit
    mangled         \* the list of open projects was lost by a crash

launchVars == <<folder, files, app, stageRoot, ensures, events, frame, gitInit, mangled>>

-----------------------------------------------------------------------------
(* Folders (folder-kind.ts) and lists (recent.ts, open-projects.ts)        *)

ParentRepo(f) == {g \in Folders : <<f, g>> \in Inside /\ folder.kind[g] = "repo"}
folderKind(f) ==
    IF folder.kind[f] = "plain" /\ ParentRepo(f) # {} THEN "inside-repo" ELSE folder.kind[f]
FolderExists(f) == f # NoFolder /\ folder.kind[f] # "missing"
PlainChosen(f) == f \in files.plains

LeavesOut(list, f) == SelectSeq(list, LAMBDA x : x # f)
pushRecent(list, f) ==
    LET cur == <<f>> \o LeavesOut(list, f) IN SubSeq(cur, 1, IF Len(cur) < MaxRecent THEN Len(cur) ELSE MaxRecent)
rememberOpen(list, f) == IF f \in ToSet(list) THEN list ELSE Append(list, f)

NoFolderDialog == [root |-> NoFolder, kind |-> "none"]
NoInit == [root |-> NoFolder, step |-> "none"]
NoFrame == [state |-> "none", booted |-> "no", shown |-> NoFolder, dialog |-> NoFolderDialog]
NewFrame == [NoFrame EXCEPT !.state = "loading"]
Ensure(f, by) == [root |-> f, by |-> by, boot |-> FALSE]
Event(kind, f, ok) == [kind |-> kind, root |-> f, ok |-> ok]

LaunchInit ==
    /\ folder \in [kind : [Folders -> {"repo", "plain"}], moves : {0}]
    /\ files = [saved |-> NoFolder, recents |-> <<>>, opens |-> <<>>, plains |-> {}]
    /\ app = [state |-> "off", named |-> NoFolder, pendingRoot |-> NoFolder, starts |-> 0]
    /\ stageRoot = NoFolder /\ ensures = <<>> /\ events = <<>> /\ frame = NoFrame
    /\ gitInit = NoInit /\ mangled = FALSE

-----------------------------------------------------------------------------
(* The process                                                             *)

StartsApp(f) ==
    /\ app.state = "off" /\ app.starts < MaxLaunches
    /\ app' = [state |-> "starting", named |-> f, pendingRoot |-> NoFolder, starts |-> app.starts + 1]
    /\ UNCHANGED <<folder, files, stageRoot, ensures, events, frame, gitInit, mangled>>

LaunchRoot == IF app.pendingRoot # NoFolder THEN app.pendingRoot ELSE app.named
WhenReady ==
    /\ app.state = "starting" /\ app' = [app EXCEPT !.state = "running", !.pendingRoot = NoFolder]
    /\ frame' = NewFrame /\ ensures' = <<Ensure(LaunchRoot, "launch")>>
    /\ UNCHANGED <<folder, files, stageRoot, events, gitInit, mangled>>

(* Sent to a window that does not listen yet, an event is lost. *)
Sends(e) == events' = IF frame.state = "loaded" THEN Append(events, e) ELSE events

(* A second `cw`, or Open Recent. *)
SwitchWorkspace(f) ==
    /\ app.state # "off" /\ app.starts < MaxLaunches
    /\ IF app.state = "starting"
       THEN /\ app' = [app EXCEPT !.starts = @ + 1, !.pendingRoot = f] /\ UNCHANGED <<ensures, events>>
       ELSE /\ app' = [app EXCEPT !.starts = @ + 1]
            /\ IF folderKind(f) # "repo" /\ ~PlainChosen(f)
               THEN UNCHANGED ensures /\ Sends(Event("show", f, TRUE))
               ELSE UNCHANGED events /\ ensures' = Append(ensures, Ensure(f, "switch"))
    /\ UNCHANGED <<folder, files, stageRoot, frame, gitInit, mangled>>

AppGone == /\ app' = [app EXCEPT !.state = "off"] /\ stageRoot' = NoFolder /\ ensures' = <<>> /\ events' = <<>>
        /\ frame' = NoFrame /\ gitInit' = NoInit
QuitsOrDies ==
    /\ app.state # "off" /\ AppGone /\ UNCHANGED <<folder, files, mangled>>

(* The window is closed (the process stays, on macOS); and the Dock opens one. *)
ClosesWindow ==
    /\ frame.state = "loaded" /\ frame' = NoFrame /\ events' = <<>>
    /\ ensures' = [i \in DOMAIN ensures |-> [ensures[i] EXCEPT !.boot = FALSE]]
    /\ UNCHANGED <<folder, files, app, stageRoot, gitInit, mangled>>
ActivatesApp ==
    /\ app.state = "running" /\ frame.state = "none" /\ frame' = NewFrame
    /\ UNCHANGED <<folder, files, app, stageRoot, ensures, events, gitInit, mangled>>

-----------------------------------------------------------------------------
(* What is attached                                                        *)

ResolvedRoot(e) ==
    IF e.root # NoFolder THEN e.root ELSE IF FolderExists(files.saved) THEN files.saved ELSE NoFolder

(* A daemon comes up in the top of a repository, or in a plain folder if it was
   started as one (daemon/root.ts).                                         *)
StartedPlain(f) == PlainChosen(f)
CanAttach(f) == folderKind(f) = "repo" \/ (folderKind(f) = "plain" /\ StartedPlain(f))

Remembered(f) == [files EXCEPT !.opens = rememberOpen(@, f)]
RootSaved(f) == [Remembered(f) EXCEPT !.saved = f]
AllSaved(f) == [RootSaved(f) EXCEPT !.recents = pushRecent(@, f)]

(* What main or the window does with the end of an ensure; a boot that joined hears it too. *)
EnsureAnswered(e, f, ok) ==
    LET mine == IF e.by \in {"activate", "boot", "parent"} THEN <<Event(e.by, f, ok)>> ELSE <<>>
        joined == IF e.boot THEN <<Event("boot", f, ok)>> ELSE <<>>
        shows == IF e.by = "switch" /\ ok /\ frame.state = "loaded" THEN <<Event("show", f, TRUE)>> ELSE <<>>
    IN /\ events' = IF frame.state = "loaded" THEN events \o mine \o joined \o shows ELSE events
       /\ frame' = IF e.by = "switch" /\ ok /\ frame.state = "none" THEN NewFrame ELSE frame

EnsureRuns ==
    /\ ensures # <<>> /\ ensures' = Tail(ensures)
    /\ LET e == Head(ensures)  f == ResolvedRoot(e) IN
       \/ /\ f # NoFolder /\ f = stageRoot /\ EnsureAnswered(e, f, TRUE) /\ UNCHANGED <<files, stageRoot>>
       \/ /\ f # NoFolder /\ f # stageRoot /\ CanAttach(f)
          /\ files' = AllSaved(f) /\ stageRoot' = f /\ EnsureAnswered(e, f, TRUE)
       \/ f # stageRoot /\ EnsureAnswered(e, f, FALSE) /\ UNCHANGED <<files, stageRoot>>
    /\ UNCHANGED <<folder, app, gitInit, mangled>>

(* It dies while it saves: a file is written whole, or empty, or not yet. *)
SaveSteps(f) ==
    IF f \in ToSet(files.opens)
    THEN {[RootSaved(f) EXCEPT !.saved = NoFolder], RootSaved(f), [RootSaved(f) EXCEPT !.recents = <<>>]}
    ELSE {[files EXCEPT !.opens = <<>>], Remembered(f), [RootSaved(f) EXCEPT !.saved = NoFolder], RootSaved(f),
          [RootSaved(f) EXCEPT !.recents = <<>>]}
DiesWriting ==
    /\ ensures # <<>> /\ AppGone
    /\ LET f == ResolvedRoot(Head(ensures)) IN
       /\ f # NoFolder /\ f # stageRoot /\ CanAttach(f)
       /\ files' \in SaveSteps(f) /\ mangled' = (mangled \/ files'.opens = <<>>)
    /\ UNCHANGED <<folder>>

(* The project's daemon is gone: the bridge lets go of the stage. *)
StageDaemonGone ==
    /\ stageRoot # NoFolder /\ stageRoot' = NoFolder
    /\ app.starts < MaxLaunches /\ app' = [app EXCEPT !.starts = @ + 1]
    /\ UNCHANGED <<folder, files, ensures, events, frame, gitInit, mangled>>

-----------------------------------------------------------------------------
(* The window                                                              *)

LoadsWindow ==
    /\ frame.state = "loading" /\ frame' = [frame EXCEPT !.state = "loaded", !.booted = "lists"]
    /\ UNCHANGED <<folder, files, app, stageRoot, ensures, events, gitInit, mangled>>

(* listProjects is answered at once; without a stage the boot asks for one, or joins
   the ensure that is under way.                                            *)
BootListed ==
    /\ frame.state = "loaded" /\ frame.booted = "lists"
    /\ IF stageRoot # NoFolder
       THEN events' = Append(events, Event("boot", stageRoot, TRUE)) /\ UNCHANGED ensures
       ELSE /\ UNCHANGED events
            /\ ensures' = IF ensures = <<>> THEN <<Ensure(NoFolder, "boot")>>
                          ELSE [ensures EXCEPT ![Len(ensures)].boot = TRUE]
    /\ frame' = [frame EXCEPT !.booted = "waits"]
    /\ UNCHANGED <<folder, files, app, stageRoot, gitInit, mangled>>

Heard(kinds) == events # <<>> /\ Head(events).kind \in kinds
NoMoreDialog(fr) == [fr EXCEPT !.dialog = NoFolderDialog]
Shows(f) == [frame EXCEPT !.shown = f]

HearsEnsured ==
    /\ Heard({"boot", "activate", "parent"}) /\ events' = Tail(events)
    /\ LET e == Head(events)  next == IF e.ok THEN Shows(e.root) ELSE frame
       IN frame' = CASE e.kind = "boot" -> [next EXCEPT !.booted = IF e.ok THEN "yes" ELSE "failed"]
                     [] e.kind = "parent" -> NoMoreDialog(next)
                     [] OTHER -> next
    /\ UNCHANGED <<folder, files, app, stageRoot, ensures, gitInit, mangled>>

(* activate(f): nothing if it is shown; a folder that is not open is looked at first. *)
NeedsDialog(f) == f \notin ToSet(files.opens) /\ folderKind(f) # "repo" /\ ~PlainChosen(f)
Activated(f, fr) ==
    IF f = fr.shown THEN frame' = fr /\ UNCHANGED ensures
    ELSE IF NeedsDialog(f)
    THEN frame' = [fr EXCEPT !.dialog = [root |-> f, kind |-> folderKind(f)]] /\ UNCHANGED ensures
    ELSE frame' = fr /\ ensures' = Append(ensures, Ensure(f, "activate"))

HearsShow ==
    /\ Heard({"show"}) /\ events' = Tail(events) /\ Activated(Head(events).root, frame)
    /\ UNCHANGED <<folder, files, app, stageRoot, gitInit, mangled>>
PicksFolder(f) ==
    /\ frame.booted \in {"yes", "failed"} /\ app.starts < MaxLaunches /\ app' = [app EXCEPT !.starts = @ + 1]
    /\ Activated(f, frame)
    /\ UNCHANGED <<folder, files, stageRoot, events, gitInit, mangled>>

(* closeProject: the bridge forgets the project if it is the stage's, and refuses
   when nothing is attached; the window shows the next one.                 *)
ForgetsSaved(f) == f = stageRoot
ClosesProject(f) ==
    /\ frame.booted \in {"yes", "failed"} /\ ensures = <<>> /\ stageRoot # NoFolder /\ f \in ToSet(files.opens)
    /\ files' = [files EXCEPT !.opens = LeavesOut(@, f), !.saved = IF ForgetsSaved(f) THEN NoFolder ELSE @]
    /\ stageRoot' = IF f = stageRoot THEN NoFolder ELSE stageRoot
    /\ LET rest == LeavesOut(files.opens, f) IN
       IF f # frame.shown THEN UNCHANGED <<frame, ensures>>
       ELSE IF rest = <<>> THEN frame' = Shows(NoFolder) /\ UNCHANGED ensures
       ELSE UNCHANGED frame /\ ensures' = <<Ensure(rest[1], "activate")>>
    /\ UNCHANGED <<folder, app, events, gitInit, mangled>>

-----------------------------------------------------------------------------
(* The dialog                                                              *)

DialogOpen(kinds) == frame.dialog.kind \in kinds

ClosesDialog ==
    /\ frame.dialog # NoFolderDialog /\ frame' = NoMoreDialog(frame)
    /\ UNCHANGED <<folder, files, app, stageRoot, ensures, events, gitInit, mangled>>
OpeningParent ==
    (\E i \in DOMAIN ensures : ensures[i].by = "parent") \/ (\E i \in DOMAIN events : events[i].kind = "parent")
(* The repository the folder is in; the dialog closes when that has ended. *)
OpensParent ==
    /\ DialogOpen({"inside-repo"}) /\ ~OpeningParent
    /\ \E g \in {h \in Folders : <<frame.dialog.root, h>> \in Inside} :
          IF g = frame.shown \/ NeedsDialog(g) THEN frame' = NoMoreDialog(frame) /\ UNCHANGED ensures
          ELSE UNCHANGED frame /\ ensures' = Append(ensures, Ensure(g, "parent"))
    /\ UNCHANGED <<folder, files, app, stageRoot, events, gitInit, mangled>>
(* folder.openPlain looks again: only a folder that has no git. *)
MayOpenPlain(f) == folderKind(f) = "plain"
OpensPlain ==
    /\ DialogOpen({"plain"})
    /\ LET f == frame.dialog.root IN
       IF MayOpenPlain(f)
       THEN /\ files' = [files EXCEPT !.plains = @ \cup {f}]
            /\ frame' = NoMoreDialog(frame)
            /\ ensures' = IF f = frame.shown THEN ensures ELSE Append(ensures, Ensure(f, "activate"))
       ELSE UNCHANGED <<files, frame, ensures>>
    /\ UNCHANGED <<folder, app, stageRoot, events, gitInit, mangled>>

(* initGit: confirmed, looked at again, git init, then a first commit if git knows
   who commits; a step that fails is told in the dialog.                    *)
ConfirmsInit ==
    /\ DialogOpen({"plain"}) /\ gitInit = NoInit
    /\ gitInit' = [root |-> frame.dialog.root, step |-> "asked"]
    /\ UNCHANGED <<folder, files, app, stageRoot, ensures, events, frame, mangled>>
MayInit(f) == folderKind(f) = "plain"
InitGit ==
    /\ gitInit.step = "asked"
    /\ LET f == gitInit.root IN
       IF MayInit(f)
       THEN \/ /\ folder' = [folder EXCEPT !.kind[f] = "repo"] /\ gitInit' = [gitInit EXCEPT !.step = "done"]
            \/ gitInit' = NoInit /\ UNCHANGED folder
       ELSE gitInit' = NoInit /\ UNCHANGED folder
    /\ UNCHANGED <<files, app, stageRoot, ensures, events, frame, mangled>>
InitDone ==
    /\ gitInit.step = "done" /\ gitInit' = NoInit /\ Activated(gitInit.root, NoMoreDialog(frame))
    /\ UNCHANGED <<folder, files, app, stageRoot, events, mangled>>

(* Others make a repository, or delete the folder. *)
FolderTurns(f) ==
    /\ folder.moves < MaxFolderMoves
    /\ \E k \in {"repo", "missing"} \ {folder.kind[f]} :
          folder' = [kind |-> [folder.kind EXCEPT ![f] = k], moves |-> folder.moves + 1]
    /\ UNCHANGED <<files, app, stageRoot, ensures, events, frame, gitInit, mangled>>

LaunchNext ==
    \/ (\E f \in Folders \cup {NoFolder} : StartsApp(f))
    \/ \E f \in Folders : SwitchWorkspace(f) \/ PicksFolder(f) \/ ClosesProject(f) \/ FolderTurns(f)
    \/ WhenReady \/ QuitsOrDies \/ ClosesWindow \/ ActivatesApp \/ EnsureRuns \/ DiesWriting \/ StageDaemonGone
    \/ LoadsWindow \/ BootListed \/ HearsEnsured \/ HearsShow
    \/ ClosesDialog \/ OpensParent \/ OpensPlain \/ ConfirmsInit \/ InitGit \/ InitDone

-----------------------------------------------------------------------------
LaunchTypeOK ==
    /\ files.saved \in Folders \cup {NoFolder} /\ files.plains \subseteq Folders
    /\ app.state \in {"off", "starting", "running"} /\ (app.state # "running" => ensures = <<>>)
    /\ frame.state \in {"none", "loading", "loaded"} /\ (frame.state # "loaded" => events = <<>>)

(* What the next launch opens is a project of the rail, whatever moment the app died
   at, unless that moment cost the rail its list (daemon-bridge.ts rememberOpen,
   closeProject; main.ts saveRoot, forgetSavedRoot).                        *)
SavedIsListed == files.saved # NoFolder /\ ~mangled => files.saved \in ToSet(files.opens)

(* The recent folders are each listed once, the last attached first, and no more than
   are kept (recent.ts).                                                    *)
RecentsAreExact ==
    /\ IsInjective(files.recents) /\ IsInjective(files.opens) /\ Len(files.recents) <= MaxRecent
    /\ stageRoot # NoFolder => files.recents[1] = stageRoot

(* Once a window has started and nothing is under way it shows what main attached,
   however the launch, a second `cw` and its own start overlapped; but for a start that
   waited for an ensure that failed (App.tsx, the boot; main.ts switchWorkspace). *)
StageIsShown ==
    /\ ensures = <<>> /\ events = <<>> /\ stageRoot # NoFolder
    /\ frame.booted = "yes" \/ (frame.booted = "failed" /\ frame.shown # NoFolder)
    => frame.shown = stageRoot

(* "No other folder ever becomes a project by accident" (open-projects.ts): one that
   has no git is a project only if it was opened as that; and however old the dialog,
   a folder that has git by then is not kept as one without, nor is git set up in it
   ("it can never re-init a repository", folder-open.ts).                   *)
HasNoGit(f) == folder.kind[f] = "plain" /\ ParentRepo(f) = {}
ProjectsAreMeant ==
    [][/\ \A f \in ToSet(files'.opens) \ ToSet(files.opens) : folderKind(f) = "repo" \/ (HasNoGit(f) /\ f \in files.plains)
       /\ \A f \in files'.plains \ files.plains : HasNoGit(f)
       /\ gitInit'.step = "done" /\ gitInit.step # "done" => HasNoGit(gitInit.root)]_launchVars
=============================================================================
