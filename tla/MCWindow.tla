------------------------------ MODULE MCWindow ------------------------------
(***************************************************************************)
(* The windows a person works in, part by part, each alone, as MCServices  *)
(* does it for the daemon: `windowPart` picks one, whose variables change  *)
(* while the others' keep their initial values.                            *)
(***************************************************************************)
EXTENDS ProjectView, Promises, TerminalPanes, LandOrder, Rail, BrowserAgent,
        Commands, Review, Launch, Dialogs, Cli

VARIABLES windowPart     \* the part explored

windowVars == <<windowPart, viewVars, stageVars, tuiVars, copyVars, paneVars, settingsVars,
                landOrderVars, projectsVars, railVars, browserVars, keysVars, reviewVars, updateVars, composerVars, dashVars, launchVars, commandVars, lookVars, newSessionVars, cliVars>>

WindowParts == {"view shells", "view lists", "stage", "tui", "copy mode",
                "pane link", "pane size", "renderers", "settings", "settings file", "land",
                "projects", "project actions",
                "rail news", "rail jumps", "rail edits",
                "browser switch", "browser asks",
                "keys",
                "file pane", "comments",
                "installer", "updates",
                "prompt sends", "prompt refines",
                "dashboard rows", "dashboard actions",
                "launch", "folders",
                "command lines", "command bar",
                "compare", "debug pane", "checkpoint rows",
                "session picker", "session creates",
                "cw", "cw attach"}

WindowAlone(p) ==
    /\ windowPart = p /\ UNCHANGED windowPart
    /\ IF p \in {"view shells", "view lists"} THEN TRUE ELSE UNCHANGED viewVars
    /\ IF p = "stage" THEN TRUE ELSE UNCHANGED stageVars
    /\ IF p = "tui" THEN TRUE ELSE UNCHANGED tuiVars
    /\ IF p = "copy mode" THEN TRUE ELSE UNCHANGED copyVars
    /\ IF p \in {"pane link", "pane size"} THEN TRUE ELSE UNCHANGED <<linkVars, sizeVars>>
    /\ IF p = "renderers" THEN TRUE ELSE UNCHANGED gl
    /\ IF p \in {"settings", "settings file"} THEN TRUE ELSE UNCHANGED settingsVars
    /\ IF p = "land" THEN TRUE ELSE UNCHANGED landOrderVars
    /\ IF p \in {"projects", "project actions"} THEN TRUE ELSE UNCHANGED projectsVars
    /\ IF p \in {"rail news", "rail jumps"} THEN TRUE ELSE UNCHANGED railLists
    /\ IF p \in {"browser switch", "browser asks"} THEN TRUE ELSE UNCHANGED browserVars
    /\ IF p = "keys" THEN TRUE ELSE UNCHANGED keysVars
    /\ IF p \in {"file pane", "comments"} THEN TRUE ELSE UNCHANGED reviewVars
    /\ IF p \in {"installer", "updates"} THEN TRUE ELSE UNCHANGED updateVars
    /\ IF p \in {"prompt sends", "prompt refines"} THEN TRUE ELSE UNCHANGED composerVars
    /\ IF p \in {"dashboard rows", "dashboard actions"} THEN TRUE ELSE UNCHANGED dashVars
    /\ IF p \in {"launch", "folders"} THEN TRUE ELSE UNCHANGED launchVars
    /\ IF p \in {"command lines", "command bar"} THEN TRUE ELSE UNCHANGED commandVars
    /\ IF p \in {"compare", "debug pane", "checkpoint rows"} THEN TRUE ELSE UNCHANGED lookVars
    /\ IF p \in {"session picker", "session creates"} THEN TRUE ELSE UNCHANGED newSessionVars
    /\ IF p = "cw" THEN TRUE ELSE UNCHANGED commandState
    /\ IF p = "cw attach" THEN TRUE ELSE UNCHANGED att
    /\ IF p = "rail edits" THEN TRUE ELSE UNCHANGED railEdits

(* Two sessions with commits; the older may be live, the younger at odds with
   the base.  For the other parts one of these.                            *)
StartOfLands ==
    /\ \A s \in LandSessions : agentOf[s].ahead
    /\ agentOf[LandRank[2]].status = "idle" /\ LandRank[1] \notin atOdds
    /\ rules.test = "untrusted" => rules.threshold = 2
    /\ clashes = {} \/ atOdds = {}
    /\ rules.test = "untrusted" \/ rules.threshold = 1 => clashes = {} /\ atOdds = {}
    /\ IF rules.test = "trusted" THEN rules.threshold = 2 /\ \A p \in LandPairs : pairRow[p] # NoRow
       ELSE fullRow = NoRow
    /\ windowPart # "land" =>
          /\ rules = [test |-> "none", threshold |-> 2] /\ fullRow = NoRow /\ clashes = {} /\ atOdds = {} /\ agentOf[LandRank[1]].status = "idle"
          /\ \A p \in LandPairs : pairRow[p] = NoRow

(* One session makes the news, or all wait to be jumped to. *)
StartOfRail ==
    /\ \A s \in RailSessions \ {"s1"} : rowFacts[s].activity = "idle" /\ rowFacts[s].check.at = 0
    /\ focusedRow \in {"none", "s1"}
    /\ windowPart # "rail news" =>
          place = "here" /\ focusedRow = "none" /\ rowFacts["s1"].activity = "idle" /\ rowFacts["s1"].check.at = 0
    /\ windowPart # "rail jumps" => \A s \in RailSessions : landable[s] = "none"

OneRow == [name |-> 1, status |-> "idle", shared |-> FALSE, agent |-> FALSE, working |-> FALSE,
           age |-> 336, disk |-> Unknown, ahead |-> 1, changed |-> 0, moves |-> 0]

FactsOf(r) == [s \in {"d1", "d2"} |-> IF s = "d1" THEN r ELSE [OneRow EXCEPT !.disk = 6]]
DashRowKinds ==
    {r \in [name : {1}, status : {"idle", "running", "waiting", "dead", "landed"}, shared : BOOLEAN, agent : BOOLEAN,
            working : BOOLEAN, age : {0, 24, 168, 336}, disk : {Unknown, 1, 6}, ahead : {Unknown, 0, 1},
            changed : {Unknown, 0, 1}, moves : {0}] :
       /\ r.shared => r.disk = Unknown
       /\ r.agent \/ r.working => r.status = "running"
       /\ r.status = "waiting" => r.age = 24 /\ ~r.shared}
DashFacts == {FactsOf(r) : r \in DashRowKinds}

(* One session of any kind beside one of the same name in another project; or two
   whose disk is not measured.                                              *)
StartOfDash ==
    facts \in IF windowPart = "dashboard rows" THEN DashFacts
              ELSE IF windowPart = "dashboard actions"
              THEN {f \in DashFacts :
                      /\ f["d1"].status \in {"idle", "dead", "running"}
                      /\ [f["d1"] EXCEPT !.status = "idle", !.ahead = 1, !.disk = Unknown] = OneRow
                      /\ f["d1"].disk = IF f["d1"].status = "idle" /\ f["d1"].ahead = 0 THEN Unknown ELSE 6}
              ELSE {FactsOf(OneRow)}

(* Lines about two sessions or none, in a project that wants worktrees or not. *)
StartOfCommands ==
    /\ \A id \in RowIds : barList.names[id] \in {NoWord, IF id = "i1" THEN "n1" ELSE "n2"}
    /\ barList.focused \in {NoWord, "i1"} /\ barDefaults.worktree = (barDefaults.base # NoWord)
    /\ windowPart # "command lines" => barList.focused = "i1" /\ barDefaults.worktree

(* One line and one attach, for the parts they do not move in. *)
PlainLine == [verb |-> "gc", sure |-> TRUE, strong |-> FALSE, tty |-> FALSE]
StartOfCw ==
    IF windowPart = "cw" THEN LineTyped
    ELSE /\ cw = PlainLine /\ repo = [configOk |-> TRUE, up |-> TRUE, spawned |-> FALSE]
         /\ shellNames = Nameless
StartOfAttach == windowPart # "cw attach" => att.step = "attaches" /\ att.shell /\ ~att.tui

WindowInit ==
    /\ windowPart \in WindowParts
    /\ ViewInit /\ world.sessions = {"s1"} /\ StageInit /\ TuiInit
    /\ CopyInit /\ (windowPart # "copy mode" => text = << <<>> >>) /\ PanesInit
    /\ SettingsInit /\ (windowPart # "settings" => ~olderDaemon /\ ~file.guarded)
    /\ LandOrderInit /\ StartOfLands
    /\ ProjectsInit /\ (windowPart \notin {"projects", "project actions"} => openRoots = <<"r1">>)
    /\ RailInit /\ StartOfRail
    /\ NewSessionInit
    /\ (windowPart \notin {"session picker", "session creates"} => installed = {} /\ lastLauncher = "terminal")
    /\ LooksInit
    /\ CommandsInit /\ StartOfCommands
    /\ LaunchInit /\ (windowPart # "folders" => \A f \in Folders : folder.kind[f] = "repo")
    /\ StartOfDash /\ DashInit
    /\ ComposerInit
    /\ UpdatesInit /\ (windowPart # "installer" => installer.ships /\ \A p \in PieceNames : target[p] = "old")
    /\ ReviewInit /\ (windowPart # "file pane" => onDisk.kind = "text")
    /\ (windowPart # "comments" => targetShell = "agent")
    /\ KeysInit
    /\ BrowserInit
    /\ AttachInit /\ StartOfAttach
    /\ StartOfCw /\ NothingDone

-----------------------------------------------------------------------------
(* A project's view, in two halves: shells opened over loads, closed panes
   and reloads of the window; and the sessions listed, with neither.       *)
ShowsChanges(st) == \E s \in ViewSessions : ChangesPane(s) \in Shown(st)

ViewShells ==
    /\ WindowAlone("view shells") /\ ViewNext
    /\ world'.epoch = 0 /\ making' = "no" /\ ~ShowsChanges(desk')
    /\ ~\E s \in ViewSessions : FocusRow(s)

ViewLists ==
    /\ WindowAlone("view lists") /\ ViewNext
    /\ shells' = {} /\ viewKnown' \in {NotLoaded, {}} /\ lastDesk' = EmptyStage
    /\ Cardinality(TabIds(desk')) >= Cardinality(TabIds(desk)) \/ loads' # loads
    /\ ShowsChanges(desk') => nextId' <= 2

(* A pane's link to its shell over restarts and lost connections; and the
   shell's size over fewer of them.                                        *)
PaneLinks == WindowAlone("pane link") /\ LinkNext /\ looks' = 0
PaneSizes == WindowAlone("pane size") /\ LinkNext /\ ShellMoves' <= MaxShellMoves - 1

(* A window's projects under everything asked of them, twice; and under clicks,
   three times, that always reach their project.                            *)
ProjectList == WindowAlone("projects") /\ ProjectsNext /\ askedOf' < MaxAsked
ProjectActions ==
    /\ WindowAlone("project actions") /\ ProjectsNext
    /\ \A c \in ToSet(calls') : c.why \notin {"main", "reorder"}
    /\ \A c \in ToSet(answers') : c.kind = "ensure" => c.ok
    /\ askedOf' = askedOf \/ calls' = calls \/ calls'[Len(calls')].kind # "list"

(* News of one session: two changes, of which the person sees the second come. *)
RailNews ==
    /\ WindowAlone("rail news") /\ RailNext /\ focusedRow' \in {"none", "s1"}
    /\ \A s \in RailSessions \ {"s1"} : rowFacts'[s] = rowFacts[s]
    /\ place' = place \/ (focusedRow' = focusedRow /\ railRows # NotListed)
    /\ railMoved' = 2 => railRows # NotListed

(* The switch of a Browser pane over two pages; and what an agent asks of one
   page, whose debugger nothing else takes.                                 *)
BrowserSwitch ==
    /\ WindowAlone("browser switch") /\ BrowserNext /\ UNCHANGED askVars
    /\ pageMoves' <= 1 /\ Len(toMain' \o toView') <= 2
    /\ \A g \in Guests : pageOf[g].alive \/ pageOf'[g].site = "local"
BrowserDialogs ==
    /\ WindowAlone("browser asks") /\ BrowserNext
    /\ lastGuest' <= 1 /\ (mounted.ready => mounted'.ready)
    /\ toMain = <<>> \/ Len(toMain') < Len(toMain)
    /\ toView = <<>> \/ Len(toView') < Len(toView)
    /\ <<ticks', pageMoves'>> = <<ticks, pageMoves>> \/ \E r \in BrowserAsks : ask[r].state = "waits"
    /\ ask' = ask \/ mounted.level = "control" \/ ask["a1"].state # "none"
    /\ ask'["a2"] # NotAsked => ask["a1"] # NotAsked /\ ask'["a2"].cmd # "read"
    /\ \A g \in Guests : captureOf'[g].rows = {} /\ ~pageOf'[g].taken

(* A file of the worktree, edited in one go, with a third writing of it at most;
   and comments, either sent, and once more if the answer was lost, or kept over
   a change of the diff.                                                       *)
FileEdits ==
    /\ WindowAlone("file pane") /\ FileNext
    /\ onDisk'.stamp <= (IF racedStamps = {} THEN MaxTexts ELSE MaxTexts + 1) /\ (filePane.dirty /\ filePane'.dirty => filePane'.doc = filePane.doc)
    /\ changedMeanwhile' => Len(fileCalls') <= 1
    /\ onDisk.kind # "text" /\ Len(fileCalls) # 1 => onDisk'.kind = onDisk.kind
    /\ Len(fileCalls) = 2 /\ Len(fileCalls') = 1 => filePane'.status # "error"
    /\ racedStamps # {} => onDisk'.kind = "text" /\ Len(fileCalls') <= 1
    /\ lostTexts # {} => Len(fileCalls') <= Len(fileCalls)
DiffComments ==
    /\ WindowAlone("comments") /\ CommentNext
    /\ commits' # commits => HeldComments # {} /\ composing = NoLine
    /\ \/ commits' = 0 /\ (diffCall' = NoDiff \/ shownDiff = NoDiff)
       \/ pastes' = <<>> /\ ~sendRun'.on
    /\ Len(pastes) = 1 => ~pastes[1].told \/ pastes' = pastes

(* The shared config, under `cw` runs or under the cockpit's notice. *)
NoticeUsed == notice'.looks # <<>> \/ notice'.latest # 0
UsesConfig ==
    /\ WindowAlone("updates") /\ ConfigNext
    /\ proc'["p2"] # Idle => proc["p1"] # Idle \/ proc["p2"] # Idle
    /\ released' # released => \A p \in UpdateProcs : proc[p] = NotUsing
    /\ globalConfig'.known = 0 => uses'.aged = 0
    /\ (\E p \in UpdateProcs : proc'[p].kind = "enable") => notice.looks # <<>> \/ notice.latest # 0
    /\ NoticeUsed => /\ running' = 1 /\ configWrites' <= 2 /\ globalConfig'.known = 0 /\ proc'["p2"] = NotUsing
                      /\ \A p \in UpdateProcs : proc'[p].kind \notin {"check", "switch"}

(* Prompts: the first may have many lines; what runs in a shell changes under a Send. *)
PromptSends ==
    /\ WindowAlone("prompt sends") /\ SendNext /\ mounts' <= 2
    /\ promptsWritten' = 2 /\ composerDraft' # NoText => ~composerDraft'.many
    /\ targetMoves' # targetMoves => sends # {} \/ clicked = 0
    /\ promptsWritten' > 1 => targetMoves' = 0

(* The dashboard: one answer about everything; and what is done of it. *)
DashRows ==
    /\ WindowAlone("dashboard rows") /\ DashNext
    /\ gate'.started = 1 /\ pendingAction' = NoAction /\ facts' = facts
    /\ \A c \in asking' : (DOMAIN c.entries # {2}) /\ (2 \in DOMAIN c.entries => c.entries[2].state = "ok")
DashActions ==
    /\ WindowAlone("dashboard actions") /\ DashNext
    /\ dashMoves' # dashMoves =>
          /\ dashData.at > 0 /\ asking = {} /\ ("d2" \in DOMAIN facts => facts'["d2"] = facts["d2"])
          /\ "d1" \in DOMAIN facts => facts'["d1"].status = facts["d1"].status \/ facts'["d1"].ahead = facts["d1"].ahead
    /\ pendingAction'.ids \subseteq {"d1"} /\ (timer' => confirmed' = 0)
    /\ \A c \in asking' : /\ DOMAIN c.entries # {1} /\ (2 \in DOMAIN c.entries => c.entries[2].state = "ok")
                         /\ 1 \in DOMAIN c.entries => c.entries[1].state # "needs-restart"
    /\ \/ /\ pendingAction' = NoAction /\ confirmed' = 0 /\ facts["d1"].status = "idle" /\ facts["d1"].ahead = 0
          /\ (dashMoves' # dashMoves => [facts'["d1"] EXCEPT !.disk = 6] = [facts["d1"] EXCEPT !.disk = 6])
       \/ /\ polls' = 0 /\ gate'.started <= 2 /\ ~lastLookFailed' /\ (asking' # {} => pendingAction' = NoAction)
          /\ dashMoves' # dashMoves => pendingAction # NoAction \/ underWay # {}

(* The main process over launches, crashes and a second `cw`; and what becomes of a
   folder that may have no git.                                             *)
Launches ==
    /\ WindowAlone("launch") /\ LaunchNext
    /\ folder'.moves = 0 /\ frame'.dialog = NoFolderDialog /\ files'.plains = {} /\ Len(ensures') <= 2
OpensFolders ==
    /\ WindowAlone("folders") /\ LaunchNext
    /\ app'.starts > 1 => app.state = "running" /\ frame.booted \in {"yes", "failed"}
    /\ (app'.state # "off" /\ frame'.state # "none") \/ frame.state = "none"
    /\ Len(ensures') <= 1 /\ (stageRoot # NoFolder => stageRoot' # NoFolder) /\ ToSet(files.opens) \subseteq ToSet(files'.opens)

(* Any line typed once; and two lines and a third, in two views. *)
CommandLines ==
    /\ WindowAlone("command lines")
    /\ IF bars["v1"].line = <<>> THEN CommandsNext ELSE TypesNone
    /\ bars'["v2"] = bars["v2"] /\ barList' = barList
    /\ bars'["v1"].gen <= 1 /\ (bars["v1"].line # <<>> => bars'["v1"].line \in {<<>>, bars["v1"].line})
CommandBars ==
    /\ WindowAlone("command bar")
    /\ \/ TypesNone
       \/ \E v \in BarViews, l \in {<<"start", "n1">>, <<"kill", "--rm">>, <<"next">>} : TypesLine(v, l)
    /\ Len(ranLines'["v1"]) + Len(ranLines'["v2"]) <= 3 /\ Len(ranLines'["v2"]) <= 1
    /\ barList' # barList => Len(ranLines["v1"]) = 1 /\ barRuns # <<>>
    /\ barList.moves = 1 => Len(ranLines'["v1"]) + Len(ranLines'["v2"]) = 1
    /\ bars'["v2"] # bars["v2"] => ~bars'["v1"].open /\ barRuns = <<>>
    /\ \A v \in BarViews :
          /\ bars'[v].gen <= (IF v = "v1" THEN 3 ELSE 1) /\ (bars[v].open /\ ~bars'[v].open => bars[v].line # <<>>)
          /\ bars[v].line # <<>> => bars'[v].line \in {<<>>, bars[v].line} \/ bars[v].recall > 0
          /\ bars'[v].line \in {<<>>, <<"start", "n1">>, <<"kill", "--rm">>, <<"next">>}

(* Two sessions side by side, the debug pane, and the checkpoints: a turn's diff or
   restores of two, over a third taken.                                       *)
ComparesTwo ==
    /\ WindowAlone("compare") /\ LooksNext
    /\ revision' <= 2 /\ Cardinality(reads') <= 3 /\ debugPane' = debugPane
    /\ comparing'.ids \in {<<>>, <<"c1", "c2">>, <<"c1", "c3">>}
    /\ comparing.ids = <<>> => comparing'.ids # <<"c1", "c3">>
ReadsDebug == WindowAlone("debug pane") /\ LooksNext /\ comparing' = comparing
CheckpointRows ==
    /\ WindowAlone("checkpoint rows") /\ PointsNext
    /\ restores' = <<>> \/ pointRead' = <<>>
    /\ agentWorks' # agentWorks => Len(restores) = 1
    /\ Len(keptPoints') < Len(keptPoints) => pointRows # <<>>

(* A picker, or two asked for at once, to one request; and two requests to their end,
   with the file finder before them.                                          *)
PicksSession ==
    /\ WindowAlone("session picker") /\ NewSessionNext
    /\ sessionsMade' = {} /\ Len(creates') <= 1 /\ (creates # <<>> => creates' = <<>>)
    /\ Len(opening') > Len(opening) => picker = ClosedPicker
    /\ installed' # installed => Len(opening) = 2
    /\ finder' = finder
CreatesSessions ==
    /\ WindowAlone("session creates") /\ NewSessionNext
    /\ picker.open /\ picker'.open => picker' = [picker EXCEPT !.name = picker'.name, !.touched = TRUE]
    /\ picker'.open => picker'.name # BadName
    /\ Len(opening') <= 1 /\ installed' = installed
    /\ (finder' # NoFinder \/ fileShown.session # 0) => creates' = <<>> /\ opening' = <<>>

(* Lands one after the other.  The world moves before the first and during one, from
   where the status was read; the next follows one that was carried out or stopped a
   session, and, once the world has moved, is of all or while all are listed.  *)
Lands ==
    /\ WindowAlone("land") /\ LandOrderNext
    /\ worked' # worked =>
          lander = NoLander \/ lander.at \in {"choose", "land", "closing", "stopped", "trying", "testing"}
    /\ lander.at = "idle" /\ lander'.at # "idle" =>
          /\ lander.ended \in {"no", "done"} \/ \E s \in LandSessions : agentOf[s].status = "dead"
          /\ worked # 0 => lander'.all \/ Listed = LandSessions

(* A terminal lent to a shell: two more things printed, typed or resized. *)
LendsTerminal ==
    /\ WindowAlone("cw attach") /\ AttachNext
    /\ att'.pushed + Len(att'.typed) + att'.size <= 3

WindowNext ==
    \/ PicksSession \/ CreatesSessions
    \/ ComparesTwo \/ ReadsDebug \/ CheckpointRows
    \/ CommandLines \/ CommandBars
    \/ ProjectList \/ ProjectActions
    \/ RailNews
    \/ WindowAlone("rail jumps") /\ RailNext /\ railMoved' = 0 /\ place' = "here" /\ (railRows # NotListed => listAnswer' = NotListed)
    \/ WindowAlone("rail edits") /\ EditNext
    \/ BrowserSwitch \/ BrowserDialogs
    \/ FileEdits \/ DiffComments
    \/ WindowAlone("installer") /\ InstallNext
    \/ WindowAlone("cw") /\ CommandNext
    \/ LendsTerminal
    \/ Launches \/ OpensFolders
    \/ UsesConfig \/ PromptSends \/ DashRows \/ DashActions
    \/ WindowAlone("prompt refines") /\ RefineNext /\ mounts' <= 2
    \/ WindowAlone("keys") /\ KeysNext
    \/ ViewShells \/ ViewLists \/ PaneLinks \/ PaneSizes
    \/ WindowAlone("settings") /\ ~mixed /\ SettingsNext
    \/ WindowAlone("settings file") /\ HandEdit
    \/ Lands
    \/ WindowAlone("copy mode") /\ CopyNext
    \/ WindowAlone("renderers") /\ GlNext
    \/ WindowAlone("stage") /\ StageNext
    \/ WindowAlone("tui") /\ TuiNext

(* A screen of words, of blanks and of nothing; it is empty for other parts. *)
Scrollbacks == {<< <<"b", ".">>, <<>>, <<" ", "b">> >>, << <<"b", " ">> >>, << <<>> >>}

(* Files a person may have edited: every one with a block, a preset list, a
   launcher list or an editor other than the default. *)
Launchers == [id : {Builtin, "mine", "odd"}, command : {"ok", "blank", "long"},
              label : {"ok", "blank", "long"}] \cup {Null}
HandEdited ==
    {[PlainFile EXCEPT !.fields = f] : f \in [{"size", "font"} -> {"ok", "bad"}]} \cup
    {[PlainFile EXCEPT !.presets = p] : p \in SeqOf([name : {"n1", "n2"}, ok : BOOLEAN], 3)} \cup
    {[PlainFile EXCEPT !.launchers = l] : l \in SeqOf(Launchers, 2)} \cup
    {[PlainFile EXCEPT !.editor = e] : e \in EDITORS \cup {"unknown"}}

TwoLands == <<"s1", "s2">>

(* This project, one with another base, and a plain folder. *)
PickedDefaults ==
    [r \in {"here", "there", "bare"} |->
        [worktree |-> r # "bare", plain |-> r = "bare", launcher |-> IF r = "here" THEN "claude" ELSE "terminal",
         base |-> CASE r = "here" -> "b2" [] r = "there" -> "b3" [] r = "bare" -> "none"]]

(* What may be typed in the command bar: every command with words of every kind. *)
ArgsOf(words, n) == UNION {[1..k -> words] : k \in 0..n}
CommandLinesTyped ==
    {<<"new">> \o a : a \in ArgsOf({"n1", "n3", "claude", "--shared", "--worktree", "--base", "--base=b1"}, 3)} \cup
    {<<v>> \o a : v \in {"kill", "land", "rename", "gc", "terminal"},
                  a \in ArgsOf({"n1", "n3", "i2", "b@d", "--rm", "--rm=x", "--all", "--force"}, 2)} \cup
    {<<v>> \o a : v \in {"start", "stop", "diff", "open", "browser", "settings", "attention", "next", "help", "bogus"},
                  a \in ArgsOf({"n1", "--rm"}, 1)}

DashProjectOf == [s \in {"d1", "d2"} |-> IF s = "d1" THEN 1 ELSE 2]
FolderInOther == {<<"f2", "f1">>}

WindowSpec == WindowInit /\ [][WindowNext]_windowVars

-----------------------------------------------------------------------------
(* A part that does not move keeps values its own part starts with, too: what is
   said of a part is looked at where it moves.                               *)
In(parts) == windowPart \in parts

ViewParts == {"view shells", "view lists"}
RailParts == {"rail news", "rail jumps"}
ProjectParts == {"projects", "project actions"}
BrowserParts == {"browser switch", "browser asks"}
PaneParts == {"pane link", "pane size", "renderers"}
SettingsParts == {"settings", "settings file"}
DashParts == {"dashboard rows", "dashboard actions"}
PromptParts == {"prompt sends", "prompt refines"}
LaunchParts == {"launch", "folders"}
CommandParts == {"command lines", "command bar"}
LookParts == {"compare", "debug pane", "checkpoint rows"}
PickParts == {"session picker", "session creates"}

(* What is on the stage, after any load, answer, click or gesture, and what the rail
   beside it tells; a terminal window takes keys and gives the terminal back; an agent's
   browser goes no further than it may; what was saved is listed, a name is saved once,
   and never when it was given up.  (What Promises says is checked beside this.)      *)
WindowIsSound ==
    /\ In(ViewParts) => OnePaneEach /\ ShellsAreShown
    /\ In({"stage"}) => StageIsUsable
    /\ In(ProjectParts) => ProjectsAgree /\ ActionsAreRun
    /\ In(PickParts) => MadeIsAsked
    /\ In(LookParts) => LooksAreFresh /\ RestoresAreSaid
    /\ In(RailParts) => FailuresToldOnce /\ LookedAtIsSeen /\ JumpsReachAll
    /\ In({"rail edits"}) => EditsSaveOnce
    /\ In(LaunchParts) => StageIsShown /\ SavedIsListed /\ RecentsAreExact
    /\ In(BrowserParts) => BrowserIsKept
    /\ In({"keys"}) => KeysAreSound
    /\ In(CommandParts) => HistoryIsExact
    /\ In({"cw"}) => CommandsAreConfirmed /\ NothingIsStarted /\ CommandsTellTruth
    /\ In({"cw attach"}) => TerminalIsGivenBack /\ AttachShowsAll /\ AttachTellsSize /\ ShellHearsTyping
    /\ In({"copy mode"}) => EscapesGiveKeysBack
    /\ In(PaneParts) => PaneHearsItsShell /\ ShellKnowsItsSize /\ ContextsInBudget
    /\ In(SettingsParts) => LoadedIsSavable
    /\ In({"file pane"}) => AgentsEditsAreSeen /\ DotIsTrue
    /\ In({"comments"}) => CommentsAreKept /\ CommentsAreExact
    /\ In(DashParts) => FiguresAddUp

(* What a load or a gesture leaves on the stage; what a line, a picker or a click names
   is what is killed, made or made a project; an older look replaces no newer one.    *)
StepsAreMeant ==
    /\ LoadsTakeOnlyTheDead /\ MovesKeepPanes /\ OnScreenKeepsItsGl
    /\ ClosedRunsNoMore /\ CommandsAreTyped /\ PicksAreMeant /\ ProjectsAreMeant /\ LooksOnlyNewer

WindowTypeOK ==
    /\ windowPart \in WindowParts
    /\ In(ViewParts) => ViewTypeOK
    /\ In({"tui"}) => TuiTypeOK
    /\ In({"copy mode"}) => CopyTypeOK
    /\ In(PaneParts) => PanesTypeOK
    /\ In(SettingsParts) => SettingsTypeOK
    /\ In({"land"}) => LandOrderTypeOK
    /\ In(ProjectParts) => ProjectsTypeOK
    /\ In(RailParts \cup {"rail edits"}) => RailTypeOK
    /\ In(BrowserParts) => BrowserTypeOK
    /\ In({"keys"}) => KeysTypeOK
    /\ In({"file pane", "comments"}) => ReviewTypeOK
    /\ In({"installer", "updates"}) => UpdatesTypeOK
    /\ In(PromptParts) => ComposerTypeOK
    /\ In(DashParts) => DashTypeOK
    /\ In(LaunchParts) => LaunchTypeOK
    /\ In(CommandParts) => CommandsTypeOK
    /\ In(LookParts) => LooksTypeOK
    /\ In(PickParts) => NewSessionTypeOK
    /\ In({"cw", "cw attach"}) => CliTypeOK
=============================================================================
