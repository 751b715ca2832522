------------------------------ MODULE Commands ------------------------------
(***************************************************************************)
(* The cockpit's command bar: the language of lib/commands.ts, the bar     *)
(* (CommandBar.tsx) that completes, recalls and submits a line, and what   *)
(* ProjectView.tsx (runCommand) does with a parsed command.  Several views *)
(* live at once, each with a bar and a history of its own, and one stored  *)
(* history between them.  A line is its words; what a command asks for     *)
(* further on (a land, a kill) is LandOrder's and the lifecycle's.         *)
(***************************************************************************)
EXTENDS Integers, FiniteSets, SequencesExt

CONSTANTS
    BarViews,       \* the live views
    RowIds,         \* sessions that may be listed
    RowNames,       \* their names, all valid
    NoWord,         \* no word, no id: none of the others
    TypedLines,     \* what may be typed
    UsableLaunchers, \* the usable launchers, "terminal" not among them
    MaxHistory,     \* HISTORY_MAX
    MaxRuns,        \* bound: commands run
    MaxListMoves    \* bound: changes of the session list

ASSUME CommandsAssumption ==
    /\ RowIds \cap RowNames = {} /\ MaxHistory \in Nat \ {0} /\ {MaxRuns, MaxListMoves} \subseteq Nat
    /\ \A l \in TypedLines : l # <<>> /\ NoWord \notin ToSet(l)

VARIABLES
    barList,        \* the session list: [names: id -> name or NoWord, focused: id or NoWord, moves]
    barDefaults,    \* the project's defaults for a new session: [worktree, base]
    bars,           \* view -> [open, gen, line, recall, busy, error]
    barRuns,        \* commands under way, in order: [view, gen, cmd]
    commandHistory, \* view -> its lines, newest first
    storedLines,    \* the history kept for the next window
    ranLines,       \* view -> the lines run, or read when it was mounted, oldest first
    lastAsked       \* what the last command run was to do: [view, cmd]

commandVars == <<barList, barDefaults, bars, barRuns, commandHistory, storedLines, ranLines, lastAsked>>

-----------------------------------------------------------------------------
(* The language *)

CommandNames == {"new", "start", "stop", "kill", "land", "diff", "term", "rename", "open", "browser",
                 "next", "settings", "gc", "help"}
SpecFor(w) == CASE w = "terminal" -> "term" [] w = "attention" -> "next"
                [] w \in CommandNames -> w [] OTHER -> NoWord

(* A flag written with a value, and the flag it is taken for. *)
FlagOf(w) == CASE w = "--base=b1" -> "--base" [] w = "--rm=x" -> "--rm" [] OTHER -> w
FlagWords == {"--rm", "--rm=x", "--all", "--force", "--shared", "--worktree", "--base", "--base=b1"}
BadNames == {"b@d"}

BarCommand(kind) ==
    [kind |-> kind, session |-> NoWord, word |-> NoWord, launcher |-> "terminal",
     where |-> "default", base |-> NoWord, flag |-> FALSE]
Refused == BarCommand("error")

NamedRows(list, w) == {id \in RowIds : list.names[id] # NoWord /\ w \in {list.names[id], id}}
FocusedName(list) == IF list.focused = NoWord THEN NoWord ELSE list.names[list.focused]

ParseNew(words, list) ==
    LET flags == ToSet(words) \cap FlagWords
        at == IF \E i \in DOMAIN words : words[i] = "--base"
              THEN CHOOSE i \in DOMAIN words : words[i] = "--base" /\ \A j \in 1..(i - 1) : words[j] # "--base"
              ELSE 0
        base == IF "--base=b1" \in flags THEN "b1"
                ELSE IF at > 0 /\ at < Len(words) THEN words[at + 1] ELSE NoWord
        kept == {i \in DOMAIN words : words[i] \notin FlagWords /\ (at = 0 \/ i # at + 1)}
        names == [k \in 1..Cardinality(kept) |->
                    words[CHOOSE i \in kept : Cardinality({j \in kept : j <= i}) = k]]
        launcher == IF Len(names) > 1 THEN names[2] ELSE "terminal"
    IN IF \/ \E f \in flags : FlagOf(f) \notin {"--base", "--shared", "--worktree"}
          \/ at > 0 /\ base \in {NoWord} \cup FlagWords
          \/ Len(names) \notin {1, 2}
          \/ launcher \notin {"terminal"} \cup UsableLaunchers
          \/ names[1] \in BadNames \/ names[1] \in {list.names[id] : id \in RowIds}
          \/ "--shared" \in flags /\ ("--worktree" \in flags \/ base # NoWord)
       THEN Refused
       ELSE [BarCommand("new") EXCEPT !.word = names[1], !.launcher = launcher, !.base = base,
               !.where = IF "--shared" \in flags THEN "shared"
                         ELSE IF "--worktree" \in flags \/ base # NoWord THEN "worktree" ELSE "default"]

parseCommand(typed, list) ==
    LET spec == SpecFor(Head(typed))
        words == Tail(typed)
        flags == ToSet(words) \cap FlagWords
        positional == SelectSeq(words, LAMBDA w : w \notin FlagWords)
        Stray(allowed) == \E f \in flags : FlagOf(f) \notin allowed
        wanted == IF positional = <<>> THEN FocusedName(list) ELSE positional[1]
        found == NamedRows(list, wanted)
        WithSession(allowed, cmd) ==
            IF Stray(allowed) \/ Len(positional) > 1 \/ found = {} THEN Refused
            ELSE [cmd EXCEPT !.session = CHOOSE id \in found : TRUE]
        WithWord(cmd) == IF Stray({}) THEN Refused
                         ELSE [cmd EXCEPT !.word = IF positional = <<>> THEN NoWord ELSE positional[1]]
    IN CASE spec = NoWord -> Refused
         [] spec = "new" -> ParseNew(words, list)
         [] spec \in {"start", "stop", "diff", "term"} -> WithSession({}, BarCommand(spec))
         [] spec = "kill" -> WithSession({"--rm"}, [BarCommand("kill") EXCEPT !.flag = "--rm" \in flags])
         [] spec = "land" /\ "--all" \in flags ->
                IF positional = <<>> THEN BarCommand("land-all") ELSE Refused
         [] spec = "land" /\ "--all" \notin flags -> WithSession({"--all"}, BarCommand("land"))
         [] spec = "rename" ->
                IF Len(positional) # 2 \/ found = {} \/ Stray({}) \/ positional[Len(positional)] \in BadNames
                THEN Refused
                ELSE [BarCommand("rename") EXCEPT !.session = CHOOSE id \in found : TRUE, !.word = positional[2]]
         [] spec \in {"open", "browser"} -> WithWord(BarCommand(spec))
         [] spec \in {"next", "settings", "help"} -> IF Stray({}) THEN Refused ELSE BarCommand(spec)
         [] spec = "gc" -> IF Stray({"--force"}) THEN Refused
                           ELSE [BarCommand("gc") EXCEPT !.flag = "--force" \in flags]

(* What the word being typed may become: a whole line (TypedLines' words are
   whole words, so a word that is begun is not told from one not typed yet). *)
completions(typed, list) ==
    IF typed = <<>> THEN {<<c>> : c \in CommandNames}
    ELSE LET spec == SpecFor(Head(typed)) IN
         CASE spec = "new" /\ Len(typed) = 2 -> {Append(typed, l) : l \in {"terminal"} \cup UsableLaunchers}
           [] spec \in {"start", "stop", "kill", "land", "diff", "term", "rename"} /\ Len(typed) = 1 ->
                {Append(typed, list.names[id]) : id \in {i \in RowIds : list.names[i] # NoWord}}
           [] OTHER -> {}

Cut(lines) == IF Len(lines) > MaxHistory THEN SubSeq(lines, 1, MaxHistory) ELSE lines
rememberLine(lines, typed) == Cut(<<typed>> \o SelectSeq(lines, LAMBDA l : l # typed))

-----------------------------------------------------------------------------
(* The bar *)

NoBar(gen) == [open |-> FALSE, gen |-> gen, line |-> <<>>, recall |-> 0, busy |-> FALSE, error |-> FALSE]
NoAsk == [view |-> NoWord, cmd |-> Refused]

CommandsInit ==
    /\ barList \in [names : {[id \in RowIds |-> NoWord]} \cup
                            {f \in [RowIds -> RowNames] : \A i, j \in RowIds : f[i] = f[j] => i = j},
                    focused : {NoWord} \cup RowIds, moves : {0}]
    /\ barList.focused # NoWord => barList.names[barList.focused] # NoWord
    /\ barDefaults \in [worktree : BOOLEAN, base : {NoWord, "b2"}]
    /\ bars = [v \in BarViews |-> NoBar(0)] /\ barRuns = <<>>
    /\ commandHistory = [v \in BarViews |-> <<>>] /\ storedLines = <<>> /\ ranLines = [v \in BarViews |-> <<>>]
    /\ lastAsked = NoAsk

(* The key opens it, or closes it: an open bar is another one than the last. *)
OpensBar(v) ==
    /\ ~bars[v].open
    /\ bars' = [bars EXCEPT ![v] = [NoBar(bars[v].gen + 1) EXCEPT !.open = TRUE]]
    /\ UNCHANGED <<barList, barDefaults, barRuns, commandHistory, storedLines, ranLines, lastAsked>>

ClosesBar(v) ==
    /\ bars[v].open /\ bars' = [bars EXCEPT ![v] = NoBar(@.gen)]
    /\ UNCHANGED <<barList, barDefaults, barRuns, commandHistory, storedLines, ranLines, lastAsked>>

(* Text typed, unless a command runs; Tab or a click takes a completion, the click at any time. *)
TypesLine(v, l) ==
    /\ bars[v].open /\ ~bars[v].busy
    /\ bars' = [bars EXCEPT ![v].line = l, ![v].recall = 0, ![v].error = FALSE]
    /\ UNCHANGED <<barList, barDefaults, barRuns, commandHistory, storedLines, ranLines, lastAsked>>

TakesCompletion(v) ==
    /\ bars[v].open
    /\ \E l \in completions(bars[v].line, barList) :
          bars' = [bars EXCEPT ![v].line = l, ![v].error = FALSE]
    /\ UNCHANGED <<barList, barDefaults, barRuns, commandHistory, storedLines, ranLines, lastAsked>>

(* The arrows walk the history from an empty line; a recalled line that is gone leaves none. *)
RecallsOlder(v) ==
    LET next == IF bars[v].recall < Len(commandHistory[v]) THEN bars[v].recall + 1 ELSE Len(commandHistory[v]) IN
    /\ bars[v].open /\ ~bars[v].busy /\ commandHistory[v] # <<>>
    /\ bars[v].line = <<>> \/ bars[v].recall > 0
    /\ bars' = [bars EXCEPT ![v].recall = next, ![v].line = commandHistory[v][next]]
    /\ UNCHANGED <<barList, barDefaults, barRuns, commandHistory, storedLines, ranLines, lastAsked>>

RecallsNewer(v) ==
    LET next == bars[v].recall - 1 IN
    /\ bars[v].open /\ ~bars[v].busy /\ bars[v].recall > 0
    /\ completions(bars[v].line, barList) = {}
    /\ bars' = [bars EXCEPT ![v].recall = next,
                  ![v].line = IF next \in DOMAIN commandHistory[v] THEN commandHistory[v][next] ELSE <<>>]
    /\ UNCHANGED <<barList, barDefaults, barRuns, commandHistory, storedLines, ranLines, lastAsked>>

(* What a new session is to be, the project's defaults filled in. *)
WithDefaults(cmd) ==
    IF cmd.kind # "new" THEN cmd
    ELSE LET own == cmd.where = "worktree" \/ (cmd.where = "default" /\ barDefaults.worktree) IN
         [cmd EXCEPT !.where = IF own THEN "worktree" ELSE "shared",
                     !.base = IF cmd.base # NoWord THEN cmd.base ELSE IF own THEN barDefaults.base ELSE NoWord]

ClosesFirst == {"new", "kill", "land", "land-all", "open", "settings"}
AtOnce == {"diff", "browser", "next", "settings"}

(* Enter on a line that does not parse, or on `help`. *)
SubmitsNothing(v) ==
    LET cmd == parseCommand(bars[v].line, barList) IN
    /\ bars[v].open /\ ~bars[v].busy /\ bars[v].line # <<>> /\ cmd.kind \in {"error", "help"}
    /\ bars' = [bars EXCEPT ![v].error = (cmd = Refused)]
    /\ UNCHANGED <<barList, barDefaults, barRuns, commandHistory, storedLines, ranLines, lastAsked>>

(* Enter on any other: remembered, closed at once or when it ended. *)
SubmitsLine(v) ==
    LET bar == bars[v]
        cmd == parseCommand(bar.line, barList)
    IN /\ bar.open /\ ~bar.busy /\ bar.line # <<>> /\ cmd.kind \notin {"error", "help"}
       /\ Len(ranLines[v]) < MaxRuns
       /\ commandHistory' = [commandHistory EXCEPT ![v] = rememberLine(@, bar.line)]
       /\ storedLines' = commandHistory'[v]
       /\ ranLines' = [ranLines EXCEPT ![v] = Append(@, bar.line)]
       /\ lastAsked' = [view |-> v, cmd |-> WithDefaults(cmd)]
       /\ barRuns' = IF cmd.kind \in AtOnce THEN barRuns
                     ELSE Append(barRuns, [view |-> v, gen |-> bar.gen, cmd |-> cmd.kind])
       /\ bars' = [bars EXCEPT ![v] = IF cmd.kind \in ClosesFirst \cup AtOnce THEN NoBar(@.gen)
                                      ELSE [@ EXCEPT !.busy = TRUE]]
       /\ UNCHANGED <<barList, barDefaults>>

(* A command ends: done, it closes the bar that is open by then; failed, its own
   bar says so.  Those that only ask further on have their own words for a failure. *)
RunEnds(i, done) ==
    LET r == barRuns[i] IN
    /\ ~done => r.cmd \in {"start", "stop", "rename", "gc"}
    /\ barRuns' = RemoveAt(barRuns, i)
    /\ bars' = IF done THEN [bars EXCEPT ![r.view] = NoBar(@.gen)]
               ELSE IF bars[r.view].open /\ bars[r.view].gen = r.gen
               THEN [bars EXCEPT ![r.view].busy = FALSE, ![r.view].error = TRUE]
               ELSE bars
    /\ UNCHANGED <<barList, barDefaults, commandHistory, storedLines, ranLines, lastAsked>>

(* A view let go of and mounted again reads what is stored. *)
MountsView(v) ==
    /\ \A i \in DOMAIN barRuns : barRuns[i].view # v
    /\ commandHistory[v] # storedLines
    /\ bars' = [bars EXCEPT ![v] = NoBar(@.gen)]
    /\ commandHistory' = [commandHistory EXCEPT ![v] = storedLines]
    /\ ranLines' = [ranLines EXCEPT ![v] = Reverse(storedLines)]
    /\ UNCHANGED <<barList, barDefaults, barRuns, storedLines, lastAsked>>

(* The list changes: a session is renamed, or is gone; another is focused. *)
ListMoves ==
    /\ barList.moves < MaxListMoves
    /\ \E id \in RowIds :
          /\ barList.names[id] # NoWord
          /\ \/ barList' = [barList EXCEPT !.focused = id, !.moves = @ + 1]
             \/ \E n \in (RowNames \cup {NoWord}) \ ToSet(SetToSeq({barList.names[i] : i \in RowIds})) :
                   barList' = [barList EXCEPT !.names[id] = n, !.moves = @ + 1,
                                 !.focused = IF n = NoWord /\ @ = id THEN NoWord ELSE @]
    /\ UNCHANGED <<barDefaults, bars, barRuns, commandHistory, storedLines, ranLines, lastAsked>>

TypesSome == \E v \in BarViews, l \in TypedLines : TypesLine(v, l)
TypesNone ==
    \/ \E v \in BarViews :
          \/ OpensBar(v) \/ ClosesBar(v) \/ TakesCompletion(v) \/ RecallsOlder(v) \/ RecallsNewer(v)
          \/ SubmitsNothing(v) \/ SubmitsLine(v) \/ MountsView(v)
    \/ \E i \in DOMAIN barRuns, done \in BOOLEAN : RunEnds(i, done)
    \/ ListMoves

CommandsNext == TypesSome \/ TypesNone

-----------------------------------------------------------------------------
CommandsTypeOK ==
    /\ \A v \in BarViews :
          /\ {bars[v].open, bars[v].busy, bars[v].error} \subseteq BOOLEAN
          /\ bars[v].recall \in 0..MaxHistory /\ bars[v].gen \in Nat
          /\ bars[v].busy => bars[v].open
    /\ lastAsked.view \in BarViews \cup {NoWord}

(* A view's history is what was run in it, or stored when it was mounted: newest first,
   each line once, the oldest forgotten; and the stored one is that of a view
   that ran a command or was mounted, whole.                                 *)
LatestOf(lines) ==
    LET RunAgain(i) == \E j \in (i + 1)..Len(lines) : lines[j] = lines[i]
        latest == {i \in DOMAIN lines : ~RunAgain(i)}
    IN [k \in 1..(IF Cardinality(latest) < MaxHistory THEN Cardinality(latest) ELSE MaxHistory) |->
           lines[CHOOSE i \in latest : Cardinality({j \in latest : j >= i}) = k]]
HistoryIsExact ==
    /\ \A v \in BarViews : commandHistory[v] = LatestOf(ranLines[v])
    /\ storedLines # <<>> => \E v \in BarViews : commandHistory[v] = storedLines

(* What is asked of the daemon is what the line says of the sessions as they are listed:
   the session it names by its word, or the focused one if it names none; a worktree
   deleted, every session landed, an ended one collected with its work only by the flag's
   own word; a new session in a worktree of its own only if the line or, the line
   silent, the project wants one, and from a base only with such a worktree.     *)
AskedIsTyped ==
    lastAsked' # lastAsked =>
        LET typed == bars[lastAsked'.view].line
            cmd == lastAsked'.cmd
            Says(w) == w \in ToSet(Tail(typed))
            named == {id \in RowIds : barList.names[id] # NoWord /\ (Says(barList.names[id]) \/ Says(id))}
        IN /\ cmd.session # NoWord =>
                 IF cmd.kind = "rename" THEN cmd.session \in named /\ Says(cmd.word)
                 ELSE IF \A i \in 2..Len(typed) : typed[i] \in FlagWords THEN cmd.session = barList.focused
                 ELSE named = {cmd.session}
           /\ cmd.flag => Says(IF cmd.kind = "kill" THEN "--rm" ELSE "--force")
           /\ (cmd.kind = "land-all") = (typed[1] = "land" /\ Says("--all"))
           /\ cmd.kind = "new" =>
                 /\ Says(cmd.word) /\ \A id \in RowIds : barList.names[id] # cmd.word
                 /\ cmd.where = "shared" <=>
                       \/ Says("--shared")
                       \/ ~barDefaults.worktree /\ ~Says("--worktree") /\ ~Says("--base") /\ ~Says("--base=b1")
                 /\ cmd.base # NoWord => cmd.where = "worktree"
                 /\ Says("--base=b1") => cmd.base = "b1"
CommandsAreTyped == [][AskedIsTyped]_commandVars

Commands == CommandsInit /\ [][CommandsNext]_commandVars

-----------------------------------------------------------------------------
(***************************************************************************)
(* The cockpit's shortcuts (lib/keymap.ts, lib/keytable.ts): the defaults  *)
(* with a person's own on top, recorded in Settings (ShortcutsPanel.tsx);  *)
(* the menu built from them (app-menu.ts); and the window's listener       *)
(* (App.tsx), with the prefix key that makes the next one a command.       *)
(*                                                                         *)
(* Four commands stand for all: two with a menu item, one without, and the *)
(* prefix.  A press spells a chord, or types a key, or both.               *)
(***************************************************************************)

CONSTANTS
    MaxRecords,     \* bound: changes made to the shortcuts
    PrefixTicks,    \* PREFIX_TIMEOUT_MS
    MaxKeyTime      \* bound: the listener's clock, which stands while no prefix waits

ASSUME KeysAssumption == {MaxRecords, PrefixTicks, MaxKeyTime} \subseteq Nat

ShortcutIds == {"split", "zoom", "cycle", "prefix"}
InMenu == {"split", "zoom"}
Chords == {"c1", "c2", "c3", "P", "shift+esc"}
TableKeys == {"k1", "k2", "k3", "kP", "Escape"}

Chord(c) == [kind |-> "chord", key |-> c]
Table(k) == [kind |-> "prefix", key |-> k]
Unbound == [kind |-> "none", key |-> "none"]

DefaultKey == [id \in ShortcutIds |->
    CASE id = "split" -> Chord("c1") [] id = "zoom" -> Chord("c2")
      [] id = "prefix" -> Chord("P") [] OTHER -> Unbound]
DEFAULT_TABLE == [k \in TableKeys |->
    CASE k = "k1" -> "split" [] k = "k2" -> "zoom" [] k = "k3" -> "cycle" [] OTHER -> "none"]

(* A press: the chord it spells, the key it types, and whether Ctrl, Cmd or Alt
   is down.  A modifier alone is neither.                                   *)
Pressed(c) ==
    IF c = "shift+esc" THEN [chord |-> c, key |-> "Escape", mods |-> FALSE]
    ELSE [chord |-> c, mods |-> TRUE,
          key |-> CASE c = "c1" -> "k1" [] c = "c2" -> "k2" [] c = "c3" -> "k3" [] c = "P" -> "kP"]
TypedKey(k) == [chord |-> "none", key |-> k, mods |-> FALSE]
Modifier == [chord |-> "none", key |-> "none", mods |-> TRUE]
Presses == {Pressed(c) : c \in Chords} \cup {TypedKey(k) : k \in TableKeys} \cup {Modifier}

VARIABLES
    keysDraft,      \* overrides in the order they were made: [id, bind]
    keysSaved,      \* as the menu and the window use them
    recording,      \* the capture dialog: [id, awaiting]
    keyTable,       \* [mode, since]
    prefixOn,       \* the hint on screen
    keyClock,
    records

keysVars == <<keysDraft, keysSaved, recording, keyTable, prefixOn, keyClock, records>>

NotRecording == [id |-> "none", awaiting |-> FALSE]
Root == [mode |-> "root", since |-> 0]

KeysInit ==
    /\ keysDraft = <<>> /\ keysSaved = <<>> /\ recording = NotRecording
    /\ keyTable = Root /\ prefixOn = FALSE /\ keyClock = 0 /\ records = 0

-----------------------------------------------------------------------------
(* What is bound                                                           *)

EffectiveKeys(over) == [id \in ShortcutIds |->
    IF \E i \in DOMAIN over : over[i].id = id
    THEN over[CHOOSE i \in DOMAIN over : over[i].id = id].bind ELSE DefaultKey[id]]

KeyConflicts(keys) ==
    {p \in ShortcutIds \X ShortcutIds : p[1] # p[2] /\ keys[p[1]] # Unbound /\ keys[p[1]] = keys[p[2]]}

(* One override of the key-table takes its key, and gives up the command's own. *)
Rebound(table, o) ==
    IF o.bind.kind # "prefix" THEN table
    ELSE [k \in TableKeys |-> IF k = o.bind.key THEN o.id ELSE IF table[k] = o.id THEN "none" ELSE table[k]]
BuildTable(over) == FoldLeft(Rebound, DEFAULT_TABLE, over)

Prefix(over) == EffectiveKeys(over)["prefix"]
MenuAccelerator(over, c) == {id \in InMenu : EffectiveKeys(over)[id] = Chord(c)}
MenuLessBindings(over, c) == {id \in ShortcutIds \ (InMenu \cup {"prefix"}) : EffectiveKeys(over)[id] = Chord(c)}

-----------------------------------------------------------------------------
(* Recording in Settings                                                   *)

(* Back to the default is no override at all; one made anew goes last. *)
SetKey(id, bind) ==
    keysDraft' =
        IF bind = DefaultKey[id] THEN SelectSeq(keysDraft, LAMBDA o : o.id # id)
        ELSE IF \E i \in DOMAIN keysDraft : keysDraft[i].id = id
        THEN [i \in DOMAIN keysDraft |-> IF keysDraft[i].id = id THEN [id |-> id, bind |-> bind] ELSE keysDraft[i]]
        ELSE Append(keysDraft, [id |-> id, bind |-> bind])

Captures(id) ==
    /\ recording = NotRecording /\ records < MaxRecords
    /\ recording' = [id |-> id, awaiting |-> FALSE] /\ records' = records + 1
    /\ UNCHANGED <<keysDraft, keysSaved, keyTable, prefixOn, keyClock>>

(* The buttons: None and Reset. *)
SetsByButton(id, bind) ==
    /\ recording = NotRecording /\ records < MaxRecords /\ records' = records + 1
    /\ EffectiveKeys(keysDraft)[id] # bind /\ SetKey(id, bind)
    /\ UNCHANGED <<keysSaved, recording, keyTable, prefixOn, keyClock>>

(* shortcutFromKey: what a key down means while the dialog is open. *)
Captured(p) ==
    IF p.key = "Escape" /\ p.chord = "none" THEN "cancel"
    ELSE IF recording.awaiting THEN (IF p.key = "none" THEN "ignore" ELSE "record table")
    ELSE IF p.chord = "none" THEN "ignore"
    ELSE IF recording.id # "prefix" /\ Prefix(keysDraft) = Chord(p.chord) THEN "await"
    ELSE "record chord"

CaptureKey(p) ==
    /\ recording # NotRecording
    /\ CASE Captured(p) = "cancel" -> recording' = NotRecording /\ UNCHANGED keysDraft
         [] Captured(p) = "ignore" -> UNCHANGED <<recording, keysDraft>>
         [] Captured(p) = "await" -> recording' = [recording EXCEPT !.awaiting = TRUE] /\ UNCHANGED keysDraft
         [] Captured(p) = "record table" -> SetKey(recording.id, Table(p.key)) /\ recording' = NotRecording
         [] Captured(p) = "record chord" -> SetKey(recording.id, Chord(p.chord)) /\ recording' = NotRecording
    /\ UNCHANGED <<keysSaved, keyTable, prefixOn, keyClock, records>>

(* Saved unless two commands share one; the menu and the window then use it. *)
SaveKeys ==
    /\ keysDraft # keysSaved /\ KeyConflicts(EffectiveKeys(keysDraft)) = {}
    /\ keysSaved' = keysDraft
    /\ UNCHANGED <<keysDraft, recording, keyTable, prefixOn, keyClock, records>>

-----------------------------------------------------------------------------
(* The listener                                                            *)

Lapsed(t, now) == t.mode = "prefix" /\ now - t.since > PrefixTicks

(* keyTableStep: the table after a press in a terminal pane, and what is done
   with it: passed on, swallowed, typed as the prefix itself, or a command. *)
Step(over, t, p, now) ==
    LET prefixed == Prefix(over) = Chord(p.chord)
        id == IF p.key = "none" \/ p.mods THEN "none" ELSE BuildTable(over)[p.key]
    IN  IF Prefix(over) = Unbound THEN [table |-> Root, does |-> "pass"]
        ELSE IF t.mode = "root" \/ Lapsed(t, now)
        THEN IF prefixed THEN [table |-> [mode |-> "prefix", since |-> now], does |-> "swallow"]
             ELSE [table |-> Root, does |-> "pass"]
        ELSE IF p.key = "none" THEN [table |-> t, does |-> "pass"]
        ELSE [table |-> Root,
              does |-> IF prefixed THEN "literal" ELSE IF p.key = "Escape" \/ id = "none" THEN "swallow" ELSE id]

(* What a press passed on does then: a command of no menu item, or it is typed. *)
Passed(over, p) == IF MenuLessBindings(over, p.chord) = {} THEN "typed" ELSE CHOOSE id \in MenuLessBindings(over, p.chord) : TRUE

Settled == recording = NotRecording /\ keysDraft = keysSaved /\ UNCHANGED <<keysDraft, keysSaved, recording, records>>

PressInTerminal(p) ==
    /\ Settled /\ keyTable' = Step(keysSaved, keyTable, p, keyClock).table
    /\ prefixOn' = (keyTable'.mode = "prefix")
    /\ keyClock' = IF prefixOn' THEN keyClock ELSE 0

(* Anywhere else the prefix is dropped. *)
PressElsewhere ==
    /\ Settled /\ keyTable.mode = "prefix"
    /\ keyTable' = Root /\ prefixOn' = FALSE /\ keyClock' = 0

(* The timer set when the hint appeared. *)
PrefixLapses ==
    /\ Settled /\ prefixOn /\ keyClock - keyTable.since >= PrefixTicks
    /\ keyTable' = Root /\ prefixOn' = FALSE /\ keyClock' = 0

KeyTick ==
    /\ Settled /\ keyTable.mode = "prefix" /\ keyClock < MaxKeyTime /\ keyClock' = keyClock + 1
    /\ UNCHANGED <<keyTable, prefixOn>>

KeysNext ==
    \/ \E id \in ShortcutIds : Captures(id) \/ \E b \in {Unbound, DefaultKey[id]} : SetsByButton(id, b)
    \/ \E p \in Presses : CaptureKey(p) \/ PressInTerminal(p)
    \/ SaveKeys \/ PressElsewhere \/ PrefixLapses \/ KeyTick

-----------------------------------------------------------------------------
(* What a press does, with what the menu takes before the window. *)
PressDoes(over, t, p, now) ==
    LET s == Step(over, t, p, now)
    IN  IF s.does # "pass" THEN s.does
        ELSE IF MenuAccelerator(over, p.chord) # {} THEN CHOOSE id \in MenuAccelerator(over, p.chord) : TRUE
        ELSE Passed(over, p)

(* Every shortcut Settings lists for a command runs that command and no other: the
   chord, or the prefix and then the key, however they came to be bound.  (Escape
   after the prefix cancels, though it can be recorded and is listed.)      *)
ListedKeysRun ==
    \A id \in ShortcutIds \ {"prefix"} :
        LET bind == EffectiveKeys(keysSaved)[id]
            prefix == Prefix(keysSaved)
        IN  /\ bind.kind = "chord" =>
                  /\ PressDoes(keysSaved, Root, Pressed(bind.key), keyClock) = id
                  /\ MenuAccelerator(keysSaved, bind.key) \cup MenuLessBindings(keysSaved, bind.key) = {id}
            /\ \A k \in TableKeys \ {"Escape"} :
                  (bind = Table(k) \/ BuildTable(keysSaved)[k] = id) /\ prefix.kind = "chord" =>
                      LET after == Step(keysSaved, Root, Pressed(prefix.key), keyClock)
                          runs == Step(keysSaved, after.table, TypedKey(k), keyClock)
                      IN  after.does = "swallow" /\ runs.does = id /\ runs.table = Root

(* The prefix takes one key, at once or within its time, and never a later one; with
   the hint on screen while it waits; and no prefix, nothing intercepted.   *)
PrefixTakesOneKey ==
    /\ prefixOn = (keyTable.mode = "prefix")
    /\ \A p \in Presses \ {Modifier} :
          LET s == Step(keysSaved, keyTable, p, keyClock)
              waits == prefixOn /\ keyClock - keyTable.since <= PrefixTicks /\ Prefix(keysSaved) # Unbound
          IN  IF waits THEN s.table = Root /\ s.does # "pass"
              ELSE s.does = "pass" \/ (s.does = "swallow" /\ s.table.mode = "prefix")
    /\ Prefix(keysSaved) = Unbound => \A p \in Presses : Step(keysSaved, keyTable, p, keyClock) = [table |-> Root, does |-> "pass"]

KeysAreSound == ListedKeysRun /\ PrefixTakesOneKey

KeysTypeOK ==
    /\ recording.id \in ShortcutIds \cup {"none"} /\ keyTable.mode \in {"root", "prefix"}
    /\ \A i, j \in DOMAIN keysDraft : i # j => keysDraft[i].id # keysDraft[j].id
=============================================================================
