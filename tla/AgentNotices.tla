---------------------------- MODULE AgentNotices ----------------------------
(***************************************************************************)
(* `cw hooks install|remove` (cli/commands/hooks.ts, core/agent-hooks.ts): *)
(* entries that call `cw notify`, written into an agent's own settings,    *)
(* which the agent and its user write too.                                 *)
(*                                                                         *)
(* A command of a settings file is one of crossweave's or one of theirs; a *)
(* line of Codex's file is a key, an element of a list over several lines, *)
(* the head of a table, or one of the kinds of a notify key.               *)
(***************************************************************************)
EXTENDS Integers, FiniteSets, SequencesExt

CONSTANTS
    ClaudeFiles,    \* settings a user may have written
    CodexTexts,     \* and Codex's
    MaxHookRuns,    \* bound: runs of cw hooks
    MaxRewrites     \* bound: files written by the user or the agent meanwhile

Events == {"Stop", "Notification"}
NoList == << <<"no list">> >>
OddList == << <<"not a list">> >>
NoSettings == [kind |-> "absent", on |-> [e \in Events |-> NoList]]
Malformed == [kind |-> "malformed", on |-> [e \in Events |-> NoList]]
NotObject == [kind |-> "not an object", on |-> [e \in Events |-> NoList]]

ASSUME AgentHooksAssumption == {MaxHookRuns, MaxRewrites} \subseteq Nat

VARIABLES
    settings,       \* Claude's file: its hooks, a list of entries of an event
    toml,           \* Codex's file: its lines, or NoText
    hookRuns,       \* runs of cw hooks: [agent, action, pc, raw, fresh, copied]
    backups,        \* files copied to hooks-backup
    provenance,     \* the agents hooks-installed.json names
    theirs,         \* what the user and the agent last wrote, for both files
    overwrote,      \* history: <<agent, copied>> of a file a run has replaced without having
                    \* read it, since its owner last wrote it
    rewrites        \* times the user or the agent wrote a file while a run was at work

agentHooksVars == <<settings, toml, hookRuns, backups, provenance, theirs, overwrote, rewrites>>

NoText == <<"no file">>
NoCopy == <<"no copy">>
FileOf(agent) == IF agent = "claude" THEN settings ELSE toml
Puts(agent, f) == IF agent = "claude" THEN settings' = f /\ UNCHANGED toml
                                      ELSE toml' = f /\ UNCHANGED settings

Missing(agent, f) == IF agent = "claude" THEN f = NoSettings ELSE f = NoText

-----------------------------------------------------------------------------
(* Claude: an entry is a sequence of commands                              *)

IsOurs(entry) == "ours" \in ToSet(entry)
HasOurArgs(list) == list \notin {NoList, OddList} /\ \E entry \in ToSet(list) : IsOurs(entry)

Shapely(f) == f.kind \in {"absent", "ok"} /\ \A e \in Events : f.on[e] # OddList
Wanting(f) == {e \in Events : ~HasOurArgs(f.on[e])}

Added(list) == IF list = NoList THEN << <<"ours">> >> ELSE Append(list, <<"ours">>)

(* The events that wanted an entry before the confirmation's read and still do. *)
InstallClaude(f, changes) ==
    [kind |-> "ok", on |-> [e \in Events |-> IF e \in changes \cap Wanting(f) THEN Added(f.on[e]) ELSE f.on[e]]]

(* Only crossweave's commands go; an entry or a list left with nothing goes too. *)
KeptOf(list) ==
    LET stripped == [i \in DOMAIN list |-> SelectSeq(list[i], LAMBDA c : c # "ours")]
        kept == SelectSeq(stripped, LAMBDA entry : entry # <<>>)
    IN IF kept = <<>> THEN NoList ELSE kept
RemoveClaude(f) ==
    [f EXCEPT !.on = [e \in Events |-> IF HasOurArgs(f.on[e]) THEN KeptOf(f.on[e]) ELSE f.on[e]]]

-----------------------------------------------------------------------------
(* Codex: a sequence of lines                                              *)

OurLines == {"ours", "ours indented"}
NotifyKeys == OurLines \cup {"other notify"}
NotifyKeyLine(text) == SelectSeq(text, LAMBDA l : l \in NotifyKeys)

(* Before the first line that opens with a bracket, or else at the end. *)
InsertTopLevelKey(text) ==
    LET opens == {i \in DOMAIN text : text[i] \in {"table", "element"}}
    IN IF opens = {} THEN Append(text, "ours")
       ELSE InsertAt(text, CHOOSE i \in opens : \A j \in opens : i <= j, "ours")

RemoveCodexLine(text) ==
    LET mine == {i \in DOMAIN text : text[i] = "ours"}
    IN IF mine = {} THEN text ELSE RemoveAt(text, CHOOSE i \in mine : \A j \in mine : i <= j)

-----------------------------------------------------------------------------
(* A run of cw hooks                                                       *)

(* What it finds before anything is written: "stop" (it refuses, or there is
   nothing to do) or "go".                                                  *)
Finds(agent, action, f) ==
    CASE agent = "claude" /\ action = "install" -> IF Shapely(f) /\ Wanting(f) # {} THEN "go" ELSE "stop"
      [] agent = "claude" /\ action = "remove" ->
            IF f.kind = "ok" /\ \E e \in Events : HasOurArgs(f.on[e]) THEN "go" ELSE "stop"
      [] agent = "codex" /\ action = "install" -> IF f # NoText /\ NotifyKeyLine(f) = <<>> THEN "go" ELSE "stop"
      [] agent = "codex" /\ action = "remove" -> IF f # NoText /\ RemoveCodexLine(f) # f THEN "go" ELSE "stop"

AgentHooksInit ==
    /\ settings \in ClaudeFiles /\ toml \in CodexTexts
    /\ hookRuns = <<>> /\ backups = {} /\ provenance = {} /\ overwrote = {} /\ rewrites = 0
    /\ theirs = [claude |-> settings, codex |-> toml]

(* Asked for and confirmed, it reads the file; it ends there unless it has
   something to write.                                                      *)
RunHooksAction(agent, action) ==
    /\ Len(hookRuns) < MaxHookRuns
    /\ Finds(agent, action, FileOf(agent)) = "go"
    /\ hookRuns' = Append(hookRuns, [agent |-> agent, action |-> action, pc |-> "read",
                                     raw |-> FileOf(agent), fresh |-> FileOf(agent), copied |-> NoCopy])
    /\ UNCHANGED <<settings, toml, backups, provenance, theirs, overwrote, rewrites>>

(* Installing for Claude reads once more, and writes nothing to a file spoiled
   meanwhile; the other runs write from their first read.                   *)
ReadsAgain(i) ==
    LET r == hookRuns[i]
    IN /\ r.pc = "read"
       /\ hookRuns' = [hookRuns EXCEPT ![i] =
             IF r.agent # "claude" \/ r.action # "install" THEN [r EXCEPT !.pc = "write"]
             ELSE IF Shapely(settings) THEN [r EXCEPT !.pc = "write", !.fresh = settings]
             ELSE [r EXCEPT !.pc = "done"]]
       /\ UNCHANGED <<settings, toml, backups, provenance, theirs, overwrote, rewrites>>

ContentOf(r) ==
    CASE r.agent = "claude" /\ r.action = "install" -> InstallClaude(r.fresh, Wanting(r.raw))
      [] r.agent = "claude" /\ r.action = "remove" -> RemoveClaude(r.fresh)
      [] r.agent = "codex" /\ r.action = "install" -> InsertTopLevelKey(r.fresh)
      [] r.agent = "codex" /\ r.action = "remove" -> RemoveCodexLine(r.fresh)

(* The file as it is goes to the backups, if there was one at the first read; the
   copy fails, and with it the run, when it is gone by now.                 *)
BacksUp(i) ==
    LET r == hookRuns[i]
        there == ~Missing(r.agent, r.raw)
        now == FileOf(r.agent)
    IN /\ r.pc = "write"
       /\ IF there /\ Missing(r.agent, now)
          THEN hookRuns' = [hookRuns EXCEPT ![i].pc = "done"] /\ UNCHANGED backups
          ELSE /\ hookRuns' = [hookRuns EXCEPT ![i] =
                     [r EXCEPT !.pc = "copied", !.copied = IF there THEN <<r.agent, now>> ELSE NoCopy]]
               /\ backups' = IF there THEN backups \cup {<<r.agent, now>>} ELSE backups
       /\ UNCHANGED <<settings, toml, provenance, theirs, overwrote, rewrites>>

(* The new file is renamed over whatever is there. *)
WriteBack(i) ==
    LET r == hookRuns[i]
        now == FileOf(r.agent)
    IN /\ r.pc = "copied"
       /\ Puts(r.agent, ContentOf(r))
       /\ overwrote' = IF now = r.fresh THEN overwrote ELSE overwrote \cup {<<r.agent, r.copied = <<r.agent, now>> >>}
       /\ hookRuns' = [hookRuns EXCEPT ![i].pc = "written"]
       /\ UNCHANGED <<backups, provenance, theirs, rewrites>>

RecordProvenance(i) ==
    LET r == hookRuns[i]
    IN /\ r.pc = "written"
       /\ provenance' = IF r.action = "install" THEN provenance \cup {r.agent} ELSE provenance \ {r.agent}
       /\ hookRuns' = [hookRuns EXCEPT ![i].pc = "done"]
       /\ UNCHANGED <<settings, toml, backups, theirs, overwrote, rewrites>>

RunKilled(i) ==
    /\ hookRuns[i].pc # "done" /\ hookRuns' = [hookRuns EXCEPT ![i].pc = "done"]
    /\ UNCHANGED <<settings, toml, backups, provenance, theirs, overwrote, rewrites>>

(* The user, or the agent, writes the file whole. *)
Rewritten(agent, f) ==
    /\ rewrites < MaxRewrites /\ rewrites' = rewrites + 1
    /\ \E i \in DOMAIN hookRuns : hookRuns[i].agent = agent /\ hookRuns[i].pc # "done"
    /\ f # FileOf(agent) /\ Puts(agent, f) /\ theirs' = [theirs EXCEPT ![agent] = f]
    /\ overwrote' = {o \in overwrote : o[1] # agent}
    /\ UNCHANGED <<hookRuns, backups, provenance>>

AgentHooksNext ==
    \/ \E agent \in {"claude", "codex"}, action \in {"install", "remove"} : RunHooksAction(agent, action)
    \/ \E i \in DOMAIN hookRuns : ReadsAgain(i) \/ BacksUp(i) \/ WriteBack(i) \/ RecordProvenance(i) \/ RunKilled(i)
    \/ \E f \in ClaudeFiles : Rewritten("claude", f)
    \/ \E t \in CodexTexts : Rewritten("codex", t)

-----------------------------------------------------------------------------
(* The commands of a file that are not crossweave's, in their order. *)
BareClaude(f) ==
    IF f.kind \notin {"absent", "ok"} THEN [e \in Events |-> <<f.kind>>]
    ELSE [e \in Events |-> IF f.on[e] = NoList THEN <<>>
                           ELSE SelectSeq(FlattenSeq(f.on[e]), LAMBDA c : c # "ours")]
BareCodex(text) == SelectSeq(text, LAMBDA l : l \notin OurLines)

BareOf(agent, f) == IF agent = "claude" THEN BareClaude(f) ELSE BareCodex(f)

(* Whatever is installed and taken back, twice at once or killed half way, the
   user's own settings are as the user or the agent last wrote them, entry by entry;
   and a file that did not parse is never touched.  They are lost in one case only: a
   run replaced a file it had not read, for only an install for Claude reads again
   before it writes, and nothing holds off a writing after the last read
   (agent-hooks.ts).  They are then in the backups, unless there was no file when the
   run began or the writing came after its copy. *)
TheirsIsKept ==
    \A agent \in {"claude", "codex"} :
        LET isTheirs(f) == BareOf(agent, f) = BareOf(agent, theirs[agent])
        IN  \/ isTheirs(FileOf(agent))
            \/ <<agent, FALSE>> \in overwrote
            \/ <<agent, TRUE>> \in overwrote /\ \E b \in backups : b[1] = agent /\ isTheirs(b[2])

(* An event never notifies twice: of two runs at once, one adds. *)
NotifiesOnce ==
    /\ \A e \in Events : settings.on[e] \notin {NoList, OddList} =>
          Cardinality({i \in DOMAIN settings.on[e] : IsOurs(settings.on[e][i])}) <= 1
    /\ Len(NotifyKeyLine(toml)) <= 1

(* The key written to Codex's file is a key of the whole file, not of a table. *)
KeyIsTopLevel ==
    \A i, j \in DOMAIN toml : toml[i] = "table" /\ toml[j] = "ours" /\ BareCodex(theirs["codex"]) = theirs["codex"] => j < i

AgentHooksAreKept == TheirsIsKept /\ NotifiesOnce /\ KeyIsTopLevel

AgentHooksTypeOK ==
    /\ settings.kind \in {"absent", "malformed", "not an object", "ok"}
    /\ provenance \subseteq {"claude", "codex"} /\ overwrote \subseteq {"claude", "codex"} \X BOOLEAN
    /\ \A r \in ToSet(hookRuns) : r.pc \in {"read", "write", "copied", "written", "done"}

-----------------------------------------------------------------------------
(***************************************************************************)
(* The daemon's desktop notifications (src/notify): a land that ended, a   *)
(* pair of sessions whose trial merge turned out otherwise than before;    *)
(* what of them a workspace wants (`cw config notify`, NotifyConfigRepo),  *)
(* and the gate that spaces them.                                          *)
(***************************************************************************)

CONSTANTS
    NoticeKeys,     \* one budget each: the session landed, or the pair
    WindowTicks,    \* WINDOW_MS
    MaxPerWindow,   \* MAX_PER_WINDOW
    MaxTime,        \* bound: the clock
    MaxToggles      \* bound: settings changed

ASSUME NoticesAssumption == {WindowTicks, MaxPerWindow, MaxTime, MaxToggles} \subseteq Nat \ {0}

NoticeKinds == {"land", "convergence"}
KindOf(key) == key[1]
NeverSent == -1

VARIABLES
    clock,
    notifyRow,      \* notify_config: the row of the workspace, if it has one
    gateSent,       \* the gate: the times a key's budget was used
    coalesced,      \* the gate: when a key was last let through
    sentLog,        \* the times each key's notifications were sent, shown or not
    withheld,       \* and held back: [key, at]
    wants,          \* what the person asked for last: "all" and each kind
    toggles

noticesVars == <<clock, notifyRow, gateSent, coalesced, sentLog, withheld, wants, toggles>>

NoticesInit ==
    /\ clock = 1 /\ notifyRow = {} /\ sentLog = [k \in NoticeKeys |-> <<>>] /\ withheld = {} /\ toggles = 0
    /\ gateSent = [k \in NoticeKeys |-> {}] /\ coalesced = [k \in NoticeKeys |-> NeverSent]
    /\ wants = [k \in NoticeKinds \cup {"all"} |-> TRUE]

-----------------------------------------------------------------------------
(* What is wanted                                                          *)

DefaultRow == [enabled |-> TRUE, land |-> TRUE, convergence |-> TRUE]

(* The master switch wins; a workspace without a row wants everything. *)
IsEnabled(kind) == \A r \in notifyRow : r.enabled /\ r[kind]

(* Inserted with every other default, or the one column replaced. *)
SetNotify(column, on) ==
    /\ toggles < MaxToggles /\ toggles' = toggles + 1
    /\ notifyRow' = {[r EXCEPT ![column] = on] : r \in IF notifyRow = {} THEN {DefaultRow} ELSE notifyRow}
    /\ wants' = [wants EXCEPT ![IF column = "enabled" THEN "all" ELSE column] = on]
    /\ UNCHANGED <<clock, gateSent, coalesced, sentLog, withheld>>

-----------------------------------------------------------------------------
(* The gate                                                                *)

InWindow(key) == {t \in gateSent[key] : clock - t < WindowTicks}
Coalesces(key) == coalesced[key] # NeverSent /\ clock - coalesced[key] < WindowTicks
ShouldNotify(key) == ~Coalesces(key) /\ Cardinality(InWindow(key)) < MaxPerWindow

(* A notice let through counts against its budget whether or not the system
   shows it.                                                                *)
Notify(key) ==
    /\ IsEnabled(KindOf(key))
    /\ IF ShouldNotify(key)
       THEN /\ sentLog' = [sentLog EXCEPT ![key] = Append(@, clock)]
            /\ gateSent' = [gateSent EXCEPT ![key] = InWindow(key) \cup {clock}]
            /\ coalesced' = [coalesced EXCEPT ![key] = clock]
            /\ UNCHANGED withheld
       ELSE /\ withheld' = withheld \cup {[key |-> key, at |-> clock]}
            /\ gateSent' = IF Coalesces(key) THEN gateSent ELSE [gateSent EXCEPT ![key] = InWindow(key)]
            /\ coalesced' = IF Coalesces(key) THEN coalesced ELSE [coalesced EXCEPT ![key] = NeverSent]
            /\ UNCHANGED sentLog
    /\ UNCHANGED <<clock, notifyRow, wants, toggles>>

Tick == clock < MaxTime /\ clock' = clock + 1
        /\ UNCHANGED <<notifyRow, gateSent, coalesced, sentLog, withheld, wants, toggles>>

(* The gate is the process's: a restarted daemon starts anew, the row stays. *)
DaemonRestarts ==
    /\ \E k \in NoticeKeys : coalesced[k] # NeverSent
    /\ gateSent' = [k \in NoticeKeys |-> {}] /\ coalesced' = [k \in NoticeKeys |-> NeverSent]
    /\ sentLog' = [k \in NoticeKeys |-> <<>>] /\ withheld' = {}
    /\ UNCHANGED <<clock, notifyRow, wants, toggles>>

NoticesNext ==
    \/ \E k \in NoticeKeys : Notify(k)
    \/ \E c \in {"enabled"} \cup NoticeKinds, b \in BOOLEAN : SetNotify(c, b)
    \/ Tick \/ DaemonRestarts

NoticesSpec == NoticesInit /\ [][NoticesNext]_noticesVars

-----------------------------------------------------------------------------
(* Of one daemon: no two notices of a session or of a pair within a window, and
   none held back without one of the same shortly before it (notify/gate.ts). *)
NoticesAreSpaced ==
    /\ \A k \in NoticeKeys : \A i, j \in DOMAIN sentLog[k] :
          i < j => sentLog[k][j] - sentLog[k][i] >= WindowTicks
    /\ \A w \in withheld : \E t \in ToSet(sentLog[w.key]) : w.at - t \in 0..WindowTicks - 1

(* What is sent is what the person asked for, of all that was ever toggled in any
   order: a kind switched on does not undo the master switch.              *)
OnlyWanted == \A k \in NoticeKinds : IsEnabled(k) = (wants["all"] /\ wants[k])

NoticesAreDue == NoticesAreSpaced /\ OnlyWanted

NoticesTypeOK ==
    /\ clock \in 1..MaxTime /\ toggles \in 0..MaxToggles
    /\ notifyRow \subseteq [DOMAIN DefaultRow -> BOOLEAN] /\ Cardinality(notifyRow) <= 1
    /\ \A k \in NoticeKeys : gateSent[k] \subseteq 1..MaxTime /\ coalesced[k] \in {NeverSent} \cup 1..MaxTime
=============================================================================
