------------------------------ MODULE Records -------------------------------
(***************************************************************************)
(* The tokens agents have used in a session's worktree, read by the daemon *)
(* from the agents' own logs (domain/agent-usage.ts): each file from where *)
(* the last read stopped, while the agent goes on writing it.  Claude Code *)
(* writes a message over several lines, each with the message's usage so   *)
(* far; Codex writes running totals, in rollouts whose first line names    *)
(* the directory they belong to.  A log's size is counted in half lines.   *)
(***************************************************************************)
EXTENDS Integers, FiniteSets, Sequences, SequencesExt, FiniteSetsExt

CONSTANTS ClaudeLogs, Rollouts, Messages, MaxLines, MaxRead, MaxLogRewrites

VARIABLES
    log,        \* file -> its lines, or NoLog
    half,       \* file -> is its last line still being written?
    spent,      \* ghost: file -> what its whole lines say was used since the session began
    fileState,  \* UsageReader.files
    rolloutCwd, \* UsageReader.rolloutCwd: "unread", "here", or null ("none")
    counted,    \* UsageTracker: the session's total, 0 when it has no entry
    truth,      \* ghost: what the logs said when it was counted, and which could not be told
    usageDue,   \* has minIntervalMs passed since the last run?
    tracked,    \* is the session among the targets?
    logRewrites

usageVars == <<log, half, spent, fileState, rolloutCwd, counted, truth, usageDue, tracked, logRewrites>>

LogFiles == ClaudeLogs \cup Rollouts
NoLog == <<[kind |-> "none", id |-> "none", since |-> FALSE, used |-> 0]>>
NoFileState == [size |-> -1, offset |-> 0, records |-> <<>>, whole |-> TRUE]
Meta == [kind |-> "meta", id |-> "none", since |-> FALSE, used |-> 0]
Message(id, since, n) == [kind |-> "message", id |-> id, since |-> since, used |-> n]
Total(since, n) == [kind |-> "total", id |-> "none", since |-> since, used |-> n]

(* statSync(path).size *)
Size(f) == 2 * Len(log[f]) - (IF half[f] THEN 1 ELSE 0)
WholeLines(f) == IF half[f] THEN Len(log[f]) - 1 ELSE Len(log[f])

LastUsed(lines) == IF lines = <<>> THEN 0 ELSE lines[Len(lines)].used

(* Each message id counts once, by its last line. *)
claudeUsageFrom(records) ==
    MapThenSumSet(LAMBDA m : LastUsed(SelectSeq(records, LAMBDA l : l.id = m /\ l.since)), Messages)

(* The last total less the last one written before the session began. *)
codexUsageFrom(records) ==
    LET last == LastUsed(SelectSeq(records, LAMBDA l : l.kind = "total" /\ l.since))
        prior == LastUsed(SelectSeq(records, LAMBDA l : l.kind = "total" /\ ~l.since))
    IN  Max({0, last - prior})

(* The file's state before this read: a file not read yet, or one smaller than
   it was, is read from the start, or from its last MAX_READ.               *)
Kept(f) ==
    IF fileState[f] = NoFileState \/ Size(f) < fileState[f].size
    THEN [size |-> 0, offset |-> Max({0, Size(f) - MaxRead}), records |-> <<>>,
          whole |-> Size(f) <= MaxRead]
    ELSE fileState[f]

(* UsageReader.records: the whole lines past the offset are taken in; what is
   before a first line end, when the read begins inside a line, is no JSON. *)
Read(f) ==
    IF log[f] = NoLog THEN NoFileState
    ELSE LET kept == Kept(f)
             end == 2 * WholeLines(f)
         IN  IF Size(f) > kept.offset /\ end > kept.offset
             THEN [kept EXCEPT !.size = Size(f), !.offset = end,
                               !.records = @ \o SubSeq(log[f], (kept.offset + 1) \div 2 + 1, WholeLines(f))]
             ELSE [kept EXCEPT !.size = Size(f)]

(* rolloutsFor: the first line is read once, and what it said is kept, a line
   that could not be read yet included.                                    *)
CwdFound(f) ==
    IF rolloutCwd[f] # "unread" \/ log[f] = NoLog THEN rolloutCwd[f]
    ELSE IF WholeLines(f) >= 1 /\ log[f][1] = Meta THEN "here" ELSE "none"

IsRead(f) == f \in ClaudeLogs \/ CwdFound(f) = "here"

UsageOf(f) ==
    IF ~IsRead(f) THEN 0
    ELSE IF f \in ClaudeLogs THEN claudeUsageFrom(Read(f).records) ELSE codexUsageFrom(Read(f).records)

(* A file whose rewriting no read can notice: it is no smaller than it was. *)
Mixed(f) == spent[f].rewritten /\ log[f] # NoLog /\ fileState[f] # NoFileState /\ Size(f) >= fileState[f].size

-----------------------------------------------------------------------------
(* session.list: UsageTracker.refresh over UsageReader.read, with no await in
   it; a session that landed or is gone loses its entry.                   *)
UsageRefresh ==
    /\ usageDue /\ usageDue' = FALSE
    /\ IF ~tracked
       THEN /\ counted' = 0 /\ truth' = [used |-> 0, told |-> TRUE]
            /\ UNCHANGED <<fileState, rolloutCwd, spent>>
       ELSE /\ fileState' = [f \in LogFiles |-> IF IsRead(f) THEN Read(f) ELSE fileState[f]]
            /\ rolloutCwd' = [f \in Rollouts |-> CwdFound(f)]
            /\ counted' = MapThenSumSet(UsageOf, LogFiles)
            /\ truth' = [used |-> MapThenSumSet(LAMBDA f : spent[f].used, LogFiles),
                         told |-> \A f \in LogFiles :
                                     log[f] = NoLog \/ (~Mixed(f) /\ IsRead(f) /\ Read(f).whole)]
            /\ spent' = [f \in LogFiles |-> [spent[f] EXCEPT !.rewritten = Mixed(f)]]
    /\ UNCHANGED <<log, half, tracked, logRewrites>>

MinIntervalPasses == ~usageDue /\ usageDue' = TRUE
    /\ UNCHANGED <<log, half, spent, fileState, rolloutCwd, counted, truth, tracked, logRewrites>>

(* The session lands: it is no target any more. *)
SessionLands == tracked /\ tracked' = FALSE
    /\ UNCHANGED <<log, half, spent, fileState, rolloutCwd, counted, truth, usageDue, logRewrites>>

-----------------------------------------------------------------------------
(* The agents, who write a line in two halves. *)

NextLines(f) ==
    IF f \in ClaudeLogs
    THEN {Message(m, TRUE, LastUsed(SelectSeq(log[f], LAMBDA l : l.id = m /\ l.since)) + 1) : m \in Messages}
    ELSE IF log[f] = NoLog THEN {Meta}
    ELSE {Total(TRUE, LastUsed(SelectSeq(log[f], LAMBDA l : l.kind = "total")) + 1)}

AgentWrites(f) ==
    /\ ~half[f] /\ (log[f] = NoLog \/ Len(log[f]) < MaxLines)
    /\ \E l \in NextLines(f) : log' = [log EXCEPT ![f] = IF @ = NoLog THEN <<l>> ELSE Append(@, l)]
    /\ half' = [half EXCEPT ![f] = TRUE]
    /\ UNCHANGED <<spent, fileState, rolloutCwd, counted, truth, usageDue, tracked, logRewrites>>

EndsLine(f) ==
    /\ half[f] /\ half' = [half EXCEPT ![f] = FALSE]
    /\ spent' = [spent EXCEPT ![f].used = @ + (IF Last(log[f]) = Meta THEN 0 ELSE 1)]
    /\ UNCHANGED <<log, fileState, rolloutCwd, counted, truth, usageDue, tracked, logRewrites>>

(* A log is deleted, or begun anew under its name. *)
Rewrites(f) ==
    /\ log[f] # NoLog /\ logRewrites < MaxLogRewrites /\ logRewrites' = logRewrites + 1
    /\ \E deleted \in BOOLEAN :
          log' = [log EXCEPT ![f] =
                    IF deleted THEN NoLog
                    ELSE IF f \in ClaudeLogs THEN <<Message(CHOOSE m \in Messages : TRUE, TRUE, 1)>>
                    ELSE <<Meta>>]
    /\ half' = [half EXCEPT ![f] = FALSE]
    /\ spent' = [spent EXCEPT ![f] = [used |-> IF log'[f] # NoLog /\ f \in ClaudeLogs THEN 1 ELSE 0,
                                      rewritten |-> TRUE]]
    /\ UNCHANGED <<fileState, rolloutCwd, counted, truth, usageDue, tracked>>

-----------------------------------------------------------------------------
(* A new session: the worktree's path may have been another session's, whose
   logs are still there.                                                   *)
UsageInit ==
    /\ log \in [LogFiles -> {NoLog, <<Meta, Total(FALSE, 2)>>}
                              \cup {<<Message(m, FALSE, 1)>> : m \in Messages}]
    /\ \A f \in LogFiles : log[f] = NoLog \/ (log[f][1] = Meta) = (f \in Rollouts)
    /\ half = [f \in LogFiles |-> FALSE]
    /\ spent = [f \in LogFiles |-> [used |-> 0, rewritten |-> FALSE]]
    /\ fileState = [f \in LogFiles |-> NoFileState]
    /\ rolloutCwd = [f \in Rollouts |-> "unread"]
    /\ counted = 0 /\ truth = [used |-> 0, told |-> TRUE]
    /\ usageDue = TRUE /\ tracked = TRUE /\ logRewrites = 0

UsageNext ==
    \/ UsageRefresh \/ MinIntervalPasses \/ SessionLands
    \/ \E f \in LogFiles : AgentWrites(f) \/ EndsLine(f) \/ Rewrites(f)

UsageTypeOK ==
    /\ \A f \in LogFiles : Len(log[f]) <= MaxLines /\ fileState[f].offset <= 2 * MaxLines
    /\ half \in [LogFiles -> BOOLEAN]
    /\ \A f \in LogFiles : spent[f].used \in Nat /\ spent[f].rewritten \in BOOLEAN
    /\ rolloutCwd \in [Rollouts -> {"unread", "here", "none"}]
    /\ counted \in Nat /\ truth.used \in Nat /\ truth.told \in BOOLEAN
    /\ usageDue \in BOOLEAN /\ tracked \in BOOLEAN /\ logRewrites \in 0..MaxLogRewrites

(* The figure is what the logs' whole lines said when it was taken: reading on
   from the last offset loses no line and counts none twice, a message's lines
   are one message, and what the path's earlier session used is not this one's
   (agent-usage.ts, records, claudeUsageFrom and codexUsageFrom).  Told apart
   are logs longer than MAX_READ, a rewriting to the same size or more, and a
   rollout whose first line was not whole at its first read.                *)
UsageIsWhole == truth.told => counted = truth.used

-----------------------------------------------------------------------------
(***************************************************************************)
(* The database of a project (db/open.ts, schema.ts) as several processes  *)
(* open it at once, of builds that know more or fewer migrations; and the  *)
(* history of ended sessions (repositories/session-history.ts).            *)
(*                                                                         *)
(* A migration is what it adds: tables, columns, and the kinds of event    *)
(* the event table takes, for which the table is copied over.              *)
(***************************************************************************)

CONSTANTS
    Openers,        \* processes that open the database
    Builds,         \* the schema versions their builds know
    WalAttempts,    \* WAL_SWITCH_ATTEMPTS
    HistoryKeep,    \* SESSION_HISTORY_KEEP
    MaxEnded        \* bound: sessions ended

Kinds4 == {"session.started", "session.forked", "commit.made"}
Adds(tables, columns, kinds) == [tables |-> tables, columns |-> columns, kinds |-> kinds]

Migrations1To5 == <<
    Adds({"schema_meta", "workspace", "session"}, {}, {}),
    Adds({"lease"}, {}, {}),
    Adds({"event", "message", "context_entry"}, {}, {"session.started", "commit.made"}),
    Adds({}, {}, Kinds4),
    Adds({"file_claim", "contract", "contract_sub"}, {}, {}) >>
Migrations6To13 == <<
    Adds({"merge_trial"}, {}, Kinds4 \cup {"session.landed"}),
    Adds({"config_trust"}, {}, {}),
    Adds({}, {"cost_spent_usd", "cost_budget_usd"}, {}),
    Adds({"notify_config"}, {}, {}),
    Adds({}, {"base_head"}, {}),
    Adds({}, {"pairwise"}, {}),
    Adds({}, {"launch_args"}, {}),
    Adds({}, {"note"}, {}) >>
Migrations14To18 == <<
    Adds({"session_setup"}, {"hooks_hash"}, {}),
    Adds({"terminal"}, {}, {}),
    Adds({}, {"exit_code"}, {}),
    Adds({"session_history"}, {}, {}),
    Adds({"session_check"}, {}, {}) >>
MIGRATIONS == Migrations1To5 \o Migrations6To13 \o Migrations14To18
SCHEMA_VERSION == Len(MIGRATIONS)

ASSUME StoreAssumption ==
    /\ Builds \subseteq 1..SCHEMA_VERSION /\ WalAttempts \in Nat \ {0}
    /\ HistoryKeep \in Nat \ {0} /\ MaxEnded \in Nat

VARIABLES
    disk,       \* what is committed: [version, tables, columns, kinds, rows]
    wal,        \* the file's journal is a write-ahead log
    opener,     \* a process: [build, pc, tries, work]
    wrote,      \* the kinds of event written by open processes
    endedLog,   \* every ended session recorded: [at, id]
    history     \* the rows of session_history

openingVars == <<disk, wal, opener, wrote>>
historyVars == <<endedLog, history>>
storeVars == <<openingVars, historyVars>>

NoFile == [version |-> 0, tables |-> {}, columns |-> {}, kinds |-> {}, rows |-> {}]

StoreInit ==
    /\ disk = NoFile /\ wal = FALSE /\ wrote = {}
    /\ opener \in [Openers -> {[build |-> b, pc |-> "closed", tries |-> 0, work |-> NoFile] : b \in Builds}]
    /\ endedLog = <<>> /\ history = {}

OpenerGoes(p, to) == opener' = [opener EXCEPT ![p].pc = to]
WriteLocked == \E p \in Openers : opener[p].pc = "migrating"

-----------------------------------------------------------------------------
(* Opening                                                                 *)

OpenDatabase(p) ==
    /\ opener[p].pc = "closed"
    /\ opener' = [opener EXCEPT ![p].pc = "journal", ![p].tries = 0]
    /\ UNCHANGED <<disk, wal, wrote, historyVars>>

(* The switch needs the file to itself: it is refused at once while another
   process is at it.                                                        *)
EnableWal(p) ==
    /\ opener[p].pc = "journal"
    /\ \/ wal /\ OpenerGoes(p, "begin") /\ UNCHANGED wal
       \/ ~wal /\ wal' = TRUE /\ OpenerGoes(p, "begin")
       \/ /\ ~wal /\ \E q \in Openers \ {p} : opener[q].pc # "closed"
          /\ opener' = IF opener[p].tries + 1 = WalAttempts THEN [opener EXCEPT ![p].pc = "failed"]
                       ELSE [opener EXCEPT ![p].tries = @ + 1]
          /\ UNCHANGED wal
    /\ UNCHANGED <<disk, wrote, historyVars>>

(* BEGIN IMMEDIATE waits for the write lock; the version is read under it. *)
ReadVersion(p) == disk.version
BeginImmediate(p) ==
    /\ opener[p].pc = "begin" /\ ~WriteLocked
    /\ opener' = IF ReadVersion(p) > opener[p].build THEN [opener EXCEPT ![p].pc = "failed"]
                 ELSE [opener EXCEPT ![p].pc = "migrating", ![p].work = disk]
    /\ UNCHANGED <<disk, wal, wrote, historyVars>>

(* The rows of a table copied over are those its new check takes. *)
Apply(draft, m) ==
    [version |-> draft.version + 1,
     tables |-> draft.tables \cup m.tables,
     columns |-> draft.columns \cup m.columns,
     kinds |-> IF m.kinds = {} THEN draft.kinds ELSE m.kinds,
     rows |-> IF m.kinds = {} THEN draft.rows ELSE draft.rows \cap m.kinds]

Migrate(p) ==
    /\ opener[p].pc = "migrating" /\ opener[p].work.version < opener[p].build
    /\ opener' = [opener EXCEPT ![p].work = Apply(@, MIGRATIONS[@.version + 1])]
    /\ UNCHANGED <<disk, wal, wrote, historyVars>>

Commit(p) ==
    /\ opener[p].pc = "migrating" /\ opener[p].work.version = opener[p].build
    /\ disk' = opener[p].work
    /\ opener' = [opener EXCEPT ![p].pc = "open", ![p].work = NoFile]
    /\ UNCHANGED <<wal, wrote, historyVars>>

(* Killed, or a statement failed: what was not committed is rolled back. *)
OpenerGone(p) ==
    /\ opener[p].pc # "closed"
    /\ opener' = [opener EXCEPT ![p].pc = "closed", ![p].tries = 0, ![p].work = NoFile]
    /\ UNCHANGED <<disk, wal, wrote, historyVars>>

(* What a build writes into the ledger of events. *)
KindsOf(build) == {k \in Kinds4 \cup {"session.landed"} :
                     \E v \in 1..build : k \in MIGRATIONS[v].kinds}
LedgerAppend(p, kind) ==
    /\ opener[p].pc = "open" /\ ~WriteLocked /\ kind \in KindsOf(opener[p].build)
    /\ disk' = [disk EXCEPT !.rows = @ \cup ({kind} \cap disk.kinds)]
    /\ wrote' = wrote \cup {kind}
    /\ UNCHANGED <<wal, opener, historyVars>>

OpeningNext ==
    \E p \in Openers :
        \/ OpenDatabase(p) \/ EnableWal(p) \/ BeginImmediate(p) \/ Migrate(p) \/ Commit(p) \/ OpenerGone(p)
        \/ \E k \in Kinds4 \cup {"session.landed"} : LedgerAppend(p, k)

-----------------------------------------------------------------------------
(* History                                                                 *)

Later(r, o) == r.at > o.at \/ (r.at = o.at /\ r.id > o.id)
Newest(ended, n) == {r \in ended : Cardinality({o \in ended : Later(o, r)}) < n}

(* Recorded as its row is deleted, at a time the clock tells, which may have been
   set back; trimmed on the spot.                                           *)
RecordEnded(when) ==
    LET rec == [at |-> when, id |-> Len(endedLog) + 1]
    IN /\ Len(endedLog) < MaxEnded
       /\ endedLog' = Append(endedLog, rec)
       /\ history' = Newest(history \cup {rec}, HistoryKeep)
       /\ UNCHANGED openingVars

ListByWorkspace(limit) == Newest(history, limit)

HistoryNext == \E when \in 1..MaxEnded : RecordEnded(when)

(* Processes that open the file, and a history that grows; nothing is fair. *)
StoreSpec == StoreInit /\ [][OpeningNext \/ HistoryNext]_storeVars

-----------------------------------------------------------------------------
(* What is committed is what the migrations up to its version add, each once and
   in order, whoever applied them and however many were cut short.         *)
SchemaIsWhole ==
    LET upTo == {MIGRATIONS[v] : v \in 1..disk.version}
    IN /\ disk.tables = UNION {m.tables : m \in upTo}
       /\ disk.columns = UNION {m.columns : m \in upTo}
       /\ disk.kinds = KindsOf(disk.version)

(* An open process finds all that its build writes to, also when a newer build has
   migrated the file under it; none works on a file older than itself.      *)
BuildsAreServed ==
    \A p \in Openers : opener[p].pc = "open" =>
        /\ disk.version >= opener[p].build
        /\ KindsOf(opener[p].build) \subseteq disk.kinds

(* No event that was written is lost by a migration that copies its table. *)
EventsSurvive == disk.rows = wrote

(* What a trim drops, no plain listing could have shown (session-history.ts:55). *)
HistoryIsComplete ==
    \A limit \in 1..HistoryKeep : ListByWorkspace(limit) = Newest(ToSet(endedLog), limit)

StoreIsWhole == SchemaIsWhole /\ BuildsAreServed /\ EventsSurvive /\ HistoryIsComplete

StoreTypeOK ==
    /\ disk.version \in 0..SCHEMA_VERSION /\ wal \in BOOLEAN /\ Cardinality(history) <= HistoryKeep
    /\ \A p \in Openers : opener[p].pc \in {"closed", "journal", "begin", "migrating", "open", "failed"}
=============================================================================
