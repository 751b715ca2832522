----------------------------- MODULE MCServices -----------------------------
(***************************************************************************)
(* The services around the sessions, each alone: `part` picks one at the   *)
(* start, whose variables then change while the others' keep their initial *)
(* values.  They share no state, so one run explores them all without the  *)
(* product of their states.                                                *)
(***************************************************************************)
EXTENDS Checks, Checkpoints, CommandBridge, CockpitBridge, SessionStatus,
        ClientRpc, OutputStream, Terminals, Hooks, AgentNotices, Records,
        BackgroundReaders

VARIABLES
    part,       \* the service explored
    moves       \* bound: steps of a part whose states are cut by depth

servicesVars == <<part, moves, checksVars, checkpointsVars, bridgeVars, cockpitVars,
                  statusVars, framerVars, rpcVars, streamVars, terminalsVars, hooksVars, agentHooksVars, storeVars, noticesVars,
                  usageVars, diskVars, figuresVars>>

MaxMoves == 4
AHook == CHOOSE l \in HookLines : TRUE    \* first in the file, as hook and as test

Parts == {"check queue", "check verdict", "checkpoints", "bridge", "cockpit",
          "turns", "rows", "framer", "rpc", "stream", "terminals", "hooks", "claude hooks", "codex hooks",
          "store", "history", "notices", "notice settings",
          "claude usage", "codex usage", "disk", "git counts", "git overlaps"}

(* Only part p moves. *)
Alone(p) ==
    /\ part = p /\ UNCHANGED part
    /\ moves' = IF p = "rows" THEN moves + 1 ELSE moves
    /\ IF p \in {"check queue", "check verdict"} THEN TRUE ELSE UNCHANGED checksVars
    /\ IF p = "checkpoints" THEN TRUE ELSE UNCHANGED checkpointsVars
    /\ IF p = "bridge" THEN TRUE ELSE UNCHANGED bridgeVars
    /\ IF p = "cockpit" THEN TRUE ELSE UNCHANGED cockpitVars
    /\ IF p \in {"turns", "rows"} THEN TRUE ELSE UNCHANGED statusVars
    /\ IF p = "framer" THEN TRUE ELSE UNCHANGED framerVars
    /\ IF p = "rpc" THEN TRUE ELSE UNCHANGED rpcVars
    /\ IF p = "stream" THEN TRUE ELSE UNCHANGED streamVars
    /\ IF p = "terminals" THEN TRUE ELSE UNCHANGED terminalsVars
    /\ IF p = "hooks" THEN TRUE ELSE UNCHANGED hooksVars
    /\ IF p \in {"claude hooks", "codex hooks"} THEN TRUE ELSE UNCHANGED agentHooksVars
    /\ IF p = "store" THEN TRUE ELSE UNCHANGED openingVars
    /\ IF p \in {"notices", "notice settings"} THEN TRUE ELSE UNCHANGED noticesVars
    /\ IF p \in {"claude usage", "codex usage"} THEN TRUE ELSE UNCHANGED usageVars
    /\ IF p = "disk" THEN TRUE ELSE UNCHANGED diskVars
    /\ IF p \in {"git counts", "git overlaps"} THEN TRUE ELSE UNCHANGED figuresVars
    /\ IF p = "history" THEN TRUE ELSE UNCHANGED historyVars

(* The component's own initial states for the part picked, one of them for
   the others. *)
ServicesInit ==
    /\ part \in Parts /\ moves = 0
    /\ ChecksInit /\ BridgeInit /\ StatusInit /\ RpcInit /\ StreamInit /\ NoticesInit /\ DiskInit /\ GitInit
    /\ CheckpointsInit /\ (part # "checkpoints" => tree = NoTree)
    /\ CockpitInit /\ (part # "cockpit" => opened = {})
    /\ FramerInit /\ (part # "framer" => \A i \in DOMAIN stream : stream[i] = Newline)
    /\ TerminalsInit /\ (part # "terminals" => keeping)
    /\ HooksInit /\ (part # "hooks" => \A s \in HookSessions : place[s] = "own")
    /\ \A c \in {config.hooks, config.test} : c = AHook
    /\ StoreInit /\ (part # "store" => \A o \in Openers : opener[o].build = SCHEMA_VERSION)
    /\ UsageInit /\ \A f \in LogFiles :
          log[f] = NoLog \/ part = IF f \in Rollouts THEN "codex usage" ELSE "claude usage"
    /\ AgentHooksInit
    /\ (part # "claude hooks" => settings = NoSettings) /\ (part # "codex hooks" => toml = NoText)

-----------------------------------------------------------------------------
(* Checks, in two halves: the queue of automatic runs over two sessions whose
   work stands still, and one session's verdict over edits and scans.      *)

QueueHalf == UNCHANGED <<work, scan, touched>> /\ \A s \in CheckSessions : run'[s].saw = Unknown

CheckQueue == Alone("check queue") /\ ChecksNext /\ QueueHalf

CheckVerdict ==
    /\ Alone("check verdict") /\ ChecksNext
    /\ owed' = <<>> /\ UNCHANGED asking
    /\ \A s \in CheckSessions \ {"s1"} :
          run'[s] = NoRun /\ open'[s] = "live" /\ work'[s] = 0 /\ scan'.of # s

QueueMoves(s) == part = "check queue" /\ RunStep(s) /\ QueueHalf

(* SessionStatus, in two halves: the turns of a session without panes, as the
   sweeps see them, and all that its shells do, to a depth.                *)
Quietly ==
    /\ UNCHANGED pane
    /\ \A s \in StatusSessions :
          /\ shell'[s].signal = "none" /\ ~shell'[s].bell /\ ~shell'[s].echo
          /\ shell'[s].shows # "asking"

StatusTurns == Alone("turns") /\ StatusNext /\ Quietly
StatusRows == moves < MaxMoves /\ Alone("rows") /\ StatusNext /\ UNCHANGED sweeping

(* SweepBegins, and SweepEnds for any poll, told by what they do to
   `sweeping`: nothing else sets or clears it. *)
SweepStarts == part = "turns" /\ ~sweeping.on /\ sweeping' = [on |-> TRUE, saw |-> runs]
SweepAnswers ==
    /\ part = "turns" /\ sweeping.on /\ \E i \in 1..MaxPolls : polls[i] = NoPoll
    /\ sweeping' = NotSweeping

ServicesNext ==
    \/ CheckQueue \/ CheckVerdict \/ StatusTurns \/ StatusRows
    \/ Alone("checkpoints") /\ CheckpointsNext
    \/ Alone("bridge") /\ BridgeNext
    \/ Alone("cockpit") /\ CockpitNext
    \/ Alone("framer") /\ FramerNext
    \/ Alone("rpc") /\ RpcNext
    \/ Alone("stream") /\ StreamNext
    \/ Alone("terminals") /\ TerminalsNext
    \/ Alone("hooks") /\ HooksNext
    \/ Alone("store") /\ OpeningNext
    \/ Alone("history") /\ HistoryNext
    \/ Alone("notices") /\ NoticesNext /\ UNCHANGED notifyRow
    \/ Alone("notice settings") /\ NoticesNext /\ UNCHANGED <<clock, sentLog, withheld>>
    \/ Alone("claude usage") /\ UsageNext /\ \A f \in Rollouts : log'[f] = NoLog
    \/ Alone("codex usage") /\ UsageNext /\ \A f \in ClaudeLogs : log'[f] = NoLog
    \/ Alone("disk") /\ DiskNext
    \/ /\ Alone("git counts") /\ GitNext /\ ~overlapper'.run.on
       /\ changedFiles'["g2"] = GitPaths /\ gitReads'["g2"] /\ (reader' = NobodyReads \/ reader'[1] = "g1")
    \/ Alone("git overlaps") /\ GitNext /\ ~counter'.on /\ reader' = NobodyReads
    \/ Alone("claude hooks") /\ AgentHooksNext /\ \A r \in ToSet(hookRuns') : r.agent = "claude"
    \/ Alone("codex hooks") /\ AgentHooksNext /\ \A r \in ToSet(hookRuns') : r.agent = "codex"

(* Settings with a list of either kind, or of none, and what is not settings;
   lines of Codex's, with one notify key at most.                           *)
SomeClaudeFiles ==
    {NoSettings, Malformed} \cup
    {[kind |-> "ok", on |-> [e \in Events |-> IF e = "Stop" THEN l[1] ELSE l[2]]] :
        l \in {<<OddList, << <<"theirs">> >> >>, << << <<"theirs">>, <<"theirs", "ours">> >>, NoList>>,
               << << <<"ours">> >>, << <<"theirs">> >> >>}}
SomeNoticeKeys == {<<"land", "s1">>, <<"convergence", "s1:s2">>}
SomeCodexTexts ==
    {NoText, <<>>, <<"key">>, <<"key", "table">>, <<"table", "ours indented">>, <<"ours", "table">>,
     <<"key", "element">>, <<"other notify">>, <<"key", "ours">>}

(* The test command has a time limit and git answers or fails; the sweep is a
   timer; a connection's frames and events arrive and its handlers end. *)
ServicesSpec ==
    /\ ServicesInit /\ [][ServicesNext]_servicesVars
    /\ \A s \in CheckSessions : WF_checksVars(QueueMoves(s))
    /\ WF_sweeping(SweepStarts)
    /\ WF_sweeping(SweepAnswers)
    /\ \A i \in 1..MaxPolls : WF_statusVars(part = "turns" /\ PollWalks(i))
    /\ WF_rpcVars(part = "rpc" /\ End)
    /\ WF_rpcVars(part = "rpc" /\ ErrorOrClose)
    /\ WF_rpcVars(part = "rpc" /\ peer = "closing" /\ PeerGoes("ended"))
    /\ \A i \in Ids : WF_rpcVars(part = "rpc" /\ Receive(i))
    /\ \A i \in Ids : WF_rpcVars(part = "rpc" /\ Handle(i))
    /\ \A i \in Ids : WF_rpcVars(part = "rpc" /\ Answered(i))
    /\ \A d \in Dirs : WF_diskVars(part = "disk" /\ VisitEnds(d))

(* A part that does not move keeps values its own part starts with, too: what is
   said of a part is looked at where it moves.                               *)
In(parts) == part \in parts

(* What was written into a connection, a shell or an agent's log is read whole and
   in order; what is in the database is there for every build that opens it; what
   is said of a folder's size and changes was found in it; and what a person
   asked to be told is told, with what was theirs in an agent's settings kept. *)
ReportsAreTrue ==
    /\ In({"framer"}) => LinesAreWhole
    /\ In({"stream"}) => StreamIsWhole
    /\ In({"store", "history"}) => StoreIsWhole
    /\ In({"claude usage", "codex usage"}) => UsageIsWhole
    /\ In({"disk"}) => FigureIsHonest
    /\ In({"git counts", "git overlaps"}) => FiguresSettle
    /\ In({"claude hooks", "codex hooks"}) => AgentHooksAreKept
    /\ In({"notices", "notice settings"}) => NoticesAreDue

(* What is owed an automatic run gets it, and an agent at work its checkpoint from
   before; every call ends, every walk too.                                 *)
AnswersCome == OwedIsServed /\ FirstTurnHasItsBefore /\ EveryCallSettles /\ WalksEnd

ServicesTypeOK ==
    /\ part \in Parts /\ moves \in 0..MaxMoves
    /\ In({"check queue", "check verdict"}) => ChecksTypeOK
    /\ In({"turns", "rows"}) => StatusTypeOK
    /\ In({"checkpoints"}) => CheckpointsTypeOK
    /\ In({"bridge"}) => BridgeTypeOK
    /\ In({"cockpit"}) => CockpitTypeOK
    /\ In({"framer"}) => FramerTypeOK
    /\ In({"rpc"}) => RpcTypeOK
    /\ In({"stream"}) => StreamTypeOK
    /\ In({"terminals"}) => TerminalsTypeOK
    /\ In({"hooks"}) => HooksTypeOK
    /\ In({"claude hooks", "codex hooks"}) => AgentHooksTypeOK
    /\ In({"store", "history"}) => StoreTypeOK
    /\ In({"notices", "notice settings"}) => NoticesTypeOK
    /\ In({"claude usage", "codex usage"}) => UsageTypeOK
    /\ In({"git counts", "git overlaps"}) => GitTypeOK
    /\ In({"disk"}) => DiskTypeOK
=============================================================================
