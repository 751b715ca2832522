-------------------------------- MODULE Cli ---------------------------------
(***************************************************************************)
(* One `cw` at a shell (src/cli): a verb that confirms, connects, looks up *)
(* and calls; `cw check`, which waits for a verdict; `cw daemon stop`; a   *)
(* `cw pane` line the cockpit may ask its person about; and `cw attach`,   *)
(* which lends the terminal to a session's shell.                          *)
(*                                                                         *)
(* What a verb prints is left out, but for whether it failed.              *)
(***************************************************************************)
EXTENDS Integers, Sequences, FiniteSets, TLC

CONSTANTS
    MaxShown,       \* bound: chunks a shell prints, keys typed, resizes
    MaxCheckRuns    \* bound: runs of the session's check

ASSUME CliAssumption == {MaxShown, MaxCheckRuns} \subseteq Nat

VARIABLES
    cw,         \* [verb, sure, strong, tty]: the line typed, and whether at a terminal
    shellNames,       \* [arg, env, cwd]: the sessions it may mean, by where each is named
    repo,       \* [configOk, up, spawned]: crossweave.config.json, and the daemon
    cwStep,     \* how far it is
    meant,      \* the session it acts on
    sent,       \* the daemon methods it has called
    cwSaid,     \* how it ended: "", "ok", "fail" for a failing check, or a code
    planned,    \* the plan of `cw hooks` was printed
    checkRow,   \* [run, state, listed]: the session's row, as the daemon lists it
    checkFrom,  \* the newest run when this `cw check` asked for one
    waited,     \* [ticks, asked]: of `cw pane`, in fives of seconds, and the person asked
    att         \* `cw attach`; see AttachInit

commandState == <<cw, shellNames, repo, cwStep, meant, sent, cwSaid, planned, checkRow, checkFrom, waited>>
cliVars == <<commandState, att>>

-----------------------------------------------------------------------------
(* The verbs: when each wants a yes, how it finds its session, what it calls *)

NoGate == "none"
Verb(gate, finds, calls) == [gate |-> gate, finds |-> finds, calls |-> calls]

(* `yes`: --yes before anything; `yes to remove`: only with --rm-worktree; `looks first`:
   --yes, once the session is known to be there; `asks`: at the terminal.     *)
MakingVerbs ==
    ("session new" :> Verb(NoGate, "none", <<"session.new">>)) @@
    ("session list" :> Verb(NoGate, "none", <<"session.list">>)) @@
    ("session note" :> Verb(NoGate, "arg", <<"session.note">>)) @@
    ("session setup" :> Verb(NoGate, "arg", <<"session.setup">>))
RunningVerbs ==
    ("session path" :> Verb(NoGate, "arg", <<"session.list">>)) @@
    ("session start" :> Verb(NoGate, "arg", <<"session.resume">>)) @@
    ("session stop" :> Verb(NoGate, "arg", <<"session.stop">>))
EndingVerbs ==
    ("session kill" :> Verb("yes to remove", "arg", <<"session.kill">>)) @@
    ("session rm" :> Verb("yes", "arg", <<"session.rm">>)) @@
    ("session history" :> Verb(NoGate, "none", <<"session.history">>))
LandVerbs ==
    ("land session" :> Verb("looks first", "arg", <<"session.list", "land.session">>)) @@
    ("land all" :> Verb("yes", "none", <<"converge.status", "land.session">>))
CheckpointVerbs ==
    ("checkpoint list" :> Verb(NoGate, "env", <<"checkpoint.list">>)) @@
    ("checkpoint restore" :> Verb(NoGate, "env", <<"checkpoint.restore">>))
WorkspaceVerbs ==
    ("workspace delete" :> Verb(NoGate, "none", <<"workspace.delete">>)) @@
    ("gc" :> Verb(NoGate, "none", <<"workspace.gc">>))
ConfigVerbs ==
    ("config trust" :> Verb(NoGate, "none", <<"config.trust">>)) @@
    ("config status" :> Verb(NoGate, "none", <<"config.status">>))
StatusVerbs == "converge status" :> Verb(NoGate, "none", <<"converge.status", "overlap.list">>)
NotifyVerbs == "notify" :> Verb(NoGate, "env or here", <<"session.notify">>)
DebugVerbs == "debug" :> Verb(NoGate, "env or here", <<"session.list", "session.debug">>)
CheckVerbs == "check" :> Verb(NoGate, "env", <<"session.check">>)
HooksVerbs == "hooks" :> Verb("asks", "none", <<>>)

CliVerbs == MakingVerbs @@ RunningVerbs @@ EndingVerbs @@ LandVerbs @@ CheckpointVerbs @@ WorkspaceVerbs
            @@ ConfigVerbs @@ StatusVerbs @@ NotifyVerbs @@ DebugVerbs @@ CheckVerbs @@ HooksVerbs

(* cw pane: what each line asks the cockpit, and how long it waits; 5 s a tick. *)
PaneLines == {"list", "split", "select", "zoom", "layout", "move", "sync on", "sync toggle", "sync off",
              "close", "open --url", "open --file"}
QUICK_TICKS == 2
CONFIRM_TICKS == 12
PaneWait(line) == IF line \in {"sync on", "sync toggle", "close", "open --url", "open --file"}
                  THEN CONFIRM_TICKS ELSE QUICK_TICKS
(* The kinds the cockpit asks its person about, and how long it waits for an answer. *)
AsksPerson(line) == line \in {"sync on", "sync toggle", "close", "open --url", "open --file"}
ASK_TICKS == 9

NoSession == "none"
NoWait == [ticks |-> 0, asked |-> FALSE]
FirstRow == [run |-> 0, state |-> "none", listed |-> TRUE]

Nameless == [arg |-> NoSession, env |-> NoSession, cwd |-> NoSession]

LineTyped ==
    /\ cw \in [verb : DOMAIN CliVerbs \cup PaneLines \cup {"daemon stop", ""}, sure : BOOLEAN,
               strong : BOOLEAN, tty : BOOLEAN]
    /\ cw.strong => cw.verb = "session kill"
    /\ cw.tty => cw.verb \in {"hooks", ""}
    /\ shellNames \in [arg : {NoSession, "a"}, env : {NoSession, "e"}, cwd : {NoSession, "c"}]
    /\ IF cw.verb \in DOMAIN CliVerbs /\ CliVerbs[cw.verb].finds # "none" THEN TRUE ELSE shellNames = Nameless
    /\ repo \in [configOk : BOOLEAN, up : BOOLEAN, spawned : {FALSE}]
NothingDone ==
    /\ cwStep = "typed" /\ meant = NoSession /\ sent = <<>> /\ cwSaid = "" /\ planned = FALSE
    /\ checkRow = FirstRow /\ checkFrom = 0 /\ waited = NoWait

ThisVerb == CliVerbs[cw.verb]
IsVerb == cw.verb \in DOMAIN CliVerbs

(* `args.session ?? CW_SESSION_ID`, then the session that stands here. *)
Named(finds) ==
    IF shellNames.arg # NoSession THEN shellNames.arg
    ELSE IF finds # "arg" /\ shellNames.env # NoSession THEN shellNames.env
    ELSE IF finds = "env or here" THEN shellNames.cwd ELSE NoSession

(* Without a name, `notify` looks for the session that stands here. *)
Unnamed == shellNames.arg = NoSession /\ shellNames.env = NoSession
CallsOf == IF cw.verb = "notify" /\ Unnamed THEN <<"session.list">> \o ThisVerb.calls ELSE ThisVerb.calls

(* fail(): one line, exit 1.  withClient's finally has closed the connection. *)
CwEnds(said) == cwStep' = "over" /\ cwSaid' = said
CwGoes(step) == cwStep' = step /\ UNCHANGED cwSaid

IsConfirmed(gate) == gate = "yes" \/ (gate = "yes to remove" /\ cw.strong) => cw.sure

(* What is refused before anything is connected to; `notify` and `debug` look here later. *)
Parses ==
    /\ cwStep = "typed" /\ IsVerb
    /\ LET s == Named(ThisVerb.finds)
       IN IF ~IsConfirmed(ThisVerb.gate) THEN CwEnds("CONFIRMATION_REQUIRED") /\ UNCHANGED meant
          ELSE IF ThisVerb.finds \notin {"none", "env or here"} /\ s = NoSession
          THEN CwEnds("INVALID_ARGUMENTS") /\ UNCHANGED meant
          ELSE meant' = s /\ CwGoes(IF ThisVerb.gate = "asks" THEN "asks" ELSE "connects")
    /\ UNCHANGED <<cw, shellNames, repo, sent, planned, checkRow, checkFrom, waited, att>>

(* withClient: the config is read here before a daemon is started to read it. *)
Connects ==
    /\ cwStep = "connects"
    /\ \/ ~repo.configOk /\ CwEnds("CONFIG_INVALID") /\ UNCHANGED repo
       \/ repo.configOk /\ repo.up /\ CwGoes("connected") /\ UNCHANGED repo
       \/ /\ repo.configOk /\ ~repo.up
          /\ \E comes \in BOOLEAN :
                /\ repo' = [repo EXCEPT !.up = comes, !.spawned = TRUE]
                /\ IF comes THEN CwGoes("connected") ELSE CwEnds("DAEMON_START_FAILED")
    /\ UNCHANGED <<cw, shellNames, meant, sent, planned, checkRow, checkFrom, waited, att>>

(* The calls in order, after workspace.init: each answers, is refused, or the daemon goes.
   A session looked for in the list may not be there; then comes the late --yes. *)
CallsNext ==
    /\ cwStep = "connected" /\ IsVerb /\ Len(sent) < Len(CallsOf)
    /\ sent' = Append(sent, CallsOf[Len(sent) + 1])
    /\ LET last == Len(sent') = Len(CallsOf)
           looks == sent' = <<"session.list">> /\ cw.verb # "session list"
       IN \/ \E code \in {"REFUSED", "DAEMON_GONE"} :
                 CwEnds(code) /\ repo' = [repo EXCEPT !.up = code # "DAEMON_GONE"] /\ UNCHANGED checkFrom
          \/ /\ looks /\ CwEnds(IF Unnamed THEN "INVALID_ARGUMENTS" ELSE "SESSION_NOT_FOUND")
             /\ UNCHANGED <<repo, checkFrom>>
          \/ /\ looks => meant # NoSession
             /\ UNCHANGED repo
             /\ IF ThisVerb.gate = "looks first" /\ looks /\ ~cw.sure
                THEN CwEnds("CONFIRMATION_REQUIRED") /\ UNCHANGED checkFrom
                ELSE IF cw.verb = "check"
                THEN cwStep' = "polls" /\ checkFrom' = checkRow.run + 1 /\ UNCHANGED cwSaid
                ELSE /\ IF last THEN CwEnds("ok") ELSE CwGoes("connected")
                     /\ UNCHANGED checkFrom
    /\ checkRow' = IF cwStep' = "polls" THEN [checkRow EXCEPT !.run = @ + 1, !.state = "running"] ELSE checkRow
    /\ UNCHANGED <<cw, shellNames, meant, planned, waited, att>>

(* cw hooks: the plan, then a yes that was typed at a terminal or given before. *)
AsksHere ==
    /\ cwStep = "asks" /\ planned' = TRUE
    /\ \/ cw.sure /\ CwGoes("writes")
       \/ ~cw.sure /\ ~cw.tty /\ CwEnds("CONFIRM_REQUIRED")
       \/ ~cw.sure /\ cw.tty /\ (CwEnds("CANCELLED") \/ CwGoes("answered"))
    /\ UNCHANGED <<cw, shellNames, repo, meant, sent, checkRow, checkFrom, waited, att>>
WritesHooks ==
    /\ cwStep \in {"writes", "answered"}
    /\ sent' = <<"hooks written">> /\ \E said \in {"ok", "REFUSED"} : CwEnds(said)
    /\ UNCHANGED <<cw, shellNames, repo, meant, planned, checkRow, checkFrom, waited, att>>

-----------------------------------------------------------------------------
(* cw check                                                                *)

(* Meanwhile a run ends, another is started, the session is renamed or removed, the
   daemon goes.                                                             *)
RowMoves ==
    /\ cwStep = "polls"
    /\ \/ \E v \in {"pass", "fail"} : checkRow.state = "running" /\ checkRow' = [checkRow EXCEPT !.state = v]
       \/ /\ checkRow.state # "running" /\ checkRow.run < MaxCheckRuns
          /\ checkRow' = [checkRow EXCEPT !.run = @ + 1, !.state = "running"]
       \/ checkRow.listed /\ checkRow' = [checkRow EXCEPT !.listed = FALSE]
    /\ UNCHANGED <<cw, shellNames, repo, cwStep, meant, sent, cwSaid, planned, checkFrom, waited, att>>

Polls ==
    /\ cwStep = "polls"
    /\ \/ ~checkRow.listed /\ CwEnds("SESSION_NOT_FOUND") /\ UNCHANGED repo
       \/ checkRow.listed /\ checkRow.state = "pass" /\ CwEnds("ok") /\ UNCHANGED repo
       \/ checkRow.listed /\ checkRow.state = "fail" /\ CwEnds("fail") /\ UNCHANGED repo
       \/ CwEnds("DAEMON_GONE") /\ repo' = [repo EXCEPT !.up = FALSE]
    /\ UNCHANGED <<cw, shellNames, meant, sent, planned, checkRow, checkFrom, waited, att>>

-----------------------------------------------------------------------------
(* cw daemon stop; a bare cw                                               *)

(* It connects and never starts one to stop it. *)
StopsDaemon ==
    /\ cwStep = "typed" /\ cw.verb = "daemon stop"
    /\ IF repo.up THEN CwGoes("stopping") /\ sent' = <<"daemon.shutdown">>
                  ELSE CwEnds("ok") /\ UNCHANGED sent
    /\ UNCHANGED <<cw, shellNames, repo, meant, planned, checkRow, checkFrom, waited, att>>

(* It answers before it exits; its exit is what closes the connection. *)
DaemonExits ==
    /\ cwStep \in {"stopping", "acknowledged"} /\ repo.up
    /\ repo' = [repo EXCEPT !.up = FALSE]
    /\ UNCHANGED <<cw, shellNames, cwStep, meant, sent, cwSaid, planned, checkRow, checkFrom, waited, att>>
ShutdownAnswered ==
    /\ cwStep = "stopping" /\ CwGoes("acknowledged")
    /\ UNCHANGED <<cw, shellNames, repo, meant, sent, planned, checkRow, checkFrom, waited, att>>

(* Until it is gone, or two seconds have passed. *)
WaitsForExit ==
    /\ cwStep = "acknowledged"
    /\ (~repo.up /\ CwEnds("ok")) \/ CwEnds("DAEMON_STOP_TIMEOUT")
    /\ UNCHANGED <<cw, shellNames, repo, meant, sent, planned, checkRow, checkFrom, waited, att>>

(* The cockpit, where there is one and it starts; else the console; help in a pipe. *)
OpensApp ==
    /\ cwStep = "typed" /\ cw.verb = ""
    /\ IF cw.tty THEN CwEnds("cockpit") \/ CwEnds("tui") ELSE CwEnds("help")
    /\ UNCHANGED <<cw, shellNames, repo, meant, sent, planned, checkRow, checkFrom, waited, att>>

-----------------------------------------------------------------------------
(* cw pane, to a cockpit that is there and answers                         *)

AsksCockpit ==
    /\ cwStep = "typed" /\ cw.verb \in PaneLines
    /\ CwGoes("pane") /\ sent' = <<"bridge.call">>
    /\ \E asked \in BOOLEAN : /\ asked => AsksPerson(cw.verb)
                             /\ waited' = [ticks |-> 0, asked |-> asked]
    /\ UNCHANGED <<cw, shellNames, repo, meant, planned, checkRow, checkFrom, att>>

(* The dialog is up: a yes, a no, or none in ASK_TICKS, which is a no. *)
CockpitAnswers ==
    /\ cwStep = "pane"
    /\ IF waited.asked THEN CwEnds("PANE_DENIED") \/ (waited.ticks < ASK_TICKS /\ CwEnds("ok"))
                       ELSE CwEnds("ok") \/ CwEnds("REFUSED")
    /\ UNCHANGED <<cw, shellNames, repo, meant, sent, planned, checkRow, checkFrom, waited, att>>

PaneTick ==
    /\ cwStep = "pane" /\ waited.asked /\ waited.ticks < ASK_TICKS
    /\ waited' = [waited EXCEPT !.ticks = @ + 1]
    /\ IF waited'.ticks >= PaneWait(cw.verb) THEN CwEnds("BRIDGE_TIMEOUT") ELSE UNCHANGED <<cwStep, cwSaid>>
    /\ UNCHANGED <<cw, shellNames, repo, meant, sent, planned, checkRow, checkFrom, att>>

CommandNext ==
    \/ Parses \/ Connects \/ CallsNext \/ AsksHere \/ WritesHooks
    \/ RowMoves \/ Polls
    \/ StopsDaemon \/ DaemonExits \/ ShutdownAnswered \/ WaitsForExit \/ OpensApp
    \/ AsksCockpit \/ CockpitAnswers \/ PaneTick

-----------------------------------------------------------------------------
(* cw attach                                                               *)

(* `frames` are on their way to it, `calls` to the daemon; `pushed` counts what the shell
   printed to this connection, `typed` what a person typed while it listened.  `joining`
   is subscribeTui's await; `deaf`, that the shell had exited when it joined. *)
AttachInit ==
    att \in [step : {"resumes", "attaches"}, exited : {FALSE}, raw : {FALSE}, replaying : {FALSE},
             shell : BOOLEAN, tui : BOOLEAN, joining : {FALSE}, deaf : {FALSE}, subscribed : {FALSE}, answered : {FALSE}, frames : {<<>>}, calls : {<<>>},
             pushed : {0}, shown : {0}, size : {0}, shellSize : {0}, typed : {<<>>}, heard : {<<>>}]

Frame(f) == [att EXCEPT !.frames = Append(@, f)]
Listens(a) == a.step # "over"
Att(a) == att' = a /\ UNCHANGED commandState

(* finish(): once; the terminal is given back whatever it was that ended. *)
Finished(a) == [a EXCEPT !.step = "over", !.raw = FALSE]

(* session.resume, unless --no-start; a failure ends it. *)
AttachResumes ==
    /\ att.step = "resumes"
    /\ Att([att EXCEPT !.step = "attaches", !.shell = TRUE]) \/ Att(Finished(att))

(* runtime.subscribe replays the scrollback, before the call is answered; of a shell that
   runs a TUI, the screen, which it waits for before it joins.                *)
ConnectionEnds == \E i \in DOMAIN att.frames : att.frames[i] = "end"
Joined == [Frame("data") EXCEPT !.subscribed = TRUE, !.pushed = 1, !.joining = FALSE, !.deaf = ~att.shell]
Subscribes ==
    /\ att.step = "attaches" /\ ~att.subscribed /\ ~att.joining /\ ~ConnectionEnds
    /\ Att(IF ~att.shell THEN Finished(att) ELSE IF att.tui THEN [att EXCEPT !.joining = TRUE] ELSE Joined)
JoinsTui == att.joining /\ Att(Joined)
AttachIsAnswered ==
    /\ att.subscribed /\ ~att.answered /\ ~ConnectionEnds
    /\ Att([Frame("answer") EXCEPT !.answered = TRUE])

ShellPrints ==
    /\ att.shell /\ att.subscribed /\ Listens(att) /\ att.pushed < MaxShown
    /\ Att([Frame("data") EXCEPT !.pushed = @ + 1])
(* Only who has joined is told. *)
ShellExits ==
    /\ att.shell /\ (att.subscribed \/ att.joining) /\ Listens(att)
    /\ Att([IF att.subscribed THEN Frame("exit") ELSE att EXCEPT !.shell = FALSE])
DaemonGoes ==
    /\ Listens(att) /\ ~ConnectionEnds
    /\ Att([Frame("end") EXCEPT !.shell = FALSE, !.subscribed = FALSE, !.joining = FALSE])

(* The promise: nothing to wait for if the session has exited meanwhile. *)
Watching(a) ==
    IF a.exited THEN Finished(a)
    ELSE [a EXCEPT !.step = "watching", !.raw = TRUE, !.replaying = TRUE,
                   !.calls = Append(@, [kind |-> "resize", size |-> a.size])]

AttachTakes(f, a) ==
    CASE f = "data" -> [a EXCEPT !.shown = @ + 1]
      [] f = "exit" -> IF a.step = "watching" THEN Finished([a EXCEPT !.exited = TRUE])
                                              ELSE [a EXCEPT !.exited = TRUE]
      [] f = "answer" -> Watching(a)
      [] f = "end" -> Finished(a)
FrameComes ==
    /\ Listens(att) /\ att.frames # <<>>
    /\ Att(AttachTakes(Head(att.frames), [att EXCEPT !.frames = Tail(@)]))

(* A key, a paste with the detach key in it, the detach key by itself, or what the
   terminal itself says in answer to a query it was shown.                  *)
DETACH_KEY == "ctrl-]"
Inputs == {"key", "paste with ctrl-]", DETACH_KEY, "report"}
Dropped(k) == k = "report" /\ att.replaying
TypesInput(k) ==
    /\ att.step = "watching" /\ Len(att.typed) < MaxShown
    /\ LET a == [att EXCEPT !.typed = Append(@, [what |-> k, replay |-> att.replaying])]
       IN Att(IF Dropped(k) THEN a
              ELSE IF k = DETACH_KEY THEN Finished(a)
              ELSE [a EXCEPT !.calls = Append(@, [kind |-> "input", what |-> k, replay |-> att.replaying])])
ReplayEnds == att.replaying /\ Listens(att) /\ Att([att EXCEPT !.replaying = FALSE])

(* SIGWINCH is heard while it watches. *)
TerminalResized ==
    /\ Listens(att) /\ att.size < MaxShown
    /\ LET a == [att EXCEPT !.size = @ + 1]
       IN Att(IF att.step # "watching" THEN a
              ELSE [a EXCEPT !.calls = Append(@, [kind |-> "resize", size |-> a.size])])

(* The daemon takes the calls in order; what it refuses is let go. *)
CallTaken ==
    /\ att.calls # <<>>
    /\ LET c == Head(att.calls)
           a == [att EXCEPT !.calls = Tail(@)]
       IN Att(IF ~att.shell THEN a
              ELSE IF c.kind = "resize" THEN [a EXCEPT !.shellSize = c.size]
              ELSE [a EXCEPT !.heard = Append(@, [what |-> c.what, replay |-> c.replay])])

AttachNext ==
    \/ AttachResumes \/ Subscribes \/ JoinsTui \/ AttachIsAnswered \/ ShellPrints \/ ShellExits \/ DaemonGoes
    \/ FrameComes \/ (\E k \in Inputs : TypesInput(k)) \/ ReplayEnds \/ TerminalResized \/ CallTaken

-----------------------------------------------------------------------------

CliTypeOK ==
    /\ cwStep \in {"typed", "connects", "connected", "asks", "writes", "answered", "polls", "stopping",
                   "acknowledged", "pane", "over"}
    /\ meant \in {NoSession, "a", "e", "c"} /\ planned \in BOOLEAN
    /\ checkRow.run \in 0..MaxCheckRuns /\ checkFrom \in 0..MaxCheckRuns /\ waited.ticks \in 0..ASK_TICKS
    /\ att.step \in {"resumes", "attaches", "watching", "over"} /\ att.shown \in 0..MaxShown
    /\ att.size \in 0..MaxShown /\ att.shellSize \in 0..MaxShown /\ Len(att.typed) <= MaxShown

(* A raw terminal waits for something that is still to come: the shell's exit, or a frame
   on its way that ends cw attach.  In one case it does not: a TUI exited while its screen
   was read, and nobody tells who joins after (runtime.ts:245); then the detach key or the
   daemon's end gives it back, and attach.ts:102's "an event that already happened" is
   waited for.                                                               *)
TerminalIsGivenBack ==
    /\ att.raw = (att.step = "watching")
    /\ att.step = "watching" => ~att.exited
    /\ att.step = "watching" => att.shell \/ (att.deaf /\ att.tui) \/ \E i \in DOMAIN att.frames : att.frames[i] \in {"exit", "end"}

(* Every chunk since the subscription, the scrollback with it, is shown or on its way
   (attach.ts registers its handler before session.attach).                 *)
AttachShowsAll ==
    Listens(att) => att.shown + Cardinality({i \in DOMAIN att.frames : att.frames[i] = "data"}) = att.pushed

(* The shell's size is the terminal's once what was sent to it is taken, a resize during
   session.attach included.                                                 *)
AttachTellsSize ==
    att.step = "watching" /\ att.shell =>
        att.size = (LET sizes == {i \in DOMAIN att.calls : att.calls[i].kind = "resize"}
                    IN IF sizes = {} THEN att.shellSize
                       ELSE att.calls[CHOOSE i \in sizes : \A j \in sizes : j <= i].size)

(* What the shell hears was typed, in that order, but for the detach key and for the
   answers to the replayed scrollback's queries; a paste is not cut.         *)
Meaningful(t) == t.what # DETACH_KEY /\ ~(t.what = "report" /\ t.replay)
ShellHearsTyping ==
    LET said == att.heard \o [i \in 1..Cardinality({j \in DOMAIN att.calls : att.calls[j].kind = "input"}) |->
                    LET c == SelectSeq(att.calls, LAMBDA x : x.kind = "input")[i]
                    IN [what |-> c.what, replay |-> c.replay]]
    IN /\ att.shell => said = SelectSeq(att.typed, Meaningful)
       /\ \A i \in DOMAIN att.heard : Meaningful(att.heard[i])

(* What cannot be taken back is called, or an agent's hooks written, only by a line that
   says yes: --yes, the late --yes of `land session`, or a yes at the terminal below the
   plan; and it is done to the session the line names, if it names one.      *)
Destroys(m) ==
    \/ m \in {"session.rm", "land.session"} \/ (m = "session.kill" /\ cw.strong)
    \/ m = "hooks written"
CommandsAreConfirmed ==
    /\ (\E i \in DOMAIN sent : Destroys(sent[i])) => cw.sure \/ (cw.verb = "hooks" /\ cw.tty /\ planned)
    /\ cwStep = "over" /\ ~cw.sure /\ cw.verb = "hooks" => (cwSaid = "CONFIRM_REQUIRED") = ~cw.tty
    /\ IsVerb /\ meant # NoSession /\ shellNames.arg # NoSession => meant = shellNames.arg

(* A line that is refused as typed, or whose configuration does not load, starts no daemon,
   and neither does one that stops it.                                      *)
NothingIsStarted ==
    repo.spawned =>
        /\ repo.configOk /\ cw.verb # "daemon stop"
        /\ cw.verb \in {"session rm", "land all"} \/ cw.strong => cw.sure
        /\ cw.verb \in DOMAIN RunningVerbs \cup {"check"} => meant # NoSession

(* A verdict `cw check` ends with is of the run it asked for or of a later one; a daemon
   said to be stopped is gone; a person who was asked by the cockpit has answered, or
   its refusal, before the line that asked gave up.                          *)
CommandsTellTruth ==
    /\ cw.verb = "check" /\ cwSaid \in {"ok", "fail"} => checkRow.run >= checkFrom /\ checkRow.state # "running"
    /\ cw.verb = "daemon stop" /\ cwSaid = "ok" => ~repo.up
    /\ cwSaid # "BRIDGE_TIMEOUT"
=============================================================================
