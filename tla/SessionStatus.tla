--------------------------- MODULE SessionStatus ---------------------------
(***************************************************************************)
(* What a session is doing, inferred from its shells: ActivityTracker with *)
(* a track for the session's own shell and one for each of its panes, the  *)
(* periodic sweep that finds the agents with `ps` and reports what moved,  *)
(* and the automatic checkpointer the moves drive.                         *)
(*                                                                         *)
(* Time is cut to what the code compares it with: an instant is either     *)
(* within its window (echo, quietMs, busyGraceMs) or not, and a window     *)
(* closes in a step of its own.  A screen shows the words of an agent at   *)
(* work, a question, or neither.  A session has at most one pane at a      *)
(* time; how several fold into one row is Folded, applied once for each.   *)
(***************************************************************************)
EXTENDS Naturals, FiniteSets

CONSTANTS
    StatusSessions, \* sessions with a worktree of their own
    Agents,         \* agent CLIs
    ScreenAgents,   \* SCREEN_AGENTS: those whose screen is trusted from the start
    NoAgent,
    MaxPolls        \* bound: polls of the checkpointer still at work

ASSUME StatusAssumption ==
    /\ NoAgent \notin Agents
    /\ ScreenAgents \subseteq Agents
    /\ MaxPolls \in Nat

VARIABLES
    shell,      \* ActivityTracker.tracks: the session's own track, or NoTrack
    pane,       \* childTracks: the track of its pane, or NoTrack
    runs,       \* the agent that runs under the shell, in truth
    agents,     \* the agent the last sweep found there, or NoAgent
    sweeping,   \* what the sweep's `ps` saw, or NotSweeping
    startOwed,  \* AutoCheckpointer.owed
    polls,      \* the copies of owed that polls still walk, and whom they take
    takes,      \* takes that onChange awaits: [of, kind]
    before      \* history: a start was taken, or is being, since it went to work

statusVars == <<shell, pane, runs, agents, sweeping, startOwed, polls, takes, before>>

Activities == {"working", "asked", "idle", "failed"}
NoTrack == [up |-> FALSE, recent |-> FALSE, echo |-> FALSE, worked |-> FALSE,
            bell |-> FALSE, failed |-> FALSE, reported |-> "idle", shows |-> "plain",
            spoke |-> FALSE, busy |-> FALSE, lately |-> FALSE, signal |-> "none"]
FreshTrack == [NoTrack EXCEPT !.up = TRUE]
Tracks == [up: BOOLEAN, recent: BOOLEAN, echo: BOOLEAN, worked: BOOLEAN,
           bell: BOOLEAN, failed: BOOLEAN, reported: Activities,
           shows: {"plain", "busy", "asking"},
           spoke: BOOLEAN, busy: BOOLEAN, lately: BOOLEAN,
           signal: {"none", "done", "ask"}]
NotSweeping == [on |-> FALSE, saw |-> [s \in StatusSessions |-> NoAgent]]
NoPoll == [left |-> {}, taking |-> {}]

StatusTypeOK ==
    /\ shell \in [StatusSessions -> Tracks]
    /\ pane \in [StatusSessions -> Tracks]
    /\ runs \in [StatusSessions -> Agents \cup {NoAgent}]
    /\ agents \in [StatusSessions -> Agents \cup {NoAgent}]
    /\ sweeping \in [on: BOOLEAN, saw: [StatusSessions -> Agents \cup {NoAgent}]]
    /\ startOwed \subseteq StatusSessions
    /\ polls \in [1..MaxPolls -> [left: SUBSET StatusSessions, taking: SUBSET StatusSessions]]
    /\ takes \subseteq [of: StatusSessions, kind: {"start", "turn"}]
    /\ before \in [StatusSessions -> BOOLEAN]

StatusInit ==
    /\ shell = [s \in StatusSessions |-> NoTrack]
    /\ pane = [s \in StatusSessions |-> NoTrack]
    /\ runs = [s \in StatusSessions |-> NoAgent]
    /\ agents = [s \in StatusSessions |-> NoAgent]
    /\ sweeping = NotSweeping
    /\ startOwed = {}
    /\ polls = [i \in 1..MaxPolls |-> NoPoll]
    /\ takes = {}
    /\ before = [s \in StatusSessions |-> FALSE]

-----------------------------------------------------------------------------
(* What a track says.                                                      *)

(* The screen's words are trusted: of an agent known for them, or of one that
   has shown them. *)
Trusted(t, a) == a # NoAgent /\ (t.spoke \/ a \in ScreenAgents)

(* Judging a track notes on it that the screen showed an agent at work. *)
Noted(t, a) ==
    IF t.up /\ ~t.failed /\ t.signal = "none" /\ a # NoAgent /\ t.shows = "busy"
      THEN [t EXCEPT !.spoke = TRUE, !.busy = TRUE, !.lately = TRUE]
      ELSE t

(* activityOf, for a track already noted. *)
ActivityOf(t, a) ==
    CASE t.failed -> "failed"
      [] ~t.failed /\ t.signal # "none" -> "asked"
      [] ~t.failed /\ t.signal = "none" /\ Trusted(t, a) ->
            IF t.lately THEN "working"
            ELSE IF t.bell \/ t.shows = "asking" \/ t.busy THEN "asked" ELSE "idle"
      [] OTHER ->
            IF t.recent THEN "working"
            ELSE IF t.bell \/ (a # NoAgent /\ t.worked) THEN "asked" ELSE "idle"

(* judge: what one track says, and whether it waits for the person. *)
Judged(t, a) ==
    LET act == ActivityOf(Noted(t, a), a)
    IN  [activity |-> IF t.up THEN act ELSE "idle",
         rang |-> t.up /\ (t.bell \/ (act = "asked" /\ Trusted(Noted(t, a), a) /\ t.shows = "asking"))]

(* A pane folded into the row: failed shell > pane that asks > pane at work >
   finished turn > idle. *)
Folded(own, child) ==
    CASE child.rang /\ own.activity # "failed" -> [activity |-> "asked", rang |-> TRUE]
      [] ~child.rang /\ child.activity = "working" /\ own.activity # "failed" /\ ~own.rang ->
            [own EXCEPT !.activity = "working"]
      [] ~child.rang /\ child.activity = "asked" /\ own.activity = "idle" ->
            [own EXCEPT !.activity = "asked"]
      [] OTHER -> own

(* status, with the agents as last found (the pane's is the session's: `ps`
   is asked for both at once).  A word said with `cw notify` stands. *)
Status(own, child, a) ==
    IF own.signal # "none" \/ ~child.up THEN Judged(own, a)
    ELSE Folded(Judged(own, a), Judged(child, a))

StatusOf(s) == Status(shell[s], pane[s], agents[s])

(* Every reader of the status: session.list, stats, land's guard. *)
ReadStatus(s) ==
    /\ shell' = [shell EXCEPT ![s] = Noted(@, agents[s])]
    /\ pane' = [pane EXCEPT ![s] = Noted(@, agents[s])]
    /\ UNCHANGED <<runs, agents, sweeping, startOwed, polls, takes, before>>

-----------------------------------------------------------------------------
(* What happens in the shells.                                             *)

Track(s, t) ==
    /\ shell' = [shell EXCEPT ![s] = t]
    /\ UNCHANGED <<pane, runs, agents, sweeping, startOwed, polls, takes, before>>

PaneTrack(s, t) ==
    /\ pane' = [pane EXCEPT ![s] = t]
    /\ UNCHANGED <<shell, runs, agents, sweeping, startOwed, polls, takes, before>>

ShellStarts(s) == (~shell[s].up \/ shell[s].failed) /\ Track(s, FreshTrack)
PaneOpens(s) == ~pane[s].up /\ PaneTrack(s, FreshTrack)
PaneExits(s) == pane[s].up /\ PaneTrack(s, NoTrack)

(* exited: the track stays and says whether the shell broke. *)
ShellExits(s, broke) ==
    /\ shell[s].up
    /\ shell' = [shell EXCEPT ![s] = [@ EXCEPT !.failed = broke, !.recent = FALSE]]
    /\ runs' = [runs EXCEPT ![s] = NoAgent]
    /\ UNCHANGED <<pane, agents, sweeping, startOwed, polls, takes, before>>

(* The session is removed: its panes' tracks go when their shells do. *)
ForgetTrack(s) == shell[s].up /\ Track(s, NoTrack)

Prints(t, words, rings) ==
    LET fresh == ~t.echo
    IN  [t EXCEPT !.shows = words, !.bell = @ \/ rings,
                  !.recent = @ \/ fresh, !.worked = @ \/ fresh]

Output(s, words, rings) ==
    \/ shell[s].up /\ Track(s, Prints(shell[s], words, rings))
    \/ pane[s].up /\ PaneTrack(s, Prints(pane[s], words, rings))

Typed(t, submits) ==
    [t EXCEPT !.echo = ~submits, !.worked = FALSE, !.bell = FALSE, !.busy = FALSE,
              !.signal = "none"]

Input(s, submits) == shell[s].up /\ Track(s, Typed(shell[s], submits))

(* terminalInput: the person is here, so a word left on the row is answered. *)
PaneInput(s, submits) ==
    /\ pane[s].up
    /\ pane' = [pane EXCEPT ![s] = Typed(@, submits)]
    /\ shell' = [shell EXCEPT ![s].signal = "none"]
    /\ UNCHANGED <<runs, agents, sweeping, startOwed, polls, takes, before>>

(* `cw notify`: the session's own word. *)
Notified(s, kind) ==
    /\ shell[s].up
    /\ Track(s, [shell[s] EXCEPT !.signal = kind, !.bell = kind = "ask"])

(* A window closes. *)
Window(t, w) ==
    CASE w = "echo" -> [t EXCEPT !.echo = FALSE]
      [] w = "quiet" -> [t EXCEPT !.recent = FALSE]
      [] w = "grace" -> [t EXCEPT !.lately = FALSE]

TimePasses(s, w) ==
    \/ Window(shell[s], w) # shell[s] /\ Track(s, Window(shell[s], w))
    \/ Window(pane[s], w) # pane[s] /\ PaneTrack(s, Window(pane[s], w))

AgentRuns(s, a) ==
    /\ shell[s].up \/ pane[s].up
    /\ runs[s] # a
    /\ runs' = [runs EXCEPT ![s] = a]
    /\ UNCHANGED <<shell, pane, agents, sweeping, startOwed, polls, takes, before>>

-----------------------------------------------------------------------------
(* The sweep.                                                              *)

(* sweepStatus up to its `ps`; a sweep that is on makes the next one skip. *)
SweepBegins ==
    /\ ~sweeping.on
    /\ sweeping' = [on |-> TRUE, saw |-> runs]
    /\ UNCHANGED <<shell, pane, runs, agents, startOwed, polls, takes, before>>

(* checkpointKindFor. *)
KindFor(from, to) ==
    IF from = "working" /\ to \in {"idle", "asked"} THEN "turn"
    ELSE IF from # "working" /\ to = "working" THEN "start"
    ELSE "none"

\* Mutant: a start no agent is visible for is forgotten.
StartDropped(kinds, seen) == startOwed \ {s \in StatusSessions : kinds[s] = "turn"}

(* onChange, up to its take, for all that moved: a turn's end cancels a start
   that is owed; a start no agent is visible for is owed. *)
OwedAfter(kinds, seen) ==
    (startOwed \ {s \in StatusSessions : kinds[s] = "turn"})
      \cup {s \in StatusSessions : kinds[s] = "start" /\ seen[s] = NoAgent}

(* poll, from the sessions `left` of its copy, until it awaits a take: those
   at work with an agent are due; those not at work any more are dropped; those
   no agent is seen in stay owed.  `ready` are the sessions at work. *)
Walk(i, left, o, ready) ==
    LET due == {s \in left \cap ready : agents'[s] # NoAgent}
    IN  \/ /\ due = {}
           /\ polls' = [polls EXCEPT ![i] = NoPoll]
           /\ startOwed' = o \ (left \ ready)
        \/ \E s \in due : \E passed \in SUBSET (left \ due) :
              /\ polls' = [polls EXCEPT ![i] = [left |-> left \ (passed \cup {s}), taking |-> {s}]]
              /\ startOwed' = o \ ((passed \ ready) \cup {s})

Taking(i) == polls'[i].taking

(* The agents are noted, every track judged and reported, the checkpointer
   told of each move and polled. *)
SweepEnds(i) ==
    LET seen == [s \in StatusSessions |-> IF shell[s].up \/ pane[s].up THEN sweeping.saw[s] ELSE NoAgent]
        now == [s \in StatusSessions |-> Status(shell[s], pane[s], seen[s]).activity]
        kinds == [s \in StatusSessions |->
                     IF shell[s].up THEN KindFor(shell[s].reported, now[s]) ELSE "none"]
        owedNow == OwedAfter(kinds, seen)
    IN  /\ sweeping.on
        /\ polls[i] = NoPoll
        /\ sweeping' = NotSweeping
        /\ agents' = seen
        /\ shell' = [s \in StatusSessions |->
                        IF shell[s].up THEN [Noted(shell[s], seen[s]) EXCEPT !.reported = now[s]]
                        ELSE shell[s]]
        /\ pane' = [s \in StatusSessions |-> IF shell[s].up THEN Noted(pane[s], seen[s]) ELSE pane[s]]
        /\ takes' = takes \cup {[of |-> s, kind |-> kinds[s]] :
                                   s \in {r \in StatusSessions : kinds[r] # "none" /\ seen[r] # NoAgent}}
        /\ Walk(i, owedNow, owedNow, {s \in StatusSessions : now[s] = "working"})
        /\ before' = [s \in StatusSessions |->
                         \/ s \in Taking(i)
                         \/ kinds[s] = "start" /\ seen[s] # NoAgent
                         \/ kinds[s] = "none" /\ now[s] = "working" /\ before[s]]
        /\ UNCHANGED runs

(* The poll's take has ended, well or not, and it walks on. *)
PollWalks(i) ==
    /\ polls[i].taking # {}
    /\ UNCHANGED <<runs, agents, sweeping, takes>>
    /\ Walk(i, polls[i].left, startOwed,
            {s \in StatusSessions : StatusOf(s).activity = "working"})
    /\ before' = [s \in StatusSessions |-> before[s] \/ s \in Taking(i)]
    /\ shell' = [s \in StatusSessions |-> IF s \in polls[i].left THEN Noted(shell[s], agents[s]) ELSE shell[s]]
    /\ pane' = [s \in StatusSessions |-> IF s \in polls[i].left THEN Noted(pane[s], agents[s]) ELSE pane[s]]

(* A take ends, well or not. *)
TakeEnds(t) ==
    /\ t \in takes
    /\ takes' = takes \ {t}
    /\ UNCHANGED <<shell, pane, runs, agents, sweeping, startOwed, polls, before>>

Sweeps == SweepBegins \/ \E i \in 1..MaxPolls : SweepEnds(i)

StatusNext ==
    \/ \E s \in StatusSessions :
          \/ ShellStarts(s) \/ PaneOpens(s) \/ PaneExits(s) \/ ForgetTrack(s) \/ ReadStatus(s)
          \/ \E yes \in BOOLEAN : ShellExits(s, yes) \/ Input(s, yes) \/ PaneInput(s, yes)
          \/ \E words \in {"plain", "busy", "asking"}, rings \in BOOLEAN : Output(s, words, rings)
          \/ \E kind \in {"done", "ask"} : Notified(s, kind)
          \/ \E w \in {"echo", "quiet", "grace"} : TimePasses(s, w)
          \/ \E a \in Agents \cup {NoAgent} : AgentRuns(s, a)
    \/ Sweeps
    \/ \E i \in 1..MaxPolls : PollWalks(i)
    \/ \E t \in takes : TakeEnds(t)

StatusSpec == StatusInit /\ [][StatusNext]_statusVars

-----------------------------------------------------------------------------
(* Properties                                                              *)

(* An agent at work in a session has its "before" checkpoint asked for, even
   when `ps` saw it only after its first output: as long as the session stays
   at work with the agent visible, the start it is owed is taken. *)
Due(s) == shell[s].up /\ shell[s].reported = "working" /\ agents[s] # NoAgent /\ ~before[s]
FirstTurnHasItsBefore == \A s \in StatusSessions : []<>(~Due(s) \/ StatusOf(s).activity # "working")

(* How panes fold into a row does not depend on their order. *)
Says == [activity: Activities, rang: BOOLEAN]
PanesCommute ==
    \A own, one, two \in Says : Folded(Folded(own, one), two) = Folded(Folded(own, two), one)
=============================================================================
