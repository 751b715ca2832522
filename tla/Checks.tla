------------------------------- MODULE Checks -------------------------------
(***************************************************************************)
(* The project's trusted test command, run in a session's worktree: the    *)
(* verdicts of CheckRunner and their store, the automatic runs of          *)
(* createAutoChecker, the cached git counts a verdict is pinned to, and    *)
(* the gate land.session puts in front of a land when requireCheck is on.  *)
(*                                                                         *)
(* What git counts of a worktree (files changed, commits ahead) is one     *)
(* number that every edit raises.  CheckRunner.forget has no caller in the *)
(* daemon, so a session has at most one run in flight.  The command is     *)
(* configured and trusted; SLOT_MAX_MS exceeds the time limit of a run, so *)
(* a slot never expires under a run that still goes.                       *)
(***************************************************************************)
EXTENDS Integers, FiniteSets, SequencesExt

CONSTANTS
    CheckSessions,  \* the sessions of the workspace
    MaxEdits        \* bound: edits of one session's worktree

ASSUME ChecksAssumption == MaxEdits \in Nat

VARIABLES
    verdict,    \* CheckRunner.entries: the latest run of a session, or NoVerdict
    stored,     \* table session_check: the finished verdict kept on disk
    run,        \* the run in flight: "testing", then "read" with what git saw
    unjudged,   \* history: a run started since the last one finished
    counts,     \* GitCounter.counts: the cached counts, or Unknown
    scan,       \* a background refresh in flight: [of, saw], or Idle
    work,       \* what git would count in the worktree now
    touched,    \* terminal activity later than finishedAt + ACTIVITY_GRACE_MS
    judged,     \* history: the work the last finished run ended on
    open,       \* the session's row: "live", "ended" or "gone"
    owed,       \* auto-check: the sessions owed a run, in order of insertion
    slot,       \* auto-check: `active`, the sessions whose automatic run goes
    asking      \* history: the session's last turn ended in a question

checkVars == <<verdict, stored, run, unjudged>>
gitVars == <<counts, scan, work, touched, judged>>
autoVars == <<owed, slot, asking>>
checksVars == <<checkVars, gitVars, autoVars, open>>

Unknown == -1
Idle == [of |-> "nobody", saw |-> Unknown]
NoVerdict == [state |-> "none", mark |-> Unknown]
NoRun == [at |-> "none", ok |-> FALSE, saw |-> Unknown]

Marks == {Unknown} \cup 0..MaxEdits

ChecksTypeOK ==
    /\ verdict \in [CheckSessions -> [state: {"none", "running", "pass", "fail"}, mark: Marks]]
    /\ stored \in [CheckSessions -> [state: {"none", "pass", "fail"}, mark: Marks]]
    /\ run \in [CheckSessions -> [at: {"none", "testing", "read"}, ok: BOOLEAN, saw: Marks]]
    /\ unjudged \in [CheckSessions -> BOOLEAN]
    /\ counts \in [CheckSessions -> Marks]
    /\ scan = Idle \/ scan \in [of: CheckSessions, saw: Marks]
    /\ work \in [CheckSessions -> 0..MaxEdits]
    /\ touched \in [CheckSessions -> BOOLEAN]
    /\ judged \in [CheckSessions -> Marks]
    /\ open \in [CheckSessions -> {"live", "ended", "gone"}]
    /\ owed \in Seq(CheckSessions)
    /\ slot \subseteq CheckSessions
    /\ asking \in [CheckSessions -> BOOLEAN]

ChecksInit ==
    /\ verdict = [s \in CheckSessions |-> NoVerdict]
    /\ stored = verdict
    /\ run = [s \in CheckSessions |-> NoRun]
    /\ unjudged = [s \in CheckSessions |-> FALSE]
    /\ counts = [s \in CheckSessions |-> Unknown]
    /\ scan = Idle
    /\ work = [s \in CheckSessions |-> 0]
    /\ touched = [s \in CheckSessions |-> FALSE]
    /\ judged = [s \in CheckSessions |-> Unknown]
    /\ open = [s \in CheckSessions |-> "live"]
    /\ owed = <<>>
    /\ slot = {}
    /\ asking = [s \in CheckSessions |-> FALSE]

-----------------------------------------------------------------------------
(* CheckRunner.start                                                       *)

\* Mutant: the old verdict stays on disk until the new one replaces it.
StoreUntouched(sto, ss) == sto

(* What start leaves in the store for sessions ss: the old verdict goes when
   its successor starts. *)
StoreAtStart(sto, ss) == [s \in CheckSessions |-> IF s \in ss THEN NoVerdict ELSE sto[s]]

(* The sessions ss (none or one) start a run; ver, sto and rn are the maps
   as the handler's earlier steps left them. *)
Starts(ss, ver, sto, rn, unj) ==
    /\ verdict' = [s \in CheckSessions |->
                      IF s \in ss THEN [state |-> "running", mark |-> counts'[s]] ELSE ver[s]]
    /\ stored' = StoreAtStart(sto, ss)
    /\ run' = [s \in CheckSessions |-> IF s \in ss THEN [NoRun EXCEPT !.at = "testing"] ELSE rn[s]]
    /\ unjudged' = [s \in CheckSessions |-> s \in ss \/ unj[s]]

(* session.check, and the runs the user starts in the cockpit: refused with
   CHECK_RUNNING, or without a folder to run in. *)
Check(s) ==
    /\ open[s] # "gone" /\ verdict[s].state # "running"
    /\ UNCHANGED <<gitVars, autoVars, open>>
    /\ Starts({s}, verdict, stored, run, unjudged)

-----------------------------------------------------------------------------
(* The automatic runs: pump, turnEnded, checkFinished.                     *)

(* run(id) throws CHECK_RUNNING: the session stays owed. *)
Busy(s, ver) == ver[s].state = "running"
(* run(id) throws something else (the row is gone or not running): not owed
   any more. *)
Refused(s) == open[s] # "live"
(* The sessions pump goes past without trying: at a turn's end, the one that
   stopped to ask. *)
Skips(s, skip) == s = skip

\* Mutant: the slot is not looked at.
AlwaysFree(sl) == TRUE

(* The automatic slot is free. *)
SlotFree(sl) == sl = {}

(* pump: on is the user's checks.autoRun, read each time, o the owed list and
   sl the slots before it.  The first session that can run takes the slot;
   refused ones before it are dropped; busy and skipped ones stay. *)
Pump(on, o, sl, skip, ver, sto, rn, unj) ==
    LET can == {i \in DOMAIN o : ~Skips(o[i], skip) /\ ~Refused(o[i]) /\ ~Busy(o[i], ver)}
        free == on /\ SlotFree(sl)
        first == IF free /\ can # {} THEN CHOOSE i \in can : \A j \in can : i <= j ELSE Len(o) + 1
        picked == {s \in CheckSessions : free /\ \E i \in can : i = first /\ o[i] = s}
        dropped == {o[i] : i \in {j \in DOMAIN o : j < first /\ Refused(o[j]) /\ ~Skips(o[j], skip)}}
    IN  /\ owed' = IF ~on THEN <<>>
                   ELSE IF ~free THEN o
                   ELSE SelectSeq(o, LAMBDA s : s \notin picked \cup dropped)
        /\ slot' = sl \cup picked
        /\ Starts(picked, ver, sto, rn, unj)

(* The owed list of a session whose turn may have changed its tree. *)
OwedAfterTurn(s, changed) ==
    IF changed /\ s \notin ToSet(owed) THEN Append(owed, s) ELSE owed

(* createAutoChecker.turnEnded. *)
TurnEnds(s, changed, asks, on) ==
    /\ open[s] = "live"
    /\ asking' = [asking EXCEPT ![s] = asks]
    /\ UNCHANGED <<gitVars, open>>
    /\ Pump(on, OwedAfterTurn(s, changed), slot, IF asks THEN s ELSE "nobody",
            verdict, stored, run, unjudged)

-----------------------------------------------------------------------------
(* The end of a run.                                                       *)

(* The test process ends, or is killed at its time limit (code 124), and git
   looks at the worktree for markAtFinish, or fails: nobody sees the one before
   the other. *)
TestEnds(s, ok, readable) ==
    /\ run[s].at = "testing"
    /\ LET saw == IF readable THEN work[s] ELSE Unknown
       IN  /\ run' = [run EXCEPT ![s] = [at |-> "read", ok |-> ok, saw |-> saw]]
           /\ judged' = [judged EXCEPT ![s] = saw]
    /\ UNCHANGED <<verdict, stored, unjudged, counts, scan, work, touched, autoVars, open>>

(* The counts the finished verdict is pinned to. *)
MarkAtFinish(s) == IF run[s].saw # Unknown THEN run[s].saw ELSE verdict[s].mark

\* Mutant: the session's slot is kept after its run.
SlotKept(s) == slot

(* The owed sessions are looked at when a run ends. *)
SlotAfterFinish(s) == slot \ {s}

(* readNow stores what git said, finish writes the verdict to memory and to
   the store (whose foreign key fails for a purged row), onChange pumps. *)
Finishes(s, on) ==
    /\ run[s].at = "read"
    /\ counts' = [counts EXCEPT ![s] = run[s].saw]
    /\ touched' = [touched EXCEPT ![s] = FALSE]
    /\ UNCHANGED <<scan, work, judged, asking, open>>
    /\ LET done == [state |-> IF run[s].ok THEN "pass" ELSE "fail", mark |-> MarkAtFinish(s)]
       IN  Pump(on, owed, SlotAfterFinish(s), "nobody",
                [verdict EXCEPT ![s] = done],
                [stored EXCEPT ![s] = IF open[s] = "gone" THEN NoVerdict ELSE done],
                [run EXCEPT ![s] = NoRun],
                [unjudged EXCEPT ![s] = FALSE])

-----------------------------------------------------------------------------
(* What the verdict is compared with.                                      *)

\* Mutant: every reader moves the baseline.
PinnedAgain(s) == IF counts[s] = Unknown THEN verdict[s].mark ELSE counts[s]

(* The baseline a reader of the verdict leaves: the first counts seen, when
   none were known. *)
Pinned(s) == IF verdict[s].mark = Unknown THEN counts[s] ELSE verdict[s].mark

(* CheckRunner.get, for session.list, session.debug and land.session. *)
Look(s) ==
    /\ verdict[s] # NoVerdict
    /\ verdict' = [verdict EXCEPT ![s].mark = Pinned(s)]
    /\ UNCHANGED <<stored, run, unjudged, gitVars, autoVars, open>>

Stale(s) == Pinned(s) # counts[s] \/ touched[s]

(* What land.session asks for when requireCheck is on. *)
GateOpen(s) == verdict[s].state = "pass" /\ ~Stale(s)

(* GitCounter.refresh, one session at a time: git looks, the cache is set
   later. *)
Scan(s) ==
    /\ scan = Idle /\ open[s] # "gone"
    /\ scan' = [of |-> s, saw |-> work[s]]
    /\ UNCHANGED <<checkVars, counts, work, touched, judged, autoVars, open>>

ScanEnds(s) ==
    /\ scan.of = s
    /\ counts' = [counts EXCEPT ![s] = scan.saw]
    /\ scan' = Idle
    /\ UNCHANGED <<checkVars, work, touched, judged, autoVars, open>>

(* An agent, or anybody, edits the worktree. *)
Edit(s) ==
    /\ open[s] # "gone" /\ work[s] < MaxEdits
    /\ work' = [work EXCEPT ![s] = @ + 1]
    /\ UNCHANGED <<checkVars, counts, scan, touched, judged, autoVars, open>>

(* The session's terminal moves after the grace. *)
Activity(s) ==
    /\ open[s] = "live" /\ verdict[s].state \in {"pass", "fail"}
    /\ touched' = [touched EXCEPT ![s] = TRUE]
    /\ UNCHANGED <<checkVars, counts, scan, work, judged, autoVars, open>>

-----------------------------------------------------------------------------
(* The session, the daemon.                                                *)

SessionEnds(s) ==
    /\ open[s] = "live"
    /\ open' = [open EXCEPT ![s] = "ended"]
    /\ UNCHANGED <<checkVars, gitVars, autoVars>>

(* The row is removed, and its stored verdict with it (ON DELETE CASCADE). *)
Purge(s) ==
    /\ open[s] = "ended"
    /\ open' = [open EXCEPT ![s] = "gone"]
    /\ stored' = [stored EXCEPT ![s] = NoVerdict]
    /\ UNCHANGED <<verdict, run, unjudged, gitVars, autoVars>>

(* The daemon dies, with its runs, and another loads the store. *)
RestartChecks ==
    /\ verdict' = stored
    /\ run' = [s \in CheckSessions |-> NoRun]
    /\ counts' = [s \in CheckSessions |-> Unknown]
    /\ scan' = Idle
    /\ touched' = [s \in CheckSessions |-> FALSE]
    /\ owed' = <<>>
    /\ slot' = {}
    /\ UNCHANGED <<stored, unjudged, work, judged, open, asking>>

RunStep(s) ==
    \/ \E ok, readable \in BOOLEAN : TestEnds(s, ok, readable)
    \/ \E on \in BOOLEAN : Finishes(s, on)

ChecksNext ==
    \/ \E s \in CheckSessions :
          \/ Check(s)
          \/ \E changed, asks, on \in BOOLEAN : TurnEnds(s, changed, asks, on)
          \/ RunStep(s)
          \/ Look(s) \/ Scan(s) \/ ScanEnds(s) \/ Edit(s) \/ Activity(s)
          \/ SessionEnds(s) \/ Purge(s)
    \/ RestartChecks

ChecksSpec == ChecksInit /\ [][ChecksNext]_checksVars

-----------------------------------------------------------------------------
(* Properties                                                              *)

(* Once a run has started, no earlier verdict of the session is shown or kept,
   whatever finishes, is purged or restarts in between (checks.ts:96: "were
   the daemon to stop mid-run it must not come back"). *)
NoVerdictComesBack ==
    \A s \in CheckSessions :
        unjudged[s] => stored[s] = NoVerdict /\ verdict[s].state \in {"none", "running"}

(* The automatic slot is one for the daemon: at most one session holds it,
   and it has a run in flight, so the slot cannot be lost. *)
OneAutoRun ==
    \A s \in slot : run[s].at # "none" /\ \A t \in slot : t = s

(* requireCheck lets no work pass that is not the work the last run ended on,
   once the cached counts have caught up with the worktree and git could be
   read at the end of the run: neither the cache, nor readers that pin a
   missing baseline, nor a restart makes moved work look checked. *)
PassedWorkIsUnmoved ==
    \A s \in CheckSessions :
        GateOpen(s) /\ counts[s] = work[s] /\ judged[s] # Unknown => work[s] = judged[s]

(* No verdict is shown, kept or passed that is not the last run's own. *)
VerdictsAreTrue == NoVerdictComesBack /\ PassedWorkIsUnmoved

(* A session owed an automatic run whose last turn was no question is checked
   (on its own or because the user did), or refused, or asks something: no end
   of a run forgets to look at those that wait. *)
OwedIsServed ==
    \A s \in CheckSessions :
        s \in ToSet(owed) /\ ~asking[s]
            ~> s \notin ToSet(owed) \/ asking[s] \/ run[s].at # "none"
=============================================================================
