----------------------------- MODULE LandOrder -----------------------------
(***************************************************************************)
(* Landing as a person asks for it: `cw land all` over what                *)
(* `converge.status` calls ready (convergence/land-order.ts), and the      *)
(* desktop's land of one session, with its questions (live-land.ts,        *)
(* land-actions.ts, ProjectView.tsx), while the agents work and the base   *)
(* moves, and everything for which `land.session` refuses (land.ts): its   *)
(* races with other calls are SessionLifecycle's, how the trials come      *)
(* about is Convergence's.  Left out is the status `waiting`, which no     *)
(* code writes any more and every boot of a daemon turns to `dead`.        *)
(***************************************************************************)
EXTENDS Integers, FiniteSets, SequencesExt

CONSTANTS
    LandRank,       \* the sessions, oldest first
    Thresholds,     \* what converge.pairwiseSessionThreshold may be
    MaxBase,        \* bound: moves of the base, lands included
    MaxWork         \* bound: moves of the agents, the people and the scheduler

ASSUME LandOrderAssumption ==
    /\ {MaxBase, MaxWork} \subseteq Nat /\ Thresholds \subseteq Nat
    /\ LandRank \in Seq(ToSet(LandRank)) /\ IsInjective(LandRank)

NoRow == [result |-> "none", at |-> -1]
LandSessions == ToSet(LandRank)
LandPairs == {p \in SUBSET LandSessions : Cardinality(p) = 2}

VARIABLES
    rules,          \* the config: [test: no command, one a person trusts or does not, threshold]
    onBase,         \* how often the base has moved: its head
    agentOf,        \* a session's row and tree: [status, dirty, ahead]
    clashes,        \* the pairs whose branches conflict with each other
    atOdds,         \* the sessions whose branch conflicts with the base
    pairRow,        \* the latest trial of a pair: [result, at: its base head]
    fullRow,        \* the latest full-integration trial
    lander,         \* the land under way
    worked,         \* moves so far
    quiet,          \* nothing but the lander moved since it read a status
    discarded       \* sessions that a land stopped and took uncommitted files of

landOrderVars == <<rules, onBase, agentOf, clashes, atOdds, pairRow, fullRow, lander, worked, quiet, discarded>>
landWorld == <<rules, onBase, agentOf, clashes, atOdds, pairRow, fullRow>>

NoStatus == [order |-> {}, ready |-> {}, unknown |-> {}, blocked |-> {}, read |-> FALSE]
NoLander == [at |-> "idle", all |-> FALSE, force |-> FALSE, live |-> FALSE, sure |-> FALSE, one |-> "none",
             saw |-> NoStatus, hands |-> "off", base |-> 0, landed |-> <<>>, ended |-> "no"]

Listed == {s \in LandSessions : agentOf[s].status \in {"running", "idle"}}

(* A merge of these branches onto the base, one after the other
   (trial.ts, runMergeTrial): the first that conflicts ends it.            *)
MergesClean(bs) == bs \cap atOdds = {} /\ \A p \in LandPairs : p \subseteq bs => p \notin clashes
Trial(bs) == [result |-> IF MergesClean(bs) THEN "clean" ELSE "conflict", at |-> onBase]

LandOrderInit ==
    /\ rules \in [test : {"none", "untrusted", "trusted"}, threshold : Thresholds]
    /\ onBase = 0 /\ worked = 0 /\ quiet = TRUE /\ discarded = {}
    /\ agentOf \in [LandSessions -> [status : {"idle", "running"}, dirty : {FALSE}, ahead : BOOLEAN]]
    /\ atOdds \in SUBSET {s \in LandSessions : agentOf[s].ahead}
    /\ clashes \in SUBSET {p \in LandPairs : \A s \in p : agentOf[s].ahead}
    /\ fullRow \in {NoRow, Trial(LandSessions)}
    /\ pairRow \in {[p \in LandPairs |-> NoRow], [p \in LandPairs |-> Trial(p)]}
    /\ lander = NoLander

-----------------------------------------------------------------------------
(* The world around: agents write and commit, the base moves, trials run.  *)

(* It moves, and the lander's status is that of an earlier moment. *)
WorldMoves == worked < MaxWork /\ worked' = worked + 1 /\ quiet' = FALSE

ShellTurns(s) ==
    /\ WorldMoves /\ s \in Listed
    /\ agentOf' = [agentOf EXCEPT ![s].status = IF @ = "idle" THEN "running" ELSE "idle"]
    /\ UNCHANGED <<rules, onBase, clashes, atOdds, pairRow, fullRow, lander, discarded>>

(* Only a shell writes here; at the moment it is told to stop it still may. *)
AgentWrites(s) ==
    /\ WorldMoves /\ agentOf[s].status = "running" /\ ~agentOf[s].dirty
    /\ agentOf' = [agentOf EXCEPT ![s].dirty = TRUE]
    /\ UNCHANGED <<rules, onBase, clashes, atOdds, pairRow, fullRow, lander, discarded>>

AgentCommits(s) ==
    /\ WorldMoves /\ agentOf[s].dirty /\ s \in Listed
    /\ agentOf' = [agentOf EXCEPT ![s].dirty = FALSE, ![s].ahead = TRUE]
    /\ \E others \in SUBSET {p \in LandPairs : s \in p} : clashes' = {p \in clashes : s \notin p} \cup others
    /\ \E odd \in BOOLEAN : atOdds' = IF odd THEN atOdds \cup {s} ELSE atOdds \ {s}
    /\ UNCHANGED <<rules, onBase, pairRow, fullRow, lander, discarded>>

BaseMoves ==
    /\ WorldMoves /\ onBase < MaxBase /\ onBase' = onBase + 1
    /\ \E more \in SUBSET Listed : atOdds' = atOdds \cup {s \in more : agentOf[s].ahead}
    /\ UNCHANGED <<rules, agentOf, clashes, pairRow, fullRow, lander, discarded>>

(* More sessions than the threshold, and pairs are not tried any more. *)
Degraded == Cardinality(Listed) > rules.threshold

TrialRuns ==
    /\ WorldMoves /\ lander.at # "testing"
    /\ \/ /\ ~Degraded
          /\ \E p \in LandPairs : p \subseteq Listed /\ pairRow' = [pairRow EXCEPT ![p] = Trial(p)]
          /\ UNCHANGED fullRow
       \/ /\ Cardinality(Listed) > 1 /\ UNCHANGED pairRow
          /\ \E fails \in IF rules.test = "trusted" THEN BOOLEAN ELSE {FALSE} :
                fullRow' = IF fails /\ MergesClean(Listed) THEN [result |-> "test_fail", at |-> onBase] ELSE Trial(Listed)
    /\ UNCHANGED <<rules, onBase, agentOf, clashes, atOdds, lander, discarded>>

-----------------------------------------------------------------------------
(* `converge.status` *)

(* Partners a branch is recorded to conflict with, whatever became of them. *)
Degree(s) == Cardinality({p \in LandPairs : s \in p /\ pairRow[p].result = "conflict"})
Age(s) == CHOOSE i \in DOMAIN LandRank : LandRank[i] = s

(* Fewest conflicts first, then the oldest: the pairs of which the first goes first. *)
RecommendOrder ==
    {o \in Listed \X Listed :
        \/ Degree(o[1]) < Degree(o[2])
        \/ Degree(o[1]) = Degree(o[2]) /\ Age(o[1]) < Age(o[2])}

(* Two questions git answers without a worktree: what a branch would conflict
   with on the base, and whether it has anything to land.                  *)
\* Mutant: a session without partners is not looked at.
LookedAtInPairs(s) == s \in atOdds /\ Cardinality(Listed) > 1

ConflictsWithBase(s) == s \in atOdds
CommitsAhead(s) == agentOf[s].ahead

Landability(s) ==
    LET rows == {pairRow[p] : p \in {q \in LandPairs : s \in q /\ q \subseteq Listed}} IN
    IF \E r \in rows : r.result = "conflict" /\ r.at = onBase THEN "blocked"
    ELSE IF Degraded \/ \E r \in rows : r.result # "clean" \/ r.at # onBase THEN "unknown"
    ELSE IF rules.test = "trusted" /\ fullRow # [result |-> "clean", at |-> onBase] THEN "unknown"
    ELSE IF ConflictsWithBase(s) THEN "blocked"
    ELSE "ready"

ConvergeStatus ==
    [order |-> RecommendOrder,
     ready |-> {s \in Listed : Landability(s) = "ready" /\ CommitsAhead(s)},
     unknown |-> {s \in Listed : Landability(s) = "unknown"},
     blocked |-> {s \in Listed : Landability(s) = "blocked"},
     read |-> TRUE]

(* Where the head of the base cannot be read, no evidence is fresh.         *)
HeadUnread == [ConvergeStatus EXCEPT !.ready = {}, !.unknown = Listed, !.blocked = {}, !.read = FALSE]

-----------------------------------------------------------------------------
(* The lander *)

(* The person, or `cw land all`, is told why and no more; the refusals of a land
   that no property tells apart are all "failed".                          *)
Stops(why) == lander' = [lander EXCEPT !.at = "idle", !.base = 0, !.ended = why]

(* `cw land all`, with or without --force, which is both: incomplete evidence
   will do, and live sessions are stopped.                                 *)
LandAllAsked ==
    /\ lander.at = "idle"
    /\ \E f \in BOOLEAN : lander' = [NoLander EXCEPT !.at = "status", !.all = TRUE, !.force = f]
    /\ UNCHANGED <<landWorld, worked, quiet, discarded>>

(* A file of a secret's or a script's name in the diff, or tests that failed
   or still run, are asked about before the land.                          *)
Warned(l) == {[l EXCEPT !.at = a] : a \in {"status", "ask_warning"}}

(* `cw land session s` asks for no evidence. *)
LandNamed(s) ==
    /\ lander.at = "idle"
    /\ \E f \in BOOLEAN : lander' = [NoLander EXCEPT !.at = "land", !.one = s, !.force = f]
    /\ UNCHANGED <<landWorld, worked, quiet, discarded>>

(* The desktop's land of s reads its diff first; for a live session it asks. *)
LandAsked(s) ==
    /\ lander.at = "idle" /\ s \in Listed
    /\ LET of == [NoLander EXCEPT !.one = s] IN
       \/ lander' = [of EXCEPT !.ended = "failed"]
       \/ IF agentOf[s].dirty THEN lander' = [of EXCEPT !.ended = "failed"]
          ELSE IF agentOf[s].status = "running" THEN lander' = [of EXCEPT !.at = "ask_live"]
          ELSE lander' \in Warned(of)
    /\ UNCHANGED <<landWorld, worked, quiet, discarded>>

LiveAnswered ==
    /\ lander.at = "ask_live"
    /\ lander' \in Warned([lander EXCEPT !.live = TRUE]) \/ Stops("cancelled")
    /\ UNCHANGED <<landWorld, worked, quiet, discarded>>

WarningAnswered ==
    /\ lander.at = "ask_warning"
    /\ lander' = [lander EXCEPT !.at = "status"] \/ Stops("cancelled")
    /\ UNCHANGED <<landWorld, worked, quiet, discarded>>

UnknownAnswered ==
    /\ lander.at = "ask_unknown"
    /\ lander' = [lander EXCEPT !.at = "status", !.sure = TRUE] \/ Stops("cancelled")
    /\ UNCHANGED <<landWorld, worked, quiet, discarded>>

(* The status is asked for anew before every land. *)
FetchStatus ==
    /\ lander.at = "status"
    /\ \E st \in {ConvergeStatus, HeadUnread} : lander' = [lander EXCEPT !.at = "choose", !.saw = st]
    /\ quiet' = TRUE /\ UNCHANGED <<landWorld, worked, discarded>>

(* What may be landed next, and which of it is. *)
Candidates(st, force) == IF st.ready # {} THEN st.ready ELSE IF force THEN st.unknown ELSE {}
ChooseNextLand(st, force) ==
    CHOOSE s \in Candidates(st, force) : \A t \in Candidates(st, force) \ {s} : <<s, t>> \in st.order

ChooseAll ==
    /\ lander.at = "choose" /\ lander.all
    /\ IF Candidates(lander.saw, lander.force) = {} THEN Stops("done")
       ELSE lander' = [lander EXCEPT !.at = "land", !.one = ChooseNextLand(lander.saw, lander.force)]
    /\ UNCHANGED <<landWorld, worked, quiet, discarded>>

ChooseOne ==
    /\ lander.at = "choose" /\ ~lander.all
    /\ LET unknown == lander.one \in lander.saw.unknown IN
       IF lander.one \in lander.saw.blocked THEN Stops("blocked")
       ELSE IF unknown /\ ~lander.sure THEN lander' = [lander EXCEPT !.at = "ask_unknown"]
       ELSE IF lander.one \notin lander.saw.ready /\ ~unknown THEN Stops("failed")
       ELSE lander' = [lander EXCEPT !.at = "land"]
    /\ UNCHANGED <<landWorld, worked, quiet, discarded>>

-----------------------------------------------------------------------------
(* `land.session` *)

Forced == lander.force \/ lander.live
TreeClean == ~agentOf[lander.one].dirty

LiveRow(s) == agentOf[s].status = "running"

(* Before anything is closed or stopped: converge.requireCheck wants a passing
   check that is still of this work (force is not the way past it), and a forced
   land of a live session looks at its tree.  Then the session's shells close. *)
LandBegins ==
    /\ lander.at = "land"
    /\ \/ Stops("check")                                 \* CHECK_REQUIRED
       \/ Forced /\ LiveRow(lander.one) /\ Stops("failed")    \* SESSION_UNCOMMITTED, SESSION_STATUS_UNKNOWN
       \/ /\ Forced /\ LiveRow(lander.one) => TreeClean
          /\ lander' = [lander EXCEPT !.at = "closing",
                                      !.hands = IF Forced /\ LiveRow(lander.one) THEN "stop" ELSE "close"]
    /\ UNCHANGED <<landWorld, worked, quiet, discarded>>

(* They are closed.  A session that was live when a forced land began is stopped:
   it is listed no more, and its tree is looked at once more.               *)
LandStopped ==
    /\ lander.at = "closing" /\ lander.hands = "stop"
    /\ agentOf' = [agentOf EXCEPT ![lander.one].status = "dead"]
    /\ \/ Stops("failed")                                \* SESSION_UNCOMMITTED, SESSION_STATUS_UNKNOWN
       \/ TreeClean /\ lander' = [lander EXCEPT !.at = "stopped"]
    /\ UNCHANGED <<rules, onBase, clashes, atOdds, pairRow, fullRow, worked, quiet, discarded>>

(* landSession: another land has the workspace's lock, the session is live, or the
   main checkout is dirty; else the head of the base is what it will land on. *)
LandEnters ==
    /\ lander.at = "stopped" \/ (lander.at = "closing" /\ lander.hands = "close")
    /\ \/ Stops("failed")                                \* LAND_IN_PROGRESS, SESSION_STILL_LIVE, LAND_DIRTY_TREE
       \/ /\ LiveRow(lander.one) => Forced
          /\ lander' = [lander EXCEPT !.at = "trying", !.base = onBase]
    /\ UNCHANGED <<landWorld, worked, quiet, discarded>>

(* What is landed is the branch as it is now.  The base may have moved since
   (LAND_BASE_MOVED), its HEAD be detached, the commits not replay one by one as
   they merged at once (LAND_REBASE_CONFLICT), or git or a hook of the repository
   refuse (LAND_MERGE_FAILED, after which the checkout is reset).  Else the branch is merged and
   taken away with the tree and all that was not committed in it; whoever
   clashed with it now clashes with the base.                              *)
Merges ==
    LET s == lander.one
        ahead == agentOf[s].ahead IN
    IF lander.base # onBase THEN Stops("base_moved") /\ UNCHANGED <<landWorld, discarded>>
    ELSE \/ Stops("failed") /\ UNCHANGED <<landWorld, discarded>>
         \/ /\ ahead => s \notin atOdds
            /\ onBase' = IF ahead THEN onBase + 1 ELSE onBase
            /\ atOdds' = IF ahead THEN atOdds \cup {t \in Listed \ {s} : {s, t} \in clashes} ELSE atOdds
            /\ agentOf' = [agentOf EXCEPT ![s] = [status |-> "landed", dirty |-> FALSE, ahead |-> FALSE]]
            /\ discarded' = IF agentOf[s].dirty /\ lander.hands = "stop" THEN discarded \cup {s} ELSE discarded
            /\ lander' = IF lander.all
                         THEN [lander EXCEPT !.at = "status", !.hands = "off", !.landed = Append(@, s)]
                         ELSE [lander EXCEPT !.at = "idle", !.landed = <<s>>, !.ended = "done"]
            /\ UNCHANGED <<rules, clashes, pairRow, fullRow>>

(* The branch, if there still is one, is tried on the head that was read; one that
   has moved since says nothing of the trial.  Then come the tests, if any. *)
LandTries ==
    /\ lander.at = "trying"
    /\ LET s == lander.one
           moved == lander.base # onBase
           gone == agentOf[s].status = "landed" IN
       \/ /\ gone \/ moved \/ s \in atOdds
          /\ Stops("conflict") /\ UNCHANGED <<landWorld, discarded>>
       \/ /\ ~gone /\ (moved \/ s \notin atOdds)
          /\ CASE rules.test = "none" -> Merges
               [] rules.test = "untrusted" ->                      \* LAND_TESTCOMMAND_UNTRUSTED
                     Stops("failed") /\ UNCHANGED <<landWorld, discarded>>
               [] rules.test = "trusted" ->
                     lander' = [lander EXCEPT !.at = "testing"] /\ UNCHANGED <<landWorld, discarded>>
    /\ UNCHANGED <<worked, quiet>>

LandTested ==
    /\ lander.at = "testing"
    /\ \/ Merges
       \/ Stops("failed") /\ UNCHANGED <<landWorld, discarded>>     \* LAND_TEST_FAILED
    /\ UNCHANGED <<worked, quiet>>

LandOrderNext ==
    \/ \E s \in LandSessions : ShellTurns(s) \/ AgentWrites(s) \/ AgentCommits(s) \/ LandAsked(s) \/ LandNamed(s)
    \/ BaseMoves \/ TrialRuns
    \/ LandAllAsked \/ LiveAnswered \/ WarningAnswered \/ UnknownAnswered \/ FetchStatus \/ ChooseAll \/ ChooseOne
    \/ LandBegins \/ LandStopped \/ LandEnters \/ LandTries \/ LandTested

LandOrderSpec == LandOrderInit /\ [][LandOrderNext]_landOrderVars

-----------------------------------------------------------------------------
(* Properties *)

(* "all required convergence evidence is fresh and clean" (evidence.ts): with
   nothing else moving since a status called a session ready, its land meets no
   conflict with the base, whichever kind of land it is, and no base that moved.
   It may fail otherwise: for want of a check, on an untrusted or failing test
   command, a busy lock, the main checkout, a rebase or a hook.            *)
ReadyMeetsNoConflict ==
    quiet /\ lander.ended \in {"conflict", "base_moved"} => lander.one \notin lander.saw.ready

(* `cw land all` that came to its end, and was not stopped by a land that failed
   nor by a base whose head could not be read, has landed "every evidence-ready
   session" (land.ts), also those that its own lands made ready, none twice. *)
AllReadyAreLanded ==
    /\ IsInjective(lander.landed)
    /\ lander.all /\ lander.ended = "done" /\ quiet /\ lander.saw.read =>
          \A s \in Listed : Landability(s) = "ready" => ~CommitsAhead(s)

(* "Recheck at the daemon boundary so a late write cannot be silently discarded"
   (land.session): no land of a session that it had to stop throws away what its
   agent had not committed, however late it wrote it.                      *)
LateWritesAreKept == discarded = {}

(* "a refusal must leave the session exactly as it was" (land.session), where the
   refusal is for want of a check; and a session that is not live any more
   was stopped by a land somebody forced, or a forced land stops it yet.    *)
RefusedIsUntouched ==
    /\ lander.ended = "check" => lander.hands = "off"
    /\ lander.hands = "stop" => Forced

LandsAreEvident == ReadyMeetsNoConflict /\ AllReadyAreLanded /\ LateWritesAreKept /\ RefusedIsUntouched

LandOrderTypeOK ==
    /\ onBase \in 0..(MaxBase + Len(LandRank)) /\ worked \in 0..MaxWork /\ quiet \in BOOLEAN
    /\ \A s \in LandSessions : agentOf[s].status \in {"idle", "running", "dead", "landed"}
    /\ clashes \subseteq LandPairs /\ atOdds \cup discarded \subseteq LandSessions
    /\ lander.at \in {"idle", "ask_live", "ask_warning", "ask_unknown", "status", "choose", "land", "closing", "stopped",
                      "trying", "testing"}
=============================================================================
