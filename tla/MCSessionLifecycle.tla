-------------------------- MODULE MCSessionLifecycle --------------------------
(***************************************************************************)
(* SessionLifecycle for TLC.  Two stories of one run: one session and two  *)
(* calls under every operation, or two sessions and three calls of few     *)
(* operations, their shells' ports contended.  Lands are a run of their    *)
(* own, over sets that are symmetric.                                      *)
(***************************************************************************)
EXTENDS SessionLifecycle, TLC

Symmetry == Permutations(Sessions) \cup Permutations(Calls) \cup Permutations(Blocks)

CONSTANTS OneSession, TwoCalls, OneBlock

VARIABLE story

ShellOps == {"none", "new", "start", "stop", "kill"}

OfEvery ==
    /\ story = "every operation"
    /\ \A s \in Sessions \ {OneSession} : row'[s] = row[s]
    /\ branch' \cup worktree' \subseteq {OneSession}
    /\ \A c \in Calls \ TwoCalls : call'[c] = NoCall
    /\ \A s \in Sessions : leases'[s] \subseteq {OneBlock}

OfShells ==
    /\ story = "shells"
    /\ \A c \in Calls : call'[c].op \in ShellOps
    /\ \A s \in starting' \ starting : shell[s] = NoShell    \* session.resume, not start
    /\ workspace'

StoryNext == Next /\ (OfEvery \/ OfShells) /\ UNCHANGED story

StoryInit == Init /\ story \in {"every operation", "shells"}
StorySpec ==
    /\ StoryInit /\ [][StoryNext]_<<vars, story>> /\ Fairness

(* Lands racing what else ends a session; safety only, so sets may be symmetric. *)
LandsInit == Init /\ story = "lands"
LandsSpec == LandsInit /\ [][Next /\ UNCHANGED story]_<<vars, story>>
===============================================================================
