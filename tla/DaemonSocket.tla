---------------------------- MODULE DaemonSocket ----------------------------
(***************************************************************************)
(* Who owns a project's daemon.sock: the daemons that clients spawn        *)
(* (client/rpc-client.ts, connectOrStart), how each of them takes the path *)
(* (daemon/server.ts, listen), watches it and leaves it (the watchdog and  *)
(* close), and how its client tells a lost race from a failed start        *)
(* (daemon/main.ts).  Daemons are processes: between any two system calls  *)
(* another one may run.                                                    *)
(*                                                                         *)
(* A socket file is named by the daemon that bound it, which is what its   *)
(* device and inode tell apart: no inode is used again while the process   *)
(* that bound it lives, and a daemon binds at most once.  The client's ten *)
(* second deadline is left out: the properties say it is not needed.       *)
(***************************************************************************)
EXTENDS Naturals

CONSTANTS
  Daemons,      \* daemon processes, each with the client that spawns it
  Nothing,      \* no file at the path
  Debris,       \* a file nobody listens on, left by a daemon of an earlier time
  MaxRemovals   \* bound: how often somebody deletes the socket file

ASSUME SocketConfig ==
  /\ Nothing \notin Daemons /\ Debris \notin Daemons /\ Nothing # Debris
  /\ MaxRemovals \in Nat

VARIABLES
  file,      \* what is at the socket path
  pc,        \* pc[d]: where daemon d is
  own,       \* own[d]: boundIdentity, what d found at the path after binding
  client,    \* client[d]: the client that spawned d
  removals   \* deletions of the file so far

vars == <<file, pc, own, client, removals>>

Files == Daemons \cup {Nothing, Debris}
Starting == {"starting", "probing", "clearing", "rebinding", "bound"}
Exited == {"lost", "failed", "orphaned", "stopped", "dead"}

TypeOK ==
  /\ file \in Files
  /\ pc \in [Daemons -> Starting \cup Exited \cup {"off", "serving", "closing"}]
  /\ own \in [Daemons -> Files]
  /\ client \in [Daemons -> {"none", "polling", "connected", "failed"}]
  /\ removals \in 0..MaxRemovals

Init ==
  /\ file \in {Nothing, Debris}
  /\ pc = [d \in Daemons |-> "off"]
  /\ own = [d \in Daemons |-> Nothing]
  /\ client = [d \in Daemons |-> "none"]
  /\ removals = 0

Goto(d, stage) == pc' = [pc EXCEPT ![d] = stage]

\* A connect to the path succeeds: the daemon whose socket lies there is listening.
Answers(f) == f \in Daemons /\ pc[f] \in {"bound", "serving", "closing"}
Reachable == Answers(file)

-----------------------------------------------------------------------------
(* A client *)

\* Nothing answers, so it spawns a daemon and polls.
Spawn(d) ==
  /\ pc[d] = "off" /\ ~Reachable
  /\ Goto(d, "starting")
  /\ client' = [client EXCEPT ![d] = "polling"]
  /\ UNCHANGED <<file, own, removals>>

Connects(d) ==
  /\ client[d] = "polling" /\ Reachable
  /\ client' = [client EXCEPT ![d] = "connected"]
  /\ UNCHANGED <<file, pc, own, removals>>

\* Mutant: every early exit is a failed start.
AnyExit(d) == pc[d] \in Exited

\* The daemon exited with another code than DAEMON_EXIT_ALREADY_RUNNING.
StartFailed(d) == pc[d] \in Exited \ {"lost"}

\* The final attempt did not connect either: DAEMON_START_FAILED.
GivesUp(d) ==
  /\ client[d] = "polling" /\ StartFailed(d) /\ ~Reachable
  /\ client' = [client EXCEPT ![d] = "failed"]
  /\ UNCHANGED <<file, pc, own, removals>>

-----------------------------------------------------------------------------
(* listen *)

\* The first bind, which the kernel refuses with EADDRINUSE while any file is there.
Bind(d) ==
  /\ pc[d] = "starting"
  /\ IF file = Nothing
       THEN file' = d /\ Goto(d, "bound")
       ELSE UNCHANGED file /\ Goto(d, "probing")
  /\ UNCHANGED <<own, client, removals>>

\* isSocketLive: DAEMON_ALREADY_RUNNING if somebody answers, else the file is debris.
Probe(d) ==
  /\ pc[d] = "probing"
  /\ Goto(d, IF Reachable THEN "lost" ELSE "clearing")
  /\ UNCHANGED <<file, own, client, removals>>

\* unlinkSync removes whatever is there by now, and throws when nothing is.
ClearPath(d) ==
  /\ pc[d] = "clearing"
  /\ file' = Nothing
  /\ Goto(d, IF file = Nothing THEN "failed" ELSE "rebinding")
  /\ UNCHANGED <<own, client, removals>>

Rebind(d) ==
  /\ pc[d] = "rebinding"
  /\ IF file = Nothing
       THEN file' = d /\ Goto(d, "bound")
       ELSE UNCHANGED file /\ Goto(d, "lost")
  /\ UNCHANGED <<own, client, removals>>

\* `listening` was emitted: chmodSync, which throws when the path is empty, then the
\* identity of whatever is there.
Serve(d) ==
  /\ pc[d] = "bound"
  /\ IF file = Nothing
       THEN Goto(d, "failed") /\ UNCHANGED own
       ELSE Goto(d, "serving") /\ own' = [own EXCEPT ![d] = file]
  /\ UNCHANGED <<file, client, removals>>

-----------------------------------------------------------------------------
(* The end of a daemon *)

\* Mutant: the watchdog only looks whether a socket is there.
PathEmpty(d) == file = Nothing

\* socketIdentity(path) is no longer boundIdentity.
SocketLost(d) == file # own[d]

\* Mutant: a daemon that lost its path closes its listener all the same.
ClosedByName(d) == Nothing

\* What a daemon that lost its path leaves there: its listener is only unref'ed.
FileOnLoss(d) == file

Leaves(d) ==
  /\ SocketLost(d)
  /\ file' = FileOnLoss(d)
  /\ Goto(d, "orphaned")

\* onSocketLost: shutdown, close, exit.
Watchdog(d) ==
  /\ pc[d] = "serving"
  /\ Leaves(d)
  /\ UNCHANGED <<own, client, removals>>

\* SIGTERM or SIGINT: close compares the identities first.
Signalled(d) ==
  /\ pc[d] = "serving"
  /\ \/ Leaves(d)
     \/ ~SocketLost(d) /\ Goto(d, "closing") /\ UNCHANGED file
  /\ UNCHANGED <<own, client, removals>>

\* Mutant: the listener is closed and its file stays.
FileStays(d) == file

\* What instance.close leaves at the path: the runtime unlinks it by name.
FileAfterClose(d) == Nothing

Close(d) ==
  /\ pc[d] = "closing"
  /\ file' = FileAfterClose(d)
  /\ Goto(d, "stopped")
  /\ UNCHANGED <<own, client, removals>>

\* A crash, a SIGKILL, or daemon.shutdown, which exits without close: the file stays.
Dies(d) ==
  /\ pc[d] \in Starting \cup {"serving", "closing"}
  /\ Goto(d, "dead")
  /\ UNCHANGED <<file, own, client, removals>>

\* Somebody deletes `.crossweave`, or the socket in it.
FileRemoved ==
  /\ removals < MaxRemovals /\ file # Nothing
  /\ file' = Nothing
  /\ removals' = removals + 1
  /\ UNCHANGED <<pc, own, client>>

-----------------------------------------------------------------------------
Step(d) ==
  \/ Bind(d) \/ Probe(d) \/ ClearPath(d) \/ Rebind(d) \/ Serve(d)
  \/ Watchdog(d) \/ Close(d) \/ Connects(d) \/ GivesUp(d)

Next ==
  \/ \E d \in Daemons : Spawn(d) \/ Step(d) \/ Signalled(d) \/ Dies(d)
  \/ FileRemoved

\* Processes run and the watchdog's interval fires; nothing makes anyone spawn, stop,
\* kill or delete.
Spec == Init /\ [][Next]_vars /\ \A d \in Daemons : WF_vars(Step(d))

-----------------------------------------------------------------------------
(* Properties *)

\* A daemon that is stopped by a signal, that loses the race or that fails leaves no
\* socket of its own behind for the next start to stumble over.
ExitLeavesNothing ==
  \A d \in Daemons : pc[d] \in {"lost", "failed", "orphaned", "stopped"} => file # d

\* Somebody interfered: a daemon was stopped or died, or the file was deleted.
Disturbed ==
  removals > 0 \/ \E d \in Daemons : pc[d] \in {"closing", "stopped", "dead"}

\* However many clients start daemons at once, over debris or not, and however they clear
\* each other's sockets, in the end one of them answers and keeps answering.
StampedeServes ==
  <>[]((\E d \in Daemons : pc[d] # "off") => Reachable \/ Disturbed)

\* A daemon whose own socket is gone from the path does not linger (server.ts: "orphans
\* piled up for days").
OrphansEnd ==
  \A d \in Daemons : pc[d] = "serving" /\ own[d] = d /\ file # d ~> pc[d] \in Exited

\* A client whose daemon lost the race gets the winner (exit-codes.ts: "keep polling for
\* the winner").
LosersConnect ==
  \A d \in Daemons : pc[d] = "lost" ~> client[d] = "connected" \/ Disturbed

\* "if a daemon answers, it owns the socket", a starter "never steals a socket" (server.ts).
NeverStolen ==
  [][\A d \in Daemons :
       pc[d] = "serving" /\ file = d /\ file' # d => removals' # removals]_vars

=============================================================================
