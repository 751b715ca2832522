----------------------------- MODULE Terminals -----------------------------
(***************************************************************************)
(* Extra terminals of a session (split panes) and their rows: opened,      *)
(* closed, ended, snapshotted and, when the user keeps terminals, reopened *)
(* under the same id by the next daemon.  `persistence.terminals` is read  *)
(* afresh at every use and may change at any moment.                       *)
(***************************************************************************)
EXTENDS Naturals, FiniteSets

CONSTANTS
    Terms,          \* terminal ids, each opened once by a user
    Owners,         \* sessions with a worktree
    MaxBoots        \* bound: restarts of the daemon

NoOwner == "nobody"

ASSUME TerminalsAssumption == MaxBoots \in Nat /\ NoOwner \notin Owners

VARIABLES
    keeping,    \* the user's setting, as enabled() reads it
    owner,      \* the session a terminal was opened in, or NoOwner
    openTerms,  \* TerminalRegistry.open_
    hungUp,     \* those somebody has sent a hangup: close() awaits their exit
    dirty,      \* output has come since the last snapshot
    rows,       \* table terminal
    saved,      \* history: rows whose snapshot holds all the output so far
    worktrees,  \* the sessions whose worktree (and row) is there
    removing,   \* sessions being removed: closeForSession's list, or NotRemoving
    daemon,     \* "up", "closing" (closeAll), "flushed" (signalled), "off"
    boots,      \* bound
    over        \* history: terminals that ended while the daemon stayed up

terminalsVars == <<keeping, owner, openTerms, hungUp, dirty, rows, saved, worktrees,
                   removing, daemon, boots, over>>

NotRemoving == [on |-> FALSE, list |-> {}]

TerminalsTypeOK ==
    /\ keeping \in BOOLEAN
    /\ owner \in [Terms -> Owners \cup {NoOwner}]
    /\ openTerms \subseteq Terms /\ hungUp \subseteq openTerms /\ dirty \subseteq openTerms
    /\ rows \subseteq Terms /\ saved \subseteq rows
    /\ worktrees \subseteq Owners
    /\ removing \in [Owners -> [on: BOOLEAN, list: SUBSET Terms]]
    /\ daemon \in {"up", "closing", "flushed", "off"}
    /\ boots \in 0..MaxBoots
    /\ over \subseteq Terms

TerminalsInit ==
    /\ keeping \in BOOLEAN
    /\ owner = [t \in Terms |-> NoOwner]
    /\ openTerms = {} /\ hungUp = {} /\ dirty = {}
    /\ rows = {} /\ saved = {}
    /\ worktrees = Owners
    /\ removing = [s \in Owners |-> NotRemoving]
    /\ daemon = "up" /\ boots = 0
    /\ over = {}

Serving == daemon \in {"up", "closing"}

-----------------------------------------------------------------------------

(* terminal.open: the row is there only when terminals are kept. *)
Open(t, s) ==
    /\ Serving /\ owner[t] = NoOwner
    /\ s \in worktrees
    /\ owner' = [owner EXCEPT ![t] = s]
    /\ openTerms' = openTerms \cup {t}
    /\ rows' = IF keeping THEN rows \cup {t} ELSE rows
    /\ UNCHANGED <<keeping, hungUp, dirty, saved, worktrees, removing, daemon, boots, over>>

TermPrints(t) ==
    /\ t \in openTerms
    /\ dirty' = dirty \cup {t}
    /\ saved' = saved \ {t}
    /\ UNCHANGED <<keeping, owner, openTerms, hungUp, rows, worktrees, removing, daemon, boots, over>>

(* terminal.close: hang up, then wait for the exit. *)
Close(t) ==
    /\ Serving /\ t \in openTerms
    /\ hungUp' = hungUp \cup {t}
    /\ UNCHANGED <<keeping, owner, openTerms, dirty, rows, saved, worktrees, removing, daemon, boots, over>>

\* Mutant: a row outlives its terminal.
RowsKept(t) == rows

(* A terminal that ended is gone for good; only the daemon going down keeps
   its row. *)
RowsAfterExit(t) == IF daemon = "closing" THEN rows ELSE rows \ {t}

(* onExit, hung up or on its own. *)
TermExits(t) ==
    /\ Serving \/ daemon = "flushed"
    /\ t \in openTerms
    /\ openTerms' = openTerms \ {t}
    /\ hungUp' = hungUp \ {t} /\ dirty' = dirty \ {t}
    /\ rows' = RowsAfterExit(t)
    /\ saved' = saved \cap rows'
    /\ over' = IF daemon = "closing" THEN over ELSE over \cup {t}
    /\ UNCHANGED <<keeping, owner, worktrees, removing, daemon, boots>>

(* closeForSession, then the removal of the worktree and of the row (whose
   cascade takes the terminals' rows): terminals opened meanwhile are not on
   its list. *)
BeginRemoval(s) ==
    /\ Serving /\ s \in worktrees /\ ~removing[s].on
    /\ LET list == {t \in openTerms : owner[t] = s}
       IN  /\ removing' = [removing EXCEPT ![s] = [on |-> TRUE, list |-> list]]
           /\ hungUp' = hungUp \cup list
    /\ UNCHANGED <<keeping, owner, openTerms, dirty, rows, saved, worktrees, daemon, boots, over>>

EndRemoval(s) ==
    /\ Serving /\ removing[s].on /\ removing[s].list \cap openTerms = {}
    /\ removing' = [removing EXCEPT ![s] = NotRemoving]
    /\ worktrees' = worktrees \ {s}
    /\ rows' = {t \in rows : owner[t] # s}
    /\ saved' = saved \cap rows'
    /\ UNCHANGED <<keeping, owner, openTerms, hungUp, dirty, daemon, boots, over>>

(* closeOrphanTerminals, after workspace.gc. *)
CloseOrphans ==
    /\ Serving
    /\ LET orphans == {t \in openTerms : owner[t] \notin worktrees}
       IN  /\ orphans \ hungUp # {}
           /\ hungUp' = hungUp \cup orphans
    /\ UNCHANGED <<keeping, owner, openTerms, dirty, rows, saved, worktrees, removing, daemon, boots, over>>

\* Mutant: a snapshot is stored for a terminal that has no row.
Upserted(due) == saved \cup due

(* TerminalRepo.setSnapshot, an update. *)
Snapshotted(due) == saved \cup (due \cap rows)

(* flush: what changed, or all of it when forced; switched off, everything
   stored is forgotten. *)
Flushed(force) ==
    IF ~keeping
      THEN rows' = {} /\ saved' = {} /\ UNCHANGED dirty
      ELSE LET due == IF force THEN openTerms ELSE dirty
           IN  /\ saved' = Snapshotted(due)
               /\ dirty' = dirty \ due
               /\ UNCHANGED rows

(* The timer of startFlushing, terminal.flush. *)
Flush(force) ==
    /\ daemon = "up"
    /\ Flushed(force)
    /\ UNCHANGED <<keeping, owner, openTerms, hungUp, worktrees, removing, daemon, boots, over>>

Toggle ==
    /\ keeping' = ~keeping
    /\ UNCHANGED <<owner, openTerms, hungUp, dirty, rows, saved, worktrees, removing, daemon, boots, over>>

-----------------------------------------------------------------------------
(* The daemon goes down and comes up.                                      *)

(* daemon.shutdown: closeAll flushes if terminals are kept, and hangs up all
   that are open. *)
CloseAllTerms ==
    /\ daemon = "up"
    /\ daemon' = "closing"
    /\ IF keeping THEN Flushed(TRUE) ELSE UNCHANGED <<rows, saved, dirty>>
    /\ hungUp' = openTerms
    /\ UNCHANGED <<keeping, owner, openTerms, worktrees, removing, boots, over>>

(* SIGTERM, SIGINT or a lost socket: flush, close the server, exit. *)
StopSignalled(ok) ==
    /\ daemon = "up"
    /\ daemon' = "flushed"
    /\ IF ok THEN Flushed(TRUE) ELSE UNCHANGED <<rows, saved, dirty>>
    /\ UNCHANGED <<keeping, owner, openTerms, hungUp, worktrees, removing, boots, over>>

(* The process is gone, with its shells: at the end of either, or in a crash. *)
Dies(crash) ==
    /\ daemon # "off"
    /\ daemon = "closing" /\ ~crash => hungUp = {}
    /\ daemon = "up" => crash
    /\ daemon' = "off"
    /\ openTerms' = {} /\ hungUp' = {} /\ dirty' = {}
    /\ removing' = [s \in Owners |-> NotRemoving]
    /\ UNCHANGED <<keeping, owner, rows, saved, worktrees, boots, over>>

(* restore, at the start of a daemon: a row whose session is gone is dropped,
   all of them when terminals are no longer kept. *)
Boot ==
    /\ daemon = "off" /\ boots < MaxBoots
    /\ daemon' = "up" /\ boots' = boots + 1
    /\ rows' = IF keeping THEN {t \in rows : owner[t] \in worktrees} ELSE {}
    /\ saved' = saved \cap rows'
    /\ openTerms' = rows'
    /\ UNCHANGED <<keeping, owner, hungUp, dirty, worktrees, removing, over>>

TerminalsNext ==
    \/ \E t \in Terms :
          \/ \E s \in Owners : Open(t, s)
          \/ TermPrints(t) \/ Close(t) \/ TermExits(t)
    \/ \E s \in Owners : BeginRemoval(s) \/ EndRemoval(s)
    \/ CloseOrphans \/ Toggle \/ CloseAllTerms \/ Boot
    \/ \E yes \in BOOLEAN : Flush(yes) \/ StopSignalled(yes) \/ Dies(yes)

TerminalsSpec == TerminalsInit /\ [][TerminalsNext]_terminalsVars

-----------------------------------------------------------------------------
(* Properties                                                              *)

(* A terminal that was closed or whose shell ended, while the daemon stayed
   up, never comes back: no crash, shutdown, flush, change of the setting or
   restart reopens it (terminal.ts, TerminalRepo: "A row goes when its terminal
   is closed by the user, when its shell ends"). *)
EndedStaysEnded == over \cap openTerms = {} /\ over \cap rows = {}

(* Nothing is stored of a terminal whose session is gone. *)
RowsHaveOwners == \A t \in rows : owner[t] \in worktrees
=============================================================================
