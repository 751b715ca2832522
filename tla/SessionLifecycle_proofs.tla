----------------------- MODULE SessionLifecycle_proofs -----------------------
(***************************************************************************)
(* Proofs about SessionLifecycle, for any sets of sessions, calls and      *)
(* blocks.  Each invariant is inductive together with the types; the lemma *)
(* about it has one step per action.                                       *)
(***************************************************************************)
EXTENDS SessionLifecycle, TLAPS

\* What a call's record holds by its stage: a session, and for the calls that will
\* record a final status, an ended one.
Removers == {"rm", "gc", "gc_force"}
Sound(k) ==
  /\ k.at \notin {"idle", "sweeping"} => k.s \in Sessions
  /\ k.at \in {"checking", "teardown", "purging"} /\ k.op \in Removers => k.seen \in Ended
  /\ k.at \in {"testing", "branch"} => k.op \in {"land", "land_force"}
  /\ k.at = "checking" => k.op \in Removers

SoundCall == {k \in CallType : Sound(k)}

\* The inductive type invariant.
Typed == TypeOK /\ call \in [Calls -> SoundCall]

LEMMA RowNames ==
  /\ "absent" \in RowStates /\ "gone" \in RowStates /\ "idle" \in RowStates
  /\ "running" \in RowStates /\ "dead" \in RowStates /\ "landed" \in RowStates
  /\ Live \subseteq RowStates /\ Ended \subseteq RowStates
  BY DEF RowStates, Live, Ended

LEMMA NoCallSound == NoCall \in SoundCall
  BY RowNames DEF NoCall, CallType, Stages, SoundCall, Sound

\* A call slot keeps its type through Begin, Goto and End.
LEMMA BeginSound ==
  ASSUME Typed, NEW c \in Calls, NEW o \in Kinds, NEW s \in Sessions, NEW stage \in Stages,
         stage \in {"forking", "acquiring", "stopping", "closing"}, Begin(c, o, s, stage)
  PROVE  call' \in [Calls -> SoundCall]
<1>1. [NoCall EXCEPT !.op = o, !.s = s, !.at = stage] \in SoundCall
  BY RowNames DEF CallType, NoCall, SoundCall, Sound
<1> QED
  BY <1>1 DEF Begin, Typed

LEMMA GotoSound ==
  ASSUME Typed, NEW c \in Calls, NEW stage \in Stages, Goto(c, stage),
         call[c].at \notin {"idle", "sweeping"},
         \/ stage \notin {"checking", "teardown", "purging"}
         \/ call[c].at \in {"checking", "teardown", "purging"}
         \/ call[c].op \notin Removers,
         stage \in {"testing", "branch"} => call[c].op \in {"land", "land_force"},
         stage # "checking"
  PROVE  call' \in [Calls -> SoundCall]
<1>1. [call[c] EXCEPT !.at = stage] \in SoundCall
  BY DEF CallType, SoundCall, Sound, Typed
<1> QED
  BY <1>1 DEF Goto, Typed

LEMMA EndSound ==
  ASSUME Typed, NEW c \in Calls, End(c)
  PROVE  call' \in [Calls -> SoundCall]
  BY NoCallSound DEF End, Typed

LEMMA StageNames ==
  {"idle", "forking", "inserting", "acquiring", "closing", "stopping", "testing", "teardown",
   "purging", "branch", "checking", "sweeping"} \subseteq Stages
  BY DEF Stages

LEMMA CallFields ==
  ASSUME Typed, NEW c \in Calls
  PROVE  /\ call[c].op \in Kinds \cup {"none"}
         /\ call[c].at \notin {"idle", "sweeping"} => call[c].s \in Sessions
         /\ call[c].at \in {"checking", "teardown", "purging"} /\ call[c].op \in Removers => call[c].seen \in Ended
         /\ call[c].at \in {"testing", "branch"} => call[c].op \in {"land", "land_force"}
         /\ call[c].at = "checking" => call[c].op \in Removers
         /\ call[c].todo \subseteq Sessions \X Ended
         /\ call[c].seen \in RowStates
  BY DEF Typed, SoundCall, Sound, CallType

LEMMA SeenBegin ==
  ASSUME NEW o \in {"land", "land_force"}, NEW s \in Sessions, NEW r \in RowStates
  PROVE  [NoCall EXCEPT !.op = o, !.s = s, !.at = "closing", !.seen = r] \in SoundCall
  BY DEF CallType, NoCall, SoundCall, Sound, Kinds, Stages

LEMMA SeenSound ==
  ASSUME Typed, NEW c \in Calls, call[c].at = "closing", NEW r \in Ended
  PROVE  [call[c] EXCEPT !.at = "teardown", !.seen = r] \in SoundCall
<1>1. PICK k : k = call[c]
  OBVIOUS
<1>2. k \in CallType /\ k.s \in Sessions
  BY <1>1 DEF Typed, SoundCall, Sound
<1>3. PICK d : d = [k EXCEPT !.at = "teardown", !.seen = r]
  OBVIOUS
<1>4. r \in RowStates /\ "teardown" \in Stages
  BY RowNames DEF Stages
<1>5. d \in CallType /\ d.at = "teardown" /\ d.seen = r /\ d.s = k.s
  BY <1>2, <1>3, <1>4 DEF CallType
<1>6. Sound(d)
  BY <1>2, <1>5 DEF Sound
<1> QED
  BY <1>1, <1>3, <1>5, <1>6 DEF SoundCall

LEMMA GcSound ==
  ASSUME Typed, NEW c \in Calls, NEW o \in Kinds \cup {"none"}, NEW todo \in SUBSET (Sessions \X Ended),
         NEW next \in GcTurns(o, todo), call' = [call EXCEPT ![c] = next]
  PROVE  call' \in [Calls -> SoundCall]
<1>1. CASE todo = {}
  <2>1. next = [NoCall EXCEPT !.op = o, !.at = "sweeping"]
    BY <1>1 DEF GcTurns
  <2>2. next \in SoundCall
    BY <2>1, RowNames DEF NoCall, CallType, SoundCall, Sound, Stages
  <2> QED
    BY <2>2 DEF Typed
<1>2. CASE todo # {}
  <2>1. PICK p \in todo : next = [op |-> o, s |-> p[1], seen |-> p[2], todo |-> todo \ {p},
         at |-> IF p[2] = "dead" /\ o = "gc" THEN "checking" ELSE "teardown"]
    BY <1>2 DEF GcTurns
  <2>2. p[1] \in Sessions /\ p[2] \in Ended /\ p[2] \in RowStates
    BY RowNames
  <2>3. next \in SoundCall
    BY <2>1, <2>2 DEF CallType, SoundCall, Sound, Stages, Removers
  <2> QED
    BY <2>3 DEF Typed
<1> QED
  BY <1>1, <1>2

LEMMA SoundIsCall == [Calls -> SoundCall] \subseteq [Calls -> CallType]
  BY DEF SoundCall

LEMMA TypeNext == Typed /\ [Next]_vars => Typed'
<1> SUFFICES ASSUME Typed, [Next]_vars PROVE Typed'
  OBVIOUS
<1> USE LifecycleConfig, StageNames
<1>1. ASSUME NEW c \in Calls, NEW s \in Sessions, BeginNew(c, s) PROVE Typed'
  <2>1. call' \in [Calls -> SoundCall]
    BY <1>1, BeginSound DEF BeginNew, Asked
  <2> QED
    BY <1>1, <2>1, CallFields, SoundIsCall, RowNames DEF BeginNew, Typed, TypeOK, disk
<1>2. ASSUME NEW c \in Calls, NEW s \in Sessions, BeginStart(c, s) PROVE Typed'
  <2>1. call' \in [Calls -> SoundCall]
    BY <1>2, BeginSound DEF BeginStart, Asked, Kinds
  <2> QED
    BY <1>2, <2>1, CallFields, SoundIsCall, RowNames DEF BeginStart, Typed, TypeOK, disk
<1>3. ASSUME NEW c \in Calls, NEW s \in Sessions, BeginStop(c, s) PROVE Typed'
  <2>1. call' \in [Calls -> SoundCall]
    BY <1>3, BeginSound DEF BeginStop, Asked, Typed
  <2> QED
    BY <1>3, <2>1, CallFields, SoundIsCall, RowNames DEF BeginStop, Typed, TypeOK, disk
<1>4. ASSUME NEW c \in Calls, NEW s \in Sessions, BeginKill(c, s) PROVE Typed'
  <2>1. call' \in [Calls -> SoundCall]
    BY <1>4, BeginSound DEF BeginKill, Asked, Typed
  <2> QED
    BY <1>4, <2>1, CallFields, SoundIsCall, RowNames DEF BeginKill, Typed, TypeOK, disk
<1>5. ASSUME NEW c \in Calls, NEW s \in Sessions, BeginRemove(c, s) PROVE Typed'
  <2>1. call' \in [Calls -> SoundCall]
    BY <1>5, BeginSound DEF BeginRemove, Asked
  <2> QED
    BY <1>5, <2>1, CallFields, SoundIsCall, RowNames DEF BeginRemove, Typed, TypeOK, disk
<1>6. ASSUME NEW c \in Calls, NEW s \in Sessions, BeginLand(c, s) PROVE Typed'
  <2>1. PICK o \in {"land", "land_force"} :
          call' = [call EXCEPT ![c] = [NoCall EXCEPT !.op = o, !.s = s, !.at = "closing", !.seen = row[s]]]
    BY <1>6 DEF BeginLand
  <2>2. row[s] \in RowStates
    BY DEF Typed, TypeOK
  <2>3. call' \in [Calls -> SoundCall]
    BY <2>1, <2>2, SeenBegin DEF Typed
  <2> QED
    BY <1>6, <2>3, SoundIsCall DEF BeginLand, Typed, TypeOK, disk
<1>7. ASSUME NEW c \in Calls, BeginGc(c) PROVE Typed'
  <2>1. call' \in [Calls -> SoundCall]
    BY <1>7, GcSound DEF BeginGc, Asked
  <2> QED
    BY <1>7, <2>1, CallFields, SoundIsCall, RowNames DEF BeginGc, Typed, TypeOK, disk
<1>8. ASSUME NEW c \in Calls, ForkWorktree(c) PROVE Typed'
  <2>1. call' \in [Calls -> SoundCall]
    BY <1>8, GotoSound, EndSound DEF ForkWorktree, At
  <2> QED
    BY <1>8, <2>1, CallFields, SoundIsCall, RowNames DEF ForkWorktree, Typed, TypeOK, disk, At
<1>9. ASSUME NEW c \in Calls, InsertRow(c) PROVE Typed'
  <2>1. call' \in [Calls -> SoundCall]
    BY <1>9, EndSound DEF InsertRow
  <2> QED
    BY <1>9, <2>1, CallFields, SoundIsCall, RowNames DEF InsertRow, Typed, TypeOK, disk, At
<1>10. ASSUME NEW c \in Calls, AcquireFails(c) PROVE Typed'
  <2>1. call' \in [Calls -> SoundCall]
    BY <1>10, EndSound DEF AcquireFails
  <2> QED
    BY <1>10, <2>1, CallFields, SoundIsCall, RowNames DEF AcquireFails, Typed, TypeOK, disk, At, StartingWithout
<1>11. ASSUME NEW c \in Calls, SpawnThrows(c) PROVE Typed'
  <2>1. call' \in [Calls -> SoundCall]
    BY <1>11, EndSound DEF SpawnThrows
  <2> QED
    BY <1>11, <2>1, CallFields, SoundIsCall, RowNames DEF SpawnThrows, Typed, TypeOK, disk, At, StartingWithout, LeasesAfterThrow
<1>12. ASSUME NEW c \in Calls, ShellStarts(c) PROVE Typed'
  <2>1. call' \in [Calls -> SoundCall]
    BY <1>12, EndSound DEF ShellStarts
  <2> QED
    BY <1>12, <2>1, CallFields, SoundIsCall, RowNames DEF ShellStarts, Typed, TypeOK, disk, At, StartingWithout, FreeBlocks
<1>13. ASSUME NEW c \in Calls, KillAfterPanes(c) PROVE Typed'
  <2>1. call' \in [Calls -> SoundCall]
    BY <1>13, GotoSound, EndSound DEF KillAfterPanes, At, Removers
  <2> QED
    BY <1>13, <2>1, CallFields, SoundIsCall, RowNames DEF KillAfterPanes, Typed, TypeOK, disk
<1>14. ASSUME NEW c \in Calls, RemoveAfterPanes(c) PROVE Typed'
  <2>1. call' \in [Calls -> SoundCall]
    <3>1. CASE End(c)
      BY <3>1, EndSound
    <3>2. CASE ~End(c)
      <4>1. call[c].at = "closing" /\ row[call[c].s] \in Ended
        BY <1>14, <3>2 DEF RemoveAfterPanes, At, Removable
      <4>2. PICK d : d = [call[c] EXCEPT !.at = "teardown", !.seen = row[call[c].s]]
        OBVIOUS
      <4>3. call' = [call EXCEPT ![c] = d]
        BY <1>14, <3>2, <4>2 DEF RemoveAfterPanes
      <4>4. d \in SoundCall
        BY <4>1, <4>2, SeenSound
      <4> QED
        BY <4>3, <4>4 DEF Typed
    <3> QED
      BY <3>1, <3>2
  <2> QED
    BY <1>14, <2>1, CallFields, SoundIsCall, RowNames DEF RemoveAfterPanes, Typed, TypeOK, disk
<1>15. ASSUME NEW c \in Calls, TeardownDone(c) PROVE Typed'
  <2>1. call' \in [Calls -> SoundCall]
    BY <1>15, GotoSound, EndSound DEF TeardownDone, At
  <2> QED
    BY <1>15, <2>1, CallFields, SoundIsCall, RowNames DEF TeardownDone, Typed, TypeOK, disk, At
<1>16. ASSUME NEW c \in Calls, PurgeRemoved(c) PROVE Typed'
  <2>1. call' \in [Calls -> SoundCall]
    BY <1>16, EndSound DEF PurgeRemoved
  <2> QED
    BY <1>16, <2>1, CallFields, SoundIsCall, RowNames DEF PurgeRemoved, Typed, TypeOK, disk, At, DeleteRowOf, HistoryAfter, Recorded, Removers, Ended
<1>17. ASSUME NEW c \in Calls, GcChecked(c) PROVE Typed'
  <2>1. call' \in [Calls -> SoundCall]
    BY <1>17, GotoSound, GcSound, CallFields DEF GcChecked, At, GcGoesOn
  <2> QED
    BY <1>17, <2>1, CallFields, SoundIsCall, RowNames DEF GcChecked, Typed, TypeOK, disk
<1>18. ASSUME NEW c \in Calls, GcPurges(c) PROVE Typed'
  <2>1. call' \in [Calls -> SoundCall]
    BY <1>18, GcSound, EndSound, CallFields DEF GcPurges, GcGoesOn
  <2> QED
    BY <1>18, <2>1, CallFields, SoundIsCall, RowNames DEF GcPurges, Typed, TypeOK, disk, At, DeleteRowOf, HistoryAfter, Recorded, Removers, Ended
<1>19. ASSUME NEW c \in Calls, SweepOrphans(c) PROVE Typed'
  <2>1. call' \in [Calls -> SoundCall]
    BY <1>19, EndSound DEF SweepOrphans
  <2> QED
    BY <1>19, <2>1, CallFields, SoundIsCall, RowNames DEF SweepOrphans, Typed, TypeOK, disk
<1>20. ASSUME NEW c \in Calls, LandAfterPanes(c) PROVE Typed'
  <2>1. call' \in [Calls -> SoundCall]
    BY <1>20, GotoSound, EndSound DEF LandAfterPanes, At, EnterLand
  <2>2. /\ row' \in [Sessions -> RowStates]
        /\ landing' \in BOOLEAN
    <3>1. row \in [Sessions -> RowStates] /\ landing \in BOOLEAN
      BY DEF Typed, TypeOK
    <3>2. row' = row \/ row' = [row EXCEPT ![call[c].s] = "dead"]
      BY <1>20 DEF LandAfterPanes
    <3>3. landing' = landing \/ landing' = TRUE
      BY <1>20 DEF LandAfterPanes, EnterLand
    <3> QED
      BY <3>1, <3>2, <3>3, RowNames
  <2> QED
    BY <1>20, <2>1, <2>2, SoundIsCall DEF LandAfterPanes, Typed, TypeOK, disk
<1>21. ASSUME NEW c \in Calls, LandFails(c) PROVE Typed'
  <2>1. call' \in [Calls -> SoundCall]
    BY <1>21, EndSound DEF LandFails
  <2> QED
    BY <1>21, <2>1, CallFields, SoundIsCall, RowNames DEF LandFails, Typed, TypeOK, At, MergedWith
<1>22. ASSUME NEW c \in Calls, LandMerges(c) PROVE Typed'
  <2>1. call' \in [Calls -> SoundCall]
    BY <1>22, GotoSound, CallFields DEF LandMerges, At, Removers
  <2> QED
    BY <1>22, <2>1, CallFields, SoundIsCall, RowNames DEF LandMerges, Typed, TypeOK, disk, At, MergedWith
<1>23. ASSUME NEW c \in Calls, LandRemoves(c) PROVE Typed'
  <2>1. call' \in [Calls -> SoundCall]
    BY <1>23, GotoSound DEF LandRemoves, At
  <2> QED
    BY <1>23, <2>1, CallFields, SoundIsCall, RowNames DEF LandRemoves, Typed, TypeOK, disk, At
<1>24. ASSUME NEW c \in Calls, LandFinishes(c) PROVE Typed'
  <2>1. call' \in [Calls -> SoundCall]
    BY <1>24, EndSound DEF LandFinishes
  <2> QED
    BY <1>24, <2>1, CallFields, SoundIsCall, RowNames DEF LandFinishes, Typed, TypeOK, disk, At, LandingAfter
<1>25. ASSUME NEW s \in Sessions, ShellExits(s) PROVE Typed'
  <2>1. PICK entering \in EnteringLands(s) :
          /\ landing' = (landing \/ entering # {})
          /\ call' = [c \in Calls |-> IF c \in Waiting(s) THEN AfterStop(c, entering) ELSE call[c]]
    BY <1>25 DEF ShellExits
  <2>2. ASSUME NEW c \in Waiting(s) PROVE AfterStop(c, entering) \in SoundCall
    <3>1. c \in Calls /\ call[c] \in SoundCall /\ call[c].at = "stopping"
      BY DEF Waiting, At, Typed
    <3>2. CASE call[c].op = "kill_rm"
      BY <3>1, <3>2 DEF AfterStop, SoundCall, Sound, CallType, Removers
    <3>3. CASE call[c].op # "kill_rm" /\ c \in entering
      <4>1. call[c].op = "land_force"
        BY <3>3 DEF EnteringLands
      <4> QED
        BY <3>1, <3>3, <4>1 DEF AfterStop, SoundCall, Sound, CallType, Removers
    <3>4. CASE call[c].op # "kill_rm" /\ c \notin entering
      BY <3>4, NoCallSound DEF AfterStop
    <3> QED
      BY <3>2, <3>3, <3>4
  <2>3. call' \in [Calls -> SoundCall]
    BY <2>1, <2>2 DEF Typed
  <2>4. RowAfterExit(s) \in RowStates
    BY RowNames DEF RowAfterExit, Typed, TypeOK
  <2> QED
    BY <1>25, <2>1, <2>3, <2>4, SoundIsCall DEF ShellExits, Typed, TypeOK, disk
<1>26. ASSUME DeleteWorkspace PROVE Typed'
  BY <1>26, RowNames DEF DeleteWorkspace, Typed, TypeOK, disk
<1>27. ASSUME Restart PROVE Typed'
  <2>1. \A s \in Sessions, alive \in SUBSET Survivors : Reconciled(s, alive) \in RowStates
    BY RowNames DEF Reconciled, Typed, TypeOK
  <2>2. Survivors \subseteq Sessions
    BY DEF Survivors, Typed, TypeOK
  <2>3. call' \in [Calls -> SoundCall]
    BY <1>27, NoCallSound DEF Restart
  <2>4. strays' \subseteq Sessions /\ row' \in [Sessions -> RowStates]
    BY <1>27, <2>1, <2>2 DEF Restart
  <2>5. worktree' \subseteq Sessions
    BY <1>27 DEF Restart, Typed, TypeOK
  <2> QED
    BY <1>27, <2>3, <2>4, <2>5, SoundIsCall DEF Restart, Typed, TypeOK
<1>28. ASSUME UNCHANGED vars PROVE Typed'
  BY <1>28 DEF vars, disk, Typed, TypeOK
<1> QED
  BY <1>1, <1>2, <1>3, <1>4, <1>5, <1>6, <1>7, <1>8, <1>9, <1>10, <1>11, <1>12, <1>13, <1>14,
     <1>15, <1>16, <1>17, <1>18, <1>19, <1>20, <1>21, <1>22, <1>23, <1>24, <1>25, <1>26, <1>27,
     <1>28 DEF Next, Request, Continue

-----------------------------------------------------------------------------
(* What Begin, Goto and End do to the call slots *)

LEMMA BeginFields ==
  ASSUME Typed, NEW c \in Calls, NEW o, NEW s, NEW stage, Begin(c, o, s, stage)
  PROVE  /\ call'[c].at = stage /\ call'[c].op = o /\ call'[c].s = s
         /\ call'[c].seen = "absent" /\ call'[c].todo = {}
         /\ \A d \in Calls : d # c => call'[d] = call[d]
  BY DEF Begin, NoCall, Typed

LEMMA GotoFields ==
  ASSUME Typed, NEW c \in Calls, NEW stage, Goto(c, stage)
  PROVE  /\ call'[c].at = stage /\ call'[c].op = call[c].op /\ call'[c].s = call[c].s
         /\ call'[c].seen = call[c].seen /\ call'[c].todo = call[c].todo
         /\ \A d \in Calls : d # c => call'[d] = call[d]
  BY DEF Goto, Typed, SoundCall, CallType

LEMMA EndFields ==
  ASSUME Typed, NEW c \in Calls, End(c)
  PROVE  /\ call'[c].at = "idle" /\ call'[c].op = "none" /\ call'[c].todo = {}
         /\ \A d \in Calls : d # c => call'[d] = call[d]
  BY DEF End, NoCall, Typed

\* gc's next turn is a check, a removal or the sweep, of a row it captured.
LEMMA TurnFields ==
  ASSUME NEW o, NEW todo \in SUBSET (Sessions \X Ended), NEW next \in GcTurns(o, todo)
  PROVE  /\ next.op = o /\ next.todo \subseteq todo
         /\ next.at \in {"sweeping", "checking", "teardown"}
         /\ next.at # "sweeping" => <<next.s, next.seen>> \in todo
<1>1. CASE todo = {}
  BY <1>1 DEF GcTurns, NoCall
<1>2. CASE todo # {}
  <2>1. PICK p \in todo : next = [op |-> o, s |-> p[1], seen |-> p[2], todo |-> todo \ {p},
         at |-> IF p[2] = "dead" /\ o = "gc" THEN "checking" ELSE "teardown"]
    BY <1>2 DEF GcTurns
  <2>2. p = <<p[1], p[2]>>
    OBVIOUS
  <2> QED
    BY <2>1, <2>2
<1> QED
  BY <1>1, <1>2

-----------------------------------------------------------------------------
(* Rows, shells and leases *)

ShellInv == LeaseHeldByShell /\ RunningHasShell /\ DeadHasNoShell

LEMMA ShellNext == Typed /\ ShellInv /\ [Next]_vars => ShellInv'
<1> SUFFICES ASSUME Typed, ShellInv, [Next]_vars PROVE ShellInv'
  OBVIOUS
<1> USE DEF ShellInv, LeaseHeldByShell, RunningHasShell, DeadHasNoShell
<1>1. ASSUME UNCHANGED <<row, shell, leases, strays>> PROVE ShellInv'
  BY <1>1
<1>2. ASSUME NEW c \in Calls, InsertRow(c) PROVE ShellInv'
  <2>1. call[c].s \in Sessions
    BY <1>2, CallFields DEF InsertRow, At
  <2>2. \A s \in Sessions : row'[s] \in {row[s], "idle"}
    BY <1>2, <2>1 DEF InsertRow, Typed, TypeOK
  <2> QED
    BY <1>2, <2>2 DEF InsertRow
<1>3. ASSUME NEW c \in Calls, NEW s \in Sessions, BeginStop(c, s) PROVE ShellInv'
  BY <1>3 DEF BeginStop, Typed, TypeOK
<1>4. ASSUME NEW c \in Calls, NEW s \in Sessions, BeginKill(c, s) PROVE ShellInv'
  BY <1>4 DEF BeginKill, MustStop, Typed, TypeOK
<1>5. ASSUME NEW c \in Calls, AcquireFails(c) PROVE ShellInv'
  BY <1>5 DEF AcquireFails, Typed, TypeOK
<1>6. ASSUME NEW c \in Calls, SpawnThrows(c) PROVE ShellInv'
  BY <1>6 DEF SpawnThrows, LeasesAfterThrow, Typed, TypeOK
<1>7. ASSUME NEW c \in Calls, ShellStarts(c) PROVE ShellInv'
  <2>1. call[c].s \in Sessions
    BY <1>7, CallFields DEF ShellStarts, At
  <2> QED
    BY <1>7, <2>1, LifecycleConfig DEF ShellStarts, FreeBlocks, Typed, TypeOK
<1>8. ASSUME NEW s \in Sessions, ShellExits(s) PROVE ShellInv'
  <2>1. RowAfterExit(s) # "running"
    BY DEF RowAfterExit, Resolves, Live, Ended
  <2> QED
    BY <1>8, <2>1 DEF ShellExits, Typed, TypeOK
<1>9. ASSUME NEW c \in Calls, DeleteRowOf(c), UNCHANGED <<shell, strays>> PROVE ShellInv'
  BY <1>9 DEF DeleteRowOf, Typed, TypeOK
<1>10. ASSUME NEW c \in Calls, PurgeRemoved(c) PROVE ShellInv'
  BY <1>1, <1>9, <1>10 DEF PurgeRemoved
<1>11. ASSUME NEW c \in Calls, GcPurges(c) PROVE ShellInv'
  BY <1>1, <1>9, <1>11 DEF GcPurges
<1>12. ASSUME NEW c \in Calls, LandAfterPanes(c) PROVE ShellInv'
  <2> DEFINE t == call[c].s
  <2>0. row' = row \/ (row' = [row EXCEPT ![t] = "dead"] /\ shell[t] = NoShell)
    BY <1>12 DEF LandAfterPanes, MustStop
  <2>1. \A s \in Sessions : row'[s] = row[s] \/ (row'[s] = "dead" /\ shell[s] = NoShell)
    BY <2>0 DEF Typed, TypeOK
  <2> QED
    BY <1>12, <2>1 DEF LandAfterPanes
<1>13. ASSUME NEW c \in Calls, LandRemoves(c) PROVE ShellInv'
  BY <1>13 DEF LandRemoves, Typed, TypeOK
<1>14. ASSUME NEW c \in Calls, LandFinishes(c) PROVE ShellInv'
  <2>1. \A s \in Sessions : row'[s] \in {row[s], "landed"}
    BY <1>14 DEF LandFinishes, Typed, TypeOK
  <2> QED
    BY <1>14, <2>1 DEF LandFinishes
<1>15. ASSUME DeleteWorkspace PROVE ShellInv'
  BY <1>15 DEF DeleteWorkspace, Typed, TypeOK
<1>16. ASSUME Restart PROVE ShellInv'
  <2>1. PICK alive \in SUBSET Survivors :
          strays' = alive /\ row' = [s \in Sessions |-> Reconciled(s, alive)]
    BY <1>16 DEF Restart
  <2>2. \A s \in Sessions : Reconciled(s, alive) = "running" => s \in alive
    BY DEF Reconciled
  <2> QED
    BY <1>16, <2>1, <2>2 DEF Restart
<1> QED
  <2>1. CASE UNCHANGED vars
    BY <1>1, <2>1 DEF vars
  <2>2. ASSUME NEW c \in Calls, Request(c) PROVE ShellInv'
    BY <1>1, <1>3, <1>4, <2>2 DEF Request, BeginNew, BeginStart, BeginRemove, BeginLand, BeginGc
  <2>3. ASSUME NEW c \in Calls, Continue(c) PROVE ShellInv'
    BY <1>1, <1>2, <1>5, <1>6, <1>7, <1>10, <1>11, <1>12, <1>13, <1>14, <2>3
    DEF Continue, ForkWorktree, KillAfterPanes, RemoveAfterPanes, TeardownDone, GcChecked,
        SweepOrphans, LandFails, LandMerges
  <2> QED
    BY <1>8, <1>15, <1>16, <2>1, <2>2, <2>3 DEF Next

-----------------------------------------------------------------------------
(* The `landing` lock *)

LandInv ==
  /\ OneLandAtATime
  /\ LandLockHeld
  /\ \A c \in Calls : InLand(c) => landing

\* A call that was not and is not inside landSession does not concern the lock.
LEMMA LandUntouched ==
  ASSUME LandInv, NEW c \in Calls, UNCHANGED landing,
         \A d \in Calls : d # c => call'[d] = call[d],
         InLand(c) <=> InLand(c)'
  PROVE  LandInv'
<1>1. \A d \in Calls : InLand(d)' <=> InLand(d)
  BY DEF InLand, At
<1> QED
  BY <1>1 DEF LandInv, OneLandAtATime, LandLockHeld

LEMMA LandNext == Typed /\ LandInv /\ [Next]_vars => LandInv'
<1> SUFFICES ASSUME Typed, LandInv, [Next]_vars PROVE LandInv'
  OBVIOUS
<1>1. ASSUME UNCHANGED <<landing, call>> PROVE LandInv'
  BY <1>1 DEF LandInv, OneLandAtATime, LandLockHeld, InLand, At
<1>2. ASSUME NEW c \in Calls, End(c), UNCHANGED landing, ~InLand(c) PROVE LandInv'
  BY <1>2, EndFields, LandUntouched DEF InLand, At
<1>3. ASSUME NEW c \in Calls, NEW stage, Goto(c, stage), UNCHANGED landing,
             call[c].op \notin {"land", "land_force"}, ~InLand(c),
             stage \notin {"testing", "branch"}
      PROVE LandInv'
  BY <1>3, GotoFields, LandUntouched DEF InLand, At
<1>4. ASSUME NEW c \in Calls, NEW o, NEW s, NEW stage, Begin(c, o, s, stage), UNCHANGED landing,
             call[c] = NoCall, stage \notin {"testing", "branch", "teardown"}
      PROVE LandInv'
  BY <1>4, BeginFields, LandUntouched DEF InLand, At, NoCall
<1>5. ASSUME NEW c \in Calls, NEW next, call' = [call EXCEPT ![c] = next], UNCHANGED landing,
             ~InLand(c), next.at \notin {"testing", "branch"},
             next.op \notin {"land", "land_force"} \/ next.at # "teardown"
      PROVE LandInv'
  <2>1. call'[c] = next /\ \A d \in Calls : d # c => call'[d] = call[d]
    BY <1>5 DEF Typed
  <2> QED
    BY <1>5, <2>1, LandUntouched DEF InLand, At
<1>6. ASSUME NEW c \in Calls, InLand(c), End(c), landing' = FALSE PROVE LandInv'
  BY <1>6, EndFields DEF LandInv, OneLandAtATime, LandLockHeld, InLand, At
<1>7. ASSUME NEW c \in Calls, Request(c) PROVE LandInv'
  <2>1. ASSUME NEW s \in Sessions, BeginLand(c, s) PROVE LandInv'
    <3>1. PICK o \in {"land", "land_force"} :
            /\ call[c] = NoCall
            /\ UNCHANGED landing
            /\ call' = [call EXCEPT ![c] = [NoCall EXCEPT !.op = o, !.s = s, !.at = "closing", !.seen = row[s]]]
      BY <2>1 DEF BeginLand, Asked
    <3> DEFINE next == [NoCall EXCEPT !.op = o, !.s = s, !.at = "closing", !.seen = row[s]]
    <3>2. next.at = "closing"
      BY DEF NoCall
    <3>3. ~InLand(c)
      BY <3>1 DEF InLand, At, NoCall
    <3> HIDE DEF next
    <3>4. call' = [call EXCEPT ![c] = next]
      BY <3>1 DEF next
    <3> QED
      BY <1>5, <3>1, <3>2, <3>3, <3>4
  <2>2. ASSUME BeginGc(c) PROVE LandInv'
    <3> DEFINE ended == {p \in Sessions \X Ended : row[p[1]] = p[2]}
    <3>1. ended \in SUBSET (Sessions \X Ended)
      OBVIOUS
    <3>2. PICK o \in {"gc", "gc_force"} : \E n \in GcTurns(o, ended) :
            call[c] = NoCall /\ UNCHANGED landing /\ call' = [call EXCEPT ![c] = n]
      BY <2>2 DEF BeginGc, Asked
    <3> HIDE DEF ended
    <3>3. PICK n \in GcTurns(o, ended) :
            call[c] = NoCall /\ UNCHANGED landing /\ call' = [call EXCEPT ![c] = n]
      BY <3>2
    <3>4. n.at \in {"sweeping", "checking", "teardown"} /\ n.op = o
      BY <3>1, TurnFields
    <3>5. ~InLand(c)
      BY <3>3 DEF InLand, At, NoCall
    <3> QED
      BY <3>3, <3>4, <3>5, <1>5
  <2>3. ASSUME NEW s \in Sessions, BeginNew(c, s) PROVE LandInv'
    BY <2>3, <1>4 DEF BeginNew, Asked
  <2>4. ASSUME NEW s \in Sessions, BeginStart(c, s) PROVE LandInv'
    BY <2>4, <1>4 DEF BeginStart, Asked
  <2>5. ASSUME NEW s \in Sessions, BeginStop(c, s) PROVE LandInv'
    BY <2>5, <1>1, <1>4 DEF BeginStop, Asked
  <2>6. ASSUME NEW s \in Sessions, BeginKill(c, s) PROVE LandInv'
    BY <2>6, <1>1, <1>4 DEF BeginKill, Asked
  <2>7. ASSUME NEW s \in Sessions, BeginRemove(c, s) PROVE LandInv'
    BY <2>7, <1>4 DEF BeginRemove, Asked
  <2> QED
    BY <1>7, <2>1, <2>2, <2>3, <2>4, <2>5, <2>6, <2>7 DEF Request
<1>8. ASSUME NEW c \in Calls, Continue(c) PROVE LandInv'
  <2>1. ASSUME ForkWorktree(c) PROVE LandInv'
    BY <2>1, <1>2, GotoFields, LandUntouched DEF ForkWorktree, InLand, At
  <2>2. ASSUME \/ InsertRow(c) \/ AcquireFails(c) \/ SpawnThrows(c) \/ ShellStarts(c)
               \/ PurgeRemoved(c) \/ SweepOrphans(c)
        PROVE LandInv'
    BY <2>2, <1>2 DEF InsertRow, AcquireFails, SpawnThrows, ShellStarts, PurgeRemoved,
                      SweepOrphans, InLand, At
  <2>3. ASSUME KillAfterPanes(c) PROVE LandInv'
    BY <2>3, <1>2, <1>3 DEF KillAfterPanes, InLand, At
  <2>4. ASSUME RemoveAfterPanes(c) PROVE LandInv'
    <3>1. CASE Removable(call[c].s)
      <4>1. call' = [call EXCEPT ![c] = [call[c] EXCEPT !.at = "teardown", !.seen = row[call[c].s]]]
        BY <2>4, <3>1 DEF RemoveAfterPanes
      <4>2. [call[c] EXCEPT !.at = "teardown", !.seen = row[call[c].s]].op = "rm"
        BY <2>4 DEF RemoveAfterPanes, Typed, SoundCall, CallType
      <4>3. [call[c] EXCEPT !.at = "teardown", !.seen = row[call[c].s]].at = "teardown"
        BY DEF Typed, SoundCall, CallType
      <4> QED
        BY <2>4, <4>1, <4>2, <4>3, <1>5 DEF RemoveAfterPanes, InLand, At
    <3>2. CASE ~Removable(call[c].s)
      BY <2>4, <3>2, <1>2 DEF RemoveAfterPanes, InLand, At
    <3> QED
      BY <3>1, <3>2
  <2>5. ASSUME TeardownDone(c) PROVE LandInv'
    BY <2>5, <1>2, <1>3 DEF TeardownDone, InLand, At
  <2>6. ASSUME GcGoesOn(c), UNCHANGED landing, ~InLand(c), call[c].op \notin {"land", "land_force"}
        PROVE LandInv'
    <3>1. PICK next \in GcTurns(call[c].op, call[c].todo) : call' = [call EXCEPT ![c] = next]
      BY <2>6 DEF GcGoesOn
    <3>2. call[c].todo \in SUBSET (Sessions \X Ended)
      BY CallFields
    <3>3. \A o, todo : todo \in SUBSET (Sessions \X Ended) => \A n \in GcTurns(o, todo) :
            n.at \in {"sweeping", "checking", "teardown"} /\ n.op = o
      BY TurnFields
    <3>4. next.at \in {"sweeping", "checking", "teardown"} /\ next.op = call[c].op
      BY <3>2, <3>3
    <3> QED
      BY <2>6, <3>1, <3>4, <1>5
  <2>7. ASSUME GcChecked(c) PROVE LandInv'
    <3>1. call[c].op \notin {"land", "land_force"} /\ ~InLand(c)
      BY <2>7, CallFields DEF GcChecked, InLand, At, Removers
    <3>2. CASE GcGoesOn(c)
      BY <2>6, <2>7, <3>1, <3>2 DEF GcChecked
    <3>3. CASE Goto(c, "teardown")
      BY <1>3, <2>7, <3>1, <3>3 DEF GcChecked
    <3> QED
      BY <2>7, <3>2, <3>3 DEF GcChecked
  <2>8. ASSUME GcPurges(c) PROVE LandInv'
    BY <2>8, <2>6, <1>2 DEF GcPurges, InLand, At
  <2>9. ASSUME NEW r, At(c, "closing"), EnterLand(c, r) PROVE LandInv'
    <3>1. CASE End(c) /\ UNCHANGED landing
      BY <2>9, <3>1, <1>2 DEF InLand, At
    <3>2. CASE LandLockFree /\ landing' = TRUE /\ Goto(c, "testing")
      <4>1. \A d \in Calls : ~InLand(d)
        BY <3>2 DEF LandInv, LandLockFree
      <4>2. \A d \in Calls : (InLand(d)') <=> (d = c)
        BY <4>1, <3>2, GotoFields DEF InLand, At
      <4> QED
        BY <3>2, <4>2 DEF LandInv, OneLandAtATime, LandLockHeld
    <3> QED
      BY <2>9, <3>1, <3>2 DEF EnterLand
  <2>10. ASSUME LandAfterPanes(c) PROVE LandInv'
    <3>1. ASSUME Goto(c, "stopping"), UNCHANGED landing, At(c, "closing") PROVE LandInv'
      BY <3>1, GotoFields, LandUntouched DEF InLand, At
    <3>2. ASSUME End(c), UNCHANGED landing, At(c, "closing") PROVE LandInv'
      BY <3>2, <1>2 DEF InLand, At
    <3> QED
      BY <2>9, <2>10, <3>1, <3>2 DEF LandAfterPanes
  <2>11. ASSUME LandFails(c) PROVE LandInv'
    BY <2>11, <1>6 DEF LandFails, InLand
  <2>12. ASSUME LandMerges(c) PROVE LandInv'
    BY <2>12, GotoFields, CallFields, LandUntouched DEF LandMerges, InLand, At
  <2>13. ASSUME LandRemoves(c) PROVE LandInv'
    BY <2>13, GotoFields, LandUntouched DEF LandRemoves, InLand, At
  <2>14. ASSUME LandFinishes(c) PROVE LandInv'
    BY <2>14, <1>6 DEF LandFinishes, LandingAfter, InLand
  <2> QED
    BY <1>8, <2>1, <2>2, <2>3, <2>4, <2>5, <2>7, <2>8, <2>10, <2>11, <2>12, <2>13, <2>14
    DEF Continue
<1>9. ASSUME NEW s \in Sessions, ShellExits(s) PROVE LandInv'
  <2>1. PICK entering \in EnteringLands(s) :
          /\ landing' = (landing \/ entering # {})
          /\ call' = [c \in Calls |-> IF c \in Waiting(s) THEN AfterStop(c, entering) ELSE call[c]]
    BY <1>9 DEF ShellExits
  <2>2. \A c \in Waiting(s) : c \in Calls /\ ~InLand(c)
    BY DEF Waiting, InLand, At
  <2>3. \A c \in Waiting(s) : InLand(c)' <=> (c \in entering)
    <3> SUFFICES ASSUME NEW c \in Waiting(s) PROVE InLand(c)' <=> (c \in entering)
      OBVIOUS
    <3>1. call'[c] = AfterStop(c, entering)
      BY <2>1, <2>2
    <3>2. CASE call[c].op = "kill_rm"
      <4>1. c \notin entering
        BY <3>2 DEF EnteringLands
      <4>2. call'[c].at = "teardown" /\ call'[c].op = "kill_rm"
        BY <3>1, <3>2, <2>2 DEF AfterStop, Typed, SoundCall, CallType
      <4> QED
        BY <4>1, <4>2 DEF InLand, At
    <3>3. CASE call[c].op # "kill_rm" /\ c \in entering
      <4>1. call'[c].at = "testing"
        BY <3>1, <3>3, <2>2 DEF AfterStop, Typed, SoundCall, CallType
      <4> QED
        BY <3>3, <4>1 DEF InLand, At
    <3>4. CASE call[c].op # "kill_rm" /\ c \notin entering
      BY <3>1, <3>4 DEF AfterStop, NoCall, InLand, At
    <3> QED
      BY <3>2, <3>3, <3>4
  <2>4. \A c \in Calls : c \notin Waiting(s) => (InLand(c)' <=> InLand(c))
    BY <2>1 DEF InLand, At
  <2>5. CASE entering = {}
    BY <2>1, <2>2, <2>3, <2>4, <2>5 DEF LandInv, OneLandAtATime, LandLockHeld
  <2>6. CASE entering # {}
    <3>1. PICK e : entering = {e}
      BY <2>6 DEF EnteringLands
    <3>2. e \in Calls /\ ~landing
      BY <2>2, <3>1 DEF EnteringLands, LandLockFree, Waiting
    <3>3. \A c \in Calls : (InLand(c)') <=> (c = e)
      <4>1. \A c \in Calls : ~InLand(c)
        BY <3>2 DEF LandInv
      <4>2. e \in Waiting(s)
        BY <3>1 DEF EnteringLands
      <4> QED
        BY <2>3, <2>4, <3>1, <4>1, <4>2
    <3> QED
      BY <2>1, <2>6, <3>2, <3>3 DEF LandInv, OneLandAtATime, LandLockHeld
  <2> QED
    BY <2>5, <2>6
<1>10. ASSUME Restart PROVE LandInv'
  <2>1. \A c \in Calls : ~InLand(c)'
    BY <1>10 DEF Restart, InLand, At, NoCall
  <2> QED
    BY <1>10, <2>1 DEF Restart, LandInv, OneLandAtATime, LandLockHeld
<1> QED
  BY <1>1, <1>7, <1>8, <1>9, <1>10 DEF Next, vars, DeleteWorkspace

-----------------------------------------------------------------------------
(* The `starting` set *)

StartInv ==
  /\ StartingHasCall
  /\ \A c \in Calls : At(c, "acquiring") => call[c].s \in starting
  /\ \A c, d \in Calls :
       At(c, "acquiring") /\ At(d, "acquiring") /\ call[c].s = call[d].s => c = d

\* A slot that is not acquiring before or after a step does not concern `starting`.
LEMMA StartUntouched ==
  ASSUME StartInv, UNCHANGED starting,
         \A d \in Calls : \/ call'[d] = call[d]
                          \/ call[d].at # "acquiring" /\ call'[d].at # "acquiring"
  PROVE  StartInv'
  BY DEF StartInv, StartingHasCall, At

LEMMA GotoNotAcquiring ==
  ASSUME Typed, StartInv, UNCHANGED starting, NEW c \in Calls, NEW stage, Goto(c, stage),
         stage # "acquiring", ~At(c, "acquiring")
  PROVE  StartInv'
  BY GotoFields, StartUntouched DEF At

LEMMA EndNotAcquiring ==
  ASSUME Typed, StartInv, UNCHANGED starting, NEW c \in Calls, End(c), ~At(c, "acquiring")
  PROVE  StartInv'
  BY EndFields, StartUntouched DEF At

LEMMA TurnNotAcquiring ==
  ASSUME Typed, StartInv, UNCHANGED starting, NEW c \in Calls, ~At(c, "acquiring"),
         NEW next, next.at # "acquiring", call' = [call EXCEPT ![c] = next]
  PROVE  StartInv'
<1>1. call'[c] = next /\ \A d \in Calls : d # c => call'[d] = call[d]
  BY DEF Typed
<1> QED
  BY <1>1, StartUntouched DEF At

LEMMA GoesOnNotAcquiring ==
  ASSUME Typed, StartInv, UNCHANGED starting, NEW c \in Calls, ~At(c, "acquiring"), GcGoesOn(c)
  PROVE  StartInv'
<1>1. PICK next \in GcTurns(call[c].op, call[c].todo) : call' = [call EXCEPT ![c] = next]
  BY DEF GcGoesOn
<1>2. call[c].todo \in SUBSET (Sessions \X Ended)
  BY CallFields
<1>3. \A o, todo : todo \in SUBSET (Sessions \X Ended) => \A n \in GcTurns(o, todo) :
        n.at \in {"sweeping", "checking", "teardown"}
  BY TurnFields
<1>4. next.at # "acquiring"
  BY <1>2, <1>3
<1> QED
  BY <1>1, <1>4, TurnNotAcquiring

LEMMA StartNext == Typed /\ StartInv /\ [Next]_vars => StartInv'
<1> SUFFICES ASSUME Typed, StartInv, [Next]_vars PROVE StartInv'
  OBVIOUS
<1>1. ASSUME UNCHANGED <<starting, call>> PROVE StartInv'
  BY <1>1, StartUntouched
<1>2. ASSUME NEW c \in Calls, NEW o, NEW s, NEW stage, Begin(c, o, s, stage), UNCHANGED starting,
             call[c] = NoCall, stage # "acquiring"
      PROVE StartInv'
  BY <1>2, BeginFields, StartUntouched DEF NoCall
<1>3. ASSUME NEW c \in Calls, At(c, "acquiring"), End(c), starting' = starting \ {call[c].s}
      PROVE StartInv'
  BY <1>3, EndFields DEF StartInv, StartingHasCall, At
<1>4. ASSUME NEW c \in Calls, Request(c) PROVE StartInv'
  <2>1. ASSUME NEW s \in Sessions, BeginStart(c, s) PROVE StartInv'
    <3>1. /\ call[c] = NoCall /\ s \notin starting /\ starting' = starting \cup {s}
          /\ Begin(c, "start", s, "acquiring")
      BY <2>1 DEF BeginStart, Asked, AlreadyStarting
    <3>2. call[c].at = "idle"
      BY <3>1 DEF NoCall
    <3> QED
      BY <3>1, <3>2, BeginFields DEF StartInv, StartingHasCall, At
  <2>2. ASSUME NEW s \in Sessions, BeginLand(c, s) PROVE StartInv'
    <3>1. PICK o \in {"land", "land_force"} :
            /\ call[c] = NoCall
            /\ UNCHANGED starting
            /\ call' = [call EXCEPT ![c] = [NoCall EXCEPT !.op = o, !.s = s, !.at = "closing", !.seen = row[s]]]
      BY <2>2 DEF BeginLand, Asked
    <3> DEFINE next == [NoCall EXCEPT !.op = o, !.s = s, !.at = "closing", !.seen = row[s]]
    <3>2. next.at # "acquiring" /\ ~At(c, "acquiring")
      BY <3>1 DEF NoCall, At
    <3> HIDE DEF next
    <3>3. call' = [call EXCEPT ![c] = next]
      BY <3>1 DEF next
    <3> QED
      BY <3>1, <3>2, <3>3, TurnNotAcquiring
  <2>3. ASSUME BeginGc(c) PROVE StartInv'
    <3> DEFINE ended == {p \in Sessions \X Ended : row[p[1]] = p[2]}
    <3>1. ended \in SUBSET (Sessions \X Ended)
      OBVIOUS
    <3>2. PICK o \in {"gc", "gc_force"} : \E n \in GcTurns(o, ended) :
            call[c] = NoCall /\ UNCHANGED starting /\ call' = [call EXCEPT ![c] = n]
      BY <2>3 DEF BeginGc, Asked
    <3> HIDE DEF ended
    <3>3. PICK n \in GcTurns(o, ended) :
            call[c] = NoCall /\ UNCHANGED starting /\ call' = [call EXCEPT ![c] = n]
      BY <3>2
    <3>4. n.at # "acquiring"
      BY <3>1, TurnFields
    <3>5. ~At(c, "acquiring")
      BY <3>3 DEF At, NoCall
    <3> QED
      BY <3>3, <3>4, <3>5, TurnNotAcquiring
  <2>4. ASSUME NEW s \in Sessions, BeginNew(c, s) PROVE StartInv'
    BY <2>4, <1>2 DEF BeginNew, Asked
  <2>5. ASSUME NEW s \in Sessions, BeginStop(c, s) PROVE StartInv'
    BY <2>5, <1>1, <1>2 DEF BeginStop, Asked
  <2>6. ASSUME NEW s \in Sessions, BeginKill(c, s) PROVE StartInv'
    BY <2>6, <1>1, <1>2 DEF BeginKill, Asked
  <2>7. ASSUME NEW s \in Sessions, BeginRemove(c, s) PROVE StartInv'
    BY <2>7, <1>2 DEF BeginRemove, Asked
  <2> QED
    BY <1>4, <2>1, <2>2, <2>3, <2>4, <2>5, <2>6, <2>7 DEF Request
<1>5. ASSUME NEW c \in Calls, Continue(c) PROVE StartInv'
  <2>1. ASSUME \/ AcquireFails(c) \/ SpawnThrows(c) \/ ShellStarts(c) PROVE StartInv'
    BY <2>1, <1>3 DEF AcquireFails, SpawnThrows, ShellStarts, StartingWithout
  <2>2. ASSUME \/ ForkWorktree(c) \/ InsertRow(c) \/ KillAfterPanes(c) \/ TeardownDone(c)
               \/ PurgeRemoved(c) \/ SweepOrphans(c)
        PROVE StartInv'
    BY <2>2, GotoNotAcquiring, EndNotAcquiring
    DEF ForkWorktree, InsertRow, KillAfterPanes, TeardownDone, PurgeRemoved, SweepOrphans, At
  <2>3. ASSUME RemoveAfterPanes(c) PROVE StartInv'
    <3>1. CASE Removable(call[c].s)
      <4> DEFINE next == [call[c] EXCEPT !.at = "teardown", !.seen = row[call[c].s]]
      <4>1. call' = [call EXCEPT ![c] = next]
        BY <2>3, <3>1 DEF RemoveAfterPanes
      <4>2. next.at = "teardown"
        BY DEF Typed, SoundCall, CallType
      <4> HIDE DEF next
      <4> QED
        BY <2>3, <4>1, <4>2, TurnNotAcquiring DEF RemoveAfterPanes, At
    <3>2. CASE ~Removable(call[c].s)
      BY <2>3, <3>2, EndNotAcquiring DEF RemoveAfterPanes, At
    <3> QED
      BY <3>1, <3>2
  <2>4. ASSUME \/ GcChecked(c) \/ GcPurges(c) PROVE StartInv'
    BY <2>4, GoesOnNotAcquiring, GotoNotAcquiring, EndNotAcquiring DEF GcChecked, GcPurges, At
  <2>5. ASSUME \/ LandFails(c) \/ LandMerges(c) \/ LandRemoves(c) \/ LandFinishes(c)
        PROVE StartInv'
    BY <2>5, GotoNotAcquiring, EndNotAcquiring
    DEF LandFails, LandMerges, LandRemoves, LandFinishes, At
  <2>6. ASSUME LandAfterPanes(c) PROVE StartInv'
    BY <2>6, GotoNotAcquiring, EndNotAcquiring DEF LandAfterPanes, EnterLand, At
  <2> QED
    BY <1>5, <2>1, <2>2, <2>3, <2>4, <2>5, <2>6 DEF Continue
<1>6. ASSUME NEW s \in Sessions, ShellExits(s) PROVE StartInv'
  <2>1. PICK entering \in EnteringLands(s) :
          call' = [c \in Calls |-> IF c \in Waiting(s) THEN AfterStop(c, entering) ELSE call[c]]
    BY <1>6 DEF ShellExits
  <2>2. ASSUME NEW c \in Waiting(s)
        PROVE  c \in Calls /\ call[c].at = "stopping" /\ AfterStop(c, entering).at # "acquiring"
    <3>1. c \in Calls /\ call[c].at = "stopping"
      BY DEF Waiting, At
    <3> QED
      BY <3>1 DEF AfterStop, NoCall, Typed, SoundCall, CallType
  <2> QED
    BY <1>6, <2>1, <2>2, StartUntouched DEF ShellExits
<1>7. ASSUME Restart PROVE StartInv'
  BY <1>7 DEF Restart, NoCall, StartInv, StartingHasCall, At
<1> QED
  BY <1>1, <1>4, <1>5, <1>6, <1>7 DEF Next, vars, DeleteWorkspace

-----------------------------------------------------------------------------
(* What is called landed has been merged *)

\* What a call knows to be merged: the branch a land has merged and not yet dealt with,
\* and every session an rm or a gc captured as landed.
MergedCall(k) ==
  /\ k.at = "branch" => k.s \in merged
  /\ k.at = "teardown" /\ k.op \in {"land", "land_force"} => k.s \in merged
  /\ k.at \in {"checking", "teardown", "purging"} /\ k.op \in Removers /\ k.seen = "landed"
       => k.s \in merged
  /\ \A t \in Sessions : <<t, "landed">> \in k.todo => t \in merged

MergeInv == LandedWasMerged /\ \A c \in Calls : MergedCall(call[c])

\* What a step must show: the rows and the history it writes, and the slot it changes.
LEMMA MergeStep ==
  ASSUME MergeInv, merged \subseteq merged',
         \A s \in Sessions : row'[s] = "landed" => row[s] = "landed" \/ s \in merged',
         \A s \in Sessions : "landed" \in history'[s] => "landed" \in history[s] \/ s \in merged',
         \A d \in Calls : call'[d] = call[d] \/ MergedCall(call[d])'
  PROVE  MergeInv'
<1>1. \A d \in Calls : MergedCall(call[d])'
  BY DEF MergeInv, MergedCall
<1> QED
  BY <1>1 DEF MergeInv, LandedWasMerged

LEMMA MergeEnd ==
  ASSUME Typed, MergeInv, merged \subseteq merged', NEW c \in Calls, End(c)
  PROVE  \A d \in Calls : call'[d] = call[d] \/ MergedCall(call[d])'
  BY EndFields DEF MergedCall

LEMMA MergeBegin ==
  ASSUME Typed, MergeInv, merged \subseteq merged', NEW c \in Calls, NEW o, NEW s, NEW stage,
         stage \notin {"branch", "checking", "teardown", "purging"}, Begin(c, o, s, stage)
  PROVE  \A d \in Calls : call'[d] = call[d] \/ MergedCall(call[d])'
  BY BeginFields DEF MergedCall

\* A call that moves on within a removal or a land, or into a stage that knows nothing.
LEMMA MergeGoto ==
  ASSUME Typed, MergeInv, merged \subseteq merged', NEW c \in Calls, NEW stage, Goto(c, stage),
         \/ stage \notin {"branch", "checking", "teardown", "purging"}
         \/ call[c].op \notin {"land", "land_force"} \cup Removers /\ stage # "branch"
         \/ /\ call[c].at \in {"checking", "teardown", "purging"}
            /\ call[c].op \in Removers /\ stage # "branch"
         \/ call[c].s \in merged' /\ call[c].op \notin Removers
  PROVE  \A d \in Calls : call'[d] = call[d] \/ MergedCall(call[d])'
  BY GotoFields DEF MergedCall, MergeInv, Removers

\* gc turns to a session it captured.
LEMMA MergeTurn ==
  ASSUME Typed, merged \subseteq merged', NEW c \in Calls, NEW todo \in SUBSET (Sessions \X Ended),
         \A t \in Sessions : <<t, "landed">> \in todo => t \in merged',
         NEW o \in Removers, NEW next \in GcTurns(o, todo), call' = [call EXCEPT ![c] = next]
  PROVE  \A d \in Calls : call'[d] = call[d] \/ MergedCall(call[d])'
<1>1. call'[c] = next /\ \A d \in Calls : d # c => call'[d] = call[d]
  BY DEF Typed
<1>2. /\ next.op = o /\ next.todo \subseteq todo
      /\ next.at \in {"sweeping", "checking", "teardown"}
      /\ next.at # "sweeping" => <<next.s, next.seen>> \in todo
  BY TurnFields
<1>3. next.at # "sweeping" => next.s \in Sessions
  BY <1>2
<1> QED
  BY <1>1, <1>2, <1>3 DEF MergedCall, Removers

LEMMA MergeGoesOn ==
  ASSUME Typed, MergeInv, merged \subseteq merged', NEW c \in Calls, call[c].op \in Removers,
         GcGoesOn(c)
  PROVE  \A d \in Calls : call'[d] = call[d] \/ MergedCall(call[d])'
<1> DEFINE o == call[c].op  todo == call[c].todo
<1>1. PICK next \in GcTurns(o, todo) : call' = [call EXCEPT ![c] = next]
  BY DEF GcGoesOn
<1>2. todo \in SUBSET (Sessions \X Ended)
  BY CallFields
<1>3. \A t \in Sessions : <<t, "landed">> \in todo => t \in merged'
  BY DEF MergeInv, MergedCall
<1>4. o \in Removers
  OBVIOUS
<1> HIDE DEF o, todo
<1> QED
  BY <1>1, <1>2, <1>3, <1>4, MergeTurn

\* Whoever deletes a row records what it captured.
LEMMA MergeDelete ==
  ASSUME Typed, MergeInv, NEW c \in Calls, At(c, "purging"), call[c].op \in Removers \cup {"kill_rm"},
         DeleteRowOf(c)
  PROVE  /\ \A s \in Sessions : row'[s] = "landed" => row[s] = "landed"
         /\ \A s \in Sessions : "landed" \in history'[s] => "landed" \in history[s] \/ s \in merged
<1>1. \A s \in Sessions : row'[s] = "landed" => row[s] = "landed"
  BY DEF DeleteRowOf, Typed, TypeOK
<1>2. Recorded(c) = "landed" => call[c].s \in merged
  BY DEF Recorded, MergeInv, MergedCall, At, Removers
<1>3. \A s \in Sessions : "landed" \in history'[s] => "landed" \in history[s] \/ s \in merged
  BY <1>2 DEF DeleteRowOf, HistoryAfter, Typed, TypeOK
<1> QED
  BY <1>1, <1>3

LEMMA MergeNext == Typed /\ MergeInv /\ [Next]_vars => MergeInv'
<1> SUFFICES ASSUME Typed, MergeInv, [Next]_vars PROVE MergeInv'
  OBVIOUS
<1>1. ASSUME UNCHANGED <<merged, row, history>>,
             \A d \in Calls : call'[d] = call[d] \/ MergedCall(call[d])'
      PROVE  MergeInv'
  BY <1>1, MergeStep
<1>2. ASSUME UNCHANGED <<merged, history>>,
             \A s \in Sessions : row'[s] = "landed" => row[s] = "landed",
             \A d \in Calls : call'[d] = call[d] \/ MergedCall(call[d])'
      PROVE  MergeInv'
  BY <1>2, MergeStep
<1>3. ASSUME NEW c \in Calls, Request(c) PROVE MergeInv'
  <2>1. ASSUME NEW s \in Sessions, \/ BeginNew(c, s) \/ BeginStart(c, s) \/ BeginRemove(c, s)
        PROVE MergeInv'
    <3>1. PICK o, stage : /\ stage \in {"forking", "acquiring", "closing"}
                          /\ Begin(c, o, s, stage)
      BY <2>1 DEF BeginNew, BeginStart, BeginRemove
    <3>2. UNCHANGED <<merged, row, history>>
      BY <2>1 DEF BeginNew, BeginStart, BeginRemove, disk
    <3> QED
      BY <3>1, <3>2, <1>1, MergeBegin
  <2>2. ASSUME NEW s \in Sessions, BeginStop(c, s) PROVE MergeInv'
    BY <2>2, <1>1, MergeBegin DEF BeginStop, disk
  <2>3. ASSUME NEW s \in Sessions, BeginKill(c, s) PROVE MergeInv'
    <3>1. \A t \in Sessions : row'[t] = "landed" => row[t] = "landed"
      BY <2>3 DEF BeginKill, Typed, TypeOK
    <3>2. call' = call \/ Begin(c, "kill", s, "stopping")
      BY <2>3 DEF BeginKill
    <3>3. UNCHANGED <<merged, history>>
      BY <2>3 DEF BeginKill, disk
    <3> QED
      BY <3>1, <3>2, <3>3, <1>2, MergeBegin
  <2>4. ASSUME NEW s \in Sessions, BeginLand(c, s) PROVE MergeInv'
    <3>1. PICK o \in {"land", "land_force"} :
            call' = [call EXCEPT ![c] = [NoCall EXCEPT !.op = o, !.s = s, !.at = "closing", !.seen = row[s]]]
      BY <2>4 DEF BeginLand
    <3> DEFINE next == [NoCall EXCEPT !.op = o, !.s = s, !.at = "closing", !.seen = row[s]]
    <3>2. next.at = "closing" /\ next.todo = {}
      BY DEF NoCall
    <3> HIDE DEF next
    <3>3. call'[c] = next /\ \A d \in Calls : d # c => call'[d] = call[d]
      BY <3>1 DEF Typed, next
    <3> QED
      BY <2>4, <3>2, <3>3, <1>1 DEF BeginLand, MergedCall, disk
  <2>5. ASSUME BeginGc(c) PROVE MergeInv'
    <3> DEFINE ended == {p \in Sessions \X Ended : row[p[1]] = p[2]}
    <3>1. ended \in SUBSET (Sessions \X Ended)
      OBVIOUS
    <3>2. UNCHANGED <<merged, row, history>>
      BY <2>5 DEF BeginGc, disk
    <3>3. \A t \in Sessions : <<t, "landed">> \in ended => t \in merged'
      BY <3>2 DEF MergeInv, LandedWasMerged
    <3>4. PICK o \in Removers : \E n \in GcTurns(o, ended) : call' = [call EXCEPT ![c] = n]
      BY <2>5 DEF BeginGc, Removers
    <3> HIDE DEF ended
    <3> QED
      BY <3>1, <3>2, <3>3, <3>4, <1>1, MergeTurn
  <2> QED
    BY <1>3, <2>1, <2>2, <2>3, <2>4, <2>5 DEF Request
<1>4. ASSUME NEW c \in Calls, Continue(c) PROVE MergeInv'
  <2>1. ASSUME ForkWorktree(c) PROVE MergeInv'
    BY <2>1, <1>1, MergeGoto, MergeEnd DEF ForkWorktree
  <2>2. ASSUME InsertRow(c) PROVE MergeInv'
    <3>1. \A t \in Sessions : row'[t] = "landed" => row[t] = "landed"
      BY <2>2 DEF InsertRow, Typed, TypeOK
    <3> QED
      BY <2>2, <3>1, <1>2, MergeEnd DEF InsertRow
  <2>3. ASSUME \/ AcquireFails(c) \/ SpawnThrows(c) PROVE MergeInv'
    BY <2>3, <1>1, MergeEnd DEF AcquireFails, SpawnThrows, disk
  <2>4. ASSUME ShellStarts(c) PROVE MergeInv'
    <3>1. \A t \in Sessions : row'[t] = "landed" => row[t] = "landed"
      BY <2>4 DEF ShellStarts, Typed, TypeOK
    <3> QED
      BY <2>4, <3>1, <1>2, MergeEnd DEF ShellStarts, disk
  <2>5. ASSUME KillAfterPanes(c) PROVE MergeInv'
    BY <2>5, <1>1, MergeGoto, MergeEnd DEF KillAfterPanes, Removers, disk
  <2>6. ASSUME RemoveAfterPanes(c) PROVE MergeInv'
    <3>1. CASE Removable(call[c].s)
      <4> DEFINE next == [call[c] EXCEPT !.at = "teardown", !.seen = row[call[c].s]]
      <4>1. call' = [call EXCEPT ![c] = next]
        BY <2>6, <3>1 DEF RemoveAfterPanes
      <4>2. /\ next.at = "teardown" /\ next.op = "rm" /\ next.s = call[c].s
            /\ next.seen = row[call[c].s] /\ next.todo = call[c].todo
        BY <2>6 DEF RemoveAfterPanes, Typed, SoundCall, CallType
      <4> HIDE DEF next
      <4>3. call'[c] = next /\ \A d \in Calls : d # c => call'[d] = call[d]
        BY <4>1 DEF Typed
      <4>4. call[c].s \in Sessions
        BY <2>6, CallFields DEF RemoveAfterPanes, At
      <4>5. UNCHANGED <<merged, row, history>>
        BY <2>6 DEF RemoveAfterPanes, disk
      <4>6. MergedCall(call[c])'
        BY <4>2, <4>3, <4>4, <4>5 DEF MergedCall, MergeInv, LandedWasMerged
      <4> QED
        BY <4>3, <4>5, <4>6, <1>1
    <3>2. CASE ~Removable(call[c].s)
      BY <2>6, <3>2, <1>1, MergeEnd DEF RemoveAfterPanes, disk
    <3> QED
      BY <3>1, <3>2
  <2>7. ASSUME TeardownDone(c) PROVE MergeInv'
    BY <2>7, <1>1, MergeGoto, MergeEnd DEF TeardownDone, At, Removers
  <2>8. ASSUME PurgeRemoved(c) PROVE MergeInv'
    <3>1. \/ DeleteRowOf(c)
          \/ UNCHANGED <<row, history>>
      BY <2>8 DEF PurgeRemoved
    <3>2. UNCHANGED merged /\ End(c)
      BY <2>8 DEF PurgeRemoved
    <3>3. At(c, "purging") /\ call[c].op \in Removers \cup {"kill_rm"}
      BY <2>8 DEF PurgeRemoved, Removers
    <3> QED
      BY <3>1, <3>2, <3>3, MergeDelete, MergeEnd, MergeStep
  <2>9. ASSUME GcChecked(c) PROVE MergeInv'
    <3>1. call[c].op \in Removers
      BY <2>9, CallFields DEF GcChecked, At
    <3> QED
      BY <2>9, <3>1, <1>1, MergeGoesOn, MergeGoto DEF GcChecked, At, disk
  <2>10. ASSUME GcPurges(c) PROVE MergeInv'
    <3>1. UNCHANGED merged /\ At(c, "purging") /\ call[c].op \in Removers
      BY <2>10 DEF GcPurges, Removers
    <3>2. CASE DeleteRowOf(c) /\ GcGoesOn(c)
      BY <3>1, <3>2, MergeDelete, MergeGoesOn, MergeStep
    <3>3. CASE End(c) /\ UNCHANGED <<row, leases, history>>
      BY <3>1, <3>3, MergeEnd, <1>1
    <3> QED
      BY <2>10, <3>2, <3>3 DEF GcPurges
  <2>11. ASSUME SweepOrphans(c) PROVE MergeInv'
    BY <2>11, <1>1, MergeEnd DEF SweepOrphans
  <2>12. ASSUME LandAfterPanes(c) PROVE MergeInv'
    <3>1. \A t \in Sessions : row'[t] = "landed" => row[t] = "landed"
      BY <2>12 DEF LandAfterPanes, Typed, TypeOK
    <3>2. Goto(c, "testing") \/ Goto(c, "stopping") \/ End(c)
      BY <2>12 DEF LandAfterPanes, EnterLand
    <3> QED
      BY <2>12, <3>1, <3>2, <1>2, MergeGoto, MergeEnd DEF LandAfterPanes, disk
  <2>13. ASSUME LandFails(c) PROVE MergeInv'
    <3>1. merged \subseteq merged'
      BY <2>13 DEF LandFails, MergedWith
    <3> QED
      BY <2>13, <3>1, MergeEnd, MergeStep DEF LandFails
  <2>14. ASSUME LandMerges(c) PROVE MergeInv'
    <3>1. call[c].op \notin Removers
      BY <2>14, CallFields DEF LandMerges, At, Removers
    <3>2. Goto(c, "teardown") /\ call[c].s \in merged' /\ merged \subseteq merged'
      BY <2>14 DEF LandMerges, MergedWith
    <3> QED
      BY <2>14, <3>1, <3>2, MergeGoto, MergeStep DEF LandMerges
  <2>15. ASSUME LandRemoves(c) PROVE MergeInv'
    <3>1. call[c].op \notin Removers /\ call[c].s \in merged
      BY <2>15 DEF LandRemoves, At, Removers, MergeInv, MergedCall
    <3> QED
      BY <2>15, <3>1, <1>1, MergeGoto DEF LandRemoves
  <2>16. ASSUME LandFinishes(c) PROVE MergeInv'
    <3>1. call[c].s \in merged
      BY <2>16 DEF LandFinishes, At, MergeInv, MergedCall
    <3>2. \A t \in Sessions : row'[t] = "landed" => row[t] = "landed" \/ t \in merged
      BY <2>16, <3>1 DEF LandFinishes, Typed, TypeOK
    <3> QED
      BY <2>16, <3>2, MergeEnd, MergeStep DEF LandFinishes
  <2> QED
    BY <1>4, <2>1, <2>2, <2>3, <2>4, <2>5, <2>6, <2>7, <2>8, <2>9, <2>10, <2>11, <2>12, <2>13,
       <2>14, <2>15, <2>16 DEF Continue
<1>5. ASSUME NEW s \in Sessions, ShellExits(s) PROVE MergeInv'
  <2>1. PICK entering \in EnteringLands(s) :
          call' = [c \in Calls |-> IF c \in Waiting(s) THEN AfterStop(c, entering) ELSE call[c]]
    BY <1>5 DEF ShellExits
  <2>2. \A t \in Sessions : row'[t] = "landed" => row[t] = "landed"
    BY <1>5 DEF ShellExits, RowAfterExit, Ended, Typed, TypeOK
  <2>3. ASSUME NEW c \in Calls PROVE call'[c] = call[c] \/ MergedCall(call[c])'
    <3>1. CASE c \notin Waiting(s)
      BY <2>1, <3>1
    <3>2. CASE c \in Waiting(s) /\ call[c].op = "kill_rm"
      <4>1. call'[c] = [call[c] EXCEPT !.at = "teardown"]
        BY <2>1, <3>2 DEF AfterStop
      <4>2. /\ call'[c].at = "teardown" /\ call'[c].op = "kill_rm"
            /\ call'[c].todo = call[c].todo
        BY <3>2, <4>1 DEF Typed, SoundCall, CallType
      <4> QED
        BY <1>5, <4>2 DEF ShellExits, disk, MergedCall, MergeInv, Removers
    <3>3. CASE c \in Waiting(s) /\ call[c].op # "kill_rm" /\ c \in entering
      <4>1. call'[c] = [call[c] EXCEPT !.at = "testing"]
        BY <2>1, <3>3 DEF AfterStop
      <4>2. call'[c].at = "testing" /\ call'[c].todo = call[c].todo
        BY <4>1 DEF Typed, SoundCall, CallType
      <4> QED
        BY <1>5, <4>2 DEF ShellExits, disk, MergedCall, MergeInv
    <3>4. CASE c \in Waiting(s) /\ call[c].op # "kill_rm" /\ c \notin entering
      BY <2>1, <3>4 DEF AfterStop, NoCall, MergedCall
    <3> QED
      BY <3>1, <3>2, <3>3, <3>4
  <2> QED
    BY <1>5, <2>2, <2>3, <1>2 DEF ShellExits, disk
<1>6. ASSUME DeleteWorkspace PROVE MergeInv'
  <2>1. \A t \in Sessions : row'[t] = "landed" => row[t] = "landed"
    BY <1>6 DEF DeleteWorkspace, Typed, TypeOK
  <2> QED
    BY <1>6, <2>1, <1>2 DEF DeleteWorkspace, disk
<1>7. ASSUME Restart PROVE MergeInv'
  <2>1. \A t \in Sessions : row'[t] = "landed" => row[t] = "landed"
    BY <1>7 DEF Restart, Reconciled
  <2>2. \A c \in Calls : MergedCall(call[c])'
    BY <1>7 DEF Restart, NoCall, MergedCall
  <2> QED
    BY <1>7, <2>1, <2>2, <1>2 DEF Restart
<1>8. ASSUME UNCHANGED vars PROVE MergeInv'
  BY <1>8, <1>1 DEF vars, disk
<1> QED
  BY <1>3, <1>4, <1>5, <1>6, <1>7, <1>8 DEF Next

-----------------------------------------------------------------------------
(* A row disappears only into the history *)

LEMMA RecordedNext == Typed /\ RemovedIsRecorded /\ [Next]_vars => RemovedIsRecorded'
<1> SUFFICES ASSUME Typed, RemovedIsRecorded, [Next]_vars PROVE RemovedIsRecorded'
  OBVIOUS
<1>1. ASSUME UNCHANGED <<workspace, history>>,
             \A s \in Sessions : row'[s] = "gone" => row[s] = "gone"
      PROVE  RemovedIsRecorded'
  BY <1>1 DEF RemovedIsRecorded
<1>2. ASSUME UNCHANGED <<workspace, history, row>> PROVE RemovedIsRecorded'
  BY <1>1, <1>2
<1>3. ASSUME NEW c \in Calls, DeleteRowOf(c), UNCHANGED workspace, call[c].s \in Sessions
      PROVE  RemovedIsRecorded'
  BY <1>3 DEF DeleteRowOf, HistoryAfter, RemovedIsRecorded, Typed, TypeOK
<1>4. ASSUME NEW c \in Calls, Request(c) PROVE RemovedIsRecorded'
  <2>1. ASSUME NEW s \in Sessions, BeginKill(c, s) PROVE RemovedIsRecorded'
    BY <2>1, <1>1 DEF BeginKill, Typed, TypeOK
  <2> QED
    BY <1>2, <1>4, <2>1
    DEF Request, BeginNew, BeginStart, BeginStop, BeginRemove, BeginLand, BeginGc
<1>5. ASSUME NEW c \in Calls, Continue(c) PROVE RemovedIsRecorded'
  <2>1. ASSUME \/ InsertRow(c) \/ ShellStarts(c) \/ LandAfterPanes(c) \/ LandFinishes(c)
        PROVE RemovedIsRecorded'
    <3>1. \A s \in Sessions : row'[s] = "gone" => row[s] = "gone"
      BY <2>1 DEF InsertRow, ShellStarts, LandAfterPanes, LandFinishes, Typed, TypeOK
    <3>2. UNCHANGED <<workspace, history>>
      BY <2>1 DEF InsertRow, ShellStarts, LandAfterPanes, LandFinishes
    <3> QED
      BY <3>1, <3>2, <1>1
  <2>2. ASSUME PurgeRemoved(c) \/ GcPurges(c) PROVE RemovedIsRecorded'
    <3>1. call[c].s \in Sessions /\ UNCHANGED workspace
      BY <2>2, CallFields DEF PurgeRemoved, GcPurges, At
    <3>2. DeleteRowOf(c) \/ UNCHANGED <<row, history>>
      BY <2>2 DEF PurgeRemoved, GcPurges
    <3> QED
      BY <3>1, <3>2, <1>2, <1>3
  <2> QED
    BY <1>2, <1>5, <2>1, <2>2
    DEF Continue, ForkWorktree, AcquireFails, SpawnThrows, KillAfterPanes, RemoveAfterPanes,
        TeardownDone, GcChecked, SweepOrphans, LandFails, LandMerges, LandRemoves
<1>6. ASSUME NEW s \in Sessions, ShellExits(s) PROVE RemovedIsRecorded'
  <2>1. row[s] # "gone" => RowAfterExit(s) # "gone"
    BY DEF RowAfterExit, Ended
  <2> QED
    BY <1>6, <2>1, <1>1 DEF ShellExits, Typed, TypeOK
<1>7. ASSUME DeleteWorkspace PROVE RemovedIsRecorded'
  BY <1>7 DEF DeleteWorkspace, RemovedIsRecorded
<1>8. ASSUME Restart PROVE RemovedIsRecorded'
  BY <1>8, <1>1 DEF Restart, Reconciled
<1> QED
  BY <1>2, <1>4, <1>5, <1>6, <1>7, <1>8 DEF Next, vars

-----------------------------------------------------------------------------
(* Port blocks, when no request but these is made *)

\* The requests under which no shell shares its block: `session.start`, which does not
\* look for a live shell, and the removals and lands, which release leases while a shell
\* may be starting, are not among them.
ShellOps == {"new", "resume", "stop", "kill", "restart"}

BlocksInv ==
  /\ \A c \in Calls :
       /\ call[c].at \in {"idle", "forking", "inserting", "acquiring", "stopping"}
       /\ call[c].op \in {"none", "new", "start", "stop", "kill"}
       /\ At(c, "acquiring") => shell[call[c].s] = NoShell
  /\ \A s, t \in Sessions : s # t => leases[s] \cap leases[t] = {}
  /\ \A s \in Sessions : shell[s] # NoShell => shell[s] \in leases[s]

\* A step that starts no shell and takes no lease from a live one.
LEMMA BlocksStep ==
  ASSUME BlocksInv,
         \A d \in Calls : \/ call'[d] = call[d]
                          \/ /\ call'[d].at \in {"idle", "forking", "inserting", "stopping"}
                             /\ call'[d].op \in {"none", "new", "start", "stop", "kill"},
         \A s \in Sessions : leases'[s] \subseteq leases[s],
         \A s \in Sessions : \/ shell'[s] = NoShell
                             \/ shell'[s] = shell[s] /\ leases'[s] = leases[s],
         \A d \in Calls : At(d, "acquiring") => shell'[call[d].s] = shell[call[d].s]
                                                  \/ shell'[call[d].s] = NoShell
  PROVE  BlocksInv'
  BY DEF BlocksInv, At

LEMMA BlocksNext ==
  ASSUME Ops \subseteq ShellOps, Typed, StartInv, BlocksInv, [Next]_vars
  PROVE  BlocksInv'
<1>1. ASSUME UNCHANGED <<leases, shell>>,
             \A d \in Calls : \/ call'[d] = call[d]
                              \/ /\ call'[d].at \in {"idle", "forking", "inserting", "stopping"}
                                 /\ call'[d].op \in {"none", "new", "start", "stop", "kill"}
      PROVE  BlocksInv'
  BY <1>1, BlocksStep
<1>2. ASSUME NEW c \in Calls, Request(c) PROVE BlocksInv'
  <2>1. ASSUME NEW s \in Sessions, BeginNew(c, s) PROVE BlocksInv'
    BY <2>1, <1>1, BeginFields DEF BeginNew
  <2>2. ASSUME NEW s \in Sessions, BeginStart(c, s) PROVE BlocksInv'
    <3>1. Begin(c, "start", s, "acquiring") /\ shell[s] = NoShell /\ UNCHANGED <<leases, shell>>
      BY <2>2 DEF BeginStart, Asked, ShellOps
    <3> QED
      BY <3>1, BeginFields DEF BlocksInv, At
  <2>3. ASSUME NEW s \in Sessions, BeginStop(c, s) PROVE BlocksInv'
    <3>1. CASE MustStop(s)
      BY <2>3, <3>1, <1>1, BeginFields DEF BeginStop
    <3>2. CASE ~MustStop(s)
      BY <2>3, <3>2, BlocksStep DEF BeginStop, MustStop, Typed, TypeOK
    <3> QED
      BY <3>1, <3>2
  <2>4. ASSUME NEW s \in Sessions, BeginKill(c, s) PROVE BlocksInv'
    BY <2>4, <1>1, BeginFields DEF BeginKill
  <2> QED
    BY <1>2, <2>1, <2>2, <2>3, <2>4
    DEF Request, BeginRemove, BeginLand, BeginGc, Asked, ShellOps
<1>3. ASSUME NEW c \in Calls, Continue(c) PROVE BlocksInv'
  <2>1. ASSUME ForkWorktree(c) PROVE BlocksInv'
    BY <2>1, <1>1, GotoFields, EndFields DEF ForkWorktree, BlocksInv
  <2>2. ASSUME InsertRow(c) PROVE BlocksInv'
    BY <2>2, <1>1, EndFields DEF InsertRow
  <2>3. ASSUME AcquireFails(c) \/ SpawnThrows(c) PROVE BlocksInv'
    <3>1. leases' = [leases EXCEPT ![call[c].s] = {}] /\ UNCHANGED shell /\ End(c)
      BY <2>3 DEF AcquireFails, SpawnThrows, LeasesAfterThrow
    <3>2. shell[call[c].s] = NoShell
      BY <2>3 DEF AcquireFails, SpawnThrows, BlocksInv
    <3> QED
      BY <3>1, <3>2, EndFields, BlocksStep DEF Typed, TypeOK
  <2>4. ASSUME ShellStarts(c) PROVE BlocksInv'
    <3> DEFINE s == call[c].s
    <3>1. s \in Sessions /\ End(c) /\ At(c, "acquiring") /\ shell[s] = NoShell
      BY <2>4, CallFields DEF ShellStarts, At
    <3>2. PICK b \in FreeBlocks : /\ leases' = [leases EXCEPT ![s] = @ \cup {b}]
                                  /\ shell' = [shell EXCEPT ![s] = b]
      BY <2>4 DEF ShellStarts
    <3>3. \A t \in Sessions : b \notin leases[t]
      BY DEF FreeBlocks
    <3>4. \A d \in Calls : d # c /\ At(d, "acquiring") => call[d].s # s
      BY <3>1 DEF StartInv
    <3>5. \A t \in Sessions : /\ t # s => leases'[t] = leases[t] /\ shell'[t] = shell[t]
                              /\ t = s => leases'[t] = leases[t] \cup {b} /\ shell'[t] = b
      BY <3>1, <3>2 DEF Typed, TypeOK
    <3>6. \A d \in Calls : At(d, "acquiring") => call[d].s \in Sessions
      BY CallFields DEF At
    <3> HIDE DEF s
    <3>7. \A d \in Calls : /\ call'[d].at \in {"idle", "forking", "inserting", "acquiring", "stopping"}
                           /\ call'[d].op \in {"none", "new", "start", "stop", "kill"}
                           /\ At(d, "acquiring")' => shell'[call'[d].s] = NoShell
      BY <3>1, <3>4, <3>5, <3>6, EndFields DEF BlocksInv, At
    <3>8. \A t, u \in Sessions : t # u => leases'[t] \cap leases'[u] = {}
      BY <3>3, <3>5 DEF BlocksInv
    <3>9. \A t \in Sessions : shell'[t] # NoShell => shell'[t] \in leases'[t]
      BY <3>5 DEF BlocksInv
    <3> QED
      BY <3>7, <3>8, <3>9 DEF BlocksInv
  <2>5. \A k \in {"closing", "teardown", "purging", "checking", "sweeping", "testing", "branch"} :
          ~At(c, k)
    BY DEF BlocksInv, At
  <2> QED
    BY <1>3, <2>1, <2>2, <2>3, <2>4, <2>5
    DEF Continue, KillAfterPanes, RemoveAfterPanes, TeardownDone, PurgeRemoved, GcChecked,
        GcPurges, SweepOrphans, LandAfterPanes, LandFails, LandMerges, LandRemoves, LandFinishes
<1>4. ASSUME NEW s \in Sessions, ShellExits(s) PROVE BlocksInv'
  <2>1. PICK entering \in EnteringLands(s) :
          call' = [c \in Calls |-> IF c \in Waiting(s) THEN AfterStop(c, entering) ELSE call[c]]
    BY <1>4 DEF ShellExits
  <2>2. \A c \in Calls : call[c].op \notin {"kill_rm", "land_force"}
    BY DEF BlocksInv
  <2>3. ASSUME NEW c \in Calls
        PROVE  call'[c] = call[c] \/ (call'[c].at = "idle" /\ call'[c].op = "none")
    <3>1. c \in Waiting(s) => AfterStop(c, entering) = NoCall
      BY <2>2 DEF AfterStop, EnteringLands
    <3> QED
      BY <2>1, <3>1 DEF NoCall
  <2>4. \A t \in Sessions : /\ t # s => leases'[t] = leases[t] /\ shell'[t] = shell[t]
                            /\ t = s => leases'[t] = {} /\ shell'[t] = NoShell
    BY <1>4 DEF ShellExits, Typed, TypeOK
  <2>5. \A d \in Calls : At(d, "acquiring") => call[d].s \in Sessions
    BY CallFields DEF At
  <2> QED
    BY <2>3, <2>4, <2>5, BlocksStep
<1>5. ASSUME Restart PROVE BlocksInv'
  BY <1>5 DEF Restart, NoCall, BlocksInv, At
<1>6. ASSUME DeleteWorkspace PROVE BlocksInv'
  BY <1>6 DEF DeleteWorkspace, ShellOps
<1>7. ASSUME UNCHANGED vars PROVE BlocksInv'
  BY <1>7, <1>1 DEF vars
<1> QED
  BY <1>2, <1>3, <1>4, <1>5, <1>6, <1>7 DEF Next

-----------------------------------------------------------------------------
(* The theorems *)

LEMMA InitHolds ==
  Init => Typed /\ ShellInv /\ LandInv /\ StartInv /\ MergeInv /\ RemovedIsRecorded /\ BlocksInv
<1> SUFFICES ASSUME Init
             PROVE  Typed /\ ShellInv /\ LandInv /\ StartInv /\ MergeInv /\ RemovedIsRecorded
                    /\ BlocksInv
  OBVIOUS
<1>1. Typed
  BY NoCallSound, SoundIsCall, RowNames DEF Init, Typed, TypeOK
<1>2. ShellInv
  BY DEF Init, ShellInv, LeaseHeldByShell, RunningHasShell, DeadHasNoShell
<1>3. LandInv
  BY DEF Init, NoCall, LandInv, OneLandAtATime, LandLockHeld, InLand, At
<1>4. StartInv
  BY DEF Init, NoCall, StartInv, StartingHasCall, At
<1>5. MergeInv
  BY DEF Init, NoCall, MergeInv, LandedWasMerged, MergedCall
<1>6. RemovedIsRecorded
  BY DEF Init, RemovedIsRecorded
<1>7. BlocksInv
  BY DEF Init, NoCall, BlocksInv, At
<1> QED
  BY <1>1, <1>2, <1>3, <1>4, <1>5, <1>6, <1>7

\* Types, for any number of sessions and of RPCs in flight: history only ever takes final
\* statuses, because a call that will record one has captured one (Typed).
THEOREM TypeCorrect == Spec => []TypeOK
<1>1. Typed => TypeOK
  BY DEF Typed
<1> QED
  BY <1>1, InitHolds, TypeNext, PTL DEF Spec

\* A lease never outlives its shell (the releases in `start`, in onExit and in stop).
THEOREM LeasesAreHeld == Spec => []LeaseHeldByShell
<1>1. ShellInv => LeaseHeldByShell
  BY DEF ShellInv
<1> QED
  BY <1>1, InitHolds, TypeNext, ShellNext, PTL DEF Spec

\* Rows and shells agree: no `running` row without a shell to show for it, no `dead` row
\* over a live one, however starts, kills, exits and restarts overlap.
THEOREM RowsTellTheShell == Spec => []RowsMatchShells
<1>1. ShellInv => RowsMatchShells
  BY DEF ShellInv, RowsMatchShells
<1> QED
  BY <1>1, InitHolds, TypeNext, ShellNext, PTL DEF Spec

\* Two lands of one workspace never overlap (land.ts, `landing`).
THEOREM LandsExclude == Spec => []OneLandAtATime
<1>1. LandInv => OneLandAtATime
  BY DEF LandInv
<1> QED
  BY <1>1, InitHolds, TypeNext, LandNext, PTL DEF Spec

\* The `landing` lock is only ever held by a land that is under way.
THEOREM LandLockIsHeld == Spec => []LandLockHeld
<1>1. LandInv => LandLockHeld
  BY DEF LandInv
<1> QED
  BY <1>1, InitHolds, TypeNext, LandNext, PTL DEF Spec

\* A session in `starting` always has the start that will take it out again.
THEOREM StartingEnds == Spec => []StartingHasCall
<1>1. StartInv => StartingHasCall
  BY DEF StartInv
<1> QED
  BY <1>1, InitHolds, TypeNext, StartNext, PTL DEF Spec

\* What the row or the history calls landed was merged, whatever raced the land.
THEOREM LandedIsMerged == Spec => []LandedWasMerged
<1>1. MergeInv => LandedWasMerged
  BY DEF MergeInv
<1> QED
  BY <1>1, InitHolds, TypeNext, MergeNext, PTL DEF Spec

\* Every session that disappears from a workspace is in its history.
THEOREM HistoryIsComplete == Spec => []RemovedIsRecorded
  BY InitHolds, TypeNext, RecordedNext, PTL DEF Spec

\* With sessions only created, resumed, stopped and killed, whatever overlaps and wherever
\* the daemon is restarted, no two live shells have the same port block.
THEOREM BlocksExclude ==
  ASSUME Ops \subseteq ShellOps
  PROVE  Spec => []BlocksNotShared
<1>1. Typed /\ StartInv /\ BlocksInv /\ [Next]_vars => BlocksInv'
  BY BlocksNext
<1>2. BlocksInv => BlocksNotShared
  BY DEF BlocksInv, BlocksNotShared
<1> QED
  BY <1>1, <1>2, InitHolds, TypeNext, StartNext, PTL DEF Spec

=============================================================================
