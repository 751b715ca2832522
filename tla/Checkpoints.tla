---------------------------- MODULE Checkpoints ----------------------------
(***************************************************************************)
(* The checkpoints of one session: hidden refs that hold the content of    *)
(* its worktree, taken at the ends of an agent's turns or by hand, and     *)
(* restored while the agent may go on writing.  Sessions share nothing     *)
(* here, so one is enough.                                                 *)
(*                                                                         *)
(* `chain` is the promise chain of locked(): its head runs, the others     *)
(* wait.  A step of an operation is what it does between two git           *)
(* processes or two files; the agent writes between any two of them.       *)
(***************************************************************************)
EXTENDS Integers, Sequences

CONSTANTS
    Paths,          \* the paths of the worktree
    Contents,       \* what a file can hold
    Absent,         \* what a path without a file holds
    Keep,           \* CheckpointContext.keep
    MaxWrites,      \* bound: writes by the agent
    MaxOps          \* bound: operations asked for

ASSUME CheckpointsAssumption ==
    /\ Absent \notin Contents
    /\ Keep \in Nat \ {0}
    /\ MaxWrites \in Nat /\ MaxOps \in Nat

VARIABLES
    tree,       \* the worktree: path -> content
    present,    \* the worktree is on disk
    row,        \* the session's row: "there", "going" (being removed), "gone"
    refs,       \* the session's checkpoints, newest first
    chain,      \* the operations asked for: the first one runs
    at,         \* what the running operation does next
    snap,       \* the tree it has read, and its checkpoint has
    target,     \* restore: the tree of the checkpoint asked for
    plan,       \* restore: the paths still to delete and to write
    late,       \* history: paths the agent wrote since snap was read
    writes, opsAsked   \* bounds: the writes and operations so far

opVars == <<at, snap, target, plan>>
checkpointsVars == <<tree, present, row, refs, chain, opVars, late, writes, opsAsked>>

Trees == [Paths -> Contents \cup {Absent}]
NoTree == [p \in Paths |-> Absent]
NoPlan == [delete |-> {}, write |-> {}]
AutoKinds == {"start", "turn"}
TakeKinds == AutoKinds \cup {"manual"}
RestoreKinds == {"preview", "restore"}
Ops == [kind: TakeKinds \cup RestoreKinds \cup {"forget"}, seq: Nat]
Checkpoint == [seq: Nat \ {0}, tree: Trees]

CheckpointsTypeOK ==
    /\ tree \in Trees
    /\ present \in BOOLEAN
    /\ row \in {"there", "going", "gone"}
    /\ refs \in Seq(Checkpoint)
    /\ chain \in Seq(Ops)
    /\ at \in {"first", "read", "commit", "prune", "replan", "delete", "write"}
    /\ snap \in Trees /\ target \in Trees
    /\ plan \in [delete: SUBSET Paths, write: SUBSET Paths]
    /\ late \subseteq Paths
    /\ writes \in 0..MaxWrites /\ opsAsked \in 0..MaxOps

CheckpointsInit ==
    /\ tree \in Trees
    /\ present = TRUE
    /\ row = "there"
    /\ refs = <<>>
    /\ chain = <<>>
    /\ at = "first" /\ snap = NoTree /\ target = NoTree /\ plan = NoPlan
    /\ late = {}
    /\ writes = 0 /\ opsAsked = 0

-----------------------------------------------------------------------------
(* The chain.                                                              *)

(* locked(): an operation runs once those asked for before it have ended. *)
Locked(op) == Append(chain, op)

(* The tail of locked() swallows a rejection, so a failure is an end too. *)
Ends ==
    /\ chain' = Tail(chain)
    /\ at' = "first" /\ snap' = NoTree /\ target' = NoTree /\ plan' = NoPlan

Running(kinds, step) == chain # <<>> /\ Head(chain).kind \in kinds /\ at = step

(* checkpoint.take and checkpoint.restore, with or without apply, by the user;
   the takes at the start and end of a turn: each needs the row and the
   worktree (checkpointContextFor). *)
Request(kind, seq) ==
    /\ present /\ row # "gone"
    /\ opsAsked < MaxOps
    /\ opsAsked' = opsAsked + 1
    /\ chain' = Locked([kind |-> kind, seq |-> seq])
    /\ UNCHANGED <<tree, present, row, refs, opVars, late, writes>>

(* kill with removeWorktree, rm, gc and land: the worktree goes, if git can
   remove it, then deleteSessionCheckpoints is asked for. *)
RemoveSession(removed) ==
    /\ row = "there"
    /\ row' = "going"
    /\ present' = (present /\ ~removed)
    /\ tree' = IF removed THEN NoTree ELSE tree
    /\ chain' = Locked([kind |-> "forget", seq |-> 0])
    /\ UNCHANGED <<refs, opVars, late, writes, opsAsked>>

(* deleteSessionCheckpoints, which may fail: its callers catch that, and the
   row goes when it has answered. *)
ForgetCheckpoints ==
    /\ Running({"forget"}, "first")
    /\ refs' \in {<<>>, refs}
    /\ row' = "gone"
    /\ Ends
    /\ UNCHANGED <<tree, present, late, writes, opsAsked>>

(* pruneOrphans, in gc: the refs of sessions that have no row. *)
PruneOrphans ==
    /\ row = "gone" /\ refs # <<>>
    /\ refs' = <<>>
    /\ UNCHANGED <<tree, present, row, chain, opVars, late, writes, opsAsked>>

(* The agent, who takes no part in the chain. *)
Write(p, c) ==
    /\ present /\ writes < MaxWrites /\ tree[p] # c
    /\ tree' = [tree EXCEPT ![p] = c]
    /\ late' = late \cup {p}
    /\ writes' = writes + 1
    /\ UNCHANGED <<present, row, refs, chain, opVars, opsAsked>>

(* A git process or a file operation fails, or git has no worktree any more to
   run in: the operation rejects where it stands. *)
Fails ==
    /\ chain # <<>> /\ Head(chain).kind # "forget"
    /\ Ends
    /\ UNCHANGED <<tree, present, row, refs, late, writes, opsAsked>>

(* The daemon dies: its chains are gone, the worktree stays as it is. *)
RestartCheckpoints ==
    /\ chain # <<>>
    /\ chain' = <<>>
    /\ at' = "first" /\ snap' = NoTree /\ target' = NoTree /\ plan' = NoPlan
    /\ row' = IF row = "going" THEN "there" ELSE row
    /\ UNCHANGED <<tree, present, refs, late, writes, opsAsked>>

-----------------------------------------------------------------------------
(* snapshot: the body of a take, and the first half of a restore.          *)

(* liveTree *)
ReadsTree ==
    /\ snap' = tree
    /\ late' = {}

TakeReads ==
    /\ Running(TakeKinds, "first") \/ Running({"restore"}, "read")
    /\ present
    /\ ReadsTree
    /\ at' = "commit"
    /\ UNCHANGED <<tree, present, row, refs, chain, target, plan, writes, opsAsked>>

NewestSeq == IF refs = <<>> THEN 0 ELSE Head(refs).seq

\* Mutant: any checkpoint with this tree stands for the newest.
AnyUnchanged == \E i \in 1..Len(refs) : refs[i].tree = snap

(* The worktree is as the newest checkpoint has it: nothing to take. *)
Unchanged == refs # <<>> /\ Head(refs).tree = snap

(* update-ref with an empty old value. *)
WithNew == <<[seq |-> NewestSeq + 1, tree |-> snap]>> \o refs

AfterSnapshot == IF Head(chain).kind = "restore" THEN "replan" ELSE "ends"

Goes(next) ==
    IF next = "ends" THEN Ends
    ELSE at' = next /\ UNCHANGED <<chain, snap, target, plan>>

Commits ==
    /\ Running(TakeKinds \cup {"restore"}, "commit") /\ present
    /\ refs' = IF Unchanged THEN refs ELSE WithNew
    /\ Goes(IF Len(refs') > Keep /\ ~Unchanged THEN "prune" ELSE AfterSnapshot)
    /\ UNCHANGED <<tree, present, row, late, writes, opsAsked>>

(* existing.slice(keep - 1), first entry first. *)
DropNext == SubSeq(refs, 1, Keep) \o SubSeq(refs, Keep + 2, Len(refs))

Prunes ==
    /\ Running(TakeKinds \cup {"restore"}, "prune") /\ present
    /\ Len(refs) > Keep
    /\ refs' = DropNext
    /\ Goes(IF Len(refs') > Keep THEN "prune" ELSE AfterSnapshot)
    /\ UNCHANGED <<tree, present, row, late, writes, opsAsked>>

-----------------------------------------------------------------------------
(* restoreCheckpoint                                                       *)

(* planOf(changesBetween(a, b)) *)
PlanOf(a, b) == [delete |-> {p \in Paths : a[p] # Absent /\ b[p] = Absent},
                 write |-> {p \in Paths : b[p] # Absent /\ a[p] # b[p]}]

(* The target is found and the plan shown; with apply, and nothing ignored in
   the way, the pre-restore checkpoint comes next, for which the tree is read
   again. *)
RestoreFinds ==
    /\ Running(RestoreKinds, "first") /\ present
    /\ \E i \in 1..Len(refs) :
          /\ refs[i].seq = Head(chain).seq
          /\ IF Head(chain).kind = "preview" THEN Ends
             ELSE /\ target' = refs[i].tree
                  /\ plan' = PlanOf(tree, target')
                  /\ at' = "read"
                  /\ UNCHANGED <<chain, snap>>
    /\ UNCHANGED <<tree, present, row, refs, late, writes, opsAsked>>

\* Mutant: the plan of the preview is carried out.
PlanShown == plan

(* The plan is made again, from the pre-restore tree. *)
PlanAgain == PlanOf(snap, target)

Replans ==
    /\ Running({"restore"}, "replan") /\ present
    /\ plan' = PlanAgain
    /\ at' = "delete"
    /\ UNCHANGED <<tree, present, row, refs, chain, snap, target, late, writes, opsAsked>>

(* unlinkSync, one path after the other; one that is gone already is skipped. *)
Deletes(p) ==
    /\ Running({"restore"}, "delete") /\ present
    /\ p \in plan.delete
    /\ tree' = [tree EXCEPT ![p] = Absent]
    /\ plan' = [plan EXCEPT !.delete = @ \ {p}]
    /\ UNCHANGED <<present, row, refs, chain, at, snap, target, late, writes, opsAsked>>

DeletesDone ==
    /\ Running({"restore"}, "delete") /\ plan.delete = {}
    /\ at' = "write"
    /\ UNCHANGED <<tree, present, row, refs, chain, snap, target, plan, late, writes, opsAsked>>

(* checkout-index -f, from the target, of the paths in the plan only. *)
Writes(p) ==
    /\ Running({"restore"}, "write") /\ present
    /\ p \in plan.write
    /\ tree' = [tree EXCEPT ![p] = target[p]]
    /\ plan' = [plan EXCEPT !.write = @ \ {p}]
    /\ UNCHANGED <<present, row, refs, chain, at, snap, target, late, writes, opsAsked>>

Applied == Running({"restore"}, "write") /\ plan.write = {}

RestoreEnds ==
    /\ Applied
    /\ Ends
    /\ UNCHANGED <<tree, present, row, refs, late, writes, opsAsked>>

OpStep ==
    \/ TakeReads \/ Commits \/ Prunes \/ Fails \/ ForgetCheckpoints
    \/ RestoreFinds \/ Replans \/ DeletesDone \/ RestoreEnds
    \/ \E p \in Paths : Deletes(p) \/ Writes(p)

CheckpointsNext ==
    \/ OpStep
    \/ \E kind \in TakeKinds : Request(kind, 0)
    \/ \E kind \in RestoreKinds, i \in 1..Len(refs) : Request(kind, refs[i].seq)
    \/ \E removed \in BOOLEAN : RemoveSession(removed)
    \/ \E p \in Paths, c \in Contents \cup {Absent} : Write(p, c)
    \/ PruneOrphans \/ RestartCheckpoints

CheckpointsSpec == CheckpointsInit /\ [][CheckpointsNext]_checkpointsVars

-----------------------------------------------------------------------------
(* Properties                                                              *)

Touches(p) == (\E q \in Paths : Deletes(q) \/ Writes(q)) /\ tree'[p] # tree[p]

(* Whatever a restore deletes or overwrites is what the newest checkpoint
   holds at that path, or the agent wrote it after the pre-restore checkpoint
   was read: wherever a restore fails or the daemon dies, what it destroyed
   can be had back (checkpoint.ts:271).  Only gc may take that from a session
   that was removed while its worktree could not be. *)
RestoreIsUndoable ==
    [][\A p \in Paths : Touches(p) =>
          \/ p \in late \/ row = "gone"
          \/ refs # <<>> /\ Head(refs).tree[p] = tree[p]]_checkpointsVars

(* A restore that answers `applied` has made every path what the checkpoint
   asked for holds, except those the agent wrote meanwhile. *)
AppliedIsTarget ==
    Applied => \A p \in Paths : p \in late \/ ~present \/ tree[p] = target[p]

(* The numbers name one checkpoint each, the newest has the highest. *)
NumbersDescend == \A i, j \in 1..Len(refs) : i < j => refs[i].seq > refs[j].seq
=============================================================================
