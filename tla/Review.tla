------------------------------- MODULE Review -------------------------------
(***************************************************************************)
(* Two panes over a session's worktree, which its agent writes in as well: *)
(* a file opened in the cockpit's editor (FilePane.tsx, the daemon's       *)
(* worktree-files.ts), and the diff of its branch with comments on its     *)
(* lines, which Send pastes into the session's shell (ChangesPane.tsx,     *)
(* CommentableDiff.tsx, review-comments.ts, session-diff.ts).              *)
(*                                                                         *)
(* A text is a number, a new one each time somebody writes or types; a     *)
(* modification time is another.  The calls of a window reach the daemon   *)
(* and come back in the order they were made.                              *)
(***************************************************************************)
EXTENDS Integers, FiniteSets, Sequences

CONSTANTS
    MaxTexts,       \* bound: texts written or typed, writes to the file
    MaxCalls,       \* bound: calls of the pane in flight
    MaxComments,    \* bound: comments added or edited
    MaxCommits,     \* bound: changes of the branch
    Quotes          \* what a line of the diff may say

ASSUME ReviewAssumption == {MaxTexts, MaxCalls, MaxComments, MaxCommits} \subseteq Nat

Empty == 0                              \* the text of an empty document
Undefined == 0                          \* no modification time yet
NoDiff == <<>>
NoLine == [line |-> 0, quote |-> "none"]
NotSending == [on |-> FALSE, sent |-> <<>>, pasted |-> FALSE]

VARIABLES
    onDisk,         \* the file: [kind, text, stamp], "none" | "text" | "binary"
    filePane,       \* [status, dirty, doc, saved, mtime]
    fileCalls,      \* calls of the pane: [kind, text, expected, save, step, ans, stamp, raced]
    written,        \* texts and stamps given so far
    seen,           \* the texts the pane was told are in the file
    racedStamps,    \* stamps read after somebody else's write
    lostTexts,      \* what a save replaced that the pane was never told of: [text, save, raced, late]
    changedMeanwhile, \* the editor changed while a call was in flight, and not since
    branchLines,    \* the lines of the branch's diff now: what each says
    commits,        \* changes of the branch so far
    diffCall,       \* the load of the diff in flight: lines read, or NoDiff
    shownDiff,      \* the diff the pane shows, or NoDiff
    review,         \* [comments, nextId]
    composing,      \* the line a new comment is written for
    editing,        \* the comment being edited, or 0
    sendRun,        \* the Send in flight
    targetShell,    \* what the session's shell runs: "agent" | "plain" | "closed"
    pastes,         \* what reached the shell: [items, told]
    standing,       \* [id, text] the person submitted and has not taken back
    late            \* comments submitted while a Send was in flight

filePaneVars == <<onDisk, filePane, fileCalls, written, seen, racedStamps, lostTexts, changedMeanwhile>>
commentVars == <<branchLines, commits, diffCall, shownDiff, review, composing, editing, sendRun,
                 targetShell, pastes, standing, late>>
reviewVars == <<filePaneVars, commentVars>>

-----------------------------------------------------------------------------
(* The file                                                                *)

(* `save` is what the person saved on: "told" after the pane was told of the file at
   least once, "blind" before, "forced" with Overwrite.                       *)
NewCall(kind, text, expected, save) ==
    [kind |-> kind, text |-> text, expected |-> expected, save |-> save, step |-> "asked", ans |-> "none",
     stamp |-> Undefined, raced |-> FALSE]

FileInit ==
    /\ onDisk \in [kind : {"text", "binary"}, text : {1}, stamp : {1}]
    /\ filePane = [status |-> "loading", dirty |-> FALSE, doc |-> Empty, saved |-> Empty, mtime |-> Undefined]
    /\ fileCalls = <<NewCall("read", Empty, Undefined, "none")>> /\ written = 1
    /\ seen = {} /\ racedStamps = {} /\ lostTexts = {} /\ changedMeanwhile = FALSE

Types ==
    /\ written < MaxTexts /\ written' = written + 1
    /\ filePane' = [filePane EXCEPT !.doc = written', !.dirty = (written' # filePane.saved)]
    /\ changedMeanwhile' = (fileCalls # <<>>)
    /\ UNCHANGED <<onDisk, fileCalls, seen, racedStamps, lostTexts, commentVars>>

Undoes ==
    /\ filePane.doc # filePane.saved
    /\ filePane' = [filePane EXCEPT !.doc = filePane.saved, !.dirty = FALSE]
    /\ changedMeanwhile' = (fileCalls # <<>>)
    /\ UNCHANGED <<onDisk, fileCalls, written, seen, racedStamps, lostTexts, commentVars>>

SaveFile(force) ==
    /\ Len(fileCalls) < MaxCalls /\ onDisk.stamp + Len(fileCalls) < MaxTexts + Cardinality(racedStamps) /\ (force => filePane.status = "conflict")
    /\ fileCalls' = Append(fileCalls, NewCall("write", filePane.doc, IF force THEN Undefined ELSE filePane.mtime,
                                              IF force THEN "forced" ELSE IF seen = {} THEN "blind" ELSE "told"))
    /\ UNCHANGED <<onDisk, filePane, written, seen, racedStamps, lostTexts, changedMeanwhile, commentVars>>

ReloadFile ==
    /\ filePane.status = "conflict" /\ Len(fileCalls) < MaxCalls
    /\ filePane' = [filePane EXCEPT !.status = "loading"]
    /\ fileCalls' = Append(fileCalls, NewCall("read", Empty, Undefined, "none"))
    /\ UNCHANGED <<onDisk, written, seen, racedStamps, lostTexts, changedMeanwhile, commentVars>>

(* The daemon takes the calls one after the other. *)
TakesUp(i, c) ==
    /\ i \in DOMAIN fileCalls /\ \A j \in 1..(i - 1) : fileCalls[j].step = "done"
    /\ fileCalls' = [fileCalls EXCEPT ![i] = c]
    /\ UNCHANGED <<filePane, written, seen, changedMeanwhile, commentVars>>

ReadWorktreeFile(i) ==
    /\ i \in DOMAIN fileCalls /\ fileCalls[i].kind = "read" /\ fileCalls[i].step = "asked"
    /\ TakesUp(i, [fileCalls[i] EXCEPT !.step = "done", !.ans = IF onDisk.kind = "text" THEN "ok" ELSE "failed",
                                       !.text = onDisk.text, !.stamp = onDisk.stamp])
    /\ UNCHANGED <<onDisk, racedStamps, lostTexts>>

(* Writing is three calls on the file system: its time is compared, the new text
   renamed over it, its new time read.  The agent may write between them.      *)
ChecksMtime(i) ==
    /\ i \in DOMAIN fileCalls /\ fileCalls[i].kind = "write" /\ fileCalls[i].step = "asked"
    /\ LET changed == /\ onDisk.kind # "none" /\ fileCalls[i].expected # Undefined
                      /\ onDisk.stamp # fileCalls[i].expected
       IN TakesUp(i, IF changed THEN [fileCalls[i] EXCEPT !.step = "done", !.ans = "changed"]
                     ELSE [fileCalls[i] EXCEPT !.step = "checked"])
    /\ UNCHANGED <<onDisk, racedStamps, lostTexts>>

RenamesOver(i) ==
    /\ i \in DOMAIN fileCalls /\ fileCalls[i].step = "checked"
    /\ onDisk' = [kind |-> "text", text |-> fileCalls[i].text, stamp |-> onDisk.stamp + 1]
    /\ lostTexts' = IF onDisk.kind # "text" \/ onDisk.text \in seen THEN lostTexts
                    ELSE lostTexts \cup {[text |-> onDisk.text, save |-> fileCalls[i].save, raced |-> fileCalls[i].raced,
                                          late |-> fileCalls[i].expected \in racedStamps]}
    /\ TakesUp(i, [fileCalls[i] EXCEPT !.step = "renamed", !.raced = FALSE])
    /\ UNCHANGED racedStamps

StatsNew(i) ==
    /\ i \in DOMAIN fileCalls /\ fileCalls[i].step = "renamed"
    /\ racedStamps' = IF fileCalls[i].raced THEN racedStamps \cup {onDisk.stamp} ELSE racedStamps
    /\ TakesUp(i, [fileCalls[i] EXCEPT !.step = "done", !.stamp = onDisk.stamp,
                                       !.ans = IF onDisk.kind = "none" THEN "failed" ELSE "ok"])
    /\ UNCHANGED <<onDisk, lostTexts>>

(* What the file may meet under the daemon's hands. *)
Raced(calls) == [i \in DOMAIN calls |-> [calls[i] EXCEPT !.raced = @ \/ calls[i].step \in {"checked", "renamed"}]]

AgentEdits ==
    /\ written < MaxTexts /\ written' = written + 1
    /\ onDisk' = [kind |-> "text", text |-> written', stamp |-> onDisk.stamp + 1]
    /\ fileCalls' = Raced(fileCalls)
    /\ UNCHANGED <<filePane, seen, racedStamps, lostTexts, changedMeanwhile, commentVars>>

AgentDeletes ==
    /\ onDisk.kind # "none"
    /\ onDisk' = [onDisk EXCEPT !.kind = "none"] /\ fileCalls' = Raced(fileCalls)
    /\ UNCHANGED <<filePane, written, seen, racedStamps, lostTexts, changedMeanwhile, commentVars>>

(* An answer comes to the pane: what load and save do with it. *)
Loaded(c) ==
    IF c.ans = "ok" THEN [filePane EXCEPT !.mtime = c.stamp, !.saved = c.text, !.doc = c.text, !.dirty = FALSE, !.status = "ready"]
    ELSE [filePane EXCEPT !.status = "error"]

Saved(c) ==
    IF c.ans = "ok" THEN [filePane EXCEPT !.mtime = c.stamp, !.saved = c.text, !.dirty = FALSE, !.status = "ready"]
    ELSE [filePane EXCEPT !.status = IF c.ans = "changed" THEN "conflict" ELSE "error"]

FileAnswered ==
    /\ fileCalls # <<>> /\ fileCalls[1].step = "done" /\ fileCalls' = Tail(fileCalls)
    /\ filePane' = IF fileCalls[1].kind = "read" THEN Loaded(fileCalls[1]) ELSE Saved(fileCalls[1])
    /\ seen' = IF fileCalls[1].ans = "ok" THEN seen \cup {fileCalls[1].text} ELSE seen
    /\ changedMeanwhile' = IF fileCalls[1].kind = "read" /\ fileCalls[1].ans = "ok"
                           THEN fileCalls' # <<>> ELSE changedMeanwhile
    /\ UNCHANGED <<onDisk, written, racedStamps, lostTexts, commentVars>>

(* The daemon goes away before the answer. *)
FileCallFails ==
    /\ fileCalls # <<>> /\ fileCalls[1].step \in {"asked", "done"} /\ fileCalls' = Tail(fileCalls)
    /\ filePane' = [filePane EXCEPT !.status = "error"]
    /\ UNCHANGED <<onDisk, written, seen, racedStamps, lostTexts, changedMeanwhile, commentVars>>

FileNext ==
    \/ Types \/ Undoes \/ ReloadFile \/ AgentEdits \/ AgentDeletes \/ FileAnswered \/ FileCallFails
    \/ \E force \in BOOLEAN : SaveFile(force)
    \/ \E i \in DOMAIN fileCalls : ReadWorktreeFile(i) \/ ChecksMtime(i) \/ RenamesOver(i) \/ StatsNew(i)

(* A save replaces a text the pane was never told of in three cases and no other,
   but for the person's own Overwrite: it was made before anything was read, when there
   is no time to compare; the agent wrote between the daemon's comparison and its rename;
   or the time it compared was itself read after a write of the agent's.  FilePane.tsx:38
   says it never does.                                                       *)
AgentsEditsAreSeen == \A l \in lostTexts : l.save \in {"blind", "forced"} \/ l.raced \/ l.late

(* When nothing is on its way, a pane that says there is nothing to save shows what
   it wrote or read last, and was told of; and if the file is still that one, it holds it.  What the
   editor became during a save, by typing or by the first load, is the exception:
   the save's answer takes the dot away.                                     *)
DotIsTrue ==
    fileCalls = <<>> /\ filePane.status = "ready" /\ ~filePane.dirty /\ ~changedMeanwhile =>
        /\ filePane.doc = filePane.saved /\ filePane.doc \in seen
        /\ (onDisk.kind # "none" /\ onDisk.stamp = filePane.mtime /\ onDisk.stamp \notin racedStamps =>
               onDisk.text = filePane.doc)

-----------------------------------------------------------------------------
(* The diff and the comments on it                                         *)

ReviewInit ==
    /\ FileInit
    /\ branchLines = <<CHOOSE q \in Quotes : TRUE>> /\ commits = 0 /\ diffCall = NoDiff /\ shownDiff = NoDiff
    /\ review = [comments |-> <<>>, nextId |-> 1] /\ composing = NoLine /\ editing = 0
    /\ sendRun = NotSending /\ targetShell \in {"agent", "plain", "closed"}
    /\ pastes = <<>> /\ standing = {} /\ late = {}

BranchMoves ==
    /\ commits < MaxCommits /\ commits' = commits + 1
    /\ \E q \in Quotes : branchLines' \in {<<q>>, <<q>> \o branchLines, branchLines \o <<q>>}
    /\ Len(branchLines') <= 2 /\ branchLines' # branchLines
    /\ UNCHANGED <<filePaneVars, diffCall, shownDiff, review, composing, editing, sendRun, targetShell, pastes, standing, late>>

TargetTurns ==
    /\ ~sendRun.on /\ \E t \in {"agent", "plain", "closed"} : t # targetShell /\ targetShell' = t
    /\ commits < MaxCommits /\ commits' = commits + 1
    /\ UNCHANGED <<filePaneVars, branchLines, diffCall, shownDiff, review, composing, editing, sendRun, pastes, standing, late>>

(* A load at each list of the sessions; the one before is cancelled.  One that
   fails leaves the diff as it is.                                           *)
LoadDiff ==
    /\ diffCall' = branchLines /\ diffCall' # diffCall /\ branchLines # shownDiff
    /\ UNCHANGED <<filePaneVars, branchLines, commits, shownDiff, review, composing, editing, sendRun, targetShell, pastes, standing, late>>
DiffArrives(ok) ==
    /\ diffCall # NoDiff /\ diffCall' = NoDiff /\ shownDiff' = IF ok THEN diffCall ELSE shownDiff
    /\ UNCHANGED <<filePaneVars, branchLines, commits, review, composing, editing, sendRun, targetShell, pastes, standing, late>>

Anchors == {[line |-> n, quote |-> shownDiff[n]] : n \in DOMAIN shownDiff}
HeldComments == {review.comments[i] : i \in DOMAIN review.comments}

(* Under a line of the diff, or no longer. *)
ByLine(c) == \E a \in Anchors : a.line = c.line /\ a.quote = c.quote
Outdated == {c \in HeldComments : ~ByLine(c)}

Compose(a) ==
    /\ review.nextId <= MaxComments /\ a \in Anchors /\ composing' = a /\ editing' = 0
    /\ UNCHANGED <<filePaneVars, branchLines, commits, diffCall, shownDiff, review, sendRun, targetShell, pastes, standing, late>>
Edit(c) ==
    /\ ByLine(c) /\ composing' = NoLine /\ editing' = c.id
    /\ UNCHANGED <<filePaneVars, branchLines, commits, diffCall, shownDiff, review, sendRun, targetShell, pastes, standing, late>>

ReviewBecomes(r) ==
    /\ review' = r
    /\ UNCHANGED <<filePaneVars, branchLines, commits, diffCall, shownDiff, sendRun, targetShell, pastes>>

(* The editor is there while its line is; an empty text adds nothing. *)
Submits(id, text) ==
    /\ standing' = {w \in standing : w.id # id} \cup {[id |-> id, text |-> text]}
    /\ late' = IF sendRun.on THEN late \cup {id} ELSE late

AddComment ==
    /\ composing \in Anchors /\ review.nextId <= MaxComments /\ composing' = NoLine
    /\ ReviewBecomes([comments |-> Append(review.comments,
            [id |-> review.nextId, line |-> composing.line, quote |-> composing.quote, text |-> 1]),
          nextId |-> review.nextId + 1])
    /\ Submits(review.nextId, 1) /\ UNCHANGED editing

SaveEdit(c) ==
    /\ editing = c.id /\ c \in HeldComments /\ ByLine(c) /\ c.text < MaxComments /\ editing' = 0
    /\ ReviewBecomes([review EXCEPT !.comments =
            [i \in DOMAIN @ |-> IF @[i].id = c.id THEN [@[i] EXCEPT !.text = c.text + 1] ELSE @[i]]])
    /\ Submits(c.id, c.text + 1) /\ UNCHANGED composing

TakenBack(ids) == standing' = {w \in standing : w.id \notin ids} /\ UNCHANGED late

DeleteComment(c) ==
    /\ c \in HeldComments /\ ReviewBecomes([review EXCEPT !.comments = SelectSeq(@, LAMBDA x : x.id # c.id)])
    /\ TakenBack({c.id}) /\ UNCHANGED <<composing, editing>>
ClearComments ==
    /\ ~sendRun.on /\ HeldComments # {} /\ ReviewBecomes([review EXCEPT !.comments = <<>>])
    /\ TakenBack({c.id : c \in HeldComments}) /\ composing' = NoLine /\ editing' = 0

(* An agent's terminal takes a paste; a plain shell would run its lines, a closed one
   reads nothing: it is refused on the spot, and the comments stay.             *)
PlanSend == targetShell = "agent"

SendReview ==
    /\ ~sendRun.on /\ HeldComments # {} /\ PlanSend /\ Len(pastes) < MaxComments
    /\ sendRun' = [on |-> TRUE, sent |-> review.comments, pasted |-> FALSE]
    /\ UNCHANGED <<filePaneVars, branchLines, commits, diffCall, shownDiff, review, composing, editing, targetShell, pastes, standing, late>>

ReachesShell ==
    /\ sendRun.on /\ ~sendRun.pasted /\ sendRun' = [sendRun EXCEPT !.pasted = TRUE]
    /\ pastes' = Append(pastes, [items |-> sendRun.sent, told |-> FALSE])
    /\ UNCHANGED <<filePaneVars, branchLines, commits, diffCall, shownDiff, review, composing, editing, targetShell, standing, late>>

AfterDelivery(ok) == IF ok THEN [review EXCEPT !.comments = <<>>] ELSE review

Delivered(ok) ==
    /\ sendRun.on /\ (ok => sendRun.pasted) /\ sendRun' = NotSending
    /\ review' = AfterDelivery(ok)
    /\ composing' = (IF ok THEN NoLine ELSE composing) /\ editing' = (IF ok THEN 0 ELSE editing)
    /\ pastes' = IF sendRun.pasted THEN [pastes EXCEPT ![Len(pastes)].told = ok] ELSE pastes
    /\ UNCHANGED <<filePaneVars, branchLines, commits, diffCall, shownDiff, targetShell, standing, late>>

CommentNext ==
    \/ BranchMoves \/ TargetTurns \/ LoadDiff \/ AddComment \/ ClearComments \/ SendReview \/ ReachesShell
    \/ \E ok \in BOOLEAN : DiffArrives(ok) \/ Delivered(ok)
    \/ \E a \in Anchors : Compose(a)
    \/ \E c \in HeldComments : Edit(c) \/ SaveEdit(c) \/ DeleteComment(c)

(* What a person wrote about a line and has not taken back is still there to send,
   or reached the shell as written: unless it was written while a Send was awaited,
   whose answer clears it unsent.                                             *)
CommentsAreKept ==
    \A w \in standing :
        \/ \E c \in HeldComments : c.id = w.id /\ c.text = w.text
        \/ \E p \in DOMAIN pastes, n \in 1..MaxComments :
              /\ n \in DOMAIN pastes[p].items
              /\ pastes[p].items[n].id = w.id /\ pastes[p].items[n].text = w.text
        \/ w.id \in late

(* A comment is under no other line than the one it was written about, as long as
   lines say different things; and no comment is pasted twice as it was, except
   after a paste whose answer never came.                                      *)
CommentsAreExact ==
    /\ \A c \in HeldComments \ Outdated : shownDiff[c.line] = c.quote
    /\ \A p, q \in DOMAIN pastes : p < q /\ pastes[p].told =>
          \A m \in DOMAIN pastes[p].items, n \in DOMAIN pastes[q].items :
              pastes[p].items[m] # pastes[q].items[n]

-----------------------------------------------------------------------------
Comment == [id : 1..MaxComments, line : 1..2, quote : Quotes, text : 1..MaxComments]

ReviewTypeOK ==
    /\ onDisk \in [kind : {"none", "text", "binary"}, text : 0..MaxTexts, stamp : Nat]
    /\ filePane.status \in {"loading", "ready", "error", "conflict"} /\ filePane.dirty \in BOOLEAN
    /\ {filePane.doc, filePane.saved, written} \subseteq 0..MaxTexts
    /\ \A i \in DOMAIN fileCalls : fileCalls[i].step \in {"asked", "checked", "renamed", "done"}
    /\ HeldComments \subseteq Comment /\ editing \in 0..MaxComments
    /\ composing \in [line : 1..2, quote : Quotes] \cup {NoLine}
    /\ late \subseteq 1..MaxComments /\ commits \in 0..MaxCommits
=============================================================================
