------------------------------ MODULE Composer ------------------------------
(***************************************************************************)
(* The prompt composer (PromptComposer.tsx, prompt-send.ts): a draft that  *)
(* outlives the dialog is sent to several sessions, one after the other,   *)
(* while the dialog may be closed, opened again and typed in; and the      *)
(* person's own command refines it, at most one at a time, run by the main *)
(* process (prompt-refine.ts, main.ts promptRefine).                       *)
(*                                                                         *)
(* Each opening of the dialog is a mount with a number: what a closed one  *)
(* still awaits reaches the project view, never the dialog opened after.   *)
(***************************************************************************)
EXTENDS Integers, FiniteSets, SequencesExt

CONSTANTS
    PromptTargets,      \* the sessions
    MaxPrompts,         \* bound: texts written
    MaxMounts,          \* bound: times the dialog is opened
    MaxTargetMoves,     \* bound: agents that start or end, shells that close
    MaxSends,           \* bound: clicks of Send
    MaxRefines          \* bound: clicks of Refine

ASSUME ComposerAssumption ==
    /\ {MaxPrompts, MaxMounts, MaxTargetMoves, MaxSends, MaxRefines} \subseteq Nat
    /\ IsFiniteSet(PromptTargets)

NoText == [n |-> 0, many |-> FALSE]

VARIABLES
    composerOpen,   \* the number of the mount shown, or 0
    mounts,         \* dialogs opened so far
    composerDraft,  \* the draft: its number, 0 when empty, and whether it has many lines
    promptsWritten,        \* texts written so far
    targetOf,       \* what each session's shell runs: "agent" | "plain" | "closed"
    listedAs,       \* the same as the view's last list has it
    targetMoves,    \* bound counter
    sends,          \* the Sends in flight: [items, text, next, sent, mount, click]
    clicked,        \* Sends so far
    took,           \* what shells took: [id, text, how, click, plain]
    sentTargets,    \* the sessions the Responses view lists
    untold,         \* texts a shell took and Send counts as failed
    overlapped,     \* texts sent by two dialogs at once
    lostDrafts      \* texts wiped though no Send of theirs reached anybody

sendVars == <<composerDraft, promptsWritten, targetOf, listedAs, targetMoves, sends, clicked, took, sentTargets,
              untold, overlapped, lostDrafts>>

VARIABLES
    refining,       \* [id, mount]: the refine each mount awaits; 0 for none
    proposal,       \* the refine whose text the dialog proposes, or 0
    refines,        \* refines asked so far
    toRefiner,      \* messages to the main process: a refine's number, or 0 for Cancel
    activeRefine,   \* the main process: the refine a Cancel stops, or 0
    commands,       \* the commands running there: [id, aborted]
    refined,        \* answers on their way: [id, how]
    stopped         \* refines somebody cancelled, closed or replaced

refineVars == <<refining, proposal, refines, toRefiner, activeRefine, commands, refined, stopped>>
composerVars == <<composerOpen, mounts, sendVars, refineVars>>

ComposerInit ==
    /\ composerOpen = 0 /\ mounts = 0 /\ composerDraft = NoText /\ promptsWritten = 0
    /\ targetOf = [s \in PromptTargets |-> "agent"] /\ listedAs = targetOf /\ targetMoves = 0
    /\ sends = {} /\ clicked = 0 /\ took = {} /\ sentTargets = <<>>
    /\ untold = {} /\ overlapped = {} /\ lostDrafts = {}
    /\ refining = 0 /\ proposal = 0 /\ refines = 0 /\ toRefiner = <<>> /\ activeRefine = 0
    /\ commands = {} /\ refined = <<>> /\ stopped = {}

-----------------------------------------------------------------------------
(* The dialog                                                              *)

OpensComposer ==
    /\ composerOpen = 0 /\ mounts < MaxMounts
    /\ mounts' = mounts + 1 /\ composerOpen' = mounts' /\ refining' = 0 /\ proposal' = 0
    /\ UNCHANGED <<sendVars, refines, toRefiner, activeRefine, commands, refined, stopped>>

(* Closed, or its project hidden; a refine it awaits is cancelled. *)
CancelsRefine ==
    IF refining # 0 THEN toRefiner' = Append(toRefiner, 0) /\ stopped' = stopped \cup {refining}
    ELSE UNCHANGED <<toRefiner, stopped>>
ClosesComposer ==
    /\ composerOpen # 0 /\ composerOpen' = 0 /\ refining' = 0 /\ proposal' = 0 /\ CancelsRefine
    /\ UNCHANGED <<mounts, sendVars, refines, activeRefine, commands, refined>>

NewText ==
    /\ promptsWritten < MaxPrompts /\ promptsWritten' = promptsWritten + 1
    /\ composerDraft' \in [n : {promptsWritten'}, many : BOOLEAN]
    /\ UNCHANGED <<targetOf, listedAs, targetMoves, sends, clicked, took, sentTargets, untold, overlapped, lostDrafts>>
Writes ==
    /\ composerOpen # 0 /\ NewText
    /\ UNCHANGED <<composerOpen, mounts, refineVars>>

-----------------------------------------------------------------------------
(* Sending                                                                 *)

planSend(text, s) ==
    CASE listedAs[s] = "closed" -> "refused"
      [] listedAs[s] = "agent" -> "paste"
      [] listedAs[s] = "plain" /\ ~text.many -> "line"
      [] OTHER -> "refused"

(* In the order of the list, one of the sessions' orders. *)
Sendable(text, picked) == SetToSeq({s \in picked : planSend(text, s) # "refused"})
SendUnderWay == \E run \in sends : run.mount = composerOpen

DoSend ==
    /\ composerOpen # 0 /\ ~SendUnderWay /\ composerDraft # NoText /\ clicked < MaxSends
    /\ clicked' = clicked + 1
    /\ \E picked \in SUBSET PromptTargets :
          /\ Sendable(composerDraft, picked) # <<>>
          /\ sends' = sends \cup
                {[items |-> [i \in DOMAIN Sendable(composerDraft, picked) |->
                              [id |-> Sendable(composerDraft, picked)[i],
                               how |-> planSend(composerDraft, Sendable(composerDraft, picked)[i])]],
                  text |-> composerDraft, next |-> 1, sent |-> <<>>, mount |-> composerOpen, click |-> clicked']}
    /\ overlapped' = IF \E run \in sends : run.text = composerDraft /\ run.mount # composerOpen
                     THEN overlapped \cup {composerDraft} ELSE overlapped
    /\ UNCHANGED <<composerOpen, mounts, composerDraft, promptsWritten, targetOf, listedAs, targetMoves, took,
                   sentTargets, untold, lostDrafts, refineVars>>

(* One `await send`: taken and told, taken with the answer lost, or refused. *)
Item(run) == run.items[run.next]
Outcomes(s) == IF targetOf[s] = "closed" THEN {"refused"} ELSE {"sent", "untold", "refused"}
AfterItem(run, outcome) ==
    [run EXCEPT !.next = @ + 1, !.sent = IF outcome = "sent" THEN Append(@, Item(run).id) ELSE @]

(* After the last one the draft of that moment is wiped and the dialog of that
   moment closed, whoever opened it.                                        *)
WipesDraft(run) == run.sent # <<>>
SendGoesOn(was) ==
    /\ was \in sends
    /\ \E outcome \in Outcomes(Item(was).id) :
          LET item == Item(was)
              run == AfterItem(was, outcome)
              ends == run.next > Len(run.items)
          IN /\ took' = IF outcome = "refused" THEN took
                        ELSE took \cup {[id |-> item.id, text |-> run.text, how |-> item.how, click |-> run.click,
                                         plain |-> targetOf[item.id] = "plain"]}
             /\ untold' = IF outcome = "untold" THEN untold \cup {run.text} ELSE untold
             /\ sends' = (sends \ {was}) \cup (IF ends THEN {} ELSE {run})
             /\ IF ends
                THEN /\ composerDraft' = IF WipesDraft(run) THEN NoText ELSE composerDraft
                     /\ lostDrafts' = IF WipesDraft(run) /\ composerDraft \notin {run.text, NoText}
                                      THEN lostDrafts \cup {composerDraft} ELSE lostDrafts
                     /\ sentTargets' = run.sent /\ composerOpen' = 0
                     /\ refining' = 0 /\ proposal' = 0
                     /\ IF composerOpen # 0 THEN CancelsRefine ELSE UNCHANGED <<toRefiner, stopped>>
                ELSE UNCHANGED <<composerDraft, lostDrafts, sentTargets, composerOpen, refining, proposal,
                                 toRefiner, stopped>>
    /\ UNCHANGED <<mounts, promptsWritten, targetOf, listedAs, targetMoves, clicked, overlapped, refines,
                   activeRefine, commands, refined>>

TargetMoves ==
    /\ targetMoves < MaxTargetMoves /\ targetMoves' = targetMoves + 1
    /\ \E s \in PromptTargets, to \in {"agent", "plain", "closed"} :
          to # targetOf[s] /\ targetOf' = [targetOf EXCEPT ![s] = to]
    /\ UNCHANGED <<composerOpen, mounts, composerDraft, promptsWritten, listedAs, sends, clicked, took, sentTargets,
                   untold, overlapped, lostDrafts, refineVars>>
TargetsListed ==
    /\ listedAs # targetOf /\ listedAs' = targetOf
    /\ UNCHANGED <<composerOpen, mounts, composerDraft, promptsWritten, targetOf, targetMoves, sends, clicked, took,
                   sentTargets, untold, overlapped, lostDrafts, refineVars>>

SendNext ==
    \/ OpensComposer \/ ClosesComposer \/ Writes \/ DoSend \/ TargetMoves \/ TargetsListed
    \/ \E run \in sends : SendGoesOn(run)

-----------------------------------------------------------------------------
(* Refining                                                                *)

RunRefine ==
    /\ composerOpen # 0 /\ refining = 0 /\ composerDraft # NoText /\ refines < MaxRefines
    /\ refines' = refines + 1 /\ refining' = refines' /\ proposal' = 0
    /\ toRefiner' = Append(toRefiner, refines')
    /\ UNCHANGED <<composerOpen, mounts, sendVars, activeRefine, commands, refined, stopped>>

(* The button: the dialog goes on waiting, for the answer that says so. *)
CancelRefine ==
    /\ refining # 0 /\ Len(toRefiner) <= MaxRefines /\ CancelsRefine
    /\ UNCHANGED <<composerOpen, mounts, sendVars, refining, proposal, refines, activeRefine, commands, refined>>

Aborted(cs) == {IF c.id = activeRefine THEN [c EXCEPT !.aborted = TRUE] ELSE c : c \in cs}
RefinerHears ==
    /\ toRefiner # <<>> /\ toRefiner' = Tail(toRefiner)
    /\ IF Head(toRefiner) = 0
       THEN commands' = Aborted(commands) /\ UNCHANGED <<activeRefine, stopped>>
       ELSE /\ commands' = Aborted(commands) \cup {[id |-> Head(toRefiner), aborted |-> FALSE]}
            /\ activeRefine' = Head(toRefiner) /\ stopped' = stopped \cup ({activeRefine} \ {0})
    /\ UNCHANGED <<composerOpen, mounts, sendVars, refining, proposal, refines, refined>>

(* A command ends, by itself or killed; `finally` forgets it if it is the active one. *)
ActiveAfter(id) == IF activeRefine = id THEN 0 ELSE activeRefine
CommandEnds(c) ==
    /\ c \in commands /\ commands' = commands \ {c} /\ activeRefine' = ActiveAfter(c.id)
    /\ \E how \in IF c.aborted THEN {"cancelled"} ELSE {"ok", "failed"} :
          refined' = Append(refined, [id |-> c.id, how |-> how])
    /\ UNCHANGED <<composerOpen, mounts, sendVars, refining, proposal, refines, toRefiner, stopped>>

(* An answer for a mount that is gone changes nothing. *)
RefineArrives ==
    /\ refined # <<>> /\ refined' = Tail(refined)
    /\ LET r == Head(refined)
       IN IF r.id = refining
          THEN refining' = 0 /\ proposal' = IF r.how = "ok" THEN r.id ELSE proposal
          ELSE UNCHANGED <<refining, proposal>>
    /\ UNCHANGED <<composerOpen, mounts, sendVars, refines, toRefiner, activeRefine, commands, stopped>>

(* "Keep mine", and "Use this", which is a new text. *)
TakesProposal ==
    /\ proposal # 0 /\ proposal' = 0 /\ (UNCHANGED sendVars \/ NewText)
    /\ UNCHANGED <<composerOpen, mounts, refining, refines, toRefiner, activeRefine, commands, refined, stopped>>

RefineNext ==
    \/ OpensComposer \/ ClosesComposer \/ Writes \/ RunRefine \/ CancelRefine \/ RefinerHears
    \/ RefineArrives \/ TakesProposal \/ \E c \in commands : CommandEnds(c)

ComposerNext == SendNext \/ RefineNext
ComposerSpec == ComposerInit /\ [][ComposerNext]_composerVars

-----------------------------------------------------------------------------
ComposerTypeOK ==
    /\ composerOpen \in 0..mounts /\ composerDraft \in [n : 0..MaxPrompts, many : BOOLEAN]
    /\ targetOf \in [PromptTargets -> {"agent", "plain", "closed"}]
    /\ listedAs \in [PromptTargets -> {"agent", "plain", "closed"}]
    /\ clicked \in 0..MaxSends /\ (\A run \in sends : run.click \in 1..clicked)
    /\ refining \in 0..refines /\ proposal \in 0..refines
    /\ activeRefine \in 0..refines /\ stopped \subseteq 1..refines

(* A prompt of many lines is never typed into a plain shell, which would run each:
   one that got it was listed with an agent at the click.  And however often the
   dialog is closed and opened under a Send, a shell takes a text twice only if
   two dialogs were sending it at once or an answer was lost (PromptComposer.tsx doSend,
   prompt-send.ts planSend).                                                *)
PromptsAreSafe ==
    /\ \A t \in took : t.plain /\ t.text.many => t.how = "paste"
    /\ \A t, u \in took : t.id = u.id /\ t.text = u.text /\ t # u => t.text \in overlapped \cup untold
    /\ \A s \in ToSet(sentTargets) : \E t \in took : t.id = s

(* A draft leaves the dialog only after a shell took it, or when it was written
   while an earlier one was on its way (the `onDraft('')` of doSend).       *)
DraftsAreKept ==
    /\ composerDraft = NoText /\ promptsWritten > 0 =>
          (\E t \in took : t.text.n = promptsWritten) \/ (\E d \in lostDrafts : d.n = promptsWritten)
    /\ \A d \in lostDrafts : \E t \in took : t.text.n < d.n

(* At most one refine command runs that nobody stopped, none behind a closed
   dialog once its messages are heard, and none is stopped but the one the
   person cancelled, closed or replaced (main.ts activeRefine).             *)
RefinesAreOwned ==
    /\ \A c, d \in commands : ~c.aborted /\ ~d.aborted => c = d
    /\ \A c \in commands : toRefiner = <<>> /\ ~c.aborted => composerOpen # 0 /\ c.id = refining
    /\ \A c \in commands : c.aborted => c.id \in stopped
    /\ proposal # 0 => composerOpen # 0 /\ refining = 0
=============================================================================
