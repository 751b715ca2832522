---------------------------- MODULE OutputStream ----------------------------
(***************************************************************************)
(* The output of one shell (a session's own or a pane's) on its way to the *)
(* connections that watch it: the runtime's scrollback, one coalescer      *)
(* buffer for each subscriber, the replay at an attach - the byte tail for *)
(* a plain shell, the serialized screen for a TUI - and the exit line.     *)
(*                                                                         *)
(* Output is numbered chunk by chunk.  The screen is a headless xterm: it  *)
(* parses what it was given later, in slices, and calls back when it has   *)
(* come to a given point (external, as agent-screen.ts uses it).           *)
(***************************************************************************)
EXTENDS Integers, SequencesExt

CONSTANTS
    Viewers,        \* connections that attach
    MaxChunks,      \* bound: chunks the shell prints
    ScrollbackLimit \* SCROLLBACK_LIMIT, in chunks

ASSUME StreamAssumption == MaxChunks \in Nat /\ ScrollbackLimit \in Nat \ {0}

VARIABLES
    printed,    \* chunks the shell has printed
    ended,      \* its exit callback has run
    isTui,      \* the screen has shown a full-screen program
    parsed,     \* the chunks the screen has parsed
    linked,     \* the viewers whose connection is open
    subscribers,\* RunningSession.subscribers
    held,       \* OutputCoalescer.state: a subscriber's pending output
    waitsAt,    \* subscribeTui: the point its snapshot waits for, or NotWaiting
    shown,      \* what a viewer was sent since its latest replay began
    replay      \* history: the latest replay: the first and the last chunk in it, and
                \* the chunks printed when it was made

streamVars == <<printed, ended, isTui, parsed, linked, subscribers, held,
                waitsAt, shown, replay>>

NotWaiting == -1
ExitLine == 0       \* the exit notification, in shown

StreamTypeOK ==
    /\ printed \in 0..MaxChunks /\ parsed \in 0..printed
    /\ ended \in BOOLEAN /\ isTui \in BOOLEAN
    /\ linked \subseteq Viewers /\ subscribers \subseteq Viewers
    /\ held \in [Viewers -> Seq(1..MaxChunks)]
    /\ waitsAt \in [Viewers -> NotWaiting..MaxChunks]
    /\ shown \in [Viewers -> Seq(0..MaxChunks)]
    /\ replay \in [Viewers -> [first : 1..(MaxChunks + 1), last : 0..MaxChunks, at : 0..MaxChunks]]

StreamInit ==
    /\ printed = 0 /\ parsed = 0
    /\ ended = FALSE /\ isTui = FALSE
    /\ linked = Viewers /\ subscribers = {}
    /\ held = [v \in Viewers |-> <<>>]
    /\ waitsAt = [v \in Viewers |-> NotWaiting]
    /\ shown = [v \in Viewers |-> <<>>]
    /\ replay = [v \in Viewers |-> [first |-> 1, last |-> 0, at |-> 0]]

ChunkRange(i, j) == [k \in 1..(IF j < i THEN 0 ELSE j - i + 1) |-> i + k - 1]

(* The scrollback keeps the tail of the output. *)
TailStart == IF printed > ScrollbackLimit THEN printed - ScrollbackLimit + 1 ELSE 1

-----------------------------------------------------------------------------

(* onData: the screen, the scrollback, then a push for every subscriber.  A
   push goes out at once after a quiet window or past the cap, with what was
   pending; else it waits for the timer. *)
Emit(atOnce, tuiMode) ==
    /\ ~ended /\ printed < MaxChunks
    /\ printed' = printed + 1
    /\ isTui' = (isTui \/ tuiMode)
    /\ atOnce \subseteq subscribers
    /\ held' = [v \in Viewers |->
                   IF v \in atOnce THEN <<>>
                   ELSE IF v \in subscribers THEN Append(held[v], printed + 1) ELSE held[v]]
    /\ shown' = [v \in Viewers |->
                   IF v \in atOnce \cap linked THEN shown[v] \o Append(held[v], printed + 1) ELSE shown[v]]
    /\ UNCHANGED <<ended, parsed, linked, subscribers, waitsAt, replay>>

(* The timer of a subscriber's buffer. *)
TimerFires(v) ==
    /\ held[v] # <<>>
    /\ held' = [held EXCEPT ![v] = <<>>]
    /\ shown' = [shown EXCEPT ![v] = IF v \in linked THEN @ \o held[v] ELSE @]
    /\ UNCHANGED <<printed, ended, isTui, parsed, linked, subscribers, waitsAt, replay>>

\* Mutant: what was pending is flushed after the replay as well.
KeptAtAttach(v) == held

(* attach() forgets what is pending: the replay holds it already. *)
HeldAtAttach(v) == [held EXCEPT ![v] = <<>>]

(* attach(), then a replay of the chunks from first to last.  A viewer that left
   while its snapshot waited is subscribed all the same, and sent nothing. *)
Attached(v, first, last) ==
    /\ subscribers' = subscribers \cup {v}
    /\ held' = HeldAtAttach(v)
    /\ shown' = [shown EXCEPT ![v] = IF v \in linked THEN ChunkRange(first, last) ELSE @]
    /\ replay' = [replay EXCEPT ![v] = [first |-> first, last |-> last, at |-> printed]]

(* session.attach, terminal.attach on a plain shell. *)
AttachPlain(v) ==
    /\ ~ended /\ ~isTui /\ v \in linked
    /\ Attached(v, TailStart, printed)
    /\ UNCHANGED <<printed, ended, isTui, parsed, linked, waitsAt>>

(* subscribeTui: the snapshot waits until the screen has parsed what is
   printed by now.  What is printed from here to the snapshot is in nobody's
   buffer: the viewer is subscribed when it is taken. *)
AttachTui(v) ==
    /\ ~ended /\ isTui /\ v \in linked /\ waitsAt[v] = NotWaiting
    /\ waitsAt' = [waitsAt EXCEPT ![v] = printed]
    /\ UNCHANGED <<printed, ended, isTui, parsed, linked, subscribers, held, shown, replay>>

(* The screen parses up to chunk k.  If a snapshot waits for that, it is taken
   and its viewer attached before anything else happens; a screen that cannot
   be serialized gives way to the byte tail. *)
Parses(k) ==
    /\ k \in (parsed + 1)..printed
    /\ parsed' = k
    /\ \A v \in Viewers : waitsAt[v] = NotWaiting \/ waitsAt[v] > k
    /\ UNCHANGED <<printed, ended, isTui, linked, subscribers, held, waitsAt, shown, replay>>

SnapshotTaken(v, k, serialized) ==
    /\ waitsAt[v] # NotWaiting /\ k \in parsed..printed /\ k >= waitsAt[v]
    /\ parsed' = k
    /\ \A w \in Viewers \ {v} : waitsAt[w] = NotWaiting \/ waitsAt[w] >= waitsAt[v]
    /\ waitsAt' = [waitsAt EXCEPT ![v] = NotWaiting]
    /\ IF serialized THEN Attached(v, 1, k) ELSE Attached(v, TailStart, printed)
    /\ UNCHANGED <<printed, ended, isTui, linked>>

(* onExit: pending output first, then the exit line. *)
ShellEnds ==
    /\ ~ended
    /\ ended' = TRUE
    /\ held' = [v \in Viewers |-> <<>>]
    /\ shown' = [v \in Viewers |-> IF v \in subscribers \cap linked
                                     THEN Append(shown[v] \o held[v], ExitLine) ELSE shown[v]]
    /\ UNCHANGED <<printed, isTui, parsed, linked, subscribers, waitsAt, replay>>

(* The connection closes: its close handler unsubscribes it. *)
Unlink(v) ==
    /\ v \in linked
    /\ linked' = linked \ {v}
    /\ subscribers' = subscribers \ {v}
    /\ held' = [held EXCEPT ![v] = <<>>]
    /\ UNCHANGED <<printed, ended, isTui, parsed, waitsAt, shown, replay>>

StreamNext ==
    \/ \E atOnce \in SUBSET Viewers, tuiMode \in BOOLEAN : Emit(atOnce, tuiMode)
    \/ \E v \in Viewers : TimerFires(v) \/ AttachPlain(v) \/ AttachTui(v) \/ Unlink(v)
    \/ \E k \in 1..MaxChunks : Parses(k)
    \/ \E v \in Viewers, k \in 0..MaxChunks, serialized \in BOOLEAN : SnapshotTaken(v, k, serialized)
    \/ ShellEnds

StreamSpec == StreamInit /\ [][StreamNext]_streamVars

-----------------------------------------------------------------------------
(* Properties                                                              *)

(* A viewer is sent no chunk twice and none out of order, and the exit line comes
   after all of them.  What it was sent or is held for it is exactly what its latest
   replay held and everything printed since, however attaches, timers, snapshots and
   the exit interleave.  A byte tail reaches up to its attach.  A serialized screen
   reaches up to what the screen has parsed: the chunks after replay.last up to
   replay.at, printed while the snapshot waited and not yet parsed when it was taken,
   reach the viewer neither in the snapshot nor after it (runtime.ts, subscribeTui). *)
StreamIsWhole ==
    \A v \in subscribers \cap linked :
        LET sent == shown[v] \o held[v]
            chunks == {i \in DOMAIN sent : sent[i] # ExitLine}
            joined == replay[v]
        IN  /\ \A i, j \in chunks : i < j => sent[i] < sent[j]
            /\ {sent[i] : i \in chunks} = joined.first..joined.last \cup (joined.at + 1)..printed
            /\ \A i \in DOMAIN sent : sent[i] = ExitLine => i = Len(sent)
=============================================================================
