----------------------------- MODULE ClientRpc ------------------------------
(***************************************************************************)
(* One connection between a DaemonClient and its daemon: calls are         *)
(* numbered frames, handled concurrently and answered in any order; the    *)
(* daemon or the socket may go at any moment, and the client hears of it   *)
(* by `end`, `error` and `close`, which overlap, come in any order and,    *)
(* when a write has stalled, never come but for `end`.                     *)
(*                                                                         *)
(* The frames are the lines of the framing below.  Every handler ends      *)
(* (the modules of the methods say how).                                   *)
(***************************************************************************)
EXTENDS Integers, FiniteSets, SequencesExt

CONSTANTS
    MaxCalls        \* bound: calls on the connection

ASSUME RpcAssumption == MaxCalls \in Nat

VARIABLES
    calls,      \* nextId - 1: the calls made
    pending,    \* DaemonClient.pending
    settled,    \* history: how a call was settled: "no", "result", "gone"
    clientGone, \* DaemonClient.gone
    writable,   \* transport.isWritable()
    watchers,   \* close handlers: "none", "set", "called"
    peer,       \* the daemon's end: "open", "closing" (the client half-closed),
                \* "ended", "stalled" (ended, a write waits) or "reset"
    toDaemon,   \* requests on their way
    handled,    \* requests whose handler runs
    toClient,   \* answers on their way
    cleanups    \* onClose callbacks of the server's context: "none", "set", "ran", "lost"

rpcVars == <<calls, pending, settled, clientGone, writable, watchers, peer,
             toDaemon, handled, toClient, cleanups>>

Ids == 1..MaxCalls

RpcTypeOK ==
    /\ calls \in 0..MaxCalls
    /\ pending \subseteq Ids
    /\ settled \in [Ids -> {"no", "result", "gone"}]
    /\ clientGone \in BOOLEAN /\ writable \in BOOLEAN
    /\ watchers \in {"none", "set", "called"}
    /\ peer \in {"open", "closing", "ended", "stalled", "reset"}
    /\ toDaemon \subseteq Ids /\ handled \subseteq Ids /\ toClient \subseteq Ids
    /\ cleanups \in {"none", "set", "ran", "lost"}

RpcInit ==
    /\ calls = 0 /\ pending = {}
    /\ settled = [i \in Ids |-> "no"]
    /\ clientGone = FALSE /\ writable = TRUE
    /\ watchers = "none"
    /\ peer = "open"
    /\ toDaemon = {} /\ handled = {} /\ toClient = {}
    /\ cleanups = "none"

-----------------------------------------------------------------------------
(* The client.                                                             *)

(* call: refused at once on a connection that is known to be gone. *)
Call ==
    /\ calls < MaxCalls
    /\ calls' = calls + 1
    /\ IF clientGone \/ ~writable
         THEN /\ settled' = [settled EXCEPT ![calls + 1] = "gone"]
              /\ UNCHANGED <<pending, toDaemon>>
         ELSE /\ pending' = pending \cup {calls + 1}
              /\ toDaemon' = IF peer = "open" THEN toDaemon \cup {calls + 1} ELSE toDaemon
              /\ UNCHANGED settled
    /\ UNCHANGED <<clientGone, writable, watchers, peer, handled, toClient, cleanups>>

(* onClose: called at once when the connection is gone already. *)
Watch ==
    /\ watchers = "none"
    /\ watchers' = IF clientGone THEN "called" ELSE "set"
    /\ UNCHANGED <<calls, pending, settled, clientGone, writable, peer, toDaemon, handled,
                   toClient, cleanups>>

(* handleMessage: an answer to a call that is not pending is dropped. *)
Receive(i) ==
    /\ i \in toClient
    /\ toClient' = toClient \ {i}
    /\ pending' = pending \ {i}
    /\ settled' = IF i \in pending THEN [settled EXCEPT ![i] = "result"] ELSE settled
    /\ UNCHANGED <<calls, clientGone, writable, watchers, peer, toDaemon, handled, cleanups>>

(* failAll: reject what is pending; the close handlers the first time only. *)
FailAll ==
    /\ pending' = {}
    /\ settled' = [i \in Ids |-> IF i \in pending THEN "gone" ELSE settled[i]]
    /\ clientGone' = TRUE
    /\ watchers' = IF watchers = "set" /\ ~clientGone THEN "called" ELSE watchers

\* Mutant: nobody listens to `end`.
Unheard == UNCHANGED <<pending, settled, clientGone, watchers>>

(* `end`: the peer has half-closed. *)
OnEnd == FailAll

(* The half-close arrives, behind the answers that were on their way.  With a
   write stalled nothing else will follow. *)
End ==
    /\ peer \in {"ended", "stalled"} /\ ~clientGone /\ toClient = {}
    /\ OnEnd
    /\ writable' \in BOOLEAN
    /\ UNCHANGED <<calls, peer, toDaemon, handled, toClient, cleanups>>

(* `error` or `close`. *)
ErrorOrClose ==
    /\ peer \in {"ended", "reset"} /\ (writable \/ ~clientGone)
    /\ peer = "ended" => toClient = {}
    /\ FailAll
    /\ writable' = FALSE
    /\ toClient' = {}
    /\ UNCHANGED <<calls, peer, toDaemon, handled, cleanups>>

(* DaemonClient.close half-closes: the daemon's end follows. *)
CloseClient ==
    /\ writable /\ peer = "open"
    /\ writable' = FALSE
    /\ peer' = "closing"
    /\ UNCHANGED <<calls, pending, settled, clientGone, watchers, toDaemon, handled, toClient, cleanups>>

-----------------------------------------------------------------------------
(* The daemon's end: handle, respond, cleanup.                             *)

Handle(i) ==
    /\ i \in toDaemon
    /\ toDaemon' = toDaemon \ {i}
    /\ handled' = handled \cup {i}
    /\ UNCHANGED <<calls, pending, settled, clientGone, writable, watchers, peer, toClient, cleanups>>

(* A result, or an error of any kind, is an answer; a destroyed socket gets
   none. *)
Answered(i) ==
    /\ i \in handled
    /\ handled' = handled \ {i}
    /\ toClient' = IF peer \in {"open", "closing"} THEN toClient \cup {i} ELSE toClient
    /\ UNCHANGED <<calls, pending, settled, clientGone, writable, watchers, peer, toDaemon, cleanups>>

(* A handler asks to be told when the connection closes.  One that asks after
   that, having awaited something, is never told. *)
AskCleanup(i) ==
    /\ i \in handled /\ cleanups = "none"
    /\ cleanups' = IF peer \in {"open", "closing"} THEN "set" ELSE "lost"
    /\ UNCHANGED <<calls, pending, settled, clientGone, writable, watchers, peer, toDaemon,
                   handled, toClient>>

(* The daemon closes or dies, or the connection breaks: what was on its way
   arrives, or not. *)
PeerGoes(how) ==
    /\ peer \in {"open", "closing"} \/ (peer = "ended" /\ how = "reset")
    /\ peer' = how
    /\ toDaemon' = {}
    /\ toClient' \in IF how = "reset" THEN SUBSET toClient ELSE {toClient}
    /\ cleanups' = IF cleanups = "set" THEN "ran" ELSE cleanups
    /\ UNCHANGED <<calls, pending, settled, clientGone, writable, watchers, handled>>

Wire ==
    \/ End \/ ErrorOrClose \/ (peer = "closing" /\ PeerGoes("ended"))
    \/ \E i \in Ids : Receive(i) \/ Handle(i) \/ Answered(i)

RpcNext ==
    \/ Call \/ Watch \/ CloseClient \/ Wire
    \/ \E i \in Ids : AskCleanup(i)
    \/ \E how \in {"ended", "stalled", "reset"} : PeerGoes(how)

RpcSpec == RpcInit /\ [][RpcNext]_rpcVars

-----------------------------------------------------------------------------
(* Properties                                                              *)

(* A call is never left hanging: it is answered, or rejected when the daemon
   goes, whichever of `end`, `error` and `close` come and in whatever order
   (transport.ts:26: a client that drops `end` "hangs forever instead of
   failing"). *)
EveryCallSettles == \A i \in Ids : i \in pending ~> i \notin pending

(* Nothing is pending on a connection known to be gone, and whoever watches it
   has been told. *)
GoneIsTold == clientGone => pending = {} /\ watchers # "set"

-----------------------------------------------------------------------------
(***************************************************************************)
(* createLineFramer, the framing under every RPC message: a byte stream    *)
(* that arrives in chunks of any size is cut into lines, and a line that   *)
(* grows past the limit is dropped up to the newline that ends it.         *)
(*                                                                         *)
(* A stream is newlines and other characters; a line is the interval of    *)
(* positions it stands at, so a fragment cannot pass for a line.           *)
(***************************************************************************)

CONSTANTS
    StreamLength,   \* bound: characters of the stream
    MaxLine         \* MAX_LINE_LENGTH

ASSUME FramerAssumption == StreamLength \in Nat /\ MaxLine \in Nat

VARIABLES
    stream,     \* what the peer writes
    fed,        \* the characters that have arrived
    bufferFrom, \* where `buffer` begins: it holds bufferFrom..fed
    discarding, \* the rest of an over-long line is being dropped
    lines       \* the lines handed to onLine

framerVars == <<stream, fed, bufferFrom, discarding, lines>>

Newline == "newline"
Lines == [from: 1..StreamLength, to: 0..StreamLength]

FramerTypeOK ==
    /\ stream \in [1..StreamLength -> {Newline, "char"}]
    /\ fed \in 0..StreamLength
    /\ bufferFrom \in 1..(StreamLength + 1)
    /\ discarding \in BOOLEAN
    /\ lines \in Seq(Lines)

FramerInit ==
    /\ stream \in [1..StreamLength -> {Newline, "char"}]
    /\ fed = 0 /\ bufferFrom = 1
    /\ discarding = FALSE
    /\ lines = <<>>

(* The newlines of the stream from position i to position j. *)
NewlinesIn(i, j) == {n \in i..j : stream[n] = Newline}

(* The lines of a stretch of the stream that end in a newline, without the
   empty ones (trim leaves nothing of them). *)
LinesIn(i, j) ==
    {[from |-> b, to |-> e - 1] : b \in i..j, e \in NewlinesIn(i, j)} \ 
    {l \in Lines : l.from > l.to \/ NewlinesIn(l.from, l.to) # {}
                   \/ (l.from > i /\ stream[l.from - 1] # Newline)}

Ordered(ls) == SetToSortSeq(ls, LAMBDA a, b : a.from < b.from)

\* Mutant: a dropped line is taken for ended with the chunk it overflowed in.
ForgetsAtOnce(rest) == FALSE

(* What arrives next belongs to a line that is being dropped. *)
StaysDiscarding(rest) == rest

(* One chunk: the characters up to position k. *)
Feed(k) ==
    LET found == NewlinesIn(bufferFrom, k)
        first == CHOOSE n \in found : \A m \in found : n <= m
        last == CHOOSE n \in found : \A m \in found : n >= m
        \* The first newline ends the line that is being dropped.
        start == IF discarding /\ found # {} THEN first + 1 ELSE bufferFrom
        rest == IF found = {} THEN bufferFrom ELSE last + 1
        long == k - rest + 1 > MaxLine
    IN  /\ fed < k
        /\ fed' = k
        /\ lines' = IF found = {} THEN lines ELSE lines \o Ordered(LinesIn(start, k))
        /\ bufferFrom' = IF long THEN k + 1 ELSE rest
        /\ discarding' = IF long THEN StaysDiscarding(TRUE) ELSE discarding /\ found = {}
        /\ UNCHANGED stream

FramerNext == \E k \in 1..StreamLength : Feed(k)

FramerSpec == FramerInit /\ [][FramerNext]_framerVars

-----------------------------------------------------------------------------
(* Whatever the chunks, what is handed on are whole lines of the stream, in
   their order and each once; and none that fits the limit is missing. *)
LinesAreWhole ==
    LET whole == LinesIn(1, fed)
    IN  /\ ToSet(lines) \subseteq whole
        /\ \A i, j \in DOMAIN lines : i < j => lines[i].to < lines[j].from
        /\ \A l \in whole : l.to - l.from < MaxLine => l \in ToSet(lines)
=============================================================================
