--------------------------- MODULE CommandBridge ---------------------------
(***************************************************************************)
(* A shell command asks the running cockpit for something: bridge.call     *)
(* goes to the daemon, whose BridgeRegistry forwards it to the cockpit     *)
(* registered on the workspace and keeps a waiter with a timer; the        *)
(* cockpit's CommandBridgeServer answers with bridge.respond.  Cockpits    *)
(* come and go, answers are late, and both ends may ask too much.          *)
(*                                                                         *)
(* One workspace: registrations of different workspaces share nothing.     *)
(***************************************************************************)
EXTENDS Integers, FiniteSets

CONSTANTS
    Cockpits,       \* connections of cockpits to the daemon, each made once
    Callers,        \* shell commands, each calling once
    MaxInFlight,    \* MAX_IN_FLIGHT
    MaxPerSecond,   \* MAX_CALLS_PER_SECOND
    Nobody

ASSUME BridgeAssumption ==
    /\ Nobody \notin Cockpits
    /\ MaxInFlight \in Nat /\ MaxPerSecond \in Nat

VARIABLES
    conn,       \* cockpit connection: "new", "open", "closed"
    registered, \* BridgeRegistry.registrations of the workspace, or Nobody
    waiters,    \* registration.pending: the calls with an armed timer
    recent,     \* registration.recent: the calls of the last second
    asked,      \* history: the cockpit a call was forwarded to, or Nobody
    outcome,    \* what a caller has been answered
    requests,   \* bridge.request notifications on their way: <<cockpit, call>>
    atWindow,   \* RendererBridge.waiting: requests the cockpit's window has
    answers     \* answers on their way back: [from, call, ok]

bridgeVars == <<conn, registered, waiters, recent, asked, outcome, requests,
                atWindow, answers>>

Outcomes == {"none", "waiting", "answered", "failed", "timeout", "detached", "refused"}

BridgeTypeOK ==
    /\ conn \in [Cockpits -> {"new", "open", "closed"}]
    /\ registered \in Cockpits \cup {Nobody}
    /\ waiters \subseteq Callers
    /\ recent \subseteq Callers
    /\ asked \in [Callers -> Cockpits \cup {Nobody}]
    /\ outcome \in [Callers -> Outcomes]
    /\ requests \subseteq Cockpits \X Callers
    /\ atWindow \subseteq Cockpits \X Callers
    /\ answers \subseteq [from: Cockpits, call: Callers, ok: BOOLEAN]

BridgeInit ==
    /\ conn = [c \in Cockpits |-> "new"]
    /\ registered = Nobody
    /\ waiters = {} /\ recent = {}
    /\ asked = [k \in Callers |-> Nobody]
    /\ outcome = [k \in Callers |-> "none"]
    /\ requests = {} /\ atWindow = {} /\ answers = {}

-----------------------------------------------------------------------------

Connect(c) ==
    /\ conn[c] = "new"
    /\ conn' = [conn EXCEPT ![c] = "open"]
    /\ UNCHANGED <<registered, waiters, recent, asked, outcome, requests, atWindow, answers>>

(* bridge.register: refused, never replaced, while another is registered. *)
Register(c) ==
    /\ conn[c] = "open"
    /\ registered = Nobody
    /\ registered' = c
    /\ waiters' = {} /\ recent' = {}
    /\ UNCHANGED <<conn, asked, outcome, requests, atWindow, answers>>

\* Mutant: the waiters of a cockpit that disconnects are left to their timers.
LeftToTimers == [k \in Callers |-> outcome[k]]

(* onClose rejects every waiter of the registration with BRIDGE_DETACHED. *)
Detached == [k \in Callers |-> IF k \in waiters THEN "detached" ELSE outcome[k]]

(* The cockpit's connection ends, with what was on its way on it. *)
Disconnect(c) ==
    /\ conn[c] = "open"
    /\ conn' = [conn EXCEPT ![c] = "closed"]
    /\ requests' = {r \in requests : r[1] # c}
    /\ answers' = {a \in answers : a.from # c}
    /\ IF registered = c
         THEN /\ registered' = Nobody
              /\ waiters' = {} /\ recent' = {}
              /\ outcome' = Detached
         ELSE UNCHANGED <<registered, waiters, recent, outcome>>
    /\ UNCHANGED <<asked, atWindow>>

-----------------------------------------------------------------------------
(* BridgeRegistry.start                                                    *)

BridgeBusy == Cardinality(waiters) >= MaxInFlight \/ Cardinality(recent) >= MaxPerSecond

(* BRIDGE_NO_COCKPIT, a kind that is unknown or not served, a request that is
   too large, or BRIDGE_BUSY. *)
Refuse(k) ==
    /\ outcome[k] = "none"
    /\ outcome' = [outcome EXCEPT ![k] = "refused"]
    /\ UNCHANGED <<conn, registered, waiters, recent, asked, requests, atWindow, answers>>

(* The timer is armed and the waiter noted before the request is sent. *)
Forward(k) ==
    /\ outcome[k] = "none"
    /\ registered # Nobody /\ ~BridgeBusy
    /\ waiters' = waiters \cup {k}
    /\ recent' = recent \cup {k}
    /\ asked' = [asked EXCEPT ![k] = registered]
    /\ outcome' = [outcome EXCEPT ![k] = "waiting"]
    /\ requests' = requests \cup {<<registered, k>>}
    /\ UNCHANGED <<conn, registered, atWindow, answers>>

(* A second passes: the oldest of the recent calls no longer count. *)
SecondPasses ==
    /\ recent # {}
    /\ \E old \in SUBSET recent : old # {} /\ recent' = recent \ old
    /\ UNCHANGED <<conn, registered, waiters, asked, outcome, requests, atWindow, answers>>

(* The timer of a waiter fires. *)
Timeout(k) ==
    /\ k \in waiters
    /\ waiters' = waiters \ {k}
    /\ outcome' = [outcome EXCEPT ![k] = "timeout"]
    /\ UNCHANGED <<conn, registered, recent, asked, requests, atWindow, answers>>

-----------------------------------------------------------------------------
(* The cockpit: CommandBridgeServer.handle, then bridge.respond.           *)

Answer(c, k, ok) ==
    answers' = IF conn[c] = "open" THEN answers \cup {[from |-> c, call |-> k, ok |-> ok]} ELSE answers

(* The main process has an answer of its own, or no handler for the kind, or
   no window to ask. *)
Serve(c, k, ok) ==
    /\ <<c, k>> \in requests
    /\ requests' = requests \ {<<c, k>>}
    /\ Answer(c, k, ok)
    /\ UNCHANGED <<conn, registered, waiters, recent, asked, outcome, atWindow>>

(* RendererBridge.ask: only the window can carry it out. *)
AskWindow(c, k) ==
    /\ <<c, k>> \in requests
    /\ requests' = requests \ {<<c, k>>}
    /\ atWindow' = atWindow \cup {<<c, k>>}
    /\ UNCHANGED <<conn, registered, waiters, recent, asked, outcome, answers>>

(* RendererBridge.reply (ok or not), or its own timeout. *)
WindowAnswers(c, k, ok) ==
    /\ <<c, k>> \in atWindow
    /\ atWindow' = atWindow \ {<<c, k>>}
    /\ Answer(c, k, ok)
    /\ UNCHANGED <<conn, registered, waiters, recent, asked, outcome, requests>>

\* Mutant: an answer settles the call even if the call has been settled.
AnyAnswer(a) == TRUE

(* The answer counts if it comes from the registered cockpit and the call is
   still waiting; the first answer won, the rest are noise. *)
Counts(a) == a.from = registered /\ a.call \in waiters

(* bridge.respond; a result that is too large fails the call as well. *)
Respond(a) ==
    /\ a \in answers
    /\ answers' = answers \ {a}
    /\ IF Counts(a)
         THEN /\ waiters' = waiters \ {a.call}
              /\ \E fits \in BOOLEAN :
                    outcome' = [outcome EXCEPT ![a.call] = IF a.ok /\ fits THEN "answered" ELSE "failed"]
         ELSE UNCHANGED <<waiters, outcome>>
    /\ UNCHANGED <<conn, registered, recent, asked, requests, atWindow>>

BridgeNext ==
    \/ \E c \in Cockpits : Connect(c) \/ Register(c) \/ Disconnect(c)
    \/ \E k \in Callers : Refuse(k) \/ Forward(k) \/ Timeout(k)
    \/ \E c \in Cockpits, k \in Callers :
          AskWindow(c, k) \/ \E ok \in BOOLEAN : Serve(c, k, ok) \/ WindowAnswers(c, k, ok)
    \/ \E a \in answers : Respond(a)
    \/ SecondPasses

BridgeSpec == BridgeInit /\ [][BridgeNext]_bridgeVars

-----------------------------------------------------------------------------
(* Properties                                                              *)

(* Whoever waits, waits on the cockpit that is registered now, connected, and
   has a timer: nobody waits on a cockpit that is gone, whatever closes and
   registers meanwhile (bridge-registry.ts:93). *)
WaitersAreWatched ==
    \A k \in Callers : outcome[k] = "waiting" <=>
        /\ k \in waiters
        /\ registered # Nobody /\ conn[registered] = "open" /\ asked[k] = registered

(* The first settlement wins: a late answer, a timer or a disconnection never
   changes what a caller was told. *)
Settled(k) == outcome[k] \notin {"none", "waiting"}
SettledOnce == [][\A k \in Callers : Settled(k) => outcome'[k] = outcome[k]]_bridgeVars

(* The limit of requests in flight holds whoever registers. *)
InFlightBounded == Cardinality(waiters) <= MaxInFlight
=============================================================================
