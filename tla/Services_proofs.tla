--------------------------- MODULE Services_proofs ---------------------------
(* Proofs about the daemon's services to the window: its connections and the
   bridges over them (CommandBridge, CockpitBridge), the terminals it keeps (Terminals), the
   streams of what shells print (OutputStream), and its desktop notifications
   (AgentNotices). *)
EXTENDS CommandBridge, CockpitBridge, Terminals, OutputStream, AgentNotices, TLAPS, FiniteSetTheorems, SequenceTheorems

(***************************************************************************)
(* The daemon's registry.  The waiters are exactly the calls that wait,    *)
(* each forwarded to the cockpit that is registered now; a registered      *)
(* cockpit is connected.  So a disconnection, the only way a registration  *)
(* ends, finds in `waiters` everybody it has to tell.                      *)
(***************************************************************************)
RegisteredIsOpen == registered # Nobody => conn[registered] = "open"
WaitersWait == \A k \in Callers : k \in waiters <=> outcome[k] = "waiting"
AskedTheRegistered == \A k \in waiters : registered # Nobody /\ asked[k] = registered

BridgeIInv == BridgeTypeOK /\ RegisteredIsOpen /\ WaitersWait /\ AskedTheRegistered

LEMMA BridgeInitOK == BridgeInit => BridgeIInv
  BY BridgeAssumption DEF BridgeInit, BridgeIInv, BridgeTypeOK, RegisteredIsOpen, WaitersWait,
     AskedTheRegistered, Outcomes

\* Connections come, register and go.
LEMMA BridgeConnectionsOK ==
  ASSUME BridgeIInv, NEW c \in Cockpits, Connect(c) \/ Register(c) \/ Disconnect(c)
  PROVE  BridgeIInv'
  <1> USE BridgeAssumption DEF BridgeIInv, BridgeTypeOK, RegisteredIsOpen, WaitersWait, AskedTheRegistered, Outcomes
  <1>1. CASE Connect(c)
    BY <1>1 DEF Connect
  <1>2. CASE Register(c)
    BY <1>2 DEF Register
  <1>3. CASE Disconnect(c)
    <2>1. CASE registered = c
      BY <1>3, <2>1 DEF Disconnect, Detached
    <2>2. CASE registered # c
      BY <1>3, <2>2 DEF Disconnect
    <2> QED BY <2>1, <2>2
  <1> QED BY <1>1, <1>2, <1>3

\* Calls are refused, forwarded and timed out; a second passes.
LEMMA BridgeCallsOK ==
  ASSUME BridgeIInv,
         SecondPasses \/ \E k \in Callers : Refuse(k) \/ Forward(k) \/ Timeout(k)
  PROVE  BridgeIInv'
  <1> USE BridgeAssumption DEF BridgeIInv, BridgeTypeOK, RegisteredIsOpen, WaitersWait, AskedTheRegistered, Outcomes
  <1>1. CASE SecondPasses
    BY <1>1 DEF SecondPasses
  <1>2. ASSUME NEW k \in Callers, Refuse(k) PROVE BridgeIInv'
    BY <1>2 DEF Refuse
  <1>3. ASSUME NEW k \in Callers, Forward(k) PROVE BridgeIInv'
    BY <1>3 DEF Forward
  <1>4. ASSUME NEW k \in Callers, Timeout(k) PROVE BridgeIInv'
    BY <1>4 DEF Timeout
  <1> QED BY <1>1, <1>2, <1>3, <1>4

\* The cockpit serves a request, asks its window, and answers.
LEMMA BridgeAnswersOK ==
  ASSUME BridgeIInv,
         \/ \E c \in Cockpits, k \in Callers :
               AskWindow(c, k) \/ \E ok \in BOOLEAN : Serve(c, k, ok) \/ WindowAnswers(c, k, ok)
         \/ \E a \in answers : Respond(a)
  PROVE  BridgeIInv'
  <1> USE BridgeAssumption DEF BridgeIInv, BridgeTypeOK, RegisteredIsOpen, WaitersWait, AskedTheRegistered, Outcomes
  <1>1. ASSUME NEW c \in Cockpits, NEW k \in Callers, AskWindow(c, k) PROVE BridgeIInv'
    BY <1>1 DEF AskWindow
  <1>2. ASSUME NEW c \in Cockpits, NEW k \in Callers, NEW ok \in BOOLEAN, Serve(c, k, ok) PROVE BridgeIInv'
    BY <1>2 DEF Serve, Answer
  <1>3. ASSUME NEW c \in Cockpits, NEW k \in Callers, NEW ok \in BOOLEAN, WindowAnswers(c, k, ok)
        PROVE BridgeIInv'
    BY <1>3 DEF WindowAnswers, Answer
  <1>4. ASSUME NEW a \in answers, Respond(a) PROVE BridgeIInv'
    <2>1. CASE Counts(a)
      <3>1. PICK fits \in BOOLEAN :
              outcome' = [outcome EXCEPT ![a.call] = IF a.ok /\ fits THEN "answered" ELSE "failed"]
        BY <1>4, <2>1 DEF Respond
      <3> QED BY <1>4, <2>1, <3>1 DEF Respond, Counts
    <2>2. CASE ~Counts(a)
      BY <1>4, <2>2 DEF Respond
    <2> QED BY <2>1, <2>2
  <1> QED BY <1>1, <1>2, <1>3, <1>4

LEMMA BridgeInductive == BridgeIInv /\ [BridgeNext]_bridgeVars => BridgeIInv'
  <1> SUFFICES ASSUME BridgeIInv, [BridgeNext]_bridgeVars PROVE BridgeIInv'
    OBVIOUS
  <1>1. CASE UNCHANGED bridgeVars
    BY <1>1 DEF bridgeVars, BridgeIInv, BridgeTypeOK, RegisteredIsOpen, WaitersWait, AskedTheRegistered
  <1>2. CASE BridgeNext
    BY <1>2, BridgeConnectionsOK, BridgeCallsOK, BridgeAnswersOK DEF BridgeNext
  <1> QED BY <1>1, <1>2

LEMMA BridgeInvariant == BridgeSpec => []BridgeIInv
  BY BridgeInitOK, BridgeInductive, PTL DEF BridgeSpec

(* Whoever waits for an answer waits on the cockpit that is registered now, that
   is connected and was asked, and has a timer. *)
THEOREM WaitersWatched == BridgeSpec => []WaitersAreWatched
  <1>1. BridgeIInv => WaitersAreWatched
    BY BridgeAssumption DEF BridgeIInv, BridgeTypeOK, RegisteredIsOpen, WaitersWait, AskedTheRegistered, WaitersAreWatched
  <1> QED BY <1>1, BridgeInvariant, PTL

(* Types, for any number of cockpits and of commands that call: a request is out only
   to a cockpit that was asked, and nobody is both waiting and answered
   (bridge-registry.ts). *)
THEOREM BridgeTypes == BridgeSpec => []BridgeTypeOK
  BY BridgeInvariant, PTL DEF BridgeIInv

(* What a caller was told stays what it was told: whatever answers late, fires
   late or disconnects has no waiter of a settled call to settle again. *)
THEOREM FirstSettlementWins == BridgeSpec => SettledOnce
  <1>1. BridgeIInv /\ [BridgeNext]_bridgeVars
          => [\A k \in Callers : Settled(k) => outcome'[k] = outcome[k]]_bridgeVars
    <2> SUFFICES ASSUME BridgeIInv, BridgeNext, NEW k \in Callers, Settled(k)
                 PROVE  outcome'[k] = outcome[k]
      OBVIOUS
    <2>0. outcome[k] # "none" /\ k \notin waiters
      BY DEF Settled, BridgeIInv, WaitersWait
    <2> USE <2>0 DEF BridgeIInv, BridgeTypeOK
    <2>1. ASSUME NEW c \in Cockpits, Connect(c) \/ Register(c) PROVE outcome'[k] = outcome[k]
      BY <2>1 DEF Connect, Register
    <2>2. ASSUME NEW c \in Cockpits, Disconnect(c) PROVE outcome'[k] = outcome[k]
      BY <2>2 DEF Disconnect, Detached
    <2>3. ASSUME NEW j \in Callers, Refuse(j) \/ Forward(j) PROVE outcome'[k] = outcome[k]
      BY <2>3 DEF Refuse, Forward
    <2>4. ASSUME NEW j \in Callers, Timeout(j) PROVE outcome'[k] = outcome[k]
      BY <2>4 DEF Timeout
    <2>5. ASSUME NEW c \in Cockpits, NEW j \in Callers,
                 AskWindow(c, j) \/ \E ok \in BOOLEAN : Serve(c, j, ok) \/ WindowAnswers(c, j, ok)
          PROVE  outcome'[k] = outcome[k]
      BY <2>5 DEF AskWindow, Serve, WindowAnswers
    <2>6. ASSUME NEW a \in answers, Respond(a) PROVE outcome'[k] = outcome[k]
      BY <2>6 DEF Respond, Counts
    <2>7. CASE SecondPasses
      BY <2>7 DEF SecondPasses
    <2> QED BY <2>1, <2>2, <2>3, <2>4, <2>5, <2>6, <2>7 DEF BridgeNext
  <1> QED BY <1>1, BridgeInvariant, PTL DEF BridgeSpec, SettledOnce

\* The waiters never outgrow the limit: a finite set that grows by one call at a
\* time, each admitted below the limit.
FewWaiters == IsFiniteSet(waiters) /\ InFlightBounded

LEMMA FewerIsFew ==
  ASSUME FewWaiters, waiters' \subseteq waiters
  PROVE  FewWaiters'
  <1>1. IsFiniteSet(waiters') /\ Cardinality(waiters') <= Cardinality(waiters)
    BY FS_Subset DEF FewWaiters
  <1>2. Cardinality(waiters') \in Nat /\ Cardinality(waiters) \in Nat
    BY <1>1, FS_CardinalityType DEF FewWaiters
  <1> QED BY <1>1, <1>2, BridgeAssumption DEF FewWaiters, InFlightBounded

(* No more requests are in flight than the registry allows, however cockpits and
   timers come and go. *)
THEOREM InFlightIsBounded == BridgeSpec => []InFlightBounded
  <1>1. BridgeInit => FewWaiters
    BY FS_EmptySet, BridgeAssumption DEF BridgeInit, FewWaiters, InFlightBounded
  <1>2. FewWaiters /\ [BridgeNext]_bridgeVars => FewWaiters'
    <2> SUFFICES ASSUME FewWaiters, [BridgeNext]_bridgeVars PROVE FewWaiters'
      OBVIOUS
    <2>1. ASSUME NEW k \in Callers, Forward(k) PROVE FewWaiters'
      <3>1. waiters' = waiters \cup {k} /\ ~(Cardinality(waiters) >= MaxInFlight)
        BY <2>1 DEF Forward, BridgeBusy
      <3>2. IsFiniteSet(waiters) /\ Cardinality(waiters) \in Nat
        BY FS_CardinalityType DEF FewWaiters
      <3>3. /\ IsFiniteSet(waiters \cup {k})
            /\ Cardinality(waiters \cup {k}) <= Cardinality(waiters) + 1
            /\ Cardinality(waiters \cup {k}) \in Nat
        <4>1. /\ IsFiniteSet(waiters \cup {k})
              /\ Cardinality(waiters \cup {k})
                   = IF k \in waiters THEN Cardinality(waiters) ELSE Cardinality(waiters) + 1
          BY <3>2, FS_AddElement, Zenon
        <4> QED BY <3>2, <4>1
      <3> QED BY <3>1, <3>2, <3>3, BridgeAssumption DEF FewWaiters, InFlightBounded
    <2>2. CASE waiters' \subseteq waiters
      BY <2>2, FewerIsFew
    <2>3. (\E k \in Callers : Forward(k)) \/ waiters' \subseteq waiters
      <3>1. CASE BridgeNext
        <4>1. ASSUME NEW c \in Cockpits, Connect(c) \/ Register(c) \/ Disconnect(c)
              PROVE  waiters' \subseteq waiters
          BY <4>1 DEF Connect, Register, Disconnect
        <4>2. ASSUME NEW k \in Callers, Refuse(k) \/ Timeout(k) PROVE waiters' \subseteq waiters
          BY <4>2 DEF Refuse, Timeout
        <4>3. ASSUME NEW c \in Cockpits, NEW k \in Callers,
                     AskWindow(c, k) \/ \E ok \in BOOLEAN : Serve(c, k, ok) \/ WindowAnswers(c, k, ok)
              PROVE  waiters' \subseteq waiters
          BY <4>3 DEF AskWindow, Serve, WindowAnswers
        <4>4. ASSUME NEW a \in answers, Respond(a) PROVE waiters' \subseteq waiters
          BY <4>4 DEF Respond
        <4>5. CASE SecondPasses
          BY <4>5 DEF SecondPasses
        <4> QED BY <3>1, <4>1, <4>2, <4>3, <4>4, <4>5 DEF BridgeNext
      <3> QED BY <3>1 DEF bridgeVars
    <2> QED BY <2>1, <2>2, <2>3
  <1>3. FewWaiters => InFlightBounded
    BY DEF FewWaiters
  <1> QED BY <1>1, <1>2, <1>3, PTL DEF BridgeSpec

-----------------------------------------------------------------------------
(***************************************************************************)
(* The cockpit's connections.  NoLeakedLink is not inductive: an attempt   *)
(* that succeeds would overwrite a pooled connection, and a new connection *)
(* could have the number of an old one.  PoolWaits says that a project     *)
(* with an attempt under way has no pooled connection, LinksAreNumbered    *)
(* that every number in use has been given out.                            *)
(***************************************************************************)
PoolWaits == \A a \in attempts : pool[a.of] = 0 /\ (a.at = "connect" <=> a.link = 0)
LinksAreNumbered ==
  /\ \A a \in attempts : a.link <= used[a.of]
  /\ \A l \in links : l[2] <= used[l[1]]
  /\ \A p \in Projects : pool[p] <= used[p]

CockpitIInv == CockpitTypeOK /\ PoolWaits /\ LinksAreNumbered /\ LinksAreKept

\* What asking for an ensure and ending one do to the queue.
LEMMA QueueFacts ==
  ASSUME NEW q \in Seq(Projects), NEW p \in Projects
  PROVE  /\ Append(q, p) \in Seq(Projects) /\ Append(q, p) # <<>>
         /\ q # <<>> => /\ Head(q) \in Projects /\ Tail(q) \in Seq(Projects)
                        /\ Head(Append(q, p)) = Head(q)
  <1>1. Append(q, p) \in Seq(Projects) /\ Len(Append(q, p)) = Len(q) + 1
    BY AppendProperties
  <1>2. Append(q, p) # <<>>
    BY AppendProperties
  <1>3. ASSUME q # <<>> PROVE Head(q) \in Projects /\ Tail(q) \in Seq(Projects)
    BY <1>3, HeadTailProperties
  <1>4. ASSUME q # <<>> PROVE Head(Append(q, p)) = Head(q)
    <2> DEFINE r == Append(q, p)
    <2>1. 1 \in 1..Len(q)
      BY <1>4, EmptySeq
    <2>2. r[1] = q[1]
      BY <2>1, AppendProperties
    <2>3. r \in Seq(Projects) /\ r # <<>>
      BY <1>1, <1>2
    <2> HIDE DEF r
    <2>4. Head(r) = r[1] /\ Head(q) = q[1]
      BY <2>3, <1>4
    <2> QED BY <2>2, <2>4 DEF r
  <1> QED BY <1>1, <1>2, <1>3, <1>4

LinkTypes ==
  /\ attempts \subseteq [of: Projects, link: 0..MaxLinks, at: Phases]
  /\ links \subseteq Links
  /\ used \in [Projects -> 0..MaxLinks]
  /\ pool \in [Projects -> 0..MaxLinks]
  /\ opened \subseteq Projects
  /\ stage \in Links \cup {NoStage}
QueueTypes == ensures \in Seq(Projects) /\ working \in BOOLEAN

LinksIInv == LinkTypes /\ PoolWaits /\ LinksAreNumbered /\ NoLeakedLink /\ StageIsPooled
QueueIInv == QueueTypes /\ EnsureIsServed

LEMMA CockpitParts == CockpitIInv <=> LinksIInv /\ QueueIInv
  BY DEF CockpitIInv, LinksIInv, QueueIInv, CockpitTypeOK, LinkTypes, QueueTypes, LinksAreKept

LEMMA CockpitInitOK == CockpitInit => LinksIInv /\ QueueIInv
  <1> SUFFICES ASSUME CockpitInit PROVE LinksIInv /\ QueueIInv
    OBVIOUS
  <1>1. QueueIInv
    <2>1. ensures = <<>> /\ working = FALSE
      BY DEF CockpitInit
    <2> QED BY <2>1, EmptySeq, Zenon DEF QueueIInv, QueueTypes, EnsureIsServed
  <1>2. LinkTypes
    BY CockpitAssumption DEF CockpitInit, LinkTypes, NoStage
  <1>3. PoolWaits /\ LinksAreNumbered /\ NoLeakedLink /\ StageIsPooled
    BY DEF CockpitInit, PoolWaits, LinksAreNumbered, NoLeakedLink, StageIsPooled
  <1> QED BY <1>1, <1>2, <1>3 DEF LinksIInv

\* An attempt of p is one more record.
LEMMA AttachOK ==
  ASSUME LinksIInv, NEW p \in Projects, AttachProject(p),
         UNCHANGED <<links, used, pool, opened, stage>>
  PROVE  LinksIInv' /\ (pool[p] = 0 => Connecting(p)') /\ attempts \subseteq attempts'
  <1> USE CockpitAssumption DEF LinksIInv, LinkTypes, Phases
  <1>1. CASE pool[p] # 0 \/ Joined(p)
    BY <1>1 DEF AttachProject, Joined, Connecting, PoolWaits, LinksAreNumbered, NoLeakedLink, StageIsPooled,
                Links, NoStage
  <1>2. CASE pool[p] = 0 /\ ~Joined(p)
    <2> DEFINE new == [of |-> p, link |-> 0, at |-> "connect"]
    <2>1. attempts' = attempts \cup {new} /\ \A a \in attempts : a.of # p
      BY <1>2 DEF AttachProject, Joined, Connecting
    <2>2. new \in [of: Projects, link: 0..MaxLinks, at: Phases] /\ new.of = p /\ new.link = 0 /\ new.at = "connect"
      OBVIOUS
    <2> HIDE DEF new
    <2>3. LinkTypes'
      BY <2>1, <2>2 DEF Links, NoStage
    <2>4. PoolWaits' /\ LinksAreNumbered'
      BY <1>2, <2>1, <2>2 DEF PoolWaits, LinksAreNumbered
    <2>5. NoLeakedLink' /\ StageIsPooled'
      BY <2>1, <2>2 DEF NoLeakedLink, StageIsPooled, NoStage
    <2>6. Connecting(p)' /\ attempts \subseteq attempts'
      BY <2>1, <2>2 DEF Connecting
    <2> QED BY <2>3, <2>4, <2>5, <2>6
  <1> QED BY <1>1, <1>2

\* What an attempt that ends does to the queue: the ensure that waited for it is
\* served, and no other.
LEMMA QueueMovesOn ==
  ASSUME QueueIInv, NoLeakedLink, NEW a \in attempts, a.of \in Projects,
         attempts' = attempts \ {a},
         IF EnsureWaitsFor(a.of) THEN ensures' = Tail(ensures) /\ working' = FALSE
         ELSE UNCHANGED <<ensures, working>>
  PROVE  QueueIInv'
  <1> USE DEF QueueIInv, QueueTypes, EnsureIsServed
  <1>1. CASE EnsureWaitsFor(a.of)
    <2>1. ensures # <<>> /\ ensures' = Tail(ensures) /\ working' = FALSE
      BY <1>1 DEF EnsureWaitsFor
    <2>2. ensures' \in Seq(Projects)
      BY <2>1, QueueFacts, a.of \in Projects
    <2> QED BY <2>1, <2>2
  <1>2. CASE ~EnsureWaitsFor(a.of)
    <2>1. ensures' = ensures /\ working' = working
      BY <1>2
    <2>2. CASE working
      <3>1. PICK b \in attempts : b.of = Head(ensures)
        BY <2>2 DEF Connecting
      <3>2. b # a
        BY <3>1, <2>2, <1>2 DEF EnsureWaitsFor
      <3>3. Connecting(Head(ensures))'
        BY <3>1, <3>2, <2>1 DEF Connecting
      <3> QED BY <3>3, <2>1, <2>2
    <2> QED BY <2>1, <2>2
  <1> QED BY <1>1, <1>2

\* What an attempt that succeeds does to the pool and the stage, whether or not its
\* connection is still up.
LEMMA SucceedsOK ==
  ASSUME LinksIInv, QueueIInv, NEW a \in attempts, a.at # "connect", Succeeds(a),
         UNCHANGED used, links' = links \/ links' = links \ {<<a.of, a.link>>}
  PROVE  LinksIInv' /\ QueueIInv'
  <1>0. /\ a.of \in Projects /\ a.link \in 1..MaxLinks /\ pool[a.of] = 0 /\ a.link <= used[a.of]
        /\ \A b \in attempts : b.of = a.of => b = a
    BY CockpitAssumption DEF LinksIInv, LinkTypes, PoolWaits, LinksAreNumbered, NoLeakedLink
  <1>1. /\ attempts' = attempts \ {a} /\ pool' = [pool EXCEPT ![a.of] = a.link]
        /\ opened' = opened \cup {a.of} /\ stage' \in {stage, <<a.of, a.link>>}
        /\ used' = used /\ links' \subseteq links
    BY DEF Succeeds
  <1>2. LinkTypes'
    BY <1>0, <1>1 DEF LinksIInv, LinkTypes, Links
  <1>3. PoolWaits' /\ LinksAreNumbered'
    BY <1>0, <1>1 DEF LinksIInv, LinkTypes, PoolWaits, LinksAreNumbered
  <1>4. NoLeakedLink'
    BY <1>0, <1>1 DEF LinksIInv, LinkTypes, Links, NoLeakedLink
  <1>5. StageIsPooled'
    BY <1>0, <1>1 DEF LinksIInv, LinkTypes, Links, StageIsPooled, NoStage
  <1>6. QueueIInv'
    BY <1>0, QueueMovesOn DEF Succeeds, LinksIInv
  <1> QED BY <1>2, <1>3, <1>4, <1>5, <1>6 DEF LinksIInv

\* An attempt that fails closes its connection, and only its own.
LEMMA FailsOK ==
  ASSUME LinksIInv, QueueIInv, NEW a \in attempts, Gives(a), UNCHANGED used,
         links' = links \ {<<a.of, a.link>>}
  PROVE  LinksIInv' /\ QueueIInv'
  <1>1. a.of \in Projects /\ attempts' = attempts \ {a} /\ UNCHANGED <<pool, opened, stage, used>>
    BY DEF Gives, LinksIInv, LinkTypes
  <1>2. LinksIInv'
    BY <1>1 DEF LinksIInv, LinkTypes, PoolWaits, LinksAreNumbered, NoLeakedLink, StageIsPooled, Links, NoStage
  <1>3. QueueIInv'
    BY <1>1, QueueMovesOn DEF Gives, LinksIInv
  <1> QED BY <1>2, <1>3

\* The queue is as it was, and no attempt went.
LEMMA QueueWaits ==
  ASSUME QueueIInv, UNCHANGED <<ensures, working>>,
         \A a \in attempts : \E b \in attempts' : b.of = a.of
  PROVE  QueueIInv'
  BY DEF QueueIInv, QueueTypes, EnsureIsServed, Connecting

\* An attempt that goes on keeps its project; a new connection has a new number.
LEMMA GoesOnOK ==
  ASSUME LinksIInv, QueueIInv, NEW a \in attempts, Connected(a) \/ Proceeds(a)
  PROVE  LinksIInv' /\ QueueIInv'
  <1>0. a.of \in Projects /\ a.link \in 0..MaxLinks /\ a.at \in Phases
    BY DEF LinksIInv, LinkTypes
  <1>1. PICK b : /\ attempts' = (attempts \ {a}) \cup {b}
                 /\ b.of = a.of /\ b.at \in Phases \ {"connect"} /\ b.link \in 1..MaxLinks
                 /\ b \in [of: Projects, link: 0..MaxLinks, at: Phases]
                 /\ \/ b.link = a.link /\ links' = links /\ used' = used
                    \/ /\ b.link = used[a.of] + 1 /\ links' = links \cup {<<a.of, b.link>>}
                       /\ used' = [used EXCEPT ![a.of] = @ + 1] /\ a.at = "connect"
    <2>1. CASE Connected(a)
      <3>0. used[a.of] \in 0..MaxLinks /\ used[a.of] < MaxLinks /\ a \in [of: Projects, link: 0..MaxLinks, at: Phases]
        BY <2>1, <1>0 DEF Connected, LinksIInv, LinkTypes
      <3>1. PICK n \in 1..MaxLinks : n = used[a.of] + 1
        BY <3>0, CockpitAssumption
      <3> DEFINE b == [a EXCEPT !.link = n, !.at = "init"]
      <3>2. /\ b \in [of: Projects, link: 0..MaxLinks, at: Phases]
            /\ b.of = a.of /\ b.link = used[a.of] + 1 /\ b.at = "init"
        <4>1. n \in 0..MaxLinks /\ "init" \in Phases
          BY <3>1 DEF Phases
        <4>2. b \in [of: Projects, link: 0..MaxLinks, at: Phases]
          BY <3>0, <4>1
        <4>3. b.of = a.of /\ b.link = n /\ b.at = "init"
          BY <3>0
        <4> QED BY <4>2, <4>3, <3>1
      <3>3. /\ attempts' = (attempts \ {a}) \cup {b} /\ links' = links \cup {<<a.of, used[a.of] + 1>>}
            /\ used' = [used EXCEPT ![a.of] = @ + 1] /\ a.at = "connect"
        BY <2>1, <3>1 DEF Connected
      <3> HIDE DEF b
      <3> QED BY <3>1, <3>2, <3>3 DEF Phases
    <2>2. CASE Proceeds(a)
      <3> DEFINE b == [a EXCEPT !.at = NextPhase(a.at)]
      <3>1. a \in [of: Projects, link: 0..MaxLinks, at: Phases] /\ a.link \in 1..MaxLinks
        BY <2>2, <1>0 DEF Proceeds, LinksIInv, LinkTypes, PoolWaits
      <3>2. /\ b \in [of: Projects, link: 0..MaxLinks, at: Phases]
            /\ b.of = a.of /\ b.link = a.link /\ b.at \in Phases \ {"connect"}
        BY <3>1 DEF Phases, NextPhase
      <3>3. attempts' = (attempts \ {a}) \cup {b} /\ links' = links /\ used' = used
        BY <2>2 DEF Proceeds
      <3> HIDE DEF b
      <3> QED BY <3>1, <3>2, <3>3
    <2> QED BY <2>1, <2>2
  <1>2. UNCHANGED <<pool, opened, stage, ensures, working>>
    BY DEF Connected, Proceeds
  <1>3. LinkTypes'
    BY <1>0, <1>1, <1>2, CockpitAssumption DEF LinksIInv, LinkTypes, Links
  <1>4. PoolWaits' /\ LinksAreNumbered'
    BY <1>0, <1>1, <1>2 DEF LinksIInv, LinkTypes, PoolWaits, LinksAreNumbered, Links
  <1>5. NoLeakedLink'
    BY <1>0, <1>1, <1>2 DEF LinksIInv, LinkTypes, NoLeakedLink, PoolWaits, Links
  <1>6. StageIsPooled'
    BY <1>2 DEF LinksIInv, StageIsPooled, NoStage
  <1>7. QueueIInv'
    BY <1>1, <1>2, QueueWaits
  <1> QED BY <1>3, <1>4, <1>5, <1>6, <1>7 DEF LinksIInv

\* An ensure is asked for.
LEMMA AskOK ==
  ASSUME LinksIInv, QueueIInv, NEW p \in Projects, AskEnsure(p)
  PROVE  LinksIInv' /\ QueueIInv'
  <1>1. LinksIInv'
    BY DEF AskEnsure, LinksIInv, LinkTypes, PoolWaits, LinksAreNumbered, NoLeakedLink, StageIsPooled, NoStage
  <1>2. ensures' = Append(ensures, p) /\ working' = working /\ attempts' = attempts
    BY DEF AskEnsure
  <1>3. QueueIInv'
    BY <1>2, QueueFacts, Zenon DEF QueueIInv, QueueTypes, EnsureIsServed, Connecting
  <1> QED BY <1>1, <1>3

\* The first ensure is served at once, or waits for an attempt.
LEMMA BeginsOK ==
  ASSUME LinksIInv, QueueIInv, EnsureBegins
  PROVE  LinksIInv' /\ QueueIInv'
  <1>0. ensures # <<>> /\ ~working /\ Head(ensures) \in Projects /\ Tail(ensures) \in Seq(Projects)
    BY QueueFacts, HeadTailProperties DEF EnsureBegins, QueueIInv, QueueTypes
  <1>1. PICK p \in Projects : p = Head(ensures)
    BY <1>0
  <1>2. UNCHANGED <<links, used, pool, opened>>
    BY DEF EnsureBegins
  <1>3. CASE stage[1] = p \/ pool[p] # 0
    <2>1. /\ ensures' = Tail(ensures) /\ attempts' = attempts /\ working' = FALSE
          /\ stage' = IF stage[1] = p THEN stage ELSE <<p, pool[p]>>
      BY <1>0, <1>1, <1>3 DEF EnsureBegins, QueueIInv, QueueTypes
    <2>2. stage' = stage \/ (stage' = <<p, pool[p]>> /\ pool[p] \in 1..MaxLinks)
      BY <2>1, <1>1, <1>3, CockpitAssumption DEF LinksIInv, LinkTypes
    <2>3. LinksIInv'
      BY <1>1, <1>2, <2>1, <2>2
         DEF LinksIInv, LinkTypes, PoolWaits, LinksAreNumbered, NoLeakedLink, StageIsPooled, Links, NoStage
    <2>4. QueueIInv'
      BY <1>0, <2>1 DEF QueueIInv, QueueTypes, EnsureIsServed
    <2> QED BY <2>3, <2>4
  <1>4. CASE ~(stage[1] = p \/ pool[p] # 0)
    <2>1. AttachProject(p) /\ working' = TRUE /\ UNCHANGED <<ensures, stage>>
      BY <1>1, <1>4 DEF EnsureBegins
    <2>2. LinksIInv' /\ Connecting(p)'
      BY <1>1, <1>2, <1>4, <2>1, AttachOK
    <2>3. QueueIInv'
      BY <1>0, <1>1, <2>1, <2>2 DEF QueueIInv, QueueTypes, EnsureIsServed, Connecting
    <2> QED BY <2>2, <2>3
  <1> QED BY <1>3, <1>4

\* A connection in the pool ends, a project or the whole bridge is closed.
LEMMA EndsOK ==
  ASSUME LinksIInv, QueueIInv,
         \/ \E l \in links : LinkEnds(l)
         \/ \E p \in Projects : CloseProject(p)
         \/ CloseBridge
  PROVE  LinksIInv' /\ QueueIInv'
  <1>1. ASSUME NEW l \in links, LinkEnds(l) PROVE LinksIInv' /\ QueueIInv'
    <2>1. CASE \E a \in attempts : <<a.of, a.link>> = l
      <3>1. PICK a \in attempts :
              <<a.of, a.link>> = l /\ IF a.at = "register" THEN Succeeds(a) ELSE Gives(a)
        BY <1>1, <2>1 DEF LinkEnds
      <3>2. links' = links \ {<<a.of, a.link>>} /\ used' = used
        BY <1>1, <3>1 DEF LinkEnds
      <3>3. CASE a.at = "register"
        BY <3>1, <3>2, <3>3, SucceedsOK
      <3>4. CASE a.at # "register"
        BY <3>1, <3>2, <3>4, FailsOK
      <3> QED BY <3>3, <3>4
    <2>2. CASE ~\E a \in attempts : <<a.of, a.link>> = l
      <3>1. /\ links' = links \ {l} /\ pool' = Forgotten(l) /\ stage' = IF stage = l THEN NoStage ELSE stage
            /\ UNCHANGED <<attempts, opened, ensures, working, used>>
        BY <1>1, <2>2 DEF LinkEnds
      <3>2. LinkTypes'
        BY <3>1, CockpitAssumption DEF LinksIInv, LinkTypes, Forgotten, Links
      <3>3. PoolWaits' /\ LinksAreNumbered'
        BY <3>1 DEF LinksIInv, LinkTypes, PoolWaits, LinksAreNumbered, Forgotten, Links
      <3>4. NoLeakedLink'
        BY <3>1, <2>2 DEF LinksIInv, LinkTypes, NoLeakedLink, Forgotten, Links
      <3>5. StageIsPooled'
        BY <3>1 DEF LinksIInv, LinkTypes, StageIsPooled, Forgotten, Links, NoStage
      <3>6. QueueIInv'
        BY <3>1, QueueWaits
      <3> QED BY <3>2, <3>3, <3>4, <3>5, <3>6 DEF LinksIInv
    <2> QED BY <2>1, <2>2
  <1>2. ASSUME NEW p \in Projects, CloseProject(p) PROVE LinksIInv' /\ QueueIInv'
    <2>1. /\ opened' = opened \ {p} /\ stage' = IF stage[1] = p THEN NoStage ELSE stage
          /\ pool' = [pool EXCEPT ![p] = 0] /\ links' = links \ {<<p, pool[p]>>}
          /\ UNCHANGED <<attempts, used, ensures, working>>
      BY <1>2 DEF CloseProject
    <2>2. LinkTypes' /\ PoolWaits' /\ LinksAreNumbered'
      BY <2>1, CockpitAssumption DEF LinksIInv, LinkTypes, PoolWaits, LinksAreNumbered, Links
    <2>3. NoLeakedLink'
      BY <2>1 DEF LinksIInv, LinkTypes, NoLeakedLink, Links
    <2>4. StageIsPooled'
      BY <2>1 DEF LinksIInv, LinkTypes, StageIsPooled, Links, NoStage
    <2>5. QueueIInv'
      BY <2>1, QueueWaits
    <2> QED BY <2>2, <2>3, <2>4, <2>5 DEF LinksIInv
  <1>3. CASE CloseBridge
    <2>1. /\ stage' = NoStage /\ pool' = [p \in Projects |-> 0]
          /\ links' = links \ {<<p, pool[p]>> : p \in Projects}
          /\ UNCHANGED <<attempts, used, opened, ensures, working>>
      BY <1>3 DEF CloseBridge
    <2>2. LinkTypes' /\ PoolWaits' /\ LinksAreNumbered'
      BY <2>1, CockpitAssumption DEF LinksIInv, LinkTypes, PoolWaits, LinksAreNumbered, Links
    <2>3. NoLeakedLink'
      BY <2>1 DEF LinksIInv, LinkTypes, NoLeakedLink, Links
    <2>4. StageIsPooled'
      BY <2>1 DEF StageIsPooled
    <2>5. QueueIInv'
      BY <2>1, QueueWaits
    <2> QED BY <2>2, <2>3, <2>4, <2>5 DEF LinksIInv
  <1> QED BY <1>1, <1>2, <1>3

LEMMA CockpitInductive == LinksIInv /\ QueueIInv /\ [CockpitNext]_cockpitVars => LinksIInv' /\ QueueIInv'
  <1> SUFFICES ASSUME LinksIInv, QueueIInv, [CockpitNext]_cockpitVars PROVE LinksIInv' /\ QueueIInv'
    OBVIOUS
  <1>1. CASE UNCHANGED cockpitVars
    BY <1>1 DEF cockpitVars, LinksIInv, LinkTypes, PoolWaits, LinksAreNumbered, NoLeakedLink, StageIsPooled,
                QueueIInv, QueueTypes, EnsureIsServed, Connecting
  <1>2. ASSUME NEW a \in attempts, Registered(a) PROVE LinksIInv' /\ QueueIInv'
    BY <1>2, SucceedsOK DEF Registered
  <1>3. ASSUME NEW a \in attempts, AttemptFails(a) PROVE LinksIInv' /\ QueueIInv'
    BY <1>3, FailsOK DEF AttemptFails, Dropped
  <1>4. ASSUME NEW p \in Projects, CallProject(p) PROVE LinksIInv' /\ QueueIInv'
    <2>1. LinksIInv' /\ attempts \subseteq attempts' /\ UNCHANGED <<ensures, working>>
      BY <1>4, AttachOK DEF CallProject
    <2> QED BY <2>1, QueueWaits
  <1> QED BY <1>1, <1>2, <1>3, <1>4, GoesOnOK, AskOK, BeginsOK, EndsOK DEF CockpitNext, AttemptStep

LEMMA CockpitInvariant == CockpitSpec => [](LinksIInv /\ QueueIInv)
  BY CockpitInitOK, CockpitInductive, PTL DEF CockpitSpec

(* Types of the cockpit's pool, whatever connections are made, lost and closed while
   attempts and ensures wait (daemon-bridge.ts). *)
THEOREM CockpitTypes == CockpitSpec => []CockpitTypeOK
  BY CockpitInvariant, CockpitParts, PTL DEF CockpitIInv

(* Every connection that is up is pooled or an attempt's, a project has one attempt
   at most, the stage talks over its pooled connection, and an ensure that waits
   waits for an attempt: whatever races, fails, ends or closes. *)
THEOREM LinksKept == CockpitSpec => []LinksAreKept
  BY CockpitInvariant, CockpitParts, PTL DEF CockpitIInv

-----------------------------------------------------------------------------
(***************************************************************************)
(* Terminals.  Ids are never given twice, since an id once opened keeps    *)
(* its owner: so what ended can come back only through a row, and restore  *)
(* reads rows a daemon has just found.  An "off" daemon has no terminals,  *)
(* so restore opens exactly what it reads.                                 *)
(***************************************************************************)
Opened == {t \in Terms : owner[t] # NoOwner}
IdsAreSpent == over \subseteq Opened /\ openTerms \subseteq Opened /\ rows \subseteq Opened
OffIsEmpty == daemon = "off" => openTerms = {}

TerminalsIInv == TerminalsTypeOK /\ IdsAreSpent /\ OffIsEmpty /\ EndedStaysEnded /\ RowsHaveOwners

LEMMA TerminalsInitOK == TerminalsInit => TerminalsIInv
  BY TerminalsAssumption
     DEF TerminalsInit, TerminalsIInv, TerminalsTypeOK, NotRemoving, IdsAreSpent, OffIsEmpty, EndedStaysEnded, RowsHaveOwners

\* A flush stores snapshots of rows that are there, or forgets everything.
LEMMA FlushOK ==
  ASSUME TerminalsIInv, NEW force \in BOOLEAN, Flushed(force)
  PROVE  rows' \subseteq rows /\ saved' \subseteq rows' /\ dirty' \subseteq dirty
  BY DEF Flushed, Snapshotted, TerminalsIInv, TerminalsTypeOK

\* Terminals open, print, are closed and end.
LEMMA TermsOK ==
  ASSUME TerminalsIInv, NEW t \in Terms,
         (\E s \in Owners : Open(t, s)) \/ TermPrints(t) \/ Close(t) \/ TermExits(t)
  PROVE  TerminalsIInv'
  <1> USE TerminalsAssumption
      DEF TerminalsIInv, TerminalsTypeOK, IdsAreSpent, Opened, OffIsEmpty, EndedStaysEnded, RowsHaveOwners
  <1>1. ASSUME NEW s \in Owners, Open(t, s) PROVE TerminalsIInv'
    <2>1. /\ owner[t] = NoOwner /\ s \in worktrees /\ owner' = [owner EXCEPT ![t] = s]
          /\ openTerms' = openTerms \cup {t} /\ rows' \in {rows, rows \cup {t}} /\ daemon # "off"
          /\ UNCHANGED <<keeping, hungUp, dirty, saved, worktrees, removing, daemon, boots, over>>
      BY <1>1 DEF Open, Serving
    <2>2. t \notin over /\ t \notin rows /\ s # NoOwner
      BY <2>1
    <2>3. TerminalsTypeOK'
      BY <2>1
    <2>4. IdsAreSpent' /\ OffIsEmpty' /\ EndedStaysEnded' /\ RowsHaveOwners'
      BY <2>1, <2>2
    <2> QED BY <2>3, <2>4
  <1>2. CASE TermPrints(t)
    BY <1>2 DEF TermPrints
  <1>3. CASE Close(t)
    BY <1>3 DEF Close
  <1>4. CASE TermExits(t)
    <2>1. CASE daemon = "closing"
      BY <1>4, <2>1 DEF TermExits, RowsAfterExit, Serving
    <2>2. CASE daemon # "closing"
      BY <1>4, <2>2 DEF TermExits, RowsAfterExit, Serving
    <2> QED BY <2>1, <2>2
  <1> QED BY <1>1, <1>2, <1>3, <1>4

\* Sessions are removed, orphans closed.
LEMMA RemovalsOK ==
  ASSUME TerminalsIInv, CloseOrphans \/ \E s \in Owners : BeginRemoval(s) \/ EndRemoval(s)
  PROVE  TerminalsIInv'
  <1> USE TerminalsAssumption
      DEF TerminalsIInv, TerminalsTypeOK, IdsAreSpent, Opened, OffIsEmpty, EndedStaysEnded, RowsHaveOwners
  <1>1. CASE CloseOrphans
    BY <1>1 DEF CloseOrphans
  <1>2. ASSUME NEW s \in Owners, BeginRemoval(s) PROVE TerminalsIInv'
    <2> DEFINE list == {t \in openTerms : owner[t] = s}
    <2>1. list \in SUBSET Terms /\ list \subseteq openTerms
      OBVIOUS
    <2>2. /\ removing' = [removing EXCEPT ![s] = [on |-> TRUE, list |-> list]] /\ hungUp' = hungUp \cup list
          /\ UNCHANGED <<keeping, owner, openTerms, dirty, rows, saved, worktrees, daemon, boots, over>>
      BY <1>2 DEF BeginRemoval
    <2> HIDE DEF list
    <2> QED BY <2>1, <2>2
  <1>3. ASSUME NEW s \in Owners, EndRemoval(s) PROVE TerminalsIInv'
    BY <1>3 DEF EndRemoval, NotRemoving
  <1> QED BY <1>1, <1>2, <1>3

\* The daemon flushes, goes down and comes up.
LEMMA DaemonOK ==
  ASSUME TerminalsIInv,
         \/ Toggle \/ CloseAllTerms \/ Boot
         \/ \E yes \in BOOLEAN : Flush(yes) \/ StopSignalled(yes) \/ Dies(yes)
  PROVE  TerminalsIInv'
  <1> USE TerminalsAssumption
      DEF TerminalsIInv, TerminalsTypeOK, IdsAreSpent, Opened, OffIsEmpty, EndedStaysEnded, RowsHaveOwners
  <1>1. CASE Toggle
    BY <1>1 DEF Toggle
  <1>2. CASE CloseAllTerms
    <2>1. rows' \subseteq rows /\ saved' \subseteq rows' /\ dirty' \subseteq dirty
      BY <1>2, FlushOK DEF CloseAllTerms
    <2> QED BY <1>2, <2>1 DEF CloseAllTerms
  <1>3. CASE Boot
    BY <1>3 DEF Boot
  <1>4. ASSUME NEW yes \in BOOLEAN, Flush(yes) PROVE TerminalsIInv'
    <2>1. rows' \subseteq rows /\ saved' \subseteq rows' /\ dirty' \subseteq dirty
      BY <1>4, FlushOK DEF Flush
    <2> QED BY <1>4, <2>1 DEF Flush
  <1>5. ASSUME NEW yes \in BOOLEAN, StopSignalled(yes) PROVE TerminalsIInv'
    <2>1. rows' \subseteq rows /\ saved' \subseteq rows' /\ dirty' \subseteq dirty
      BY <1>5, FlushOK DEF StopSignalled
    <2> QED BY <1>5, <2>1 DEF StopSignalled
  <1>6. ASSUME NEW yes \in BOOLEAN, Dies(yes) PROVE TerminalsIInv'
    BY <1>6 DEF Dies, NotRemoving
  <1> QED BY <1>1, <1>2, <1>3, <1>4, <1>5, <1>6

(* An id is spent once it was given, and a daemon that is off has no shell: the
   inductive invariant behind the theorems below (terminals.ts). *)
THEOREM TerminalsHold == TerminalsSpec => []TerminalsIInv
  <1>1. TerminalsIInv /\ [TerminalsNext]_terminalsVars => TerminalsIInv'
    <2> SUFFICES ASSUME TerminalsIInv, [TerminalsNext]_terminalsVars PROVE TerminalsIInv'
      OBVIOUS
    <2>1. CASE UNCHANGED terminalsVars
      BY <2>1 DEF terminalsVars, TerminalsIInv, TerminalsTypeOK, IdsAreSpent, Opened, OffIsEmpty, EndedStaysEnded,
                  RowsHaveOwners
    <2>2. CASE TerminalsNext
      BY <2>2, TermsOK, RemovalsOK, DaemonOK DEF TerminalsNext
    <2> QED BY <2>1, <2>2
  <1> QED BY <1>1, TerminalsInitOK, PTL DEF TerminalsSpec

(* A terminal that was closed, or whose shell ended while the daemon was up, is
   never open again and has no row: no crash, shutdown, flush, change of the
   setting or restart brings it back (terminals.ts, TerminalRepo). *)
THEOREM EndedForGood == TerminalsSpec => []EndedStaysEnded
  BY TerminalsHold, PTL DEF TerminalsIInv

(* No row is left of a terminal whose session was removed, whatever was opened
   while the removal was under way (the cascade of the session's row). *)
THEOREM RowsAreOwned == TerminalsSpec => []RowsHaveOwners
  BY TerminalsHold, PTL DEF TerminalsIInv

(* Types, for any number of terminals, sessions and restarts (terminals.ts). *)
THEOREM TerminalsTypes == TerminalsSpec => []TerminalsTypeOK
  BY TerminalsHold, PTL DEF TerminalsIInv

-----------------------------------------------------------------------------
(***************************************************************************)
(* The output of a shell.  What a viewer was sent and what is still held   *)
(* for it are one sequence, which flushing does not change; pushes and the *)
(* exit only add to its end, and a replay begins it anew (Whole).          *)
(***************************************************************************)
Joins == [first : Nat \ {0}, last : Nat, at : Nat]
Due(c, join, last) == c \in join.first..join.last \/ c \in (join.at + 1)..last
Whole(r, join, last, final) ==
  /\ r \in Seq(0..last)
  /\ \A i, j \in 1..Len(r) : i < j /\ r[i] # ExitLine /\ r[j] # ExitLine => r[i] < r[j]
  /\ \A c \in 1..last : Due(c, join, last) <=> \E i \in 1..Len(r) : r[i] = c
  /\ join.last <= last /\ join.at <= last
  /\ \A i \in 1..Len(r) : r[i] = ExitLine => i = Len(r) /\ final

SentAndHeld(v) == shown[v] \o held[v]
ViewersAreTold == \A v \in subscribers \cap linked : Whole(SentAndHeld(v), replay[v], printed, ended)
NothingIsHeldBack == ended => \A v \in Viewers : held[v] = <<>>

StreamIInv == StreamTypeOK /\ NothingIsHeldBack /\ ViewersAreTold

-----------------------------------------------------------------------------
(* Sequences.                                                               *)

LEMMA AppendFacts ==
  ASSUME NEW S, NEW q \in Seq(S), NEW e \in S
  PROVE  /\ Append(q, e) \in Seq(S) /\ Len(q) \in Nat /\ Len(Append(q, e)) = Len(q) + 1
         /\ \A i \in 1..Len(q) : Append(q, e)[i] = q[i] /\ q[i] \in S
         /\ Append(q, e)[Len(q) + 1] = e
  BY AppendProperties, ElementOfSeq, LenProperties

LEMMA AppendAtTheEnd ==
  ASSUME NEW S, NEW p \in Seq(S), NEW q \in Seq(S), NEW e \in S
  PROVE  p \o Append(q, e) = Append(p \o q, e)
  <1> DEFINE l == p \o Append(q, e)
             r == Append(p \o q, e)
  <1>1. /\ Append(q, e) \in Seq(S) /\ p \o q \in Seq(S) /\ Len(p) \in Nat /\ Len(q) \in Nat
        /\ Len(p \o q) = Len(p) + Len(q) /\ Len(Append(q, e)) = Len(q) + 1
    BY AppendFacts, ConcatProperties, LenProperties
  <1>2. /\ l \in Seq(S) /\ Len(l) = Len(p) + Len(q) + 1
        /\ \A i \in 1..(Len(p) + Len(q) + 1) : l[i] = IF i <= Len(p) THEN p[i] ELSE Append(q, e)[i - Len(p)]
    BY <1>1, ConcatProperties
  <1>3. /\ r \in Seq(S) /\ Len(r) = Len(p) + Len(q) + 1
        /\ \A i \in 1..(Len(p) + Len(q)) : r[i] = (p \o q)[i]
        /\ r[Len(p) + Len(q) + 1] = e
    BY <1>1, AppendFacts
  <1>4. \A i \in 1..(Len(p) + Len(q)) : (p \o q)[i] = IF i <= Len(p) THEN p[i] ELSE q[i - Len(p)]
    BY ConcatProperties
  <1>5. /\ \A i \in 1..Len(q) : Append(q, e)[i] = q[i]
        /\ Append(q, e)[Len(q) + 1] = e
    BY AppendFacts
  <1> HIDE DEF l, r
  <1>6. ASSUME NEW i \in 1..(Len(p) + Len(q) + 1) PROVE l[i] = r[i]
    <2>1. CASE i <= Len(p)
      <3>1. i \in 1..(Len(p) + Len(q))
        BY <1>1, <2>1
      <3>2. l[i] = p[i]
        BY <1>2, <2>1
      <3>3. r[i] = p[i]
        BY <1>3, <1>4, <2>1, <3>1
      <3> QED BY <3>2, <3>3
    <2>2. CASE i > Len(p) /\ i <= Len(p) + Len(q)
      <3>1. i - Len(p) \in 1..Len(q) /\ i \in 1..(Len(p) + Len(q))
        BY <1>1, <2>2
      <3>2. l[i] = q[i - Len(p)]
        BY <1>1, <1>2, <1>5, <2>2, <3>1
      <3>3. r[i] = q[i - Len(p)]
        BY <1>1, <1>3, <1>4, <2>2, <3>1
      <3> QED BY <3>2, <3>3
    <2>3. CASE i = Len(p) + Len(q) + 1
      <3>1. i - Len(p) = Len(q) + 1 /\ ~ (i <= Len(p))
        BY <1>1, <2>3
      <3> QED BY <1>2, <1>3, <1>5, <2>3, <3>1
    <2> QED BY <1>1, <2>1, <2>2, <2>3
  <1>7. Len(l) = Len(r)
    BY <1>2, <1>3
  <1>8. l = r
    BY <1>2, <1>3, <1>6, <1>7, SeqEqual
  <1> QED BY <1>8 DEF l, r

-----------------------------------------------------------------------------
(* What becomes of one viewer's sequence.                                   *)

\* A chunk is printed.
LEMMA PushOK ==
  ASSUME NEW join \in Joins, NEW last \in Nat, NEW final \in BOOLEAN, ~final, NEW r, Whole(r, join, last, final)
  PROVE  Whole(Append(r, last + 1), join, last + 1, final)
  <1> DEFINE a == Append(r, last + 1)
  <1>1. r \in Seq(0..last) /\ r \in Seq(0..(last + 1)) /\ last + 1 \in 0..(last + 1)
    <2>1. 0..last \subseteq 0..(last + 1)
      OBVIOUS
    <2> QED BY <2>1, SeqMonotonic DEF Whole
  <1>2. /\ a \in Seq(0..(last + 1)) /\ Len(r) \in Nat /\ Len(a) = Len(r) + 1
        /\ \A i \in 1..Len(r) : a[i] = r[i]
        /\ a[Len(r) + 1] = last + 1
    BY <1>1, AppendFacts
  <1>3. \A i \in 1..Len(r) : r[i] \in 0..last /\ r[i] # ExitLine
    <2>1. \A i \in 1..Len(r) : r[i] \in 0..last
      BY <1>1, ElementOfSeq
    <2> QED BY <2>1 DEF Whole
  <1> HIDE DEF a
  <1>4. \A i, j \in 1..Len(a) : i < j => a[i] < a[j]
    <2> SUFFICES ASSUME NEW i \in 1..Len(a), NEW j \in 1..Len(a), i < j PROVE a[i] < a[j]
      OBVIOUS
    <2>1. i \in 1..Len(r)
      BY <1>2
    <2>2. CASE j \in 1..Len(r)
      BY <1>2, <1>3, <2>1, <2>2 DEF Whole
    <2>3. CASE j = Len(r) + 1
      BY <1>2, <1>3, <2>1, <2>3
    <2> QED BY <1>2, <2>2, <2>3
  <1>j. join.last <= last /\ join.at <= last /\ join.first \in Nat \ {0} /\ join.last \in Nat /\ join.at \in Nat
    BY DEF Whole, Joins
  <1>5. \A c \in 1..(last + 1) : Due(c, join, last + 1) <=> \E i \in 1..Len(a) : a[i] = c
    <2> SUFFICES ASSUME NEW c \in 1..(last + 1) PROVE Due(c, join, last + 1) <=> \E i \in 1..Len(a) : a[i] = c
      OBVIOUS
    <2>1. CASE c = last + 1
      BY <1>2, <1>j, <2>1 DEF Due
    <2>2. CASE c \in 1..last
      <3>1. Due(c, join, last + 1) <=> Due(c, join, last)
        BY <1>j, <2>2 DEF Due
      <3>2. Due(c, join, last) <=> \E i \in 1..Len(r) : r[i] = c
        BY <2>2 DEF Whole
      <3>3. ASSUME NEW i \in 1..Len(r), r[i] = c PROVE i \in 1..Len(a) /\ a[i] = c
        BY <1>2, <3>3
      <3>4. ASSUME NEW i \in 1..Len(a), a[i] = c PROVE i \in 1..Len(r) /\ r[i] = c
        <4>1. i # Len(r) + 1
          BY <1>2, <2>2, <3>4
        <4>2. i \in 1..Len(r)
          BY <1>2, <4>1
        <4> QED BY <1>2, <3>4, <4>2
      <3> QED BY <3>1, <3>2, <3>3, <3>4
    <2> QED BY <2>1, <2>2
  <1>6. \A i \in 1..Len(a) : a[i] # ExitLine
    <2> SUFFICES ASSUME NEW i \in 1..Len(a) PROVE a[i] # ExitLine
      OBVIOUS
    <2>1. CASE i \in 1..Len(r)
      BY <1>2, <1>3, <2>1
    <2>2. CASE i = Len(r) + 1
      BY <1>2, <2>2 DEF ExitLine
    <2> QED BY <1>2, <2>1, <2>2
  <1>7. Whole(a, join, last + 1, final)
    BY <1>2, <1>4, <1>5, <1>6, <1>j DEF Whole
  <1> QED BY <1>7 DEF a

\* The exit line is sent.
LEMMA ExitOK ==
  ASSUME NEW join \in Joins, NEW last \in Nat, NEW before \in BOOLEAN, NEW final \in BOOLEAN, ~before, final,
         NEW r, Whole(r, join, last, before)
  PROVE  Whole(Append(r, ExitLine), join, last, final)
  <1> DEFINE a == Append(r, ExitLine)
  <1>1. r \in Seq(0..last) /\ ExitLine \in 0..last
    BY DEF Whole, ExitLine
  <1>2. /\ a \in Seq(0..last) /\ Len(r) \in Nat /\ Len(a) = Len(r) + 1
        /\ \A i \in 1..Len(r) : a[i] = r[i]
        /\ a[Len(r) + 1] = ExitLine
    BY <1>1, AppendFacts
  <1>3. \A i \in 1..Len(r) : r[i] # ExitLine
    BY DEF Whole
  <1> HIDE DEF a
  <1>4. \A i, j \in 1..Len(a) : i < j /\ a[i] # ExitLine /\ a[j] # ExitLine => a[i] < a[j]
    <2> SUFFICES ASSUME NEW i \in 1..Len(a), NEW j \in 1..Len(a), i < j, a[i] # ExitLine, a[j] # ExitLine
                 PROVE  a[i] < a[j]
      OBVIOUS
    <2>1. i # Len(r) + 1 /\ j # Len(r) + 1
      BY <1>2
    <2>2. i \in 1..Len(r) /\ j \in 1..Len(r)
      BY <1>2, <2>1
    <2> QED BY <1>2, <2>2 DEF Whole
  <1>5. \A c \in 1..last : Due(c, join, last) <=> \E i \in 1..Len(a) : a[i] = c
    <2> SUFFICES ASSUME NEW c \in 1..last PROVE Due(c, join, last) <=> \E i \in 1..Len(a) : a[i] = c
      OBVIOUS
    <2>1. Due(c, join, last) <=> \E i \in 1..Len(r) : r[i] = c
      BY DEF Whole
    <2>2. (\E i \in 1..Len(r) : r[i] = c) <=> \E i \in 1..Len(a) : a[i] = c
      BY <1>2 DEF ExitLine
    <2> QED BY <2>1, <2>2
  <1>6. \A i \in 1..Len(a) : a[i] = ExitLine => i = Len(a)
    BY <1>2, <1>3
  <1>7. Whole(a, join, last, final)
    BY <1>2, <1>4, <1>5, <1>6 DEF Whole
  <1> QED BY <1>7 DEF a

\* The chunks from one to another, as a replay has them.
LEMMA RangeFacts ==
  ASSUME NEW i \in Nat \ {0}, NEW j \in Nat
  PROVE  /\ ChunkRange(i, j) \in Seq(i..j)
         /\ Len(ChunkRange(i, j)) = IF j < i THEN 0 ELSE j - i + 1
         /\ \A k \in 1..Len(ChunkRange(i, j)) : ChunkRange(i, j)[k] = i + k - 1
  <1> DEFINE n == IF j < i THEN 0 ELSE j - i + 1
  <1>1. n \in Nat /\ \A k \in 1..n : i + k - 1 \in i..j
    OBVIOUS
  <1>2. ChunkRange(i, j) = [k \in 1..n |-> i + k - 1]
    BY DEF ChunkRange
  <1> HIDE DEF n
  <1>3. [k \in 1..n |-> i + k - 1] \in Seq(i..j) /\ Len([k \in 1..n |-> i + k - 1]) = n
    BY <1>1
  <1>4. \A k \in 1..n : [l \in 1..n |-> i + l - 1][k] = i + k - 1
    OBVIOUS
  <1> QED BY <1>2, <1>3, <1>4 DEF n

LEMMA ReplayOK ==
  ASSUME NEW i \in Nat \ {0}, NEW j \in Nat, NEW last \in Nat, j <= last, NEW final \in BOOLEAN
  PROVE  /\ Whole(ChunkRange(i, j), [first |-> i, last |-> j, at |-> last], last, final)
         /\ ChunkRange(i, j) \in Seq(0..last)
  <1> DEFINE r == ChunkRange(i, j)
             join == [first |-> i, last |-> j, at |-> last]
  <1>1. /\ r \in Seq(i..j) /\ Len(r) \in Nat /\ \A k \in 1..Len(r) : r[k] = i + k - 1
        /\ Len(r) = IF j < i THEN 0 ELSE j - i + 1
    <2>1. /\ r \in Seq(i..j) /\ \A k \in 1..Len(r) : r[k] = i + k - 1
          /\ Len(r) = IF j < i THEN 0 ELSE j - i + 1
      BY RangeFacts
    <2> QED BY <2>1, LenProperties
  <1>j. join.first = i /\ join.last = j /\ join.at = last
    OBVIOUS
  <1> HIDE DEF r, join
  <1>2. r \in Seq(0..last)
    <2>1. i..j \subseteq 0..last
      OBVIOUS
    <2> QED BY <1>1, <2>1, SeqMonotonic
  <1>3. \A c \in 1..last : Due(c, join, last) <=> \E k \in 1..Len(r) : r[k] = c
    <2> SUFFICES ASSUME NEW c \in 1..last PROVE Due(c, join, last) <=> \E k \in 1..Len(r) : r[k] = c
      OBVIOUS
    <2>1. Due(c, join, last) <=> c \in i..j
      BY <1>j DEF Due
    <2>2. ASSUME c \in i..j PROVE \E k \in 1..Len(r) : r[k] = c
      <3>1. c - i + 1 \in 1..Len(r) /\ r[c - i + 1] = c
        BY <1>1, <2>2
      <3> QED BY <3>1
    <2>3. ASSUME NEW k \in 1..Len(r), r[k] = c PROVE c \in i..j
      BY <1>1, <2>3
    <2> QED BY <2>1, <2>2, <2>3
  <1>4. \A k \in 1..Len(r) : r[k] # ExitLine
    BY <1>1 DEF ExitLine
  <1>5. \A k, l \in 1..Len(r) : k < l => r[k] < r[l]
    BY <1>1
  <1>6. Whole(r, join, last, final)
    BY <1>2, <1>3, <1>4, <1>5, <1>j DEF Whole
  <1> QED BY <1>2, <1>6 DEF r, join

-----------------------------------------------------------------------------
(* The steps.                                                               *)

LEMMA SentFacts ==
  ASSUME StreamIInv, NEW v \in Viewers
  PROVE  /\ shown[v] \in Seq(Nat) /\ held[v] \in Seq(Nat) /\ replay[v] \in Joins
         /\ printed \in Nat /\ MaxChunks \in Nat
         /\ SentAndHeld(v) \in Seq(Nat)
         /\ shown[v] \in Seq(0..MaxChunks) /\ held[v] \in Seq(1..MaxChunks) /\ held[v] \in Seq(0..MaxChunks)
  <1>1. /\ shown[v] \in Seq(0..MaxChunks) /\ held[v] \in Seq(1..MaxChunks)
        /\ replay[v] \in [first : 1..(MaxChunks + 1), last : 0..MaxChunks, at : 0..MaxChunks] /\ printed \in 0..MaxChunks /\ MaxChunks \in Nat
    BY StreamAssumption DEF StreamIInv, StreamTypeOK
  <1>2. 0..MaxChunks \subseteq Nat /\ 1..MaxChunks \subseteq Nat /\ 1..MaxChunks \subseteq 0..MaxChunks
    OBVIOUS
  <1>3. shown[v] \in Seq(Nat) /\ held[v] \in Seq(Nat) /\ held[v] \in Seq(0..MaxChunks)
    BY <1>1, <1>2, SeqMonotonic
  <1>4. SentAndHeld(v) \in Seq(Nat)
    BY <1>3, ConcatProperties DEF SentAndHeld
  <1>5. replay[v] \in Joins
    BY <1>1 DEF Joins
  <1> QED BY <1>1, <1>2, <1>3, <1>4, <1>5

LEMMA StreamInitOK == StreamInit => StreamIInv
  <1> SUFFICES ASSUME StreamInit PROVE StreamIInv
    OBVIOUS
  <1>1. <<>> \in Seq(1..MaxChunks) /\ <<>> \in Seq(0..MaxChunks)
    BY EmptySeq
  <1>2. StreamTypeOK
    <2>1. /\ printed = 0 /\ parsed = 0 /\ ended = FALSE /\ isTui = FALSE /\ linked = Viewers /\ subscribers = {}
          /\ replay = [v \in Viewers |-> [first |-> 1, last |-> 0, at |-> 0]] /\ waitsAt = [v \in Viewers |-> -1]
      BY DEF StreamInit, NotWaiting
    <2>2. /\ 0 \in 0..MaxChunks /\ 0 \in 0..0 /\ 1 \in 1..(MaxChunks + 1) /\ -1 \in (-1)..MaxChunks
      BY StreamAssumption
    <2>3. held \in [Viewers -> Seq(1..MaxChunks)] /\ shown \in [Viewers -> Seq(0..MaxChunks)]
      BY <1>1 DEF StreamInit
    <2>4. replay \in [Viewers -> [first : 1..(MaxChunks + 1), last : 0..MaxChunks, at : 0..MaxChunks]] /\ waitsAt \in [Viewers -> (-1)..MaxChunks]
      BY <2>1, <2>2
    <2> QED BY <2>1, <2>2, <2>3, <2>4 DEF StreamTypeOK, NotWaiting
  <1> QED BY <1>2 DEF StreamInit, StreamIInv, NothingIsHeldBack, ViewersAreTold

LEMMA EmitOK ==
  ASSUME StreamIInv, NEW atOnce \in SUBSET Viewers, NEW tuiMode \in BOOLEAN, Emit(atOnce, tuiMode)
  PROVE  StreamIInv'
  <1>1. /\ ~ended /\ printed < MaxChunks /\ printed' = printed + 1 /\ atOnce \subseteq subscribers
        /\ UNCHANGED <<ended, parsed, linked, subscribers, waitsAt, replay>>
    BY DEF Emit
  <1>2. ASSUME NEW v \in Viewers
        PROVE  /\ held'[v] = IF v \in atOnce THEN <<>>
                             ELSE IF v \in subscribers THEN Append(held[v], printed + 1) ELSE held[v]
               /\ shown'[v] = IF v \in atOnce \cap linked THEN shown[v] \o Append(held[v], printed + 1) ELSE shown[v]
    BY DEF Emit
  <1>3. printed + 1 \in 1..MaxChunks /\ printed + 1 \in 0..MaxChunks /\ printed \in Nat /\ printed + 1 \in Nat
    BY <1>1, StreamAssumption DEF StreamIInv, StreamTypeOK
  <1>4. ASSUME NEW v \in Viewers
        PROVE  /\ Append(held[v], printed + 1) \in Seq(1..MaxChunks)
               /\ Append(held[v], printed + 1) \in Seq(0..MaxChunks)
               /\ shown[v] \o Append(held[v], printed + 1) \in Seq(0..MaxChunks)
               /\ shown[v] \o Append(held[v], printed + 1) = Append(SentAndHeld(v), printed + 1)
    <2>1. /\ shown[v] \in Seq(0..MaxChunks) /\ held[v] \in Seq(1..MaxChunks) /\ held[v] \in Seq(0..MaxChunks)
      BY SentFacts
    <2>2. Append(held[v], printed + 1) \in Seq(1..MaxChunks) /\ Append(held[v], printed + 1) \in Seq(0..MaxChunks)
      BY <1>3, <2>1, AppendFacts
    <2>3. shown[v] \o Append(held[v], printed + 1) \in Seq(0..MaxChunks)
      BY <2>1, <2>2, ConcatProperties
    <2>4. shown[v] \o Append(held[v], printed + 1) = Append(SentAndHeld(v), printed + 1)
      <3> DEFINE p == shown[v]
                 q == held[v]
                 e == printed + 1
      <3>1. p \in Seq(0..MaxChunks) /\ q \in Seq(0..MaxChunks) /\ e \in 0..MaxChunks
        BY <1>3, <2>1
      <3> HIDE DEF p, q, e
      <3>2. p \o Append(q, e) = Append(p \o q, e)
        BY <3>1, AppendAtTheEnd
      <3> QED BY <3>2 DEF p, q, e, SentAndHeld
    <2> QED BY <2>2, <2>3, <2>4
  <1>5. StreamTypeOK'
    <2>1. \A v \in Viewers : held'[v] \in Seq(1..MaxChunks) /\ shown'[v] \in Seq(0..MaxChunks)
      <3> SUFFICES ASSUME NEW v \in Viewers PROVE held'[v] \in Seq(1..MaxChunks) /\ shown'[v] \in Seq(0..MaxChunks)
        OBVIOUS
      <3>1. <<>> \in Seq(1..MaxChunks)
        BY EmptySeq
      <3> QED BY <1>2, <1>4, <3>1, SentFacts
    <2>2. held' \in [Viewers -> Seq(1..MaxChunks)] /\ shown' \in [Viewers -> Seq(0..MaxChunks)]
      <3>1. /\ held' = [v \in Viewers |-> held'[v]]
            /\ shown' = [v \in Viewers |-> shown'[v]]
        BY DEF Emit
      <3> QED BY <2>1, <3>1
    <2>3. isTui' \in BOOLEAN /\ parsed' \in 0..printed' /\ printed' \in 0..MaxChunks
      BY <1>1, <1>3 DEF Emit, StreamIInv, StreamTypeOK
    <2> QED BY <1>1, <2>2, <2>3 DEF StreamIInv, StreamTypeOK
  <1>6. ASSUME NEW v \in (subscribers \cap linked)' PROVE Whole(SentAndHeld(v)', replay'[v], printed', ended')
    <2>1. v \in Viewers /\ v \in subscribers /\ v \in linked
      BY <1>1 DEF StreamIInv, StreamTypeOK
    <2>2. Whole(SentAndHeld(v), replay[v], printed, ended) /\ ended \in BOOLEAN
      BY <2>1 DEF StreamIInv, StreamTypeOK, ViewersAreTold
    <2>3. Whole(Append(SentAndHeld(v), printed + 1), replay[v], printed + 1, ended)
      BY <1>1, <2>1, <2>2, SentFacts, PushOK
    <2>4. shown'[v] \o held'[v] = Append(SentAndHeld(v), printed + 1)
      <3>1. CASE v \in atOnce
        <4>1. shown'[v] = shown[v] \o Append(held[v], printed + 1) /\ held'[v] = <<>>
          BY <1>2, <2>1, <3>1
        <4>2. shown'[v] \o held'[v] = shown'[v]
          BY <1>4, <2>1, <4>1, ConcatEmptySeq
        <4> QED BY <1>4, <2>1, <4>1, <4>2
      <3>2. CASE v \notin atOnce
        BY <1>2, <1>4, <2>1, <3>2
      <3> QED BY <3>1, <3>2
    <2> QED BY <1>1, <2>3, <2>4 DEF SentAndHeld
  <1>7. NothingIsHeldBack'
    BY <1>1 DEF NothingIsHeldBack
  <1> QED BY <1>5, <1>6, <1>7 DEF StreamIInv, ViewersAreTold

LEMMA TimerOK == ASSUME StreamIInv, NEW v \in Viewers, TimerFires(v) PROVE StreamIInv'
  <1>1. /\ UNCHANGED <<printed, ended, isTui, parsed, linked, subscribers, waitsAt, replay>>
        /\ held' = [held EXCEPT ![v] = <<>>]
        /\ shown' = [shown EXCEPT ![v] = IF v \in linked THEN shown[v] \o held[v] ELSE shown[v]]
    BY DEF TimerFires
  <1>2. /\ shown[v] \o held[v] \in Seq(0..MaxChunks) /\ <<>> \in Seq(1..MaxChunks)
        /\ (shown[v] \o held[v]) \o <<>> = shown[v] \o held[v]
    <2>1. shown[v] \in Seq(0..MaxChunks) /\ held[v] \in Seq(0..MaxChunks)
      BY SentFacts
    <2>2. shown[v] \o held[v] \in Seq(0..MaxChunks)
      BY <2>1, ConcatProperties
    <2> QED BY <2>2, ConcatEmptySeq, EmptySeq
  <1>3. StreamTypeOK'
    BY <1>1, <1>2 DEF StreamIInv, StreamTypeOK
  <1>4. ASSUME NEW w \in subscribers \cap linked PROVE shown'[w] \o held'[w] = shown[w] \o held[w]
    <2>1. w \in Viewers /\ w \in linked
      BY DEF StreamIInv, StreamTypeOK
    <2>2. CASE w = v
      BY <1>1, <1>2, <2>1, <2>2 DEF StreamIInv, StreamTypeOK
    <2>3. CASE w # v
      BY <1>1, <2>1, <2>3 DEF StreamIInv, StreamTypeOK
    <2> QED BY <2>2, <2>3
  <1>5. ViewersAreTold'
    BY <1>1, <1>4 DEF StreamIInv, ViewersAreTold, SentAndHeld
  <1>6. NothingIsHeldBack'
    BY <1>1 DEF StreamIInv, NothingIsHeldBack, StreamTypeOK
  <1> QED BY <1>3, <1>5, <1>6 DEF StreamIInv

\* A viewer joins, sent a replay.
LEMMA AttachedOK ==
  ASSUME StreamIInv, NEW v \in Viewers, NEW first \in 1..(MaxChunks + 1), NEW last \in 0..printed, Attached(v, first, last),
         UNCHANGED <<printed, ended, isTui, linked>>,
         parsed' \in 0..printed, waitsAt' \in [Viewers -> NotWaiting..MaxChunks]
  PROVE  StreamIInv'
  <1>1. /\ subscribers' = subscribers \cup {v} /\ held' = [held EXCEPT ![v] = <<>>]
        /\ shown' = [shown EXCEPT ![v] = IF v \in linked THEN ChunkRange(first, last) ELSE shown[v]]
        /\ replay' = [replay EXCEPT ![v] = [first |-> first, last |-> last, at |-> printed]]
    BY DEF Attached, HeldAtAttach
  <1>r. Whole(ChunkRange(first, last), [first |-> first, last |-> last, at |-> printed], printed, ended) /\ ChunkRange(first, last) \in Seq(0..printed)
    <2>1. first \in Nat \ {0} /\ last \in Nat /\ printed \in Nat /\ last <= printed /\ ended \in BOOLEAN
      BY StreamAssumption DEF StreamIInv, StreamTypeOK
    <2> QED BY <2>1, ReplayOK
  <1> DEFINE sentAgain == ChunkRange(first, last)
  <1> HIDE DEF sentAgain
  <1>2. sentAgain \in Seq(0..MaxChunks) /\ <<>> \in Seq(1..MaxChunks) /\ sentAgain \o <<>> = sentAgain
    <2>1. 0..printed \subseteq 0..MaxChunks
      BY StreamAssumption DEF StreamIInv, StreamTypeOK
    <2>2. sentAgain \in Seq(0..MaxChunks)
      BY <1>r, <2>1, SeqMonotonic DEF sentAgain
    <2> QED BY <2>2, EmptySeq, ConcatEmptySeq
  <1>3. StreamTypeOK'
    <2>1. [first |-> first, last |-> last, at |-> printed] \in [first : 1..(MaxChunks + 1), last : 0..MaxChunks, at : 0..MaxChunks]
      BY StreamAssumption DEF StreamIInv, StreamTypeOK
    <2>2. replay' \in [Viewers -> [first : 1..(MaxChunks + 1), last : 0..MaxChunks, at : 0..MaxChunks]]
      BY <1>1, <2>1 DEF StreamIInv, StreamTypeOK
    <2>3. held' \in [Viewers -> Seq(1..MaxChunks)]
      BY <1>1, <1>2 DEF StreamIInv, StreamTypeOK
    <2>4. shown' \in [Viewers -> Seq(0..MaxChunks)]
      BY <1>1, <1>2 DEF sentAgain, StreamIInv, StreamTypeOK
    <2> QED BY <1>1, <2>2, <2>3, <2>4 DEF StreamIInv, StreamTypeOK
  <1>4. ASSUME NEW w \in (subscribers \cap linked)' PROVE Whole(SentAndHeld(w)', replay'[w], printed', ended')
    <2>1. w \in Viewers /\ w \in linked
      BY <1>1 DEF StreamIInv, StreamTypeOK
    <2>2. CASE w = v
      <3>1. shown'[w] = sentAgain /\ held'[w] = <<>> /\ replay'[w] = [first |-> first, last |-> last, at |-> printed]
        BY <1>1, <2>1, <2>2 DEF sentAgain, StreamIInv, StreamTypeOK
      <3>2. SentAndHeld(w)' = sentAgain
        BY <1>2, <3>1 DEF SentAndHeld
      <3> QED BY <1>r, <3>1, <3>2 DEF sentAgain
    <2>3. CASE w # v
      <3>1. shown'[w] = shown[w] /\ held'[w] = held[w] /\ replay'[w] = replay[w] /\ w \in subscribers
        BY <1>1, <2>1, <2>3 DEF StreamIInv, StreamTypeOK
      <3> QED BY <2>1, <3>1 DEF StreamIInv, ViewersAreTold, SentAndHeld
    <2> QED BY <2>2, <2>3
  <1>5. NothingIsHeldBack'
    BY <1>1 DEF StreamIInv, NothingIsHeldBack, StreamTypeOK
  <1> QED BY <1>3, <1>4, <1>5 DEF StreamIInv, ViewersAreTold

LEMMA TailFacts == ASSUME StreamIInv PROVE TailStart \in 1..(MaxChunks + 1) /\ printed \in 0..printed
  BY StreamAssumption DEF StreamIInv, StreamTypeOK, TailStart

LEMMA PlainOK == ASSUME StreamIInv, NEW v \in Viewers, AttachPlain(v) PROVE StreamIInv'
  <1>1. Attached(v, TailStart, printed) /\ UNCHANGED <<printed, ended, isTui, parsed, linked, waitsAt>>
    BY DEF AttachPlain
  <1>2. parsed' \in 0..printed /\ waitsAt' \in [Viewers -> NotWaiting..MaxChunks]
    BY <1>1 DEF StreamIInv, StreamTypeOK
  <1> HIDE DEF Attached
  <1> QED BY <1>1, <1>2, TailFacts, AttachedOK

LEMMA SnapshotOK ==
  ASSUME StreamIInv, NEW v \in Viewers, NEW k \in 0..MaxChunks, NEW serialized \in BOOLEAN, SnapshotTaken(v, k, serialized)
  PROVE  StreamIInv'
  <1> DEFINE first == IF serialized THEN 1 ELSE TailStart
             last == IF serialized THEN k ELSE printed
  <1>1. /\ Attached(v, first, last) /\ UNCHANGED <<printed, ended, isTui, linked>>
        /\ k \in parsed..printed /\ parsed' = k /\ waitsAt' = [waitsAt EXCEPT ![v] = NotWaiting]
    BY DEF SnapshotTaken
  <1>2. /\ parsed' \in 0..printed /\ waitsAt' \in [Viewers -> NotWaiting..MaxChunks]
        /\ k \in 0..printed
    BY <1>1, StreamAssumption DEF StreamIInv, StreamTypeOK, NotWaiting
  <1>3. first \in 1..(MaxChunks + 1) /\ last \in 0..printed
    <2>1. 1 \in 1..(MaxChunks + 1)
      BY StreamAssumption
    <2> HIDE DEF TailStart
    <2> QED BY <1>2, <2>1, TailFacts
  <1> HIDE DEF first, last, Attached
  <1> QED BY <1>1, <1>2, <1>3, AttachedOK

\* Nobody's sequence changes.
LEMMA WaitsOK == ASSUME StreamIInv, (\E v \in Viewers : AttachTui(v)) \/ \E k \in 1..MaxChunks : Parses(k) PROVE StreamIInv'
  <1>1. /\ UNCHANGED <<printed, ended, isTui, linked, subscribers, held, shown, replay>>
        /\ parsed' \in 0..printed /\ waitsAt' \in [Viewers -> NotWaiting..MaxChunks]
    <2>1. CASE \E v \in Viewers : AttachTui(v)
      <3>1. PICK v \in Viewers : AttachTui(v)
        BY <2>1
      <3>2. printed \in NotWaiting..MaxChunks
        BY StreamAssumption DEF StreamIInv, StreamTypeOK, NotWaiting
      <3> QED BY <3>1, <3>2 DEF AttachTui, StreamIInv, StreamTypeOK
    <2>2. CASE \E k \in 1..MaxChunks : Parses(k)
      BY <2>2, StreamAssumption DEF Parses, StreamIInv, StreamTypeOK
    <2> QED BY <2>1, <2>2
  <1> QED BY <1>1 DEF StreamIInv, StreamTypeOK, ViewersAreTold, SentAndHeld, NothingIsHeldBack

LEMMA ShellEndsOK == ASSUME StreamIInv, ShellEnds PROVE StreamIInv'
  <1>1. /\ ~ended /\ ended' = TRUE /\ held' = [v \in Viewers |-> <<>>]
        /\ shown' = [v \in Viewers |-> IF v \in subscribers \cap linked
                                       THEN Append(shown[v] \o held[v], ExitLine) ELSE shown[v]]
        /\ UNCHANGED <<printed, isTui, parsed, linked, subscribers, waitsAt, replay>>
    BY DEF ShellEnds
  <1>2. ASSUME NEW v \in Viewers
        PROVE  /\ Append(SentAndHeld(v), ExitLine) \in Seq(0..MaxChunks)
               /\ Append(SentAndHeld(v), ExitLine) \o <<>> = Append(SentAndHeld(v), ExitLine)
    <2>1. SentAndHeld(v) \in Seq(0..MaxChunks)
      BY SentFacts, ConcatProperties DEF SentAndHeld
    <2>2. ExitLine \in 0..MaxChunks
      BY StreamAssumption DEF ExitLine
    <2>3. Append(SentAndHeld(v), ExitLine) \in Seq(0..MaxChunks)
      BY <2>1, <2>2, AppendFacts
    <2> QED BY <2>3, ConcatEmptySeq
  <1>3. <<>> \in Seq(1..MaxChunks)
    BY EmptySeq
  <1>4. StreamTypeOK'
    <2>1. shown' \in [Viewers -> Seq(0..MaxChunks)]
      BY <1>1, <1>2 DEF SentAndHeld, StreamIInv, StreamTypeOK
    <2> QED BY <1>1, <1>3, <2>1 DEF StreamIInv, StreamTypeOK
  <1>5. ASSUME NEW v \in (subscribers \cap linked)' PROVE Whole(SentAndHeld(v)', replay'[v], printed', ended')
    <2>1. v \in Viewers /\ v \in subscribers \cap linked
      BY <1>1 DEF StreamIInv, StreamTypeOK
    <2>2. shown'[v] \o held'[v] = Append(SentAndHeld(v), ExitLine)
      BY <1>1, <1>2, <2>1 DEF SentAndHeld
    <2>3. Whole(SentAndHeld(v), replay[v], printed, ended) /\ ended \in BOOLEAN /\ ended' \in BOOLEAN
      BY <1>1, <2>1 DEF StreamIInv, StreamTypeOK, ViewersAreTold
    <2>4. Whole(Append(SentAndHeld(v), ExitLine), replay[v], printed, ended')
      BY <1>1, <2>1, <2>3, SentFacts, ExitOK
    <2> QED BY <1>1, <2>2, <2>4 DEF SentAndHeld
  <1>6. NothingIsHeldBack'
    BY <1>1 DEF NothingIsHeldBack
  <1> QED BY <1>4, <1>5, <1>6 DEF StreamIInv, ViewersAreTold

LEMMA UnlinkOK == ASSUME StreamIInv, NEW v \in Viewers, Unlink(v) PROVE StreamIInv'
  <1>1. /\ linked' = linked \ {v} /\ subscribers' = subscribers \ {v} /\ held' = [held EXCEPT ![v] = <<>>]
        /\ UNCHANGED <<printed, ended, isTui, parsed, waitsAt, shown, replay>>
    BY DEF Unlink
  <1>2. <<>> \in Seq(1..MaxChunks)
    BY EmptySeq
  <1>3. StreamTypeOK'
    BY <1>1, <1>2 DEF StreamIInv, StreamTypeOK
  <1>4. ASSUME NEW w \in subscribers' \cap linked' PROVE w \in subscribers \cap linked /\ held'[w] = held[w]
    BY <1>1 DEF StreamIInv, StreamTypeOK
  <1>5. ViewersAreTold'
    BY <1>1, <1>4 DEF StreamIInv, ViewersAreTold, SentAndHeld
  <1>6. NothingIsHeldBack'
    BY <1>1 DEF StreamIInv, NothingIsHeldBack, StreamTypeOK
  <1> QED BY <1>3, <1>5, <1>6 DEF StreamIInv

LEMMA StreamStepOK == ASSUME StreamIInv, [StreamNext]_streamVars PROVE StreamIInv'
  <1>1. CASE UNCHANGED streamVars
    BY <1>1 DEF streamVars, StreamIInv, StreamTypeOK, ViewersAreTold, SentAndHeld, NothingIsHeldBack
  <1>2. CASE StreamNext
    BY <1>2, EmitOK, TimerOK, PlainOK, SnapshotOK, WaitsOK, ShellEndsOK, UnlinkOK DEF StreamNext
  <1> QED BY <1>1, <1>2

\* Sent and held are one sequence that only grows at its end, from one replay to the
\* next: the inductive invariant (output-coalescer.ts, runtime.ts).
THEOREM StreamHolds == StreamSpec => []StreamIInv
  BY StreamInitOK, StreamStepOK, PTL DEF StreamSpec

\* A viewer is sent exactly what its latest replay held and what was printed since it
\* was made, each chunk once and in order, and the exit line after all of them, for any
\* number of viewers and chunks.
THEOREM StreamsAreWhole == StreamSpec => []StreamIsWhole
  <1>1. StreamIInv => StreamIsWhole
    <2> SUFFICES ASSUME StreamIInv, NEW v \in subscribers \cap linked
                 PROVE  LET sent == shown[v] \o held[v]
                            chunks == {i \in DOMAIN sent : sent[i] # ExitLine}
                        IN  /\ \A i, j \in chunks : i < j => sent[i] < sent[j]
                            /\ {sent[i] : i \in chunks} = replay[v].first..replay[v].last \cup (replay[v].at + 1)..printed
                            /\ \A i \in DOMAIN sent : sent[i] = ExitLine => i = Len(sent)
      BY DEF StreamIsWhole
    <2> DEFINE sent == shown[v] \o held[v]
    <2>1. Whole(sent, replay[v], printed, ended)
      BY DEF StreamIInv, ViewersAreTold, SentAndHeld
    <2> HIDE DEF sent
    <2>2. DOMAIN sent = 1..Len(sent)
      BY <2>1, LenProperties DEF Whole
    <2>3. \A i \in 1..Len(sent) : sent[i] \in 0..printed
      BY <2>1, ElementOfSeq DEF Whole
    <2>4. /\ replay[v].first \in Nat \ {0} /\ replay[v].last \in Nat /\ replay[v].at \in Nat /\ printed \in Nat
          /\ replay[v].last <= printed
      <3>1. v \in Viewers
        BY DEF StreamIInv, StreamTypeOK
      <3> QED BY <2>1, <3>1, SentFacts DEF Joins, Whole
    <2>5. \A c \in 1..printed : (c \in replay[v].first..replay[v].last \cup (replay[v].at + 1)..printed) <=> \E i \in 1..Len(sent) : sent[i] = c
      BY <2>1 DEF Whole, Due
    <2>6. \A c \in replay[v].first..replay[v].last \cup (replay[v].at + 1)..printed : c \in 1..printed
      BY <2>4
    <2>7. {sent[i] : i \in {i \in DOMAIN sent : sent[i] # ExitLine}} = replay[v].first..replay[v].last \cup (replay[v].at + 1)..printed
      <3>1. ASSUME NEW i \in 1..Len(sent), sent[i] # ExitLine PROVE sent[i] \in 1..printed
        BY <2>3, <2>4, <3>1 DEF ExitLine
      <3>2. \A c \in 1..printed : c # ExitLine
        BY DEF ExitLine
      <3> QED BY <2>2, <2>5, <2>6, <3>1, <3>2
    <2> QED BY <2>1, <2>2, <2>7 DEF Whole, sent
  <1> QED BY <1>1, StreamHolds, PTL

(***************************************************************************)
(* Notices.  What the gate remembers of a key is part of what was sent:    *)
(* the time it was last let through is the last notice's, or it was never  *)
(* sent.  So a window that does not hold the last notice holds none, and   *)
(* the budget of a window (MAX_PER_WINDOW) is never what holds one back.   *)
(***************************************************************************)
Spaced(sent) == \A i, j \in DOMAIN sent : i < j => sent[j] - sent[i] >= WindowTicks
GateTells(k) ==
  /\ sentLog[k] \in Seq(Nat) /\ Spaced(sentLog[k])
  /\ gateSent[k] \subseteq Int
  /\ coalesced[k] = NeverSent => sentLog[k] = <<>> /\ gateSent[k] = {}
  /\ coalesced[k] # NeverSent =>
       /\ sentLog[k] # <<>> /\ coalesced[k] = sentLog[k][Len(sentLog[k])]
       /\ coalesced[k] \in Nat /\ coalesced[k] <= clock
       /\ \A t \in gateSent[k] : t <= coalesced[k]
HeldBack(w) ==
  /\ w.key \in NoticeKeys
  /\ \E i \in DOMAIN sentLog[w.key] : w.at - sentLog[w.key][i] \in 0..WindowTicks - 1

\* The row is what was asked for last, column by column; without one nothing was.
RowSays(r) ==
  /\ DOMAIN r = {"enabled", "land", "convergence"}
  /\ r["enabled"] = wants["all"] /\ \A k \in NoticeKinds : r[k] = wants[k]
RowFollows ==
  /\ wants \in [NoticeKinds \cup {"all"} -> BOOLEAN]
  /\ \/ notifyRow = {} /\ \A k \in NoticeKinds \cup {"all"} : wants[k] = TRUE
     \/ \E r \in notifyRow : notifyRow = {r} /\ RowSays(r)

GateTyped ==
  /\ clock \in Nat
  /\ DOMAIN gateSent = NoticeKeys /\ DOMAIN coalesced = NoticeKeys /\ DOMAIN sentLog = NoticeKeys
GateIInv == GateTyped /\ (\A k \in NoticeKeys : GateTells(k)) /\ \A w \in withheld : HeldBack(w)

LEMMA NoticesInitOK == NoticesInit => GateIInv /\ RowFollows
  <1> SUFFICES ASSUME NoticesInit PROVE GateIInv /\ RowFollows
    OBVIOUS
  <1>1. \A k \in NoticeKeys : GateTells(k)
    BY EmptySeq DEF NoticesInit, GateTells, Spaced, NeverSent
  <1> QED BY <1>1 DEF NoticesInit, GateIInv, GateTyped, RowFollows, NoticeKinds

\* A window without the last notice holds none: the budget is never spent.
LEMMA WindowIsEmpty ==
  ASSUME GateIInv, NEW k \in NoticeKeys, ~Coalesces(k)
  PROVE  InWindow(k) = {} /\ ShouldNotify(k)
  <1>1. GateTells(k) /\ clock \in Nat /\ WindowTicks \in Nat /\ MaxPerWindow \in Nat \ {0}
    BY NoticesAssumption DEF GateIInv, GateTyped
  <1>2. InWindow(k) = {}
    BY <1>1 DEF Coalesces, InWindow, GateTells
  <1>3. Cardinality(InWindow(k)) = 0
    BY <1>2, FS_EmptySet
  <1> QED BY <1>1, <1>2, <1>3 DEF ShouldNotify

\* A notice let through is the last, a window after the one before it.
LEMMA SentIsLast ==
  ASSUME GateIInv, NEW k \in NoticeKeys, ~Coalesces(k)
  PROVE  LET s == Append(sentLog[k], clock)
         IN  /\ s \in Seq(Nat) /\ s # <<>> /\ s[Len(s)] = clock /\ Spaced(s)
             /\ \A i \in DOMAIN sentLog[k] : i \in DOMAIN s /\ s[i] = sentLog[k][i]
  <1> DEFINE s == Append(sentLog[k], clock)
             n == Len(sentLog[k])
  <1>1. GateTells(k) /\ clock \in Nat /\ WindowTicks \in Nat
    BY NoticesAssumption DEF GateIInv, GateTyped
  <1>2. s \in Seq(Nat) /\ n \in Nat /\ Len(s) = n + 1 /\ s[n + 1] = clock
        /\ DOMAIN s = 1..(n + 1) /\ DOMAIN sentLog[k] = 1..n
        /\ \A i \in 1..n : s[i] = sentLog[k][i]
    BY <1>1, AppendProperties, LenProperties DEF GateTells
  <1>3. n > 0 => coalesced[k] # NeverSent /\ coalesced[k] = sentLog[k][n] /\ clock - coalesced[k] >= WindowTicks
                 /\ coalesced[k] \in Nat
    BY <1>1, <1>2, EmptySeq DEF GateTells, Coalesces
  <1>4. \A i \in 1..n : sentLog[k][i] \in Nat /\ sentLog[k][i] <= sentLog[k][n]
    <2> SUFFICES ASSUME NEW i \in 1..n PROVE sentLog[k][i] \in Nat /\ sentLog[k][i] <= sentLog[k][n]
      OBVIOUS
    <2>1. sentLog[k][i] \in Nat /\ sentLog[k][n] \in Nat
      BY <1>1, <1>2, ElementOfSeq DEF GateTells
    <2>3. Spaced(sentLog[k]) /\ i \in DOMAIN sentLog[k] /\ n \in DOMAIN sentLog[k]
      BY <1>1, <1>2 DEF GateTells
    <2>2. i < n => sentLog[k][n] - sentLog[k][i] >= WindowTicks
      BY <2>3 DEF Spaced
    <2> QED BY <2>1, <2>2, <1>1, <1>2
  <1>5. Spaced(s)
    <2> SUFFICES ASSUME NEW i \in 1..(n + 1), NEW j \in 1..(n + 1), i < j PROVE s[j] - s[i] >= WindowTicks
      BY <1>2 DEF Spaced
    <2>1. CASE j \in 1..n
      <3>1. i \in 1..n /\ s[i] = sentLog[k][i] /\ s[j] = sentLog[k][j]
        BY <2>1, <1>2
      <3> QED BY <3>1, <2>1, <1>1, <1>2 DEF GateTells, Spaced
    <2>2. CASE j = n + 1
      <3>1. i \in 1..n /\ n > 0 /\ s[i] = sentLog[k][i] /\ s[j] = clock
        BY <2>2, <1>2
      <3>2. sentLog[k][i] \in Nat /\ sentLog[k][n] \in Nat /\ sentLog[k][i] <= sentLog[k][n]
        BY <3>1, <1>4, <1>2
      <3> QED BY <3>1, <3>2, <1>3, <1>1
    <2>3. n \in Nat /\ j \in Int /\ 1 <= j /\ j <= n + 1
      BY <1>2
    <2>4. j \in 1..n \/ j = n + 1
      BY <2>3
    <2> QED BY <2>1, <2>2, <2>4
  <1>6. s # <<>>
    BY <1>2, EmptySeq
  <1>7. s[Len(s)] = clock /\ \A i \in DOMAIN sentLog[k] : i \in DOMAIN s /\ s[i] = sentLog[k][i]
    BY <1>2
  <1> QED BY <1>2, <1>5, <1>6, <1>7

LEMMA NotifyOK == ASSUME GateIInv, NEW k \in NoticeKeys, Notify(k) PROVE GateIInv'
  <1>0. clock' = clock /\ clock \in Nat /\ GateTells(k) /\ GateTyped /\ WindowTicks \in Nat \ {0}
    BY NoticesAssumption DEF Notify, GateIInv, GateTyped
  <1>1. CASE Coalesces(k)
    <2>1. UNCHANGED <<gateSent, coalesced, sentLog>> /\ withheld' = withheld \cup {[key |-> k, at |-> clock]}
      BY <1>1 DEF Notify, ShouldNotify
    <2>2. \A q \in NoticeKeys : GateTells(q)'
      BY <2>1, <1>0 DEF GateIInv, GateTells, Spaced
    <2>3. ASSUME NEW w, w = [key |-> k, at |-> clock] PROVE HeldBack(w)'
      <3> DEFINE n == Len(sentLog[k])
      <3>1. n \in DOMAIN sentLog[k] /\ sentLog[k][n] = coalesced[k] /\ coalesced[k] \in Nat
            /\ coalesced[k] <= clock /\ clock - coalesced[k] < WindowTicks
        BY <1>0, <1>1, EmptySeq, LenProperties DEF GateTells, Coalesces
      <3>2. clock - sentLog[k][n] \in 0..WindowTicks - 1 /\ w.key = k /\ w.at = clock
        BY <3>1, <1>0, <2>3
      <3> HIDE DEF n
      <3> QED BY <3>1, <3>2, <2>1, <1>0 DEF HeldBack
    <2>4. \A w \in withheld : HeldBack(w)'
      BY <2>1 DEF GateIInv, HeldBack
    <2>5. \A w \in withheld' : HeldBack(w)'
      BY <2>1, <2>3, <2>4
    <2>6. GateTyped'
      BY <2>1, <1>0 DEF GateTyped
    <2> QED BY <2>2, <2>5, <2>6 DEF GateIInv
  <1>2. CASE ~Coalesces(k)
    <2>0. ShouldNotify(k) /\ InWindow(k) = {}
      BY <1>2, WindowIsEmpty
    <2>1. /\ sentLog' = [sentLog EXCEPT ![k] = Append(@, clock)]
          /\ gateSent' = [gateSent EXCEPT ![k] = {clock}]
          /\ coalesced' = [coalesced EXCEPT ![k] = clock] /\ withheld' = withheld
      BY <2>0 DEF Notify
    <2>2. sentLog'[k] = Append(sentLog[k], clock) /\ gateSent'[k] = {clock} /\ coalesced'[k] = clock
      BY <2>1, <1>0 DEF GateTyped
    <2>3. \A q \in NoticeKeys \ {k} :
            sentLog'[q] = sentLog[q] /\ gateSent'[q] = gateSent[q] /\ coalesced'[q] = coalesced[q]
      BY <2>1, <1>0 DEF GateTyped
    <2>4. GateTyped'
      BY <2>1, <1>0 DEF GateTyped
    <2>5. GateTells(k)'
      <3> DEFINE s == Append(sentLog[k], clock)
      <3>1. s \in Seq(Nat) /\ s # <<>> /\ s[Len(s)] = clock /\ Spaced(s)
        BY <1>2, SentIsLast
      <3>2. clock # NeverSent /\ {clock} \subseteq Int /\ clock <= clock
        BY <1>0 DEF NeverSent
      <3> HIDE DEF s
      <3>3. sentLog'[k] = s
        BY <2>2 DEF s
      <3> QED BY <2>2, <3>1, <3>2, <3>3, <1>0 DEF GateTells, Spaced
    <2>6. \A q \in NoticeKeys \ {k} : GateTells(q)'
      BY <2>3, <1>0 DEF GateIInv, GateTells, Spaced
    <2>7. ASSUME NEW w \in withheld PROVE HeldBack(w)'
      <3>1. w.key \in NoticeKeys
        BY DEF GateIInv, HeldBack
      <3>2. PICK i \in DOMAIN sentLog[w.key] : w.at - sentLog[w.key][i] \in 0..WindowTicks - 1
        BY DEF GateIInv, HeldBack
      <3>3. i \in DOMAIN sentLog'[w.key] /\ sentLog'[w.key][i] = sentLog[w.key][i]
        <4>1. CASE w.key = k
          BY <4>1, <2>2, <1>2, SentIsLast
        <4>2. CASE w.key # k
          BY <4>2, <3>1, <2>3
        <4> QED BY <4>1, <4>2
      <3> QED BY <3>1, <3>2, <3>3 DEF HeldBack
    <2> QED BY <2>1, <2>4, <2>5, <2>6, <2>7 DEF GateIInv
  <1> QED BY <1>1, <1>2

LEMMA SetNotifyOK ==
  ASSUME RowFollows, NEW c \in {"enabled"} \cup NoticeKinds, NEW b \in BOOLEAN, SetNotify(c, b)
  PROVE  RowFollows'
  <1> DEFINE columns == {"enabled", "land", "convergence"}
             w == IF c = "enabled" THEN "all" ELSE c
  <1>1. \E r : (IF notifyRow = {} THEN {DefaultRow} ELSE notifyRow) = {r} /\ RowSays(r)
    <2>1. CASE notifyRow = {}
      <3>1. DOMAIN DefaultRow = columns /\ \A d \in columns : DefaultRow[d] = TRUE
        BY DEF DefaultRow
      <3>2. \A k \in NoticeKinds \cup {"all"} : wants[k] = TRUE
        BY <2>1 DEF RowFollows
      <3>3. RowSays(DefaultRow)
        BY <3>1, <3>2 DEF RowSays, NoticeKinds
      <3> QED BY <2>1, <3>3
    <2>2. CASE notifyRow # {}
      BY <2>2 DEF RowFollows
    <2> QED BY <2>1, <2>2
  <1>6. PICK r : (IF notifyRow = {} THEN {DefaultRow} ELSE notifyRow) = {r} /\ RowSays(r)
    BY <1>1
  <1> DEFINE new == [r EXCEPT ![c] = b]
  <1>2. notifyRow' = {new} /\ wants' = [wants EXCEPT ![w] = b]
    BY <1>6 DEF SetNotify
  <1>3. DOMAIN new = columns /\ new[c] = b /\ \A d \in columns \ {c} : new[d] = r[d]
    BY <1>6 DEF RowSays, NoticeKinds
  <1>4. wants' \in [NoticeKinds \cup {"all"} -> BOOLEAN] /\ wants'[w] = b
        /\ \A k \in (NoticeKinds \cup {"all"}) \ {w} : wants'[k] = wants[k]
    BY <1>2 DEF RowFollows, NoticeKinds
  <1> HIDE DEF new
  <1>5. new["enabled"] = wants'["all"] /\ \A k \in NoticeKinds : new[k] = wants'[k]
    <2>1. CASE c = "enabled"
      BY <2>1, <1>6, <1>3, <1>4 DEF RowSays, NoticeKinds
    <2>2. CASE c # "enabled"
      BY <2>2, <1>6, <1>3, <1>4 DEF RowSays, NoticeKinds
    <2> QED BY <2>1, <2>2
  <1>7. RowSays(new)'
    BY <1>3, <1>5 DEF RowSays
  <1> QED BY <1>2, <1>4, <1>7 DEF RowFollows

LEMMA NoticesStepOK == ASSUME GateIInv, RowFollows, [NoticesNext]_noticesVars PROVE GateIInv' /\ RowFollows'
  <1>1. ASSUME NEW k \in NoticeKeys, Notify(k) PROVE GateIInv' /\ RowFollows'
    <2>1. GateIInv'
      BY <1>1, NotifyOK
    <2> QED BY <2>1, <1>1 DEF Notify, RowFollows, RowSays
  <1>2. ASSUME NEW c \in {"enabled"} \cup NoticeKinds, NEW b \in BOOLEAN, SetNotify(c, b) PROVE GateIInv' /\ RowFollows'
    <2>1. RowFollows'
      BY <1>2, SetNotifyOK
    <2> QED BY <2>1, <1>2 DEF SetNotify, GateIInv, GateTyped, GateTells, Spaced, HeldBack
  <1>3. ASSUME Tick PROVE GateIInv' /\ RowFollows'
    <2>1. clock \in Nat /\ clock' = clock + 1 /\ UNCHANGED <<notifyRow, gateSent, coalesced, sentLog, withheld, wants>>
      BY <1>3 DEF Tick, GateIInv, GateTyped
    <2>2. \A k \in NoticeKeys : GateTells(k)'
      BY <2>1 DEF GateIInv, GateTells, Spaced
    <2>3. \A w \in withheld : HeldBack(w)'
      BY <2>1 DEF GateIInv, HeldBack
    <2> QED BY <2>1, <2>2, <2>3 DEF GateIInv, GateTyped, RowFollows, RowSays
  <1>4. ASSUME DaemonRestarts PROVE GateIInv' /\ RowFollows'
    <2>1. \A k \in NoticeKeys : GateTells(k)'
      BY <1>4, EmptySeq DEF DaemonRestarts, GateTells, Spaced, NeverSent
    <2> QED BY <1>4, <2>1 DEF DaemonRestarts, GateIInv, GateTyped, RowFollows, RowSays
  <1>5. ASSUME UNCHANGED noticesVars PROVE GateIInv' /\ RowFollows'
    BY <1>5 DEF noticesVars, GateIInv, GateTyped, GateTells, Spaced, HeldBack, RowFollows, RowSays
  <1> QED BY <1>1, <1>2, <1>3, <1>4, <1>5 DEF NoticesNext

\* What the gate remembers is what was sent, and the row what was asked for: the inductive
\* invariant of the notifications (notify/gate.ts, NotifyConfigRepo).
THEOREM NoticesHold == NoticesSpec => [](GateIInv /\ RowFollows)
  BY NoticesInitOK, NoticesStepOK, PTL DEF NoticesSpec

\* No two notices of a session or a pair come within one window, none is held back without
\* one shortly before it, and what is sent is what was asked for, whatever is toggled.
THEOREM NoticesSpaced == NoticesSpec => []NoticesAreDue
  <1>1. GateIInv /\ RowFollows => NoticesAreDue
    <2> SUFFICES ASSUME GateIInv, RowFollows PROVE NoticesAreDue
      OBVIOUS
    <2>1. \A k \in NoticeKeys : \A i, j \in DOMAIN sentLog[k] : i < j => sentLog[k][j] - sentLog[k][i] >= WindowTicks
      BY DEF GateIInv, GateTells, Spaced
    <2>2. ASSUME NEW w \in withheld PROVE \E t \in ToSet(sentLog[w.key]) : w.at - t \in 0..WindowTicks - 1
      BY DEF GateIInv, HeldBack, ToSet
    <2>3. ASSUME NEW k \in NoticeKinds PROVE IsEnabled(k) = (wants["all"] /\ wants[k])
      <3>1. CASE notifyRow = {}
        BY <3>1 DEF IsEnabled, RowFollows, NoticeKinds
      <3>2. CASE notifyRow # {}
        <4>1. PICK r \in notifyRow : notifyRow = {r} /\ RowSays(r)
          BY <3>2 DEF RowFollows
        <4>2. IsEnabled(k) <=> r["enabled"] /\ r[k]
          BY <4>1 DEF IsEnabled
        <4>3. IsEnabled(k) \in BOOLEAN /\ wants["all"] \in BOOLEAN /\ wants[k] \in BOOLEAN
          BY DEF IsEnabled, RowFollows, NoticeKinds
        <4> QED BY <4>1, <4>2, <4>3 DEF RowSays
      <3> QED BY <3>1, <3>2
    <2> QED BY <2>1, <2>2, <2>3 DEF NoticesAreDue, NoticesAreSpaced, OnlyWanted
  <1> QED BY <1>1, NoticesHold, PTL
=============================================================================
