--------------------------- MODULE CockpitBridge ---------------------------
(***************************************************************************)
(* The cockpit's one way to its daemons: DaemonBridge keeps a connection   *)
(* to each project open in the window (`pool`), shares an attempt to       *)
(* connect between all who need it, and puts one project on the stage.     *)
(*                                                                         *)
(* A connection is <<project, number>>.  When it ends, DaemonClient first  *)
(* rejects its pending calls and fires the close handlers; the rejection   *)
(* is handled in the microtasks that follow.                               *)
(***************************************************************************)
EXTENDS Integers, Sequences

CONSTANTS
    Projects,       \* project roots
    NoProject,
    MaxLinks,       \* bound: connections made to one project
    MaxEnsures      \* bound: workspace.ensure calls waiting

ASSUME CockpitAssumption ==
    /\ NoProject \notin Projects
    /\ MaxLinks \in Nat /\ MaxEnsures \in Nat

VARIABLES
    attempts,   \* attach() calls that connect: [of, link, at]
    links,      \* connections that are up, by <<project, number>>
    used,       \* connections made so far to a project
    pool,       \* the kept connection of a project, or 0
    opened,     \* the projects the rail lists
    stage,      \* the active project and its connection, or NoStage
    ensures,    \* ensureTail: the ensures asked for, the first one at work
    working     \* the first one has begun: it waits for an attempt

cockpitVars == <<attempts, links, used, pool, opened, stage, ensures, working>>

NoStage == <<NoProject, 0>>
Links == Projects \X (1..MaxLinks)
Phases == {"connect", "init", "subscribe", "register"}

CockpitTypeOK ==
    /\ attempts \subseteq [of: Projects, link: 0..MaxLinks, at: Phases]
    /\ links \subseteq Links
    /\ used \in [Projects -> 0..MaxLinks]
    /\ pool \in [Projects -> 0..MaxLinks]
    /\ opened \subseteq Projects
    /\ stage \in Links \cup {NoStage}
    /\ ensures \in Seq(Projects)
    /\ working \in BOOLEAN

CockpitInit ==
    /\ attempts = {} /\ links = {}
    /\ used = [p \in Projects |-> 0]
    /\ pool = [p \in Projects |-> 0]
    /\ opened \in SUBSET Projects
    /\ stage = NoStage
    /\ ensures = <<>> /\ working = FALSE

-----------------------------------------------------------------------------
(* attach                                                                  *)

Connecting(p) == \E a \in attempts : a.of = p

\* Mutant: `connecting` is not looked at.
NeverJoined(p) == FALSE

(* Whoever needs p while an attempt is under way waits for that one. *)
Joined(p) == Connecting(p)

(* attach(p): the pooled connection, the attempt under way, or a new one. *)
AttachProject(p) ==
    IF pool[p] # 0 \/ Joined(p) THEN UNCHANGED attempts
    ELSE attempts' = attempts \cup {[of |-> p, link |-> 0, at |-> "connect"]}

(* projects.sessions, and any call that names a project that is open and not
   on the stage. *)
CallProject(p) ==
    /\ stage # NoStage /\ p \in opened
    /\ AttachProject(p)
    /\ UNCHANGED <<links, used, pool, opened, stage, ensures, working>>

(* deps.connect (connectOrStart) answers. *)
Connected(a) ==
    /\ a \in attempts /\ a.at = "connect"
    /\ used[a.of] < MaxLinks
    /\ used' = [used EXCEPT ![a.of] = @ + 1]
    /\ links' = links \cup {<<a.of, used[a.of] + 1>>}
    /\ attempts' = (attempts \ {a}) \cup {[a EXCEPT !.link = used[a.of] + 1, !.at = "init"]}
    /\ UNCHANGED <<pool, opened, stage, ensures, working>>

NextPhase(ph) == IF ph = "init" THEN "subscribe" ELSE "register"

(* workspace.init and daemon.subscribe answer. *)
Proceeds(a) ==
    /\ a \in attempts /\ a.at \in {"init", "subscribe"}
    /\ attempts' = (attempts \ {a}) \cup {[a EXCEPT !.at = NextPhase(a.at)]}
    /\ UNCHANGED <<links, used, pool, opened, stage, ensures, working>>

EnsureWaitsFor(p) == working /\ Head(ensures) = p

(* Those who waited for the attempt go on; an ensure puts the project on the
   stage. *)
Succeeds(a) ==
    /\ attempts' = attempts \ {a}
    /\ pool' = [pool EXCEPT ![a.of] = a.link]
    /\ opened' = opened \cup {a.of}
    /\ IF EnsureWaitsFor(a.of)
         THEN /\ stage' = <<a.of, a.link>>
              /\ ensures' = Tail(ensures) /\ working' = FALSE
         ELSE UNCHANGED <<stage, ensures, working>>

(* They are told that it failed; the stage stays as it was. *)
Gives(a) ==
    /\ attempts' = attempts \ {a}
    /\ UNCHANGED <<pool, opened, stage>>
    /\ IF EnsureWaitsFor(a.of)
         THEN ensures' = Tail(ensures) /\ working' = FALSE
         ELSE UNCHANGED <<ensures, working>>

(* bridge.register answers, well or not: the project is attached. *)
Registered(a) ==
    /\ a \in attempts /\ a.at = "register" /\ <<a.of, a.link>> \in links
    /\ Succeeds(a)
    /\ UNCHANGED <<links, used>>

\* Mutant: an attempt that fails leaves its connection open.
LeftOpen(a) == links

(* client.close() in the catch of attach. *)
Dropped(a) == links \ {<<a.of, a.link>>}

(* deps.connect fails, or the daemon refuses init or subscribe. *)
AttemptFails(a) ==
    /\ a \in attempts /\ a.at # "register"
    /\ Gives(a)
    /\ links' = Dropped(a)
    /\ UNCHANGED used

-----------------------------------------------------------------------------
(* workspace.ensure                                                        *)

AskEnsure(p) ==
    /\ Len(ensures) < MaxEnsures
    /\ ensures' = Append(ensures, p)
    /\ UNCHANGED <<attempts, links, used, pool, opened, stage, working>>

(* ensure: nothing to do if the project is on the stage, at once if its
   connection is pooled, otherwise when the attempt has ended. *)
EnsureBegins ==
    /\ ensures # <<>> /\ ~working
    /\ LET p == Head(ensures)
       IN  IF stage[1] = p \/ pool[p] # 0
             THEN /\ ensures' = Tail(ensures)
                  /\ stage' = IF stage[1] = p THEN stage ELSE <<p, pool[p]>>
                  /\ UNCHANGED <<attempts, working>>
             ELSE /\ AttachProject(p)
                  /\ working' = TRUE
                  /\ UNCHANGED <<ensures, stage>>
    /\ UNCHANGED <<links, used, pool, opened>>

-----------------------------------------------------------------------------
(* Ends.                                                                   *)

\* Mutant: only the stage is told that the connection is gone.
StageOnly(l) == pool

(* onClose: the pooled connection is forgotten. *)
Forgotten(l) == [pool EXCEPT ![l[1]] = IF @ = l[2] THEN 0 ELSE @]

(* The daemon of connection l dies, or closes it: the close handler forgets a
   pooled connection and clears the stage; an attempt that waits for init or
   subscribe fails; one that waits for bridge.register catches the rejection
   like any other and attaches the project. *)
LinkEnds(l) ==
    /\ l \in links
    /\ links' = links \ {l}
    /\ IF \E a \in attempts : <<a.of, a.link>> = l
         THEN \E a \in attempts :
                 /\ <<a.of, a.link>> = l
                 /\ IF a.at = "register" THEN Succeeds(a) ELSE Gives(a)
         ELSE /\ pool' = Forgotten(l)
              /\ stage' = IF stage = l THEN NoStage ELSE stage
              /\ UNCHANGED <<attempts, opened, ensures, working>>
    /\ UNCHANGED used

(* projects.close *)
CloseProject(p) ==
    /\ stage # NoStage /\ p \in opened
    /\ opened' = opened \ {p}
    /\ stage' = IF stage[1] = p THEN NoStage ELSE stage
    /\ pool' = [pool EXCEPT ![p] = 0]
    /\ links' = links \ {<<p, pool[p]>>}
    /\ UNCHANGED <<attempts, used, ensures, working>>

(* DaemonBridge.close, as the app ends. *)
CloseBridge ==
    /\ stage # NoStage \/ \E p \in Projects : pool[p] # 0
    /\ stage' = NoStage
    /\ links' = links \ {<<p, pool[p]>> : p \in Projects}
    /\ pool' = [p \in Projects |-> 0]
    /\ UNCHANGED <<attempts, used, opened, ensures, working>>

AttemptStep == \E a \in attempts : Connected(a) \/ Proceeds(a) \/ Registered(a) \/ AttemptFails(a)

CockpitNext ==
    \/ AttemptStep \/ EnsureBegins \/ CloseBridge
    \/ \E p \in Projects : CallProject(p) \/ AskEnsure(p) \/ CloseProject(p)
    \/ \E l \in links : LinkEnds(l)

CockpitSpec == CockpitInit /\ [][CockpitNext]_cockpitVars

-----------------------------------------------------------------------------
(* Properties                                                              *)

(* Every connection that is up is pooled or belongs to the attempt under way,
   of which a project has at most one: none is leaked by callers that race,
   attempts that fail or projects that are closed meanwhile. *)
NoLeakedLink ==
    /\ \A l \in links : pool[l[1]] = l[2] \/ \E a \in attempts : <<a.of, a.link>> = l
    /\ \A a, b \in attempts : a.of = b.of => a = b

(* The project on the stage is talked to over its pooled connection. *)
StageIsPooled == stage # NoStage => pool[stage[1]] = stage[2]

(* An ensure that has begun waits for an attempt under way, never for nothing:
   the queue behind it moves on. *)
EnsureIsServed == working => ensures # <<>> /\ Connecting(Head(ensures))

LinksAreKept == NoLeakedLink /\ StageIsPooled /\ EnsureIsServed

(* What the tests promise of a daemon that goes away (daemon-bridge.test.ts:230
   "workspace.ensure reconnects after daemon.gone"): no dead connection is
   kept, so the next call connects again. *)
PooledIsUp == \A p \in Projects : pool[p] # 0 => <<p, pool[p]>> \in links
=============================================================================
