---------------------------- MODULE Window_proofs ----------------------------
(* Proofs about parts of the window: the landings a person asks for (LandOrder),
   the settings page and whoever else writes the settings (Settings), the prompts
   sent and refined (Composer), the console (Tui), the installer and the
   config.json that everybody shares (Updates), the dashboard (Dashboard), and
   what those promise together (Promises). *)
EXTENDS LandOrder, Promises, TLAPS, FiniteSetTheorems, SequenceTheorems, WellFoundedInduction

(***************************************************************************)
(* Landings.  While nothing but the lander moves, what it read is still so *)
(* (ReadStands), and the base is still the one it tries on (SameBase); what *)
(* it stopped was listed, and once stopped its tree stays as it was seen   *)
(* (HandsOn); and what it has landed stays landed (StayLanded).            *)
(***************************************************************************)
Statuses == {"idle", "running", "dead", "landed"}
Statused == [order: SUBSET (LandSessions \X LandSessions), ready: SUBSET LandSessions,
             unknown: SUBSET LandSessions, blocked: SUBSET LandSessions, read: BOOLEAN]
Landers ==
  [at: {"idle", "ask_live", "ask_warning", "ask_unknown", "status", "choose", "land", "closing", "stopped", "trying", "testing"},
   all: BOOLEAN, force: BOOLEAN, live: BOOLEAN, sure: BOOLEAN, one: LandSessions \cup {"none"},
   saw: Statused, hands: {"off", "close", "stop"}, base: Nat, landed: Seq(LandSessions),
   ended: {"no", "done", "cancelled", "blocked", "failed", "check", "conflict", "base_moved"}]
LandTyped ==
  /\ agentOf \in [LandSessions -> [status: Statuses, dirty: BOOLEAN, ahead: BOOLEAN]]
  /\ atOdds \subseteq LandSessions /\ discarded \subseteq LandSessions /\ quiet \in BOOLEAN
  /\ lander \in Landers /\ onBase \in Nat /\ rules.test \in {"none", "untrusted", "trusted"}
  /\ lander.at # "idle" => lander.ended = "no"

Landing == {"land", "closing", "stopped", "trying", "testing"}
ReadyNow == {s \in Listed : Landability(s) = "ready" /\ CommitsAhead(s)}
NoneAtOdds(ss) == \A s \in ss : s \notin atOdds /\ agentOf[s].status # "landed"

HasFirst(ss, order) == ss # {} => \E s \in ss : \A t \in ss \ {s} : <<s, t>> \in order

ReadStands ==
  /\ lander.at = "choose" =>
       HasFirst(lander.saw.ready, lander.saw.order) /\ HasFirst(lander.saw.unknown, lander.saw.order)
  /\ quiet /\ lander.at = "choose" =>
       lander.saw.ready = (IF lander.saw.read THEN ReadyNow ELSE {})
  /\ quiet /\ lander.at \in Landing => NoneAtOdds(lander.saw.ready)
SameBase == quiet /\ lander.at \in {"trying", "testing"} => lander.base = onBase
HandsOn ==
  /\ lander.at \in Landing => lander.one \in LandSessions
  /\ lander.at \notin Landing \cup {"idle"} => lander.hands = "off"
  /\ lander.at = "land" => lander.hands = "off"
  /\ lander.at = "closing" /\ lander.hands = "stop" => lander.one \in Listed
  /\ lander.at = "stopped" => lander.hands = "stop"
  /\ lander.at \in {"stopped", "trying", "testing"} /\ lander.hands = "stop" =>
       agentOf[lander.one].status = "dead" /\ ~agentOf[lander.one].dirty
  /\ lander.at = "testing" => agentOf[lander.one].status # "landed"
StayLanded == \A i \in DOMAIN lander.landed : agentOf[lander.landed[i]].status = "landed"
AllLanded == lander.all /\ lander.ended = "done" /\ quiet /\ lander.saw.read => ReadyNow = {}

LandIInv ==
  /\ LandTyped /\ ReadStands /\ SameBase /\ HandsOn /\ StayLanded /\ AllLanded
  /\ ReadyMeetsNoConflict /\ LateWritesAreKept /\ RefusedIsUntouched /\ IsInjective(lander.landed)

-----------------------------------------------------------------------------
(* The order of a status.                                                   *)

LEMMA LeastNat ==
  ASSUME NEW S \in SUBSET Nat, S # {}
  PROVE  \E m \in S : \A k \in S : m <= k
  <1> DEFINE R == {o \in Nat \X Nat : o[1] < o[2]}
  <1>1. IsWellFoundedOn(R, Nat)
    BY NatLessThanWellFounded DEF OpToRel
  <1>2. \E m \in S : \A k \in S : ~ (<<k, m>> \in R)
    <2> HIDE DEF R
    <2> QED BY <1>1, WFMin
  <1>3. PICK m \in S : \A k \in S : ~ (<<k, m>> \in R)
    BY <1>2
  <1>4. ASSUME NEW k \in S PROVE m <= k
    <2>1. <<k, m>> \in Nat \X Nat /\ <<k, m>>[1] = k /\ <<k, m>>[2] = m
      OBVIOUS
    <2>2. ~ (k < m)
      BY <1>3, <2>1
    <2> QED BY <2>1, <2>2
  <1> QED BY <1>4

LEMMA RankFinite == IsFiniteSet(LandSessions)
  <1>1. LandRank \in Seq(LandSessions) /\ DOMAIN LandRank = 1..Len(LandRank) /\ Len(LandRank) \in Nat
    BY LandOrderAssumption DEF LandSessions
  <1>2. LandRank \in Surjection(1..Len(LandRank), LandSessions)
    BY <1>1 DEF Surjection, LandSessions, ToSet
  <1>3. IsFiniteSet(1..Len(LandRank))
    BY <1>1, FS_Interval
  <1> QED BY <1>2, <1>3, FS_Surjection

(* Each has a place in the order, no two the same.                          *)
LEMMA RankOK ==
  /\ \A s \in LandSessions : Age(s) \in Nat /\ LandRank[Age(s)] = s
  /\ \A s \in LandSessions : Degree(s) \in Nat
  <1>1. LandRank \in Seq(LandSessions) /\ DOMAIN LandRank \subseteq Nat
    BY LandOrderAssumption DEF LandSessions
  <1>2. ASSUME NEW s \in LandSessions PROVE Age(s) \in Nat /\ LandRank[Age(s)] = s
    <2>1. \E i \in DOMAIN LandRank : LandRank[i] = s
      BY DEF LandSessions, ToSet
    <2> QED BY <1>1, <2>1 DEF Age
  <1>3. ASSUME NEW s \in LandSessions PROVE Degree(s) \in Nat
    <2>1. IsFiniteSet(SUBSET LandSessions)
      BY RankFinite, FS_SUBSET
    <2>2. {p \in LandPairs : s \in p /\ pairRow[p].result = "conflict"} \in SUBSET (SUBSET LandSessions)
      BY DEF LandPairs
    <2>3. IsFiniteSet({p \in LandPairs : s \in p /\ pairRow[p].result = "conflict"})
      BY <2>1, <2>2, FS_Subset
    <2> QED BY <2>3, FS_CardinalityType DEF Degree
  <1> QED BY <1>2, <1>3

(* Among any of the listed, one goes first.                                 *)
LEMMA OrderHasFirst ==
  ASSUME NEW ss, ss \subseteq Listed
  PROVE  HasFirst(ss, RecommendOrder)
  <1> SUFFICES ASSUME ss # {}
               PROVE  \E s \in ss : \A t \in ss \ {s} : <<s, t>> \in RecommendOrder
    BY DEF HasFirst
  <1>1. ss \subseteq LandSessions
    BY DEF Listed
  <1>2. PICK d \in {Degree(s) : s \in ss} : \A k \in {Degree(s) : s \in ss} : d <= k
    <2>1. {Degree(s) : s \in ss} \in SUBSET Nat /\ {Degree(s) : s \in ss} # {}
      BY <1>1, RankOK
    <2> QED BY <2>1, LeastNat
  <1> DEFINE least == {s \in ss : Degree(s) = d}
  <1>3. PICK a \in {Age(s) : s \in least} : \A k \in {Age(s) : s \in least} : a <= k
    <2>1. {Age(s) : s \in least} \in SUBSET Nat /\ {Age(s) : s \in least} # {}
      BY <1>1, <1>2, RankOK
    <2> QED BY <2>1, LeastNat
  <1>4. PICK s \in least : Age(s) = a
    OBVIOUS
  <1>5. ASSUME NEW t \in ss \ {s} PROVE <<s, t>> \in RecommendOrder
    <2>1. s \in Listed /\ t \in Listed /\ s \in LandSessions /\ t \in LandSessions
      BY <1>1
    <2>2. Degree(s) = d /\ d <= Degree(t) /\ Degree(t) \in Nat /\ d \in Nat
      BY <1>2, <2>1, RankOK
    <2>3. CASE Degree(t) = d
      <3>1. Age(s) <= Age(t)
        BY <1>3, <1>4, <2>3
      <3>2. Age(s) # Age(t)
        BY <2>1, RankOK
      <3>3. Age(s) < Age(t)
        BY <2>1, <3>1, <3>2, RankOK
      <3> QED BY <2>1, <2>2, <2>3, <3>3 DEF RecommendOrder
    <2>4. CASE Degree(t) # d
      <3>1. Degree(s) < Degree(t)
        BY <2>2, <2>4
      <3> QED BY <2>1, <3>1 DEF RecommendOrder
    <2> QED BY <2>3, <2>4
  <1> QED BY <1>5

LEMMA ChosenIsCandidate ==
  ASSUME LandIInv, lander.at = "choose", Candidates(lander.saw, lander.force) # {}
  PROVE  ChooseNextLand(lander.saw, lander.force) \in Candidates(lander.saw, lander.force)
  BY DEF LandIInv, ReadStands, HasFirst, Candidates, ChooseNextLand

-----------------------------------------------------------------------------
(* The steps.                                                               *)

LEMMA LandInitOK == LandOrderInit => LandIInv
  <1> SUFFICES ASSUME LandOrderInit PROVE LandIInv
    OBVIOUS
  <1>1. NoLander \in Landers
    <2>1. <<>> \in Seq(LandSessions)
      BY EmptySeq
    <2> QED BY <2>1 DEF Landers, NoLander, NoStatus, Statused
  <1>2. lander = NoLander /\ NoLander.at = "idle" /\ NoLander.ended = "no" /\ NoLander.hands = "off" /\ NoLander.landed = <<>>
    BY DEF LandOrderInit, NoLander
  <1>3. LandTyped
    BY <1>1, <1>2 DEF LandOrderInit, LandTyped, Statuses
  <1>4. DOMAIN lander.landed = {} /\ IsInjective(lander.landed)
    BY <1>2 DEF IsInjective
  <1> QED BY <1>2, <1>3, <1>4 DEF LandOrderInit, LandIInv, ReadStands, Landing, SameBase, HandsOn, StayLanded, AllLanded,
                            ReadyMeetsNoConflict, LateWritesAreKept, RefusedIsUntouched

(* Another moves: what was read may not be so any more, and the lander, who has
   hold of a session, keeps it.                                             *)
LEMMA WorldOK ==
  ASSUME LandIInv,
         (\E s \in LandSessions : ShellTurns(s) \/ AgentWrites(s) \/ AgentCommits(s)) \/ BaseMoves \/ TrialRuns
  PROVE  LandIInv'
  <1>1. ~quiet' /\ quiet' \in BOOLEAN /\ UNCHANGED <<lander, discarded>>
    BY DEF ShellTurns, AgentWrites, AgentCommits, BaseMoves, TrialRuns, WorldMoves
  <1>2. /\ agentOf' \in [LandSessions -> [status: Statuses, dirty: BOOLEAN, ahead: BOOLEAN]]
        /\ atOdds' \subseteq LandSessions /\ onBase' \in Nat /\ rules' = rules
        /\ \A s \in LandSessions :
              /\ agentOf[s].status = "landed" => agentOf'[s].status = "landed"
              /\ agentOf[s].status \in {"idle", "running"} => agentOf'[s].status \in {"idle", "running"}
              /\ agentOf[s].status = "dead" => agentOf'[s].status = "dead"
              /\ agentOf[s].status = "dead" /\ ~agentOf[s].dirty => ~agentOf'[s].dirty
    <2> USE DEF LandIInv, LandTyped, Statuses, Listed
    <2>1. ASSUME NEW s \in LandSessions, ShellTurns(s) PROVE <1>2
      BY <2>1 DEF ShellTurns
    <2>2. ASSUME NEW s \in LandSessions, AgentWrites(s) PROVE <1>2
      BY <2>2 DEF AgentWrites
    <2>3. ASSUME NEW s \in LandSessions, AgentCommits(s) PROVE <1>2
      BY <2>3 DEF AgentCommits
    <2>4. CASE BaseMoves
      BY <2>4 DEF BaseMoves
    <2>5. CASE TrialRuns
      BY <2>5 DEF TrialRuns
    <2> QED BY <2>1, <2>2, <2>3, <2>4, <2>5
  <1>3. LandTyped'
    BY <1>1, <1>2 DEF LandIInv, LandTyped
  <1>4. ReadStands' /\ AllLanded' /\ SameBase' /\ RefusedIsUntouched'
    BY <1>1 DEF LandIInv, ReadStands, AllLanded, SameBase, RefusedIsUntouched, Forced
  <1>5. HandsOn'
    <2>1. lander.at \in Landing => lander.one \in LandSessions
      BY DEF LandIInv, HandsOn
    <2>2. ASSUME lander.at \in Landing
          PROVE  /\ lander.one \in Listed => lander.one \in Listed'
                 /\ agentOf[lander.one].status = "dead" /\ ~agentOf[lander.one].dirty =>
                       agentOf'[lander.one].status = "dead" /\ ~agentOf'[lander.one].dirty
                 /\ agentOf[lander.one].status # "landed" => agentOf'[lander.one].status # "landed"
      <3>1. agentOf[lander.one].status \in Statuses
        BY <2>1, <2>2 DEF LandIInv, LandTyped
      <3> QED BY <1>2, <2>1, <2>2, <3>1 DEF Listed, Statuses
    <2> QED BY <1>1, <2>1, <2>2 DEF LandIInv, HandsOn, Landing
  <1>6. StayLanded'
    <2>1. lander.landed \in Seq(LandSessions)
      BY DEF LandIInv, LandTyped, Landers
    <2>2. ASSUME NEW i \in DOMAIN lander.landed PROVE agentOf'[lander.landed[i]].status = "landed"
      <3>1. lander.landed[i] \in LandSessions
        BY <2>1
      <3>2. agentOf[lander.landed[i]].status = "landed"
        BY DEF LandIInv, StayLanded
      <3> QED BY <1>2, <3>1, <3>2
    <2> QED BY <1>1, <2>2 DEF StayLanded
  <1> QED BY <1>1, <1>3, <1>4, <1>5, <1>6 DEF LandIInv, ReadyMeetsNoConflict, LateWritesAreKept

LEMMA ReadyUnchanged == ASSUME UNCHANGED landWorld PROVE ReadyNow' = ReadyNow /\ Listed' = Listed
  BY DEF landWorld, ReadyNow, Listed, Degraded, Landability, CommitsAhead, ConflictsWithBase

(* The lander stops, for whatever reason but these.                         *)
LEMMA StopsOK ==
  ASSUME LandIInv, lander.at # "idle", UNCHANGED <<landWorld, quiet, discarded>>,
         NEW why \in {"cancelled", "blocked", "failed"}, Stops(why)
  PROVE  LandIInv'
  <1>1. lander \in Landers /\ lander' = [lander EXCEPT !.at = "idle", !.base = 0, !.ended = why]
    BY DEF Stops, LandIInv, LandTyped
  <1>2. /\ lander' \in Landers /\ lander'.at = "idle" /\ lander'.ended = why /\ lander'.landed = lander.landed
        /\ lander'.hands = lander.hands /\ lander'.force = lander.force /\ lander'.live = lander.live
    BY <1>1 DEF Landers
  <1>3. LandTyped'
    BY <1>2 DEF LandIInv, LandTyped, landWorld
  <1>4. StayLanded' /\ IsInjective(lander'.landed) /\ RefusedIsUntouched'
    BY <1>2 DEF LandIInv, StayLanded, landWorld, RefusedIsUntouched, Forced
  <1> QED BY <1>2, <1>3, <1>4 DEF LandIInv, ReadStands, SameBase, HandsOn, Landing, AllLanded, ReadyMeetsNoConflict,
                            LateWritesAreKept

(* The lander begins, or waits for an answer.                               *)
LEMMA AsksOK ==
  ASSUME LandIInv,
         \/ LandAllAsked \/ LiveAnswered \/ WarningAnswered \/ UnknownAnswered
         \/ \E s \in LandSessions : LandAsked(s) \/ LandNamed(s)
  PROVE  LandIInv'
  <1>1. UNCHANGED <<landWorld, quiet, discarded>>
    BY DEF LandAllAsked, LiveAnswered, WarningAnswered, UnknownAnswered, LandAsked, LandNamed
  <1> DEFINE Begun(l) ==
        /\ l \in Landers /\ l.at \in {"idle", "ask_live", "ask_warning", "status", "land"} /\ l.hands = "off"
        /\ l.landed = lander.landed \/ l.landed = <<>>
        /\ l.ended \in {"no", "failed", "cancelled"} /\ (l.at # "idle" => l.ended = "no")
        /\ l.at = "land" => l.one \in LandSessions /\ l.saw.ready = {}
  <1>2. Begun(lander')
    <2>0. /\ lander \in Landers /\ NoLander \in Landers /\ NoLander.landed = <<>> /\ NoLander.hands = "off"
          /\ NoLander.at = "idle" /\ NoLander.ended = "no" /\ NoLander.saw.ready = {}
          /\ (lander.at # "idle" => lander.ended = "no")
          /\ lander.at \in {"ask_live", "ask_warning", "ask_unknown"} => lander.hands = "off"
      <3>1. <<>> \in Seq(LandSessions)
        BY EmptySeq
      <3> QED BY <3>1 DEF LandIInv, LandTyped, HandsOn, Landing, NoLander, NoStatus, Landers, Statused
    <2> USE <2>0 DEF Landers, Warned, Stops
    <2>1. CASE LandAllAsked
      <3>1. PICK f \in BOOLEAN : lander' = [NoLander EXCEPT !.at = "status", !.all = TRUE, !.force = f]
        BY <2>1 DEF LandAllAsked
      <3> QED BY <3>1
    <2>2. CASE LiveAnswered
      <3>1. CASE Stops("cancelled")
        BY <2>2, <3>1 DEF LiveAnswered
      <3>2. CASE lander' \in Warned([lander EXCEPT !.live = TRUE])
        <4>1. PICK a \in {"status", "ask_warning"} : lander' = [[lander EXCEPT !.live = TRUE] EXCEPT !.at = a]
          BY <3>2
        <4> QED BY <2>2, <4>1 DEF LiveAnswered
      <3> QED BY <2>2, <3>1, <3>2 DEF LiveAnswered
    <2>3. CASE WarningAnswered
      <3>1. CASE lander' = [lander EXCEPT !.at = "status"]
        BY <2>3, <3>1 DEF WarningAnswered
      <3>2. CASE lander' = [lander EXCEPT !.at = "idle", !.base = 0, !.ended = "cancelled"]
        BY <2>3, <3>2 DEF WarningAnswered
      <3> QED BY <2>3, <3>1, <3>2 DEF WarningAnswered
    <2>4. CASE UnknownAnswered
      <3>1. CASE lander' = [lander EXCEPT !.at = "status", !.sure = TRUE]
        BY <2>4, <3>1 DEF UnknownAnswered
      <3>2. CASE lander' = [lander EXCEPT !.at = "idle", !.base = 0, !.ended = "cancelled"]
        BY <2>4, <3>2 DEF UnknownAnswered
      <3> QED BY <2>4, <3>1, <3>2 DEF UnknownAnswered
    <2>5. ASSUME NEW s \in LandSessions, LandNamed(s) PROVE Begun(lander')
      <3>1. PICK f \in BOOLEAN : lander' = [NoLander EXCEPT !.at = "land", !.one = s, !.force = f]
        BY <2>5 DEF LandNamed
      <3> QED BY <3>1
    <2>6. ASSUME NEW s \in LandSessions, LandAsked(s) PROVE Begun(lander')
      <3> DEFINE of == [NoLander EXCEPT !.one = s]
      <3>1. of \in Landers /\ of.landed = <<>> /\ of.ended = "no" /\ of.hands = "off" /\ of.at = "idle"
        OBVIOUS
      <3>2. \/ lander' = [of EXCEPT !.ended = "failed"] \/ lander' = [of EXCEPT !.at = "ask_live"]
            \/ \E a \in {"status", "ask_warning"} : lander' = [of EXCEPT !.at = a]
        BY <2>6 DEF LandAsked
      <3> HIDE DEF of
      <3>3. CASE lander' = [of EXCEPT !.ended = "failed"]
        BY <3>1, <3>3
      <3>4. CASE lander' = [of EXCEPT !.at = "ask_live"]
        BY <3>1, <3>4
      <3>5. ASSUME NEW a \in {"status", "ask_warning"}, lander' = [of EXCEPT !.at = a] PROVE Begun(lander')
        BY <3>1, <3>5
      <3> QED BY <3>2, <3>3, <3>4, <3>5
    <2> QED BY <2>1, <2>2, <2>3, <2>4, <2>5, <2>6
  <1> HIDE DEF Begun
  <1>3. LandTyped'
    BY <1>1, <1>2 DEF LandIInv, LandTyped, landWorld, Begun
  <1>4. StayLanded' /\ IsInjective(lander'.landed)
    <2>1. DOMAIN <<>> = {} /\ IsInjective(<<>>)
      BY DEF IsInjective
    <2> QED BY <1>1, <1>2, <2>1 DEF LandIInv, StayLanded, landWorld, Begun
  <1>5. ReadStands' /\ HandsOn'
    BY <1>2 DEF Begun, ReadStands, NoneAtOdds, HandsOn, Landing
  <1> QED BY <1>1, <1>2, <1>3, <1>4, <1>5 DEF LandIInv, Begun, SameBase, AllLanded, ReadyMeetsNoConflict, LateWritesAreKept,
                            RefusedIsUntouched

LEMMA FetchOK == ASSUME LandIInv, FetchStatus PROVE LandIInv'
  <1>1. UNCHANGED landWorld /\ ReadyNow' = ReadyNow
    BY ReadyUnchanged DEF FetchStatus
  <1>2. PICK st \in {ConvergeStatus, HeadUnread} : lander' = [lander EXCEPT !.at = "choose", !.saw = st]
    BY DEF FetchStatus
  <1>3. /\ st \in Statused /\ st.order = RecommendOrder /\ st.ready \subseteq Listed /\ st.unknown \subseteq Listed
        /\ st.ready = (IF st.read THEN ReadyNow ELSE {})
    <2>1. /\ ConvergeStatus \in Statused /\ ConvergeStatus.order = RecommendOrder
          /\ ConvergeStatus.ready = ReadyNow /\ ConvergeStatus.read = TRUE
          /\ ConvergeStatus.ready \subseteq Listed /\ ConvergeStatus.unknown \subseteq Listed
      <3>1. RecommendOrder \subseteq LandSessions \X LandSessions /\ Listed \subseteq LandSessions
        BY DEF RecommendOrder, Listed
      <3> QED BY <3>1 DEF ConvergeStatus, Statused, ReadyNow
    <2>2. /\ HeadUnread \in Statused /\ HeadUnread.order = RecommendOrder
          /\ HeadUnread.ready = {} /\ HeadUnread.read = FALSE /\ HeadUnread.unknown = Listed
      <3>1. Listed \subseteq LandSessions /\ {} \subseteq LandSessions
        BY DEF Listed
      <3> HIDE DEF ConvergeStatus
      <3> QED BY <2>1, <3>1 DEF HeadUnread, Statused
    <2>3. CASE st = ConvergeStatus
      BY <2>1, <2>3
    <2>4. CASE st = HeadUnread
      BY <2>2, <2>4
    <2> QED BY <1>2, <2>3, <2>4
  <1> HIDE DEF ConvergeStatus, HeadUnread
  <1>4. /\ lander' \in Landers /\ lander'.at = "choose" /\ lander'.saw = st /\ lander'.hands = "off"
        /\ lander'.ended = "no" /\ lander'.landed = lander.landed
        /\ quiet' = TRUE /\ discarded' = discarded
    BY <1>2, <1>3 DEF FetchStatus, LandIInv, LandTyped, HandsOn, Landing, Landers
  <1>5. LandTyped'
    BY <1>1, <1>4 DEF LandIInv, LandTyped, landWorld
  <1>6. ReadStands'
    <2>1. HasFirst(st.ready, st.order) /\ HasFirst(st.unknown, st.order)
      BY <1>3, OrderHasFirst
    <2> QED BY <1>1, <1>3, <1>4, <2>1 DEF ReadStands, HasFirst, Landing
  <1>7. StayLanded' /\ IsInjective(lander'.landed)
    BY <1>1, <1>4 DEF LandIInv, StayLanded, landWorld
  <1> QED BY <1>1, <1>4, <1>5, <1>6, <1>7 DEF LandIInv, SameBase, HandsOn, Landing, AllLanded, ReadyMeetsNoConflict,
                            LateWritesAreKept, RefusedIsUntouched

(* What it picks is of what it read; it is done when there is none.         *)
LEMMA ChooseOK == ASSUME LandIInv, ChooseAll \/ ChooseOne PROVE LandIInv'
  <1>1. UNCHANGED <<landWorld, quiet, discarded>> /\ ReadyNow' = ReadyNow /\ Listed' = Listed
    BY ReadyUnchanged DEF ChooseAll, ChooseOne
  <1>2. /\ lander.at = "choose" /\ lander' \in Landers /\ lander.hands = "off"
        /\ lander'.at \in {"idle", "ask_unknown", "land"} /\ lander'.saw = lander.saw /\ lander'.landed = lander.landed
        /\ lander'.ended \in {"no", "done", "blocked", "failed"} /\ (lander'.at # "idle" => lander'.ended = "no")
        /\ lander'.all /\ lander'.ended = "done" => lander.saw.ready = {}
        /\ lander'.at = "land" => lander'.one \in LandSessions
        /\ lander'.hands = lander.hands
    <2>0. lander \in Landers /\ lander.at = "choose" /\ lander.ended = "no" /\ lander.hands = "off"
      BY DEF LandIInv, LandTyped, HandsOn, Landing, ChooseAll, ChooseOne
    <2> USE <2>0 DEF Landers
    <2>1. CASE ChooseAll
      <3>1. CASE Candidates(lander.saw, lander.force) = {}
        <4>1. lander' = [lander EXCEPT !.at = "idle", !.base = 0, !.ended = "done"]
          BY <2>1, <3>1 DEF ChooseAll, Stops
        <4>2. lander.saw.ready = {}
          BY <3>1 DEF Candidates
        <4> QED BY <4>1, <4>2
      <3>2. CASE Candidates(lander.saw, lander.force) # {}
        <4>1. ChooseNextLand(lander.saw, lander.force) \in lander.saw.ready \cup lander.saw.unknown
          BY <3>2, ChosenIsCandidate DEF Candidates
        <4>2. ChooseNextLand(lander.saw, lander.force) \in LandSessions
          BY <4>1 DEF Statused
        <4>3. lander' = [lander EXCEPT !.at = "land", !.one = ChooseNextLand(lander.saw, lander.force)]
          BY <2>1, <3>2 DEF ChooseAll
        <4> HIDE DEF ChooseNextLand
        <4> QED BY <4>2, <4>3
      <3> QED BY <3>1, <3>2
    <2>2. CASE ChooseOne
      <3>1. ~lander.all
        BY <2>2 DEF ChooseOne
      <3>2. \/ \E w \in {"blocked", "failed"} : lander' = [lander EXCEPT !.at = "idle", !.base = 0, !.ended = w]
            \/ lander' = [lander EXCEPT !.at = "ask_unknown"]
            \/ /\ lander' = [lander EXCEPT !.at = "land"]
               /\ lander.one \in lander.saw.ready \cup lander.saw.unknown
        BY <2>2 DEF ChooseOne, Stops
      <3>3. lander.saw.ready \cup lander.saw.unknown \subseteq LandSessions
        BY DEF Statused
      <3>4. ASSUME NEW w \in {"blocked", "failed"}, lander' = [lander EXCEPT !.at = "idle", !.base = 0, !.ended = w]
            PROVE  <1>2
        BY <3>1, <3>4
      <3>5. CASE lander' = [lander EXCEPT !.at = "ask_unknown"]
        BY <3>1, <3>5
      <3>6. CASE lander' = [lander EXCEPT !.at = "land"] /\ lander.one \in lander.saw.ready \cup lander.saw.unknown
        BY <3>1, <3>3, <3>6
      <3> QED BY <3>2, <3>4, <3>5, <3>6
    <2> QED BY <2>1, <2>2
  <1>3. LandTyped'
    BY <1>1, <1>2 DEF LandIInv, LandTyped, landWorld
  <1>4. quiet => NoneAtOdds(lander.saw.ready)'
    <2>1. quiet => lander.saw.ready \subseteq ReadyNow
      BY <1>2 DEF LandIInv, ReadStands
    <2>2. NoneAtOdds(ReadyNow)
      BY DEF NoneAtOdds, ReadyNow, Landability, ConflictsWithBase, Listed
    <2> QED BY <1>1, <1>2, <2>1, <2>2 DEF NoneAtOdds, landWorld
  <1>5. ReadStands' /\ HandsOn'
    BY <1>1, <1>2, <1>4 DEF ReadStands, HandsOn, Landing
  <1>6. AllLanded'
    BY <1>1, <1>2 DEF LandIInv, ReadStands, AllLanded
  <1>7. StayLanded' /\ IsInjective(lander'.landed)
    BY <1>1, <1>2 DEF LandIInv, StayLanded, landWorld
  <1> QED BY <1>1, <1>2, <1>3, <1>5, <1>6, <1>7 DEF LandIInv, SameBase, ReadyMeetsNoConflict, LateWritesAreKept,
                            RefusedIsUntouched

(* A refusal for want of a check comes before anything else is done.         *)
LEMMA BeginsOK == ASSUME LandIInv, LandBegins PROVE LandIInv'
  <1>1. UNCHANGED <<landWorld, quiet, discarded>> /\ ReadyNow' = ReadyNow /\ Listed' = Listed
    BY ReadyUnchanged DEF LandBegins
  <1>2. lander \in Landers /\ lander.at = "land" /\ lander.hands = "off" /\ lander.ended = "no" /\ lander.one \in LandSessions
    BY DEF LandBegins, LandIInv, LandTyped, HandsOn, Landing
  <1>3. CASE Stops("failed")
    BY <1>1, <1>2, <1>3, StopsOK
  <1>4. CASE ~Stops("failed")
    <2>1. \/ lander' = [lander EXCEPT !.at = "idle", !.base = 0, !.ended = "check"]
          \/ \E h \in {"close", "stop"} :
                /\ lander' = [lander EXCEPT !.at = "closing", !.hands = h]
                /\ h = "stop" => Forced /\ LiveRow(lander.one)
      BY <1>4 DEF LandBegins, Stops
    <2>2. /\ lander' \in Landers /\ lander'.at \in {"idle", "closing"} /\ lander'.ended \in {"no", "check"}
          /\ lander'.saw = lander.saw /\ lander'.one = lander.one /\ lander'.landed = lander.landed
          /\ lander'.force = lander.force /\ lander'.live = lander.live
          /\ (lander'.at # "idle" => lander'.ended = "no")
          /\ lander'.ended = "check" => lander'.hands = "off"
          /\ lander'.hands = "stop" => Forced /\ LiveRow(lander.one)
      <3>1. CASE lander' = [lander EXCEPT !.at = "idle", !.base = 0, !.ended = "check"]
        BY <1>2, <3>1 DEF Landers
      <3>2. ASSUME NEW h \in {"close", "stop"}, h = "stop" => Forced /\ LiveRow(lander.one),
                   lander' = [lander EXCEPT !.at = "closing", !.hands = h]
            PROVE  <2>2
        BY <1>2, <3>2 DEF Landers
      <3> QED BY <2>1, <3>1, <3>2
    <2>3. LandTyped'
      BY <1>1, <2>2 DEF LandIInv, LandTyped, landWorld
    <2>4. ReadStands'
      BY <1>1, <1>2, <2>2 DEF LandIInv, ReadStands, NoneAtOdds, Landing, landWorld
    <2>5. HandsOn' /\ RefusedIsUntouched'
      BY <1>1, <1>2, <2>2 DEF HandsOn, Landing, LiveRow, Listed, RefusedIsUntouched, Forced
    <2>6. StayLanded' /\ IsInjective(lander'.landed)
      BY <1>1, <2>2 DEF LandIInv, StayLanded, landWorld
    <2> QED BY <1>1, <2>2, <2>3, <2>4, <2>5, <2>6 DEF LandIInv, SameBase, AllLanded, ReadyMeetsNoConflict, LateWritesAreKept
  <1> QED BY <1>3, <1>4

(* A live session is stopped: no shell of it writes after that.             *)
LEMMA StoppedOK == ASSUME LandIInv, LandStopped PROVE LandIInv'
  <1>1. /\ UNCHANGED <<atOdds, onBase, rules, quiet, discarded>> /\ lander.at = "closing" /\ lander.hands = "stop"
        /\ agentOf' = [agentOf EXCEPT ![lander.one].status = "dead"]
    BY DEF LandStopped
  <1>2. /\ lander \in Landers /\ lander.one \in LandSessions /\ agentOf[lander.one].status \in {"idle", "running"}
        /\ lander.ended = "no"
    BY <1>1 DEF LandIInv, LandTyped, HandsOn, Landing, Listed
  <1>3. /\ lander' \in Landers /\ lander'.at \in {"idle", "stopped"}
        /\ lander'.saw = lander.saw /\ lander'.one = lander.one /\ lander'.landed = lander.landed
        /\ lander'.hands = "stop" /\ lander'.force = lander.force /\ lander'.live = lander.live
        /\ lander'.ended \in {"no", "failed"} /\ (lander'.at # "idle" => lander'.ended = "no")
        /\ lander'.at = "stopped" => ~agentOf[lander.one].dirty
    <2>1. \/ lander' = [lander EXCEPT !.at = "stopped"] /\ ~agentOf[lander.one].dirty
          \/ lander' = [lander EXCEPT !.at = "idle", !.base = 0, !.ended = "failed"]
      BY DEF LandStopped, Stops, TreeClean
    <2>2. CASE lander' = [lander EXCEPT !.at = "stopped"] /\ ~agentOf[lander.one].dirty
      BY <1>1, <1>2, <2>2 DEF Landers
    <2>3. CASE lander' = [lander EXCEPT !.at = "idle", !.base = 0, !.ended = "failed"]
      BY <1>1, <1>2, <2>3 DEF Landers
    <2> QED BY <2>1, <2>2, <2>3
  <1>4. /\ agentOf' \in [LandSessions -> [status: Statuses, dirty: BOOLEAN, ahead: BOOLEAN]]
        /\ agentOf'[lander.one].status = "dead" /\ agentOf'[lander.one].dirty = agentOf[lander.one].dirty
        /\ \A s \in LandSessions : agentOf'[s].status = "landed" <=> agentOf[s].status = "landed"
    BY <1>1, <1>2 DEF LandIInv, LandTyped, Statuses
  <1>5. LandTyped'
    BY <1>1, <1>3, <1>4 DEF LandIInv, LandTyped
  <1>6. ReadStands'
    <2>1. lander.saw.ready \subseteq LandSessions
      BY <1>2 DEF Landers, Statused
    <2> QED BY <1>1, <1>3, <1>4, <2>1 DEF LandIInv, ReadStands, NoneAtOdds, Landing
  <1>7. HandsOn' /\ RefusedIsUntouched'
    BY <1>1, <1>2, <1>3, <1>4 DEF LandIInv, HandsOn, Landing, RefusedIsUntouched, Forced
  <1>8. StayLanded' /\ IsInjective(lander'.landed)
    <2>1. lander.landed \in Seq(LandSessions)
      BY <1>2 DEF Landers
    <2>2. ASSUME NEW i \in DOMAIN lander.landed PROVE agentOf'[lander.landed[i]].status = "landed"
      <3>1. lander.landed[i] \in LandSessions
        BY <2>1
      <3>2. agentOf[lander.landed[i]].status = "landed"
        BY DEF LandIInv, StayLanded
      <3> QED BY <1>4, <3>1, <3>2
    <2> QED BY <1>3, <2>2 DEF LandIInv, StayLanded
  <1> QED BY <1>1, <1>3, <1>5, <1>6, <1>7, <1>8 DEF LandIInv, SameBase, AllLanded, ReadyMeetsNoConflict, LateWritesAreKept

LEMMA EntersOK == ASSUME LandIInv, LandEnters PROVE LandIInv'
  <1>1. UNCHANGED <<landWorld, quiet, discarded>> /\ lander.at \in {"stopped", "closing"}
    BY DEF LandEnters
  <1>2. CASE Stops("failed")
    BY <1>1, <1>2, StopsOK
  <1>3. CASE lander' = [lander EXCEPT !.at = "trying", !.base = onBase]
    <2>1. lander \in Landers /\ onBase \in Nat /\ lander.ended = "no" /\ lander.one \in LandSessions
      BY <1>1 DEF LandIInv, LandTyped, HandsOn, Landing
    <2>2. /\ lander' \in Landers /\ lander'.at = "trying" /\ lander'.base = onBase /\ lander'.ended = "no"
          /\ lander'.saw = lander.saw /\ lander'.one = lander.one /\ lander'.landed = lander.landed
          /\ lander'.force = lander.force /\ lander'.live = lander.live /\ lander'.hands = lander.hands
      BY <1>3, <2>1 DEF Landers
    <2>3. LandTyped'
      BY <1>1, <2>2 DEF LandIInv, LandTyped, landWorld
    <2>4. ReadStands' /\ SameBase'
      BY <1>1, <2>2 DEF LandIInv, ReadStands, NoneAtOdds, Landing, landWorld, SameBase
    <2>5. lander.hands = "stop" => lander.at = "stopped"
      BY DEF LandEnters
    <2>6. HandsOn' /\ RefusedIsUntouched'
      BY <1>1, <2>1, <2>2, <2>5 DEF LandIInv, HandsOn, Landing, landWorld, RefusedIsUntouched, Forced
    <2>7. StayLanded' /\ IsInjective(lander'.landed)
      BY <1>1, <2>2 DEF LandIInv, StayLanded, landWorld
    <2> QED BY <1>1, <2>2, <2>3, <2>4, <2>6, <2>7 DEF LandIInv, AllLanded, ReadyMeetsNoConflict, LateWritesAreKept
  <1> QED BY <1>2, <1>3 DEF LandEnters

(* It stops on a conflict or a base that moved, neither of which it had read
   of as ready while nothing else moved.                                    *)
LEMMA MetOK ==
  ASSUME LandIInv, lander.at \in {"trying", "testing"}, UNCHANGED <<landWorld, quiet, discarded>>,
         NEW why \in {"conflict", "base_moved"}, Stops(why),
         lander.one \in atOdds \/ agentOf[lander.one].status = "landed" \/ lander.base # onBase
  PROVE  LandIInv'
  <1>1. lander \in Landers /\ lander' = [lander EXCEPT !.at = "idle", !.base = 0, !.ended = why]
    BY DEF Stops, LandIInv, LandTyped
  <1>2. /\ lander' \in Landers /\ lander'.at = "idle" /\ lander'.ended = why /\ lander'.landed = lander.landed
        /\ lander'.one = lander.one /\ lander'.saw = lander.saw
        /\ lander'.hands = lander.hands /\ lander'.force = lander.force /\ lander'.live = lander.live
    BY <1>1 DEF Landers
  <1>3. quiet => lander.one \notin lander.saw.ready
    BY DEF LandIInv, ReadStands, NoneAtOdds, Landing, SameBase
  <1>4. LandTyped'
    BY <1>2 DEF LandIInv, LandTyped, landWorld
  <1>5. StayLanded' /\ IsInjective(lander'.landed) /\ RefusedIsUntouched'
    BY <1>2 DEF LandIInv, StayLanded, landWorld, RefusedIsUntouched, Forced
  <1> QED BY <1>2, <1>3, <1>4, <1>5 DEF LandIInv, ReadStands, SameBase, HandsOn, Landing, AllLanded, ReadyMeetsNoConflict,
                            LateWritesAreKept

(* It merges, unless the base has moved or the repository refuses.          *)
LEMMA MergesOK ==
  ASSUME LandIInv, lander.at \in {"trying", "testing"}, agentOf[lander.one].status # "landed", Merges, UNCHANGED quiet
  PROVE  LandIInv'
  <1> DEFINE s == lander.one
  <1>1. /\ lander \in Landers /\ s \in LandSessions /\ lander.ended = "no" /\ onBase \in Nat
        /\ lander.hands = "stop" => ~agentOf[s].dirty
    BY DEF LandIInv, LandTyped, HandsOn, Landing
  <1>2. CASE Stops("base_moved") /\ UNCHANGED <<landWorld, discarded>> /\ lander.base # onBase
    BY <1>2, MetOK
  <1>3. CASE Stops("failed") /\ UNCHANGED <<landWorld, discarded>>
    BY <1>3, StopsOK
  <1>4. CASE /\ onBase' = IF agentOf[s].ahead THEN onBase + 1 ELSE onBase
             /\ agentOf' = [agentOf EXCEPT ![s] = [status |-> "landed", dirty |-> FALSE, ahead |-> FALSE]]
             /\ rules' = rules
             /\ atOdds' = IF agentOf[s].ahead THEN atOdds \cup {t \in Listed \ {s} : {s, t} \in clashes} ELSE atOdds
             /\ discarded' = IF agentOf[s].dirty /\ lander.hands = "stop" THEN discarded \cup {s} ELSE discarded
             /\ lander' = IF lander.all
                          THEN [lander EXCEPT !.at = "status", !.hands = "off", !.landed = Append(@, s)]
                          ELSE [lander EXCEPT !.at = "idle", !.landed = <<s>>, !.ended = "done"]
    <2>2. lander.landed \in Seq(LandSessions) /\ Append(lander.landed, s) \in Seq(LandSessions) /\ <<s>> \in Seq(LandSessions)
      <3>1. lander.landed \in Seq(LandSessions)
        BY <1>1 DEF Landers
      <3>2. s \in LandSessions
        BY <1>1
      <3> HIDE DEF s
      <3>3. Append(lander.landed, s) \in Seq(LandSessions)
        BY <3>1, <3>2, AppendProperties
      <3>4. <<s>> \in Seq(LandSessions)
        BY <3>2
      <3> QED BY <3>1, <3>3, <3>4
    <2>3. /\ lander' \in Landers /\ lander'.at \in {"idle", "status"} /\ lander'.ended \in {"no", "done"}
          /\ lander'.at # "idle" => lander'.ended = "no" /\ lander'.hands = "off"
          /\ ~ (lander'.all /\ lander'.ended = "done")
          /\ lander'.landed = Append(lander.landed, s) \/ lander'.landed = <<s>>
          /\ lander'.hands = "stop" => lander.hands = "stop"
          /\ lander'.force = lander.force /\ lander'.live = lander.live
      BY <1>1, <1>4, <2>2 DEF Landers
    <2>4. discarded' = discarded
      BY <1>1, <1>4
    <2>5. /\ agentOf' \in [LandSessions -> [status: Statuses, dirty: BOOLEAN, ahead: BOOLEAN]]
          /\ agentOf'[s].status = "landed"
          /\ \A t \in LandSessions : agentOf[t].status = "landed" => agentOf'[t].status = "landed"
      BY <1>1, <1>4 DEF LandIInv, LandTyped, Statuses
    <2>6. LandTyped'
      BY <1>1, <1>4, <2>3, <2>4, <2>5 DEF LandIInv, LandTyped, Listed
    <2>7. StayLanded' /\ IsInjective(lander'.landed)
      <3>1. CASE lander'.landed = <<s>>
        BY <2>5, <3>1 DEF StayLanded, IsInjective
      <3>2. CASE lander'.landed = Append(lander.landed, s)
        <4>1. /\ DOMAIN Append(lander.landed, s) = 1..(Len(lander.landed) + 1) /\ Len(lander.landed) \in Nat
              /\ DOMAIN lander.landed = 1..Len(lander.landed)
              /\ Append(lander.landed, s)[Len(lander.landed) + 1] = s
              /\ \A i \in 1..Len(lander.landed) : Append(lander.landed, s)[i] = lander.landed[i]
          BY <2>2, <1>1
        <4>2. \A i \in 1..Len(lander.landed) :
                 /\ lander.landed[i] \in LandSessions /\ agentOf[lander.landed[i]].status = "landed"
                 /\ lander.landed[i] # s
          BY <2>2, <4>1 DEF LandIInv, StayLanded
        <4>3. StayLanded'
          <5>1. ASSUME NEW i \in 1..(Len(lander.landed) + 1)
                PROVE  agentOf'[Append(lander.landed, s)[i]].status = "landed"
            <6>1. CASE i = Len(lander.landed) + 1
              BY <2>5, <4>1, <6>1
            <6>2. CASE i \in 1..Len(lander.landed)
              BY <2>5, <4>1, <4>2, <6>2
            <6> QED BY <4>1, <6>1, <6>2
          <5> QED BY <3>2, <4>1, <5>1 DEF StayLanded
        <4>4. IsInjective(Append(lander.landed, s))
          <5>1. \A i, j \in 1..Len(lander.landed) : lander.landed[i] = lander.landed[j] => i = j
            BY <4>1 DEF LandIInv, IsInjective
          <5>2. \A i, j \in 1..(Len(lander.landed) + 1) :
                   Append(lander.landed, s)[i] = Append(lander.landed, s)[j] => i = j
            BY <4>1, <4>2, <5>1
          <5> QED BY <4>1, <5>2 DEF IsInjective
        <4> QED BY <3>2, <4>3, <4>4
      <3> QED BY <2>3, <3>1, <3>2
    <2>8. RefusedIsUntouched'
      BY <2>3 DEF LandIInv, RefusedIsUntouched, Forced
    <2> QED BY <2>3, <2>4, <2>6, <2>7, <2>8 DEF LandIInv, ReadStands, SameBase, HandsOn, Landing, AllLanded,
                            ReadyMeetsNoConflict, LateWritesAreKept
  <1> QED BY <1>2, <1>3, <1>4 DEF Merges

LEMMA TriesOK == ASSUME LandIInv, LandTries PROVE LandIInv'
  <1>1. lander.at = "trying" /\ UNCHANGED quiet
    BY DEF LandTries
  <1>2. CASE /\ agentOf[lander.one].status = "landed" \/ lander.base # onBase \/ lander.one \in atOdds
             /\ Stops("conflict") /\ UNCHANGED <<landWorld, discarded>>
    BY <1>1, <1>2, MetOK
  <1>3. CASE agentOf[lander.one].status # "landed" /\ Merges
    BY <1>1, <1>3, MergesOK
  <1>4. CASE Stops("failed") /\ UNCHANGED <<landWorld, discarded>>
    BY <1>1, <1>4, StopsOK
  <1>5. CASE /\ lander' = [lander EXCEPT !.at = "testing"] /\ agentOf[lander.one].status # "landed"
             /\ UNCHANGED <<landWorld, discarded>>
    <2>1. lander \in Landers /\ lander.ended = "no" /\ lander.one \in LandSessions
      BY <1>1 DEF LandIInv, LandTyped, HandsOn, Landing
    <2>2. /\ lander' \in Landers /\ lander'.at = "testing" /\ lander'.base = lander.base /\ lander'.ended = "no"
          /\ lander'.saw = lander.saw /\ lander'.one = lander.one /\ lander'.landed = lander.landed
          /\ lander'.force = lander.force /\ lander'.live = lander.live /\ lander'.hands = lander.hands
      BY <1>5, <2>1 DEF Landers
    <2>3. LandTyped'
      BY <1>1, <1>5, <2>2 DEF LandIInv, LandTyped, landWorld
    <2>4. ReadStands' /\ SameBase'
      BY <1>1, <1>5, <2>2 DEF LandIInv, ReadStands, NoneAtOdds, Landing, landWorld, SameBase
    <2>5. HandsOn' /\ RefusedIsUntouched'
      BY <1>1, <1>5, <2>1, <2>2 DEF LandIInv, HandsOn, Landing, landWorld, RefusedIsUntouched, Forced
    <2>6. StayLanded' /\ IsInjective(lander'.landed)
      BY <1>5, <2>2 DEF LandIInv, StayLanded, landWorld
    <2> QED BY <1>5, <2>2, <2>3, <2>4, <2>5, <2>6 DEF LandIInv, AllLanded, ReadyMeetsNoConflict, LateWritesAreKept
  <1>6. CASE /\ agentOf[lander.one].status = "landed" \/ lander.base # onBase \/ lander.one \in atOdds
             /\ Stops("conflict") /\ UNCHANGED <<landWorld, discarded>>
    BY <1>2, <1>6
  <1>7. CASE /\ agentOf[lander.one].status # "landed"
             /\ CASE rules.test = "none" -> Merges
                  [] rules.test = "untrusted" -> Stops("failed") /\ UNCHANGED <<landWorld, discarded>>
                  [] rules.test = "trusted" ->
                        lander' = [lander EXCEPT !.at = "testing"] /\ UNCHANGED <<landWorld, discarded>>
    <2>1. rules.test \in {"none", "untrusted", "trusted"}
      BY DEF LandIInv, LandTyped
    <2>2. CASE rules.test = "none"
      BY <1>3, <1>7, <2>2
    <2>3. CASE rules.test = "untrusted"
      BY <1>4, <1>7, <2>3
    <2>4. CASE rules.test = "trusted"
      BY <1>5, <1>7, <2>4
    <2> QED BY <2>1, <2>2, <2>3, <2>4
  <1> QED BY <1>6, <1>7 DEF LandTries

LEMMA TestedOK == ASSUME LandIInv, LandTested PROVE LandIInv'
  <1>1. lander.at = "testing" /\ UNCHANGED quiet
    BY DEF LandTested
  <1>2. CASE Stops("failed") /\ UNCHANGED <<landWorld, discarded>>
    BY <1>1, <1>2, StopsOK
  <1>3. CASE Merges
    BY <1>1, <1>3, MergesOK DEF LandIInv, HandsOn
  <1> QED BY <1>2, <1>3 DEF LandTested

LEMMA LandStepOK == ASSUME LandIInv, [LandOrderNext]_landOrderVars PROVE LandIInv'
  <1>1. CASE UNCHANGED landOrderVars
    <2>1. ReadyNow' = ReadyNow /\ Listed' = Listed
      BY <1>1, ReadyUnchanged DEF landOrderVars, landWorld
    <2> QED BY <1>1, <2>1 DEF landOrderVars, LandIInv, LandTyped, ReadStands, NoneAtOdds, SameBase, HandsOn, StayLanded,
                               AllLanded, ReadyMeetsNoConflict, LateWritesAreKept, RefusedIsUntouched, Forced
  <1>2. CASE LandOrderNext
    BY <1>2, WorldOK, AsksOK, FetchOK, ChooseOK, BeginsOK, StoppedOK, EntersOK, TriesOK, TestedOK DEF LandOrderNext
  <1> QED BY <1>1, <1>2

(* While nothing else moves the lander's reading stands and the base it tries on is
   the base, and the tree of a session it stopped stays as it was seen: the
   inductive invariant of the landings a person asks for.                   *)
THEOREM LandsHold == LandOrderSpec => []LandIInv
  BY LandInitOK, LandStepOK, PTL DEF LandOrderSpec

(* What a status calls ready meets no conflict with the base and no base that
   moved, though its land may be refused for every other reason land.ts knows;
   `land all` lands all of it and none twice; nothing an agent wrote while it was
   being stopped is thrown away; and a land refused for want of a check has
   touched nothing (land-order.ts, land.session).                           *)
THEOREM EvidenceHolds == LandOrderSpec => []LandsAreEvident
  <1>1. LandIInv => LandsAreEvident
    BY DEF LandIInv, AllLanded, ReadyNow, AllReadyAreLanded, LandsAreEvident
  <1> QED BY <1>1, LandsHold, PTL

-----------------------------------------------------------------------------
(***************************************************************************)
(* Settings.  The page is the only writer but for a layout saved while it  *)
(* is shut, until both write at once (mixed).  Until then at most one save *)
(* is under way (OneAtATime), the file is no newer than what is on its way *)
(* to it (PageLeads, LayoutFollows), and the page's last draft that could  *)
(* be sent is on its way or there (LastIsKept).                            *)
(***************************************************************************)
Drafts == [ver : 0..MaxDrafts, has : SUBSET (1..MaxDrafts), guarded : BOOLEAN, layouts : 0..MaxLayouts]
MaybeDrafts == Drafts \cup {NoDraft}
Saves == [value : Drafts, at : {"sent", "written"}]

SettingsTyped ==
  /\ file \in Drafts /\ olderDaemon \in BOOLEAN
  /\ page \in [open : BOOLEAN, draft : MaybeDrafts, valid : BOOLEAN, refused : BOOLEAN]
  /\ commit \in [pending : MaybeDrafts, timer : BOOLEAN, flights : SUBSET Saves, closing : BOOLEAN]
  /\ imported \in MaybeDrafts /\ layoutSave \in Saves \cup {Nobodys}
  /\ changed \in 0..MaxDrafts /\ mixed \in BOOLEAN

\* At most one save is under way, none without the page, and no draft is newer than the last change.
OneAtATime ==
  /\ \A f, g \in commit.flights : f = g
  /\ IF page.open THEN page.draft # NoDraft ELSE commit = Resting /\ imported = NoDraft
  /\ file.ver <= changed /\ page.draft.ver <= changed /\ commit.pending.ver <= changed /\ imported.ver <= changed
  /\ layoutSave.value.ver <= changed /\ \A f \in commit.flights : f.value.ver <= changed

\* A save written back holds what its draft holds, or less where the daemon is older.
LeftBy(d) == file.ver = d.ver /\ file.has = d.has /\ file.layouts = d.layouts /\ (file.guarded => d.guarded)

\* While the page is the only writer it saves in the order of its drafts, and they agree on the layouts.
PageLeads ==
  /\ page.open => layoutSave = Nobodys /\ page.draft.layouts = file.layouts
  /\ imported # NoDraft => imported.layouts = file.layouts
  /\ commit.pending # NoDraft =>
        /\ file.ver <= commit.pending.ver /\ commit.pending.layouts = file.layouts
        /\ \A f \in commit.flights : f.value.ver <= commit.pending.ver
  /\ \A f \in commit.flights :
        /\ file.ver <= f.value.ver /\ f.value.layouts = file.layouts
        /\ f.at = "written" => LeftBy(f.value)

\* A layout being saved changes nothing else of the file.
LayoutFollows ==
  /\ layoutSave.at = "sent" => layoutSave.value = [file EXCEPT !.layouts = @ + 1]
  /\ layoutSave.at = "written" => LeftBy(layoutSave.value)

\* The last draft that is fit to send is on its way, or in the file.
LastIsKept ==
  page.draft # NoDraft /\ page.valid =>
    /\ commit.pending # NoDraft => commit.pending = page.draft
    /\ commit.pending = NoDraft => \A f \in commit.flights : f.value = page.draft
    /\ commit.pending = NoDraft /\ commit.flights = {} /\ ~page.refused =>
          /\ file.has = page.draft.has
          /\ page.draft.guarded = IF layoutSave = Nobodys THEN file.guarded ELSE layoutSave.value.guarded

SettingsIInv ==
  /\ SettingsTyped /\ OneAtATime
  /\ ~mixed => PageLeads /\ LayoutFollows /\ LastIsKept

LEMMA NoDraftIsNone ==
  NoDraft \notin Drafts /\ NoDraft.ver = -1 /\ Nobodys \notin Saves /\ Nobodys.at = "none" /\ Nobodys.value = NoDraft
  BY DEF NoDraft, Drafts, Nobodys, Saves

\* A draft with a change more is a draft.
LEMMA DraftFacts ==
  ASSUME NEW d \in Drafts, NEW v \in 1..MaxDrafts, NEW g \in BOOLEAN
  PROVE  /\ d.ver \in Int /\ d.ver >= 0 /\ d.layouts \in Int /\ d.guarded \in BOOLEAN
         /\ [d EXCEPT !.ver = v, !.has = @ \cup {v}] \in Drafts
         /\ [d EXCEPT !.ver = v, !.has = @ \cup {v}, !.guarded = g] \in Drafts
  <1>1. d.ver \in 0..MaxDrafts /\ d.has \subseteq 1..MaxDrafts /\ d.guarded \in BOOLEAN /\ d.layouts \in 0..MaxLayouts
    BY DEF Drafts
  <1> DEFINE h == d.has \cup {v}
  <1>2. v \in 0..MaxDrafts /\ h \in SUBSET (1..MaxDrafts)
    BY <1>1, SettingsAssumption
  <1> HIDE DEF h
  <1>3. [d EXCEPT !.ver = v, !.has = h] \in Drafts
    BY <1>1, <1>2 DEF Drafts
  <1>4. [d EXCEPT !.ver = v, !.has = h, !.guarded = g] \in Drafts
    BY <1>1, <1>2 DEF Drafts
  <1> QED BY <1>1, <1>3, <1>4, SettingsAssumption DEF h

\* So are the drafts kept here and there.
LEMMA VersionFacts ==
  ASSUME SettingsTyped
  PROVE  /\ file.ver \in Int /\ page.draft.ver \in Int /\ commit.pending.ver \in Int /\ imported.ver \in Int
         /\ layoutSave.value.ver \in Int /\ changed \in Nat /\ file \in Drafts
         /\ \A f \in commit.flights : f.value \in Drafts /\ f.value.ver \in Int /\ f.value # NoDraft
         /\ commit.pending # NoDraft => commit.pending \in Drafts
         /\ layoutSave # Nobodys => layoutSave \in Saves /\ layoutSave.value \in Drafts
  <1>1. \A d \in MaybeDrafts : d.ver \in Int
    BY NoDraftIsNone DEF MaybeDrafts, Drafts
  <1>2. \A f \in Saves : f.value \in Drafts
    BY DEF Saves
  <1>3. \A d \in Drafts : d \in MaybeDrafts
    BY DEF MaybeDrafts
  <1>4. page.draft \in MaybeDrafts /\ commit.pending \in MaybeDrafts /\ imported \in MaybeDrafts /\ file \in Drafts
        /\ commit.flights \subseteq Saves /\ layoutSave \in Saves \cup {Nobodys} /\ changed \in 0..MaxDrafts
    BY DEF SettingsTyped
  <1>5. layoutSave.value \in MaybeDrafts
    BY <1>2, <1>4, NoDraftIsNone DEF MaybeDrafts
  <1>6. commit.pending # NoDraft => commit.pending \in Drafts
    BY <1>4 DEF MaybeDrafts
  <1> QED BY <1>1, <1>2, <1>3, <1>4, <1>5, <1>6, NoDraftIsNone

LEMMA SettingsInitOK == SettingsInit => SettingsIInv
  <1> SUFFICES ASSUME SettingsInit PROVE SettingsIInv
    OBVIOUS
  <1> USE SettingsAssumption
  <1>1. file \in Drafts /\ file.ver = 0
    BY DEF SettingsInit, Drafts
  <1>2. page.draft = NoDraft /\ commit.pending = NoDraft /\ commit.flights = {} /\ ~page.open
    BY DEF SettingsInit, Shut, Resting
  <1>3. SettingsTyped
    <2>1. page \in [open : BOOLEAN, draft : MaybeDrafts, valid : BOOLEAN, refused : BOOLEAN]
      BY DEF SettingsInit, Shut, MaybeDrafts
    <2>2. commit \in [pending : MaybeDrafts, timer : BOOLEAN, flights : SUBSET Saves, closing : BOOLEAN]
      BY DEF SettingsInit, Resting, MaybeDrafts
    <2>3. imported \in MaybeDrafts /\ layoutSave \in Saves \cup {Nobodys}
      BY DEF SettingsInit, MaybeDrafts
    <2>4. changed \in 0..MaxDrafts
      BY DEF SettingsInit
    <2>5. mixed \in BOOLEAN /\ olderDaemon \in BOOLEAN
      BY Zenon DEF SettingsInit
    <2> QED BY <1>1, <2>1, <2>2, <2>3, <2>4, <2>5 DEF SettingsTyped
  <1>4. OneAtATime
    BY <1>1, <1>2, NoDraftIsNone DEF SettingsInit, OneAtATime
  <1>5. PageLeads /\ LayoutFollows /\ LastIsKept
    BY <1>2 DEF SettingsInit, PageLeads, LayoutFollows, LastIsKept, Nobodys
  <1> QED BY <1>3, <1>4, <1>5 DEF SettingsIInv


LEMMA OpenOK == ASSUME SettingsIInv, OpenSettings PROVE SettingsIInv'
  <1>1. /\ page' = [open |-> TRUE, draft |-> file, valid |-> TRUE, refused |-> FALSE]
        /\ commit = Resting /\ imported = NoDraft /\ (~mixed' => ~mixed /\ layoutSave = Nobodys)
        /\ mixed' \in BOOLEAN /\ file \in Drafts
        /\ UNCHANGED <<file, olderDaemon, commit, imported, layoutSave, changed>>
    BY DEF OpenSettings, SettingsIInv, SettingsTyped, OneAtATime
  <1>2. page'.open /\ page'.draft = file /\ commit.flights = {} /\ commit.pending = NoDraft
    BY <1>1 DEF Resting
  <1>3. SettingsTyped'
    BY <1>1 DEF SettingsIInv, SettingsTyped, MaybeDrafts
  <1>4. OneAtATime'
    BY <1>1, <1>2, NoDraftIsNone DEF SettingsIInv, OneAtATime
  <1>5. ~mixed' => PageLeads' /\ LayoutFollows' /\ LastIsKept'
    BY <1>1, <1>2, NoDraftIsNone DEF SettingsIInv, PageLeads, LayoutFollows, LastIsKept
  <1> QED BY <1>3, <1>4, <1>5 DEF SettingsIInv

LEMMA DraftedOK ==
  ASSUME SettingsIInv, page.open, changed < MaxDrafts, NEW d \in Drafts, NEW ok \in BOOLEAN, Drafted(d, ok),
         d.ver = changed + 1, ~mixed => d.layouts = file.layouts,
         imported' \in {imported, NoDraft}, UNCHANGED <<file, olderDaemon, layoutSave, mixed>>
  PROVE  SettingsIInv'
  <1> USE SettingsAssumption, NoDraftIsNone DEF SettingsIInv, Drafted
  <1>a. /\ page' \in [open : BOOLEAN, draft : MaybeDrafts, valid : BOOLEAN, refused : BOOLEAN]
        /\ page'.open /\ page'.draft = d /\ page'.valid = ok /\ page'.refused = page.refused
    BY DEF SettingsTyped, MaybeDrafts
  <1>b. /\ commit' \in [pending : MaybeDrafts, timer : BOOLEAN, flights : SUBSET Saves, closing : BOOLEAN]
        /\ commit'.pending = (IF ok THEN d ELSE commit.pending) /\ commit'.flights = commit.flights
    BY DEF SettingsTyped, MaybeDrafts
  <1>c. changed' = changed + 1 /\ changed \in 0..MaxDrafts /\ file \in Drafts /\ imported \in MaybeDrafts
        /\ \A f \in commit.flights : f \in Saves
    BY DEF SettingsTyped
  <1>d. imported' \in MaybeDrafts /\ imported'.ver <= changed
    BY <1>c DEF OneAtATime, MaybeDrafts
  <1>e. \A e \in MaybeDrafts : e.ver \in Int
    BY DEF MaybeDrafts, Drafts
  <1>f. \A f \in commit.flights : f.value \in MaybeDrafts
    BY <1>c DEF Saves, MaybeDrafts
  <1> HIDE DEF Drafted
  <1>1. SettingsTyped'
    BY <1>a, <1>b, <1>c, <1>d DEF SettingsTyped
  <1>2. OneAtATime'
    <2>1. file.ver \in Int /\ commit.pending.ver \in Int /\ imported'.ver \in Int /\ layoutSave.value.ver \in Int
      BY <1>c, <1>d DEF SettingsTyped, MaybeDrafts, Drafts, Saves, Nobodys
    <2> QED BY <1>a, <1>b, <1>c, <1>d, <1>e, <1>f, <2>1 DEF OneAtATime
  <1>3. ~mixed' => PageLeads'
    <2>1. file.ver <= d.ver /\ \A f \in commit.flights : f.value.ver <= d.ver
      BY <1>c, <1>e, <1>f DEF OneAtATime, MaybeDrafts
    <2> QED BY <1>a, <1>b, <1>c, <1>d, <2>1 DEF PageLeads, LeftBy
  <1>4. ~mixed' => LayoutFollows' /\ LastIsKept'
    BY <1>a, <1>b DEF PageLeads, LayoutFollows, LastIsKept, LeftBy
  <1> QED BY <1>1, <1>2, <1>3, <1>4

LEMMA ChangesOK == ASSUME SettingsIInv, Changes PROVE SettingsIInv'
  <1>1. PICK g \in BOOLEAN, ok \in BOOLEAN :
           Drafted([page.draft EXCEPT !.ver = changed + 1, !.has = @ \cup {changed + 1}, !.guarded = g], ok)
    BY DEF Changes
  <1> DEFINE d == [page.draft EXCEPT !.ver = changed + 1, !.has = @ \cup {changed + 1}, !.guarded = g]
  <1>2. d \in Drafts /\ d.ver = changed + 1 /\ d.layouts = page.draft.layouts
    <2>1. page.draft \in Drafts /\ changed + 1 \in 1..MaxDrafts /\ g \in BOOLEAN
      BY SettingsAssumption, <1>1 DEF SettingsIInv, SettingsTyped, OneAtATime, Changes, MaybeDrafts
    <2>2. d \in Drafts
      BY <2>1, DraftFacts
    <2>3. d.ver = changed + 1 /\ d.layouts = page.draft.layouts
      BY <2>1 DEF Drafts
    <2> QED BY <2>2, <2>3
  <1>3. ~mixed => d.layouts = file.layouts
    BY <1>2 DEF SettingsIInv, PageLeads, Changes
  <1> HIDE DEF d
  <1> QED BY <1>1, <1>2, <1>3, DraftedOK DEF Changes, d

LEMMA ImportOK == ASSUME SettingsIInv, ImportBegins \/ ImportEnds PROVE SettingsIInv'
  <1>1. CASE ImportBegins
    BY <1>1, NoDraftIsNone DEF ImportBegins, SettingsIInv, SettingsTyped, OneAtATime, PageLeads, LayoutFollows, LastIsKept, LeftBy
  <1>2. CASE ImportEnds /\ page.open /\ changed < MaxDrafts
    <2> DEFINE d == [imported EXCEPT !.ver = changed + 1, !.has = @ \cup {changed + 1}]
    <2>1. Drafted(d, page.valid) /\ imported # NoDraft /\ imported' = NoDraft /\ UNCHANGED <<file, olderDaemon, layoutSave, mixed>>
      BY <1>2 DEF ImportEnds
    <2>2. d \in Drafts /\ d.ver = changed + 1 /\ d.layouts = imported.layouts
      <3>1. imported \in Drafts /\ changed + 1 \in 1..MaxDrafts
        BY <1>2, <2>1, SettingsAssumption DEF SettingsIInv, SettingsTyped, MaybeDrafts
      <3>2. TRUE \in BOOLEAN
        OBVIOUS
      <3>3. d \in Drafts
        BY <3>1, <3>2, DraftFacts
      <3>4. d.ver = changed + 1 /\ d.layouts = imported.layouts
        BY <3>1 DEF Drafts
      <3> QED BY <3>3, <3>4
    <2>3. ~mixed => d.layouts = file.layouts
      BY <2>1, <2>2 DEF SettingsIInv, PageLeads
    <2>4. page.valid \in BOOLEAN
      BY DEF SettingsIInv, SettingsTyped
    <2> HIDE DEF d
    <2> QED BY <1>2, <2>1, <2>2, <2>3, <2>4, DraftedOK
  <1>3. CASE ImportEnds /\ ~(page.open /\ changed < MaxDrafts)
    BY <1>3, NoDraftIsNone DEF ImportEnds, SettingsIInv, SettingsTyped, OneAtATime, PageLeads, LayoutFollows, LastIsKept, LeftBy, MaybeDrafts
  <1> QED BY <1>1, <1>2, <1>3

\* The flights are the one save of this draft, which is not written yet.
Sent(flights, d) == \E f \in Saves : f.value = d /\ f.at = "sent" /\ flights = {f}

\* The committer sends what is pending when nothing is under way.
LEMMA SendFacts ==
  ASSUME NEW c \in [pending : MaybeDrafts, timer : BOOLEAN, flights : SUBSET Saves, closing : BOOLEAN]
  PROVE  LET n == Next2Send(c) IN
         /\ n \in [pending : MaybeDrafts, timer : BOOLEAN, flights : SUBSET Saves, closing : BOOLEAN]
         /\ n.timer = c.timer /\ n.closing = c.closing
         /\ IF c.flights = {} /\ c.pending # NoDraft
            THEN n.pending = NoDraft /\ Sent(n.flights, c.pending)
            ELSE n.pending = c.pending /\ n.flights = c.flights
  <1>1. CASE c.flights = {} /\ c.pending # NoDraft
    <2>1. c.pending \in Drafts
      BY <1>1 DEF MaybeDrafts
    <2>2. [value |-> c.pending, at |-> "sent"] \in Saves
      BY <2>1 DEF Saves
    <2> DEFINE f == [value |-> c.pending, at |-> "sent"]
    <2>3. Next2Send(c) = [c EXCEPT !.flights = {f}, !.pending = NoDraft]
      BY <1>1 DEF Next2Send
    <2>4. f \in Saves /\ f.value = c.pending /\ f.at = "sent"
      BY <2>2
    <2> HIDE DEF f
    <2>5. NoDraft \in MaybeDrafts /\ {f} \in SUBSET Saves
      BY <2>4 DEF MaybeDrafts
    <2>6. /\ Next2Send(c) \in [pending : MaybeDrafts, timer : BOOLEAN, flights : SUBSET Saves, closing : BOOLEAN]
          /\ Next2Send(c).timer = c.timer /\ Next2Send(c).closing = c.closing
          /\ Next2Send(c).pending = NoDraft /\ Next2Send(c).flights = {f}
      BY <2>3, <2>5
    <2> QED BY <1>1, <2>4, <2>6 DEF Sent
  <1>2. CASE ~(c.flights = {} /\ c.pending # NoDraft)
    BY <1>2 DEF Next2Send
  <1> QED BY <1>1, <1>2

\* Sending does not break what holds of a committer at rest or under way.
LEMMA SendsOK ==
  ASSUME SettingsIInv, page.open,
         NEW c \in [pending : MaybeDrafts, timer : BOOLEAN, flights : SUBSET Saves, closing : BOOLEAN],
         c.pending = commit.pending, c.flights = commit.flights,
         commit' = Next2Send(c), UNCHANGED <<file, olderDaemon, page, imported, layoutSave, changed, mixed>>
  PROVE  SettingsIInv'
  <1>0. /\ commit' \in [pending : MaybeDrafts, timer : BOOLEAN, flights : SUBSET Saves, closing : BOOLEAN]
        /\ \/ /\ commit.flights = {} /\ commit.pending # NoDraft
              /\ commit'.pending = NoDraft /\ Sent(commit'.flights, commit.pending)
           \/ commit'.pending = commit.pending /\ commit'.flights = commit.flights
    BY SendFacts
  <1> USE NoDraftIsNone DEF SettingsIInv
  <1>1. SettingsTyped'
    BY <1>0 DEF SettingsTyped
  <1>2. OneAtATime'
    <2>1. \A f, g \in commit'.flights : f = g
      BY <1>0 DEF OneAtATime, Sent
    <2>2. commit'.pending.ver <= changed' /\ \A f \in commit'.flights : f.value.ver <= changed'
      BY <1>0, VersionFacts DEF OneAtATime, Sent
    <2>3. IF page'.open THEN page'.draft # NoDraft ELSE commit' = Resting /\ imported' = NoDraft
      BY DEF OneAtATime
    <2> QED BY <2>1, <2>2, <2>3 DEF OneAtATime
  <1>3. CASE /\ commit.flights = {} /\ commit.pending # NoDraft
             /\ commit'.pending = NoDraft /\ Sent(commit'.flights, commit.pending)
    <2>1. ~mixed' => PageLeads'
      BY <1>3 DEF PageLeads, Sent
    <2>2. ~mixed' => LayoutFollows' /\ LastIsKept'
      <3>1. ~mixed' => LayoutFollows'
        BY <1>3 DEF LayoutFollows, LeftBy
      <3>2. ~mixed' => LastIsKept'
        BY <1>3 DEF LastIsKept, Sent
      <3> QED BY <3>1, <3>2
    <2> QED BY <1>1, <1>2, <2>1, <2>2
  <1>4. CASE commit'.pending = commit.pending /\ commit'.flights = commit.flights
    BY <1>1, <1>2, <1>4 DEF PageLeads, LayoutFollows, LastIsKept, LeftBy
  <1> QED BY <1>0, <1>3, <1>4

LEMMA TimerClosesOK == ASSUME SettingsIInv, TimerFires \/ Closes PROVE SettingsIInv'
  <1>1. page.open
    BY DEF SettingsIInv, OneAtATime, TimerFires, Closes, Resting
  <1>2. CASE TimerFires
    <2> DEFINE c == [commit EXCEPT !.timer = FALSE]
    <2>1. /\ c \in [pending : MaybeDrafts, timer : BOOLEAN, flights : SUBSET Saves, closing : BOOLEAN]
          /\ c.pending = commit.pending /\ c.flights = commit.flights
      BY DEF SettingsIInv, SettingsTyped
    <2>2. commit' = Next2Send(c) /\ UNCHANGED <<file, olderDaemon, page, imported, layoutSave, changed, mixed>>
      BY <1>2 DEF TimerFires
    <2> HIDE DEF c
    <2> QED BY <1>1, <2>1, <2>2, SendsOK
  <1>3. CASE Closes
    <2> DEFINE c == [commit EXCEPT !.closing = TRUE, !.timer = FALSE]
    <2>1. /\ c \in [pending : MaybeDrafts, timer : BOOLEAN, flights : SUBSET Saves, closing : BOOLEAN]
          /\ c.pending = commit.pending /\ c.flights = commit.flights
      BY DEF SettingsIInv, SettingsTyped
    <2>2. commit' = Next2Send(c) /\ UNCHANGED <<file, olderDaemon, page, imported, layoutSave, changed, mixed>>
      BY <1>3 DEF Closes
    <2> HIDE DEF c
    <2> QED BY <1>1, <2>1, <2>2, SendsOK
  <1> QED BY <1>2, <1>3

\* The end of a save, refused or written and mended: what it leaves, and what is sent next.
LEMMA AnsweredFacts ==
  ASSUME SettingsIInv, NEW f \in commit.flights
  PROVE  LET n == Answered(commit, f) IN
         /\ n \in [pending : MaybeDrafts, timer : BOOLEAN, flights : SUBSET Saves, closing : BOOLEAN]
         /\ n.pending = NoDraft
         /\ IF commit.pending # NoDraft THEN Sent(n.flights, commit.pending) ELSE n.flights = {}
  <1> DEFINE c == [commit EXCEPT !.flights = @ \ {f}]
  <1>1. c \in [pending : MaybeDrafts, timer : BOOLEAN, flights : SUBSET Saves, closing : BOOLEAN]
    BY DEF SettingsIInv, SettingsTyped
  <1>2. c.pending = commit.pending /\ c.flights = {}
    BY DEF SettingsIInv, SettingsTyped, OneAtATime
  <1>3. Answered(commit, f) = Next2Send(c)
    BY DEF Answered
  <1> HIDE DEF c
  <1> QED BY <1>1, <1>2, <1>3, SendFacts

LEMMA DaemonSavesOK == ASSUME SettingsIInv, DaemonSaves PROVE SettingsIInv'
  <1> PICK f \in commit.flights :
            /\ f.at = "sent"
            /\ \/ /\ file' = Written(f.value) /\ UNCHANGED page
                  /\ commit' = [commit EXCEPT !.flights = (@ \ {f}) \cup {[f EXCEPT !.at = "written"]}]
               \/ /\ page' = [page EXCEPT !.refused = TRUE] /\ UNCHANGED file
                  /\ commit' = Answered(commit, f)
    BY DEF DaemonSaves
  <1>0. UNCHANGED <<olderDaemon, imported, layoutSave, changed, mixed>>
    BY DEF DaemonSaves
  <1>a. f \in Saves /\ page.open /\ commit.flights = {f}
    BY DEF SettingsIInv, SettingsTyped, OneAtATime, Resting
  <1>1. CASE /\ file' = Written(f.value) /\ UNCHANGED page
             /\ commit' = [commit EXCEPT !.flights = (@ \ {f}) \cup {[f EXCEPT !.at = "written"]}]
    <2> DEFINE g == [f EXCEPT !.at = "written"]
    <2>1. g \in Saves /\ g.value = f.value /\ g.at = "written"
      BY <1>a DEF Saves
    <2>2. commit'.flights = {g} /\ commit'.pending = commit.pending
          /\ commit' \in [pending : MaybeDrafts, timer : BOOLEAN, flights : SUBSET Saves, closing : BOOLEAN]
      BY <1>1, <1>a, <2>1 DEF SettingsIInv, SettingsTyped
    <2>3. file' \in Drafts /\ LeftBy(f.value)'
      BY <1>1, <1>a DEF Written, LeftBy, Saves, Drafts, SettingsIInv, SettingsTyped
    <2> HIDE DEF g
    <2>4. SettingsTyped'
      BY <1>0, <1>1, <2>2, <2>3 DEF SettingsIInv, SettingsTyped
    <2>5. OneAtATime'
      BY <1>0, <1>1, <1>a, <2>1, <2>2, <2>3 DEF SettingsIInv, OneAtATime, LeftBy
    <2>6. ~mixed' => PageLeads'
      BY <1>0, <1>1, <1>a, <2>1, <2>2, <2>3 DEF SettingsIInv, SettingsTyped, Drafts, Saves, PageLeads, LeftBy
    <2>7. ~mixed' => LayoutFollows' /\ LastIsKept'
      BY <1>0, <1>1, <1>a, <2>1, <2>2, <2>3, NoDraftIsNone DEF SettingsIInv, PageLeads, LayoutFollows, LastIsKept
    <2> QED BY <2>4, <2>5, <2>6, <2>7 DEF SettingsIInv
  <1>2. CASE /\ page' = [page EXCEPT !.refused = TRUE] /\ UNCHANGED file
             /\ commit' = Answered(commit, f)
    <2>1. page' \in [open : BOOLEAN, draft : MaybeDrafts, valid : BOOLEAN, refused : BOOLEAN]
          /\ page'.open /\ page'.draft = page.draft /\ page'.valid = page.valid /\ page'.refused
      BY <1>2, <1>a DEF SettingsIInv, SettingsTyped
    <2>4. SettingsTyped'
      BY <1>0, <1>2, <2>1, AnsweredFacts DEF SettingsIInv, SettingsTyped
    <2>5. OneAtATime'
      BY <1>0, <1>2, <1>a, <2>1, AnsweredFacts, NoDraftIsNone, VersionFacts DEF SettingsIInv, OneAtATime, Sent
    <2>6. ~mixed' => PageLeads'
      BY <1>0, <1>2, <1>a, <2>1, AnsweredFacts DEF SettingsIInv, PageLeads, LeftBy, Sent
    <2>7. ~mixed' => LayoutFollows' /\ LastIsKept'
      BY <1>0, <1>2, <1>a, <2>1, AnsweredFacts DEF SettingsIInv, LayoutFollows, LastIsKept, LeftBy, Sent
    <2> QED BY <2>4, <2>5, <2>6, <2>7 DEF SettingsIInv
  <1> QED BY <1>1, <1>2

LEMMA MainMendsOK == ASSUME SettingsIInv, MainMends PROVE SettingsIInv'
  <1> PICK f \in commit.flights : f.at = "written" /\ RestoreGuarded(f.value) /\ commit' = Answered(commit, f)
    BY DEF MainMends
  <1>0. UNCHANGED <<olderDaemon, imported, layoutSave, changed, mixed>> /\ page' = [page EXCEPT !.refused = FALSE]
    BY DEF MainMends
  <1>a. f \in Saves /\ page.open /\ commit.flights = {f}
    BY DEF SettingsIInv, SettingsTyped, OneAtATime, Resting
  <1>1. page' \in [open : BOOLEAN, draft : MaybeDrafts, valid : BOOLEAN, refused : BOOLEAN]
        /\ page'.open /\ page'.draft = page.draft /\ page'.valid = page.valid /\ ~page'.refused
    BY <1>0, <1>a DEF SettingsIInv, SettingsTyped
  <1>2. file' \in Drafts /\ file'.ver = file.ver /\ file'.has = file.has /\ file'.layouts = file.layouts
        /\ file'.guarded = (file.guarded \/ f.value.guarded)
    BY <1>a DEF RestoreGuarded, SettingsIInv, SettingsTyped, Drafts, Saves
  <1>4. SettingsTyped'
    BY <1>0, <1>1, <1>2, AnsweredFacts DEF SettingsIInv, SettingsTyped
  <1>5. OneAtATime'
    BY <1>0, <1>a, <1>1, <1>2, AnsweredFacts, NoDraftIsNone, VersionFacts DEF SettingsIInv, OneAtATime, Sent
  <1>6. ~mixed' => PageLeads'
    BY <1>0, <1>a, <1>1, <1>2, AnsweredFacts DEF SettingsIInv, PageLeads, LeftBy, Sent
  <1>7. ~mixed' => LayoutFollows' /\ LastIsKept'
    BY <1>0, <1>a, <1>1, <1>2, AnsweredFacts, NoDraftIsNone
       DEF SettingsIInv, SettingsTyped, Saves, Drafts, PageLeads, LayoutFollows, LastIsKept, LeftBy, Sent
  <1> QED BY <1>4, <1>5, <1>6, <1>7 DEF SettingsIInv

LEMMA EndsOK == ASSUME SettingsIInv, Closed \/ AppQuits PROVE SettingsIInv'
  <1>1. CASE Closed
    <2>1. page.open
      BY <1>1 DEF SettingsIInv, OneAtATime, Closed, Resting
    <2> QED BY <1>1, <2>1, NoDraftIsNone DEF Closed, SettingsIInv, SettingsTyped, OneAtATime, PageLeads, LayoutFollows, LastIsKept,
         Resting, MaybeDrafts, LeftBy
  <1>2. CASE AppQuits
    BY <1>2, NoDraftIsNone DEF AppQuits, SettingsIInv, SettingsTyped, OneAtATime, PageLeads, LayoutFollows, LastIsKept,
       Resting, MaybeDrafts, LeftBy, Shut
  <1> QED BY <1>1, <1>2

LEMMA LayoutOK == ASSUME SettingsIInv, LayoutReads \/ LayoutWrites \/ LayoutMends PROVE SettingsIInv'
  <1> USE SettingsAssumption, NoDraftIsNone
  <1>1. CASE LayoutReads
    <2>1. layoutSave' \in Saves /\ layoutSave'.value = [file EXCEPT !.layouts = @ + 1] /\ layoutSave'.at = "sent"
          /\ layoutSave'.value.guarded = file.guarded
      BY <1>1 DEF LayoutReads, SettingsIInv, SettingsTyped, Drafts, Saves
    <2>2. layoutSave = Nobodys /\ (mixed' <=> mixed \/ page.open) /\ mixed' \in BOOLEAN
          /\ UNCHANGED <<file, olderDaemon, page, commit, imported, changed>>
      BY <1>1 DEF LayoutReads, SettingsIInv, SettingsTyped
    <2>3. layoutSave'.value.ver = file.ver /\ layoutSave'.value.has = file.has
      BY <2>1, VersionFacts DEF SettingsIInv, Drafts
    <2>4. SettingsTyped' /\ OneAtATime'
      BY <2>1, <2>2, <2>3 DEF SettingsIInv, SettingsTyped, OneAtATime
    <2>5. ~mixed' => PageLeads' /\ LayoutFollows'
      BY <2>1, <2>2, <2>3 DEF SettingsIInv, OneAtATime, PageLeads, LayoutFollows, LeftBy, Resting
    <2>6. ~mixed' => LastIsKept'
      BY <2>1, <2>2, <2>3 DEF SettingsIInv, LastIsKept
    <2> QED BY <2>4, <2>5, <2>6 DEF SettingsIInv
  <1>2. CASE LayoutWrites
    <2> DEFINE d == layoutSave.value
    <2>1. layoutSave \in Saves /\ d \in Drafts
      BY <1>2 DEF LayoutWrites, SettingsIInv, SettingsTyped, Saves
    <2>2. layoutSave' \in Saves /\ layoutSave'.value = d /\ layoutSave'.at = "written"
      BY <1>2, <2>1 DEF LayoutWrites, Saves
    <2>3. file' \in Drafts /\ LeftBy(d)'
      BY <1>2, <2>1, <2>2 DEF LayoutWrites, Written, LeftBy, Drafts, SettingsIInv, SettingsTyped
    <2>4. ~mixed => file'.ver = file.ver /\ file'.has = file.has /\ ~page.open /\ d.guarded = file.guarded
      BY <1>2, <2>1, <2>2, <2>3 DEF LayoutWrites, SettingsIInv, SettingsTyped, PageLeads, LayoutFollows, LeftBy, Drafts
    <2>5. SettingsTyped'
      BY <1>2, <2>2, <2>3 DEF LayoutWrites, SettingsIInv, SettingsTyped
    <2>6. OneAtATime'
      BY <1>2, <2>2, <2>3, VersionFacts DEF LayoutWrites, SettingsIInv, OneAtATime, LeftBy
    <2>7. ~mixed' => PageLeads' /\ LayoutFollows'
      BY <1>2, <2>2, <2>3, <2>4 DEF LayoutWrites, SettingsIInv, OneAtATime, PageLeads, LayoutFollows, Resting, LeftBy
    <2>8. ~mixed' => LastIsKept'
      BY <1>2, <2>1, <2>2, <2>3, <2>4 DEF LayoutWrites, SettingsIInv, OneAtATime, LastIsKept, Resting
    <2> QED BY <2>5, <2>6, <2>7, <2>8 DEF SettingsIInv
  <1>3. CASE LayoutMends
    <2> DEFINE d == layoutSave.value
    <2>1. layoutSave \in Saves /\ d \in Drafts
      BY <1>3 DEF LayoutMends, SettingsIInv, SettingsTyped, Saves
    <2>2. file' \in Drafts /\ file'.ver = file.ver /\ file'.has = file.has /\ file'.layouts = file.layouts
          /\ file'.guarded = (file.guarded \/ d.guarded)
      BY <1>3, <2>1 DEF LayoutMends, RestoreGuarded, Drafts, SettingsIInv, SettingsTyped
    <2>4. ~mixed => ~page.open /\ (file.guarded => d.guarded)
      BY <1>3, <2>1 DEF LayoutMends, SettingsIInv, SettingsTyped, PageLeads, LayoutFollows, LeftBy
    <2>5. SettingsTyped'
      BY <1>3, <2>2 DEF LayoutMends, SettingsIInv, SettingsTyped
    <2>6. OneAtATime'
      BY <1>3, <2>2, VersionFacts, NoDraftIsNone DEF LayoutMends, SettingsIInv, OneAtATime
    <2>7. ~mixed' => PageLeads' /\ LayoutFollows'
      BY <1>3, <2>2, <2>4 DEF LayoutMends, SettingsIInv, OneAtATime, PageLeads, LayoutFollows, Resting, LeftBy
    <2>8. ~mixed' => LastIsKept'
      BY <1>3, <2>1, <2>2, <2>4 DEF LayoutMends, SettingsIInv, SettingsTyped, Drafts, OneAtATime, LastIsKept, Resting
    <2> QED BY <2>5, <2>6, <2>7, <2>8 DEF SettingsIInv
  <1> QED BY <1>1, <1>2, <1>3

LEMMA SettingsStepOK == ASSUME SettingsIInv, [SettingsNext \/ HandEdit]_settingsVars PROVE SettingsIInv'
  <1>1. CASE HandEdit \/ UNCHANGED settingsVars
    BY <1>1 DEF HandEdit, settingsVars, SettingsIInv, SettingsTyped, OneAtATime, PageLeads, LayoutFollows, LastIsKept, LeftBy
  <1> QED BY <1>1, OpenOK, ChangesOK, ImportOK, TimerClosesOK, DaemonSavesOK, MainMendsOK, EndsOK, LayoutOK DEF SettingsNext

(* What is saved never goes back, and the last draft fit to be saved is in flight or
   in the file, for every number of changes and of layouts: the inductive invariant
   of the settings (settings-commit.ts, settings-guard.ts).                 *)
THEOREM SettingsHold == SettingsSpec => []SettingsIInv
  BY SettingsInitOK, SettingsStepOK, PTL DEF SettingsSpec

(* When nothing is left to save the file holds the page's last draft, also what an
   older daemon leaves out (createCommitter, restoreGuarded).               *)
THEOREM NoChangeIsLost == SettingsSpec => []NothingIsLost
  <1>1. SettingsIInv => NothingIsLost
    BY DEF SettingsIInv, LastIsKept, NothingIsLost
  <1> QED BY <1>1, SettingsHold, PTL

(* Until a layout and the page are saved at once, no save puts an older draft over a
   newer one, nor fewer layouts (createCommitter's single flight).          *)
THEOREM SavedInOrder == SettingsSpec => SavesInOrder
  <1> DEFINE A == ~mixed => file'.ver >= file.ver /\ file'.layouts >= file.layouts
  <1>1. ASSUME SettingsIInv, [SettingsNext \/ HandEdit]_settingsVars PROVE [A]_settingsVars
    <2>0. file.ver \in Int /\ file.layouts \in Int
      BY <1>1 DEF SettingsIInv, SettingsTyped, Drafts
    <2>1. CASE DaemonSaves
      BY <1>1, <2>0, <2>1 DEF DaemonSaves, Written, SettingsIInv, SettingsTyped, PageLeads, Saves, Drafts
    <2>2. CASE MainMends
      BY <1>1, <2>0, <2>2 DEF MainMends, RestoreGuarded, SettingsIInv, SettingsTyped, Drafts
    <2>3. CASE LayoutWrites
      BY <1>1, <2>0, <2>3, NoDraftIsNone DEF LayoutWrites, Written, SettingsIInv, SettingsTyped, LayoutFollows, Drafts
    <2>4. CASE LayoutMends
      BY <1>1, <2>0, <2>4 DEF LayoutMends, RestoreGuarded, SettingsIInv, SettingsTyped, Drafts
    <2>5. CASE UNCHANGED file
      BY <2>0, <2>5
    <2> QED BY <1>1, <2>1, <2>2, <2>3, <2>4, <2>5
         DEF SettingsNext, OpenSettings, Changes, ImportBegins, ImportEnds, TimerFires, Closes, Closed, AppQuits, LayoutReads,
             HandEdit, settingsVars
  <1> QED BY <1>1, SettingsHold, PTL DEF SettingsSpec, SavesInOrder

-----------------------------------------------------------------------------
(***************************************************************************)
(* The composer: Sends.  What a Send in flight is past and has been taken  *)
(* of (RunOK), two of them (RunsApart), what a shell took and who may send *)
(* it again (TakeOK), and what became of the last draft.                   *)
(***************************************************************************)
Ways == {"paste", "line"}
Texts == [n : Nat, many : BOOLEAN]
Items == Seq([id : PromptTargets, how : Ways])
Runs == [items : Items, text : Texts, next : Nat \ {0}, sent : Seq(PromptTargets), mount : Nat, click : Nat]
Taken == [id : PromptTargets, text : Texts, how : Ways, click : Nat, plain : BOOLEAN]

SendTyped ==
  /\ composerOpen \in 0..mounts /\ mounts \in Nat /\ promptsWritten \in 0..MaxPrompts /\ clicked \in 0..MaxSends
  /\ (composerDraft # NoText => composerDraft \in [n : {promptsWritten}, many : BOOLEAN] /\ promptsWritten > 0)
  /\ targetOf \in [PromptTargets -> {"agent", "plain", "closed"}]
  /\ listedAs \in [PromptTargets -> {"agent", "plain", "closed"}]
  /\ sends \subseteq Runs /\ took \subseteq Taken /\ sentTargets \in Seq(PromptTargets)
  /\ untold \subseteq Texts /\ overlapped \subseteq Texts /\ lostDrafts \subseteq Texts

\* A Send in flight: its items are of different sessions, fit for what it sends, and a shell that took
\* something of its click took its text, as an item it is past.
RunOK(r) ==
  /\ r.next <= Len(r.items) /\ r.click \in 1..clicked
  /\ r.text.n \in 1..promptsWritten
  /\ r.text.n = promptsWritten => composerDraft \in {NoText, r.text}
  /\ \A i \in DOMAIN r.items :
        /\ r.items[i].how = "line" => ~r.text.many
        /\ \A j \in DOMAIN r.items : r.items[i].id = r.items[j].id => i = j
  /\ \A i \in DOMAIN r.sent : \E t \in took : t.id = r.sent[i] /\ t.text = r.text
  /\ \A t \in took : t.click = r.click =>
        /\ t.text = r.text /\ (\E i \in DOMAIN r.items : i < r.next /\ r.items[i].id = t.id)
        /\ r.sent = <<>> => r.text \in untold

\* Of two Sends of one text, two dialogs are to blame.
RunsApart ==
  \A r, q \in sends : r # q => r.click # q.click /\ (r.text = q.text => r.text \in overlapped)

\* A text a shell took is on its way no more, and not the draft, but by the Send it was taken of.
TakeOK(t) ==
  /\ t.click \in 1..clicked /\ t.text.n \in 1..promptsWritten /\ (t.how = "line" => ~t.text.many)
  /\ \/ t.text \in overlapped \cup untold
     \/ \E r \in sends : r.click = t.click
     \/ t.text # composerDraft /\ \A r \in sends : r.text # t.text

TakenOnce == \A t, u \in took : t.id = u.id /\ t.text = u.text /\ t # u => t.text \in overlapped \cup untold

SendIInv ==
  /\ SendTyped /\ RunsApart /\ TakenOnce /\ DraftsAreKept
  /\ \A r \in sends : RunOK(r)
  /\ \A t \in took : TakeOK(t)
  /\ \A i \in DOMAIN sentTargets : \E t \in took : t.id = sentTargets[i]

\* A sequence with an element more, and without its first.
LEMMA OneMore ==
  ASSUME NEW S, NEW q \in Seq(S), NEW e \in S
  PROVE  /\ Append(q, e) \in Seq(S) /\ Append(q, e) # <<>> /\ Len(q) \in Nat /\ Len(Append(q, e)) = Len(q) + 1
         /\ DOMAIN q = 1..Len(q) /\ DOMAIN Append(q, e) = 1..(Len(q) + 1)
         /\ Append(q, e)[Len(q) + 1] = e
         /\ \A i \in 1..Len(q) : Append(q, e)[i] = q[i] /\ q[i] \in S
  OBVIOUS

LEMMA OneLess ==
  ASSUME NEW S, NEW q \in Seq(S), q # <<>>
  PROVE  /\ Tail(q) \in Seq(S) /\ Len(q) \in Nat /\ Len(q) >= 1 /\ Head(q) = q[1] /\ q[1] \in S
         /\ Len(Tail(q)) = Len(q) - 1 /\ DOMAIN q = 1..Len(q) /\ DOMAIN Tail(q) = 1..(Len(q) - 1)
         /\ \A i \in 1..(Len(q) - 1) : Tail(q)[i] = q[i + 1] /\ q[i + 1] \in S
  OBVIOUS

\* A set's elements, in some order, each once.
LEMMA SetToSeqFacts ==
  ASSUME NEW S \in SUBSET PromptTargets
  PROVE  /\ SetToSeq(S) \in Seq(S)
         /\ \A i, j \in DOMAIN SetToSeq(S) : SetToSeq(S)[i] = SetToSeq(S)[j] => i = j
  <1>1. IsFiniteSet(S)
    BY ComposerAssumption, FS_Subset
  <1>2. Cardinality(S) \in Nat /\ ExistsBijection(1..Cardinality(S), S)
    BY <1>1, FS_CardinalityType
  <1>3. \E f \in [1..Cardinality(S) -> S] : IsInjective(f)
    BY <1>2, Zenon DEF ExistsBijection, Bijection, Injection
  <1>5. SetToSeq(S) \in [1..Cardinality(S) -> S] /\ IsInjective(SetToSeq(S))
    BY <1>3, Zenon DEF SetToSeq
  <1> QED
    BY <1>2, <1>5 DEF IsInjective

LEMMA SendInitOK == ComposerInit => SendIInv
  BY ComposerAssumption DEF ComposerInit, SendIInv, SendTyped, RunsApart, TakenOnce, DraftsAreKept, NoText

\* A new text is no text of before.
LEMMA NewTextOK == ASSUME SendIInv, NewText, UNCHANGED mounts, composerOpen' \in {composerOpen, 0} PROVE SendIInv'
  <1> USE ComposerAssumption
  <1>1. promptsWritten' = promptsWritten + 1 /\ promptsWritten \in Nat /\ composerDraft' \in [n : {promptsWritten'}, many : BOOLEAN]
        /\ composerDraft' # NoText /\ UNCHANGED <<targetOf, listedAs, sends, clicked, took, sentTargets, untold, overlapped, lostDrafts>>
    BY DEF NewText, SendIInv, SendTyped, NoText
  <1>2. SendTyped'
    BY <1>1 DEF SendIInv, SendTyped, NewText
  <1>3. ASSUME NEW r \in sends PROVE RunOK(r)'
    BY <1>1 DEF SendIInv, RunOK
  <1>4. ASSUME NEW t \in took PROVE TakeOK(t)'
    BY <1>1 DEF SendIInv, TakeOK
  <1>5. DraftsAreKept'
    BY <1>1 DEF SendIInv, DraftsAreKept
  <1> QED
    BY <1>1, <1>2, <1>3, <1>4, <1>5 DEF SendIInv, RunsApart, TakenOnce

LEMMA DoSendOK == ASSUME SendIInv, DoSend PROVE SendIInv'
  <1> USE ComposerAssumption
  <1>1. PICK picked \in SUBSET PromptTargets :
            /\ Sendable(composerDraft, picked) # <<>>
            /\ sends' = sends \cup
                  {[items |-> [i \in DOMAIN Sendable(composerDraft, picked) |->
                                [id |-> Sendable(composerDraft, picked)[i],
                                 how |-> planSend(composerDraft, Sendable(composerDraft, picked)[i])]],
                    text |-> composerDraft, next |-> 1, sent |-> <<>>, mount |-> composerOpen, click |-> clicked']}
    BY DEF DoSend
  <1> DEFINE q == Sendable(composerDraft, picked)
             S == {s \in picked : planSend(composerDraft, s) # "refused"}
             items == [i \in DOMAIN q |-> [id |-> q[i], how |-> planSend(composerDraft, q[i])]]
             new == [items |-> items, text |-> composerDraft, next |-> 1, sent |-> <<>>, mount |-> composerOpen,
                     click |-> clicked']
  <1>2. /\ clicked' = clicked + 1 /\ clicked \in Nat /\ clicked < MaxSends /\ composerDraft # NoText /\ ~SendUnderWay
        /\ sends' = sends \cup {new}
        /\ UNCHANGED <<composerOpen, mounts, composerDraft, promptsWritten, targetOf, listedAs, took, sentTargets, untold,
                       lostDrafts>>
    BY <1>1 DEF DoSend, SendIInv, SendTyped
  <1>3. q \in Seq(S) /\ q # <<>> /\ \A i, j \in DOMAIN q : q[i] = q[j] => i = j
    BY <1>1, SetToSeqFacts DEF Sendable
  <1>4. \A i \in DOMAIN q : q[i] \in PromptTargets /\ planSend(composerDraft, q[i]) \in Ways
                            /\ (planSend(composerDraft, q[i]) = "line" => ~composerDraft.many)
    <2> SUFFICES ASSUME NEW i \in DOMAIN q
                 PROVE q[i] \in PromptTargets /\ planSend(composerDraft, q[i]) \in Ways
                       /\ (planSend(composerDraft, q[i]) = "line" => ~composerDraft.many)
      OBVIOUS
    <2>1. q[i] \in S
      BY <1>3
    <2> HIDE DEF q
    <2> QED BY <2>1 DEF planSend, Ways
  <1>5. composerDraft \in Texts /\ composerDraft.n = promptsWritten /\ promptsWritten \in 1..MaxPrompts
    BY <1>2 DEF SendIInv, SendTyped, Texts
  <1>6. Len(q) \in Nat /\ Len(q) >= 1 /\ DOMAIN q = 1..Len(q)
    BY <1>3
  <1> HIDE DEF q, S
  <1>7. items \in Items /\ DOMAIN items = DOMAIN q /\ Len(items) = Len(q)
    BY <1>4, <1>6 DEF Items
  <1>8. new \in Runs
    BY <1>2, <1>5, <1>7 DEF Runs, SendIInv, SendTyped
  <1>9. overlapped \subseteq overlapped' /\ overlapped' \subseteq Texts
    BY <1>5 DEF DoSend, SendIInv, SendTyped
  <1>10. \A r \in sends : r.text = composerDraft => composerDraft \in overlapped'
    <2> SUFFICES ASSUME NEW r \in sends, r.text = composerDraft PROVE composerDraft \in overlapped'
      OBVIOUS
    <2>1. r.mount # composerOpen
      BY <1>2 DEF SendUnderWay
    <2> QED BY <2>1 DEF DoSend
  <1>11. SendTyped'
    BY <1>2, <1>8, <1>9 DEF SendIInv, SendTyped
  <1>12. \A r \in sends : RunOK(r)'
    BY <1>2 DEF SendIInv, RunOK
  <1>13. ASSUME NEW r, r = new PROVE RunOK(r)'
    <2>1. \A t \in took : t.click # clicked'
      BY <1>2 DEF SendIInv, TakeOK
    <2>2. /\ r.next <= Len(r.items) /\ r.click = clicked' /\ r.text = composerDraft /\ r.sent = <<>>
          /\ r.items = items
      BY <1>6, <1>7, <1>13
    <2>3. \A i \in DOMAIN items :
             /\ items[i].how = "line" => ~composerDraft.many
             /\ \A j \in DOMAIN items : items[i].id = items[j].id => i = j
      BY <1>3, <1>4, <1>7
    <2> HIDE DEF new, items
    <2>4. DOMAIN r.sent = {} /\ clicked' \in 1..clicked'
      BY <1>2, <2>2
    <2> QED BY <1>2, <1>5, <2>1, <2>2, <2>3, <2>4 DEF RunOK
  <1>14. new.text = composerDraft /\ new.click = clicked'
    OBVIOUS
  <1> HIDE DEF new
  <1>15. RunsApart'
    BY <1>2, <1>9, <1>10, <1>14 DEF SendIInv, RunsApart, RunOK
  <1>16. \A t \in took : TakeOK(t)'
    <2> SUFFICES ASSUME NEW t \in took PROVE TakeOK(t)'
      OBVIOUS
    <2>1. TakeOK(t) /\ t.click \in 1..clicked'
      BY <1>2 DEF SendIInv, TakeOK
    <2> QED BY <1>2, <1>9, <1>14, <2>1 DEF TakeOK
  <1>17. \A r \in sends' : RunOK(r)'
    BY <1>2, <1>12, <1>13
  <1>18. TakenOnce' /\ DraftsAreKept'
    BY <1>2, <1>9 DEF SendIInv, TakenOnce, DraftsAreKept
  <1>19. \A i \in DOMAIN sentTargets' : \E t \in took' : t.id = sentTargets'[i]
    BY <1>2 DEF SendIInv
  <1> QED
    BY <1>2, <1>11, <1>15, <1>16, <1>17, <1>18, <1>19 DEF SendIInv

LEMMA SendGoesOnOK == ASSUME SendIInv, NEW was \in sends, SendGoesOn(was) PROVE SendIInv'
  <1> USE ComposerAssumption
  <1> DEFINE item == Item(was)
  <1>1. PICK outcome \in {"sent", "untold", "refused"} :
            LET run == AfterItem(was, outcome)
                ends == run.next > Len(run.items)
            IN /\ took' = IF outcome = "refused" THEN took
                          ELSE took \cup {[id |-> item.id, text |-> run.text, how |-> item.how, click |-> run.click,
                                           plain |-> targetOf[item.id] = "plain"]}
               /\ untold' = IF outcome = "untold" THEN untold \cup {run.text} ELSE untold
               /\ sends' = (sends \ {was}) \cup (IF ends THEN {} ELSE {run})
               /\ IF ends
                  THEN /\ composerDraft' = IF WipesDraft(run) THEN NoText ELSE composerDraft
                       /\ lostDrafts' = IF WipesDraft(run) /\ composerDraft \notin {run.text, NoText}
                                        THEN lostDrafts \cup {composerDraft} ELSE lostDrafts
                       /\ sentTargets' = run.sent /\ composerOpen' = 0
                  ELSE UNCHANGED <<composerDraft, lostDrafts, sentTargets, composerOpen>>
    BY DEF SendGoesOn, Outcomes
  <1> DEFINE run == AfterItem(was, outcome)
             ends == run.next > Len(run.items)
             take == [id |-> item.id, text |-> was.text, how |-> item.how, click |-> was.click,
                      plain |-> targetOf[item.id] = "plain"]
  <1>2. UNCHANGED <<mounts, promptsWritten, targetOf, listedAs, targetMoves, clicked, overlapped>>
    BY DEF SendGoesOn
  <1>3. was \in Runs /\ RunOK(was)
    BY DEF SendIInv, SendTyped
  <1>4. was.next \in DOMAIN was.items /\ item = was.items[was.next] /\ item.id \in PromptTargets /\ item.how \in Ways
        /\ (item.how = "line" => ~was.text.many)
    <2>1. was.next \in Nat \ {0} /\ was.items \in Seq([id : PromptTargets, how : Ways]) /\ was.next <= Len(was.items)
      BY <1>3 DEF Runs, Items, RunOK
    <2>2. was.next \in DOMAIN was.items /\ was.items[was.next] \in [id : PromptTargets, how : Ways]
      <3> DEFINE P == [id : PromptTargets, how : Ways]
      <3>1. was.items \in Seq(P)
        BY <2>1
      <3> HIDE DEF P
      <3>2. was.next \in DOMAIN was.items /\ was.items[was.next] \in P
        BY <2>1, <3>1
      <3> QED BY <3>2 DEF P
    <2>3. item = was.items[was.next]
      BY DEF Item
    <2>4. was.items[was.next].how = "line" => ~was.text.many
      BY <1>3, <2>2 DEF RunOK
    <2> QED BY <2>2, <2>3, <2>4
  <1>5. /\ run \in Runs /\ run.items = was.items /\ run.text = was.text /\ run.click = was.click /\ run.next = was.next + 1
        /\ run.sent = IF outcome = "sent" THEN Append(was.sent, item.id) ELSE was.sent
    <2>1. was.sent \in Seq(PromptTargets) /\ was.next \in Nat \ {0}
      BY <1>3 DEF Runs
    <2>2. Append(was.sent, item.id) \in Seq(PromptTargets) /\ was.next + 1 \in Nat \ {0}
      BY <1>4, <2>1
    <2> DEFINE sent == IF outcome = "sent" THEN Append(was.sent, item.id) ELSE was.sent
    <2>3. sent \in Seq(PromptTargets) /\ run = [was EXCEPT !.next = was.next + 1, !.sent = sent]
      BY <1>3, <2>1, <2>2 DEF AfterItem, Runs
    <2> HIDE DEF sent, item, run
    <2>4. run \in Runs /\ run.items = was.items /\ run.text = was.text /\ run.click = was.click /\ run.next = was.next + 1
          /\ run.sent = sent
      BY <1>3, <2>2, <2>3 DEF Runs
    <2> QED BY <2>4 DEF sent
  <1>6. take \in Taken /\ take.id = item.id /\ take.text = was.text /\ take.how = item.how /\ take.click = was.click
    BY <1>3, <1>4 DEF Taken, Runs
  <1>7. took' = IF outcome = "refused" THEN took ELSE took \cup {take}
    BY <1>1, <1>5
  <1>8. untold' = IF outcome = "untold" THEN untold \cup {was.text} ELSE untold
    BY <1>1, <1>5
  <1>9. sends' = (sends \ {was}) \cup (IF ends THEN {} ELSE {run})
    BY <1>1
  <1>10. IF ends
         THEN /\ composerDraft' = IF run.sent # <<>> THEN NoText ELSE composerDraft
              /\ lostDrafts' = IF run.sent # <<>> /\ composerDraft \notin {was.text, NoText}
                               THEN lostDrafts \cup {composerDraft} ELSE lostDrafts
              /\ sentTargets' = run.sent /\ composerOpen' = 0
         ELSE UNCHANGED <<composerDraft, lostDrafts, sentTargets, composerOpen>>
    BY <1>1, <1>5 DEF WipesDraft
  <1> HIDE DEF item, run, ends, take
  \* Who is among the sent was before, or is the item just sent and taken.
  <1>a. \A i \in DOMAIN run.sent : \E t \in took' : t.id = run.sent[i] /\ t.text = was.text
    <2> SUFFICES ASSUME NEW i \in DOMAIN run.sent PROVE \E t \in took' : t.id = run.sent[i] /\ t.text = was.text
      OBVIOUS
    <2>0. was.sent \in Seq(PromptTargets)
      BY <1>3 DEF Runs
    <2>1. CASE i \in DOMAIN was.sent /\ run.sent[i] = was.sent[i]
      BY <2>1, <1>3, <1>7 DEF RunOK
    <2>2. CASE outcome = "sent" /\ run.sent[i] = item.id
      BY <2>2, <1>6, <1>7
    <2>3. CASE outcome # "sent"
      BY <2>1, <2>3, <1>5
    <2>4. CASE outcome = "sent"
      <3>1. run.sent = Append(was.sent, item.id)
        BY <1>5, <2>4
      <3>2. DOMAIN run.sent = 1..(Len(was.sent) + 1) /\ run.sent[Len(was.sent) + 1] = item.id
            /\ \A k \in 1..Len(was.sent) : run.sent[k] = was.sent[k] /\ k \in DOMAIN was.sent
        BY <1>4, <2>0, <3>1, OneMore
      <3>3. Len(was.sent) \in Nat
        BY <2>0
      <3> QED BY <2>1, <2>2, <2>4, <3>2, <3>3
    <2> QED BY <2>3, <2>4
  <1>11. untold \subseteq untold' /\ took \subseteq took' /\ composerDraft' \in {composerDraft, NoText}
    BY <1>7, <1>8, <1>10
  <1>12. \A t \in took' : t \in took \/ (t = take /\ outcome # "refused")
    BY <1>7
  <1>13. SendTyped'
    <2>1. composerDraft' # NoText => composerDraft' \in [n : {promptsWritten}, many : BOOLEAN] /\ promptsWritten > 0
      BY <1>11 DEF SendIInv, SendTyped
    <2>2. sends' \subseteq Runs /\ took' \subseteq Taken
      BY <1>5, <1>6, <1>7, <1>9 DEF SendIInv, SendTyped
    <2>3. untold' \subseteq Texts /\ lostDrafts' \subseteq Texts
      BY <1>3, <1>8, <1>10 DEF SendIInv, SendTyped, Runs, Texts
    <2>4. sentTargets' \in Seq(PromptTargets) /\ composerOpen' \in 0..mounts
      <3>0. /\ composerOpen \in 0..mounts /\ mounts \in Nat
            /\ was.sent \in Seq(PromptTargets) /\ item.id \in PromptTargets
        BY <1>3, <1>4 DEF SendIInv, SendTyped, Runs, Items
      <3>1. run.sent \in Seq(PromptTargets) /\ mounts \in Nat /\ composerOpen \in 0..mounts /\ 0 \in 0..mounts
        BY <1>5, <3>0
      <3> QED BY <3>1, <1>10 DEF SendIInv, SendTyped
    <2> QED BY <1>2, <2>1, <2>2, <2>3, <2>4 DEF SendIInv, SendTyped
  \* Nothing of this click was taken by the item's session yet.
  <1>14. \A t \in took : t.click = was.click => t.id # item.id
    BY <1>3, <1>4 DEF RunOK, Runs, Items
  <1>15. \A r \in sends \ {was} : r.click # was.click /\ r.text.n \in Nat /\ RunOK(r)
    BY DEF SendIInv, SendTyped, RunsApart, Runs, Texts
  <1>16. \A r \in sends \ {was} : RunOK(r)'
    BY <1>2, <1>6, <1>11, <1>12, <1>15 DEF RunOK
  <1>17. ~ends => RunOK(run)'
    <2> SUFFICES ASSUME ~ends PROVE RunOK(run)'
      OBVIOUS
    <2>1. run.next <= Len(run.items) /\ was.next \in Nat
      BY <1>3, <1>4, <1>5 DEF ends, Runs, Items
    <2>2. \A i \in DOMAIN run.sent : \E t \in took' : t.id = run.sent[i] /\ t.text = run.text
      BY <1>5, <1>a
    <2>3. ASSUME NEW t \in took', t.click = run.click
          PROVE  /\ t.text = run.text /\ (\E i \in DOMAIN run.items : i < run.next /\ run.items[i].id = t.id)
                 /\ run.sent = <<>> => run.text \in untold'
      <3>1. CASE t \in took
        <4>1. t.text = was.text /\ (\E i \in DOMAIN was.items : i < was.next /\ was.items[i].id = t.id)
              /\ (was.sent = <<>> => was.text \in untold)
          BY <1>3, <1>5, <2>3, <3>1 DEF RunOK
        <4>2. run.sent = <<>> => was.sent = <<>>
          BY <1>3, <1>5 DEF Runs
        <4>3. \A i \in DOMAIN was.items : i < was.next => i < was.next + 1
          BY <1>3, <2>1 DEF Runs, Items
        <4> QED BY <1>5, <1>11, <4>1, <4>2, <4>3
      <3>2. CASE t = take /\ outcome # "refused"
        <4>1. run.sent = <<>> => outcome = "untold"
          BY <1>3, <1>5, <3>2 DEF Runs
        <4> QED BY <1>4, <1>5, <1>6, <1>8, <2>1, <3>2, <4>1
      <3> QED BY <1>12, <2>3, <3>1, <3>2
    <2>4. /\ run.click \in 1..clicked' /\ run.text.n \in 1..promptsWritten'
          /\ run.text.n = promptsWritten' => composerDraft' \in {NoText, run.text}
          /\ \A i \in DOMAIN run.items :
                /\ run.items[i].how = "line" => ~run.text.many
                /\ \A j \in DOMAIN run.items : run.items[i].id = run.items[j].id => i = j
      BY <1>2, <1>3, <1>5, <1>11 DEF RunOK
    <2> QED BY <2>1, <2>2, <2>3, <2>4 DEF RunOK
  <1>18. RunsApart'
    BY <1>2, <1>5, <1>9, <1>15 DEF SendIInv, RunsApart
  \* When it ends, what was taken of it is the draft no more, or was not told.
  <1>19. ASSUME NEW t \in took', t.click = was.click, ends
         PROVE  was.text \in untold' \/ composerDraft' = NoText
    <2>1. CASE run.sent # <<>>
      BY <2>1, <1>10, <1>19
    <2>2. CASE run.sent = <<>>
      <3>1. was.sent = <<>> /\ outcome # "sent"
        BY <1>3, <1>5, <2>2 DEF Runs
      <3> QED BY <1>3, <1>8, <1>11, <1>12, <1>19, <3>1 DEF RunOK
    <2> QED BY <2>1, <2>2
  <1>20. \A t \in took' : TakeOK(t)'
    <2> SUFFICES ASSUME NEW t \in took' PROVE TakeOK(t)'
      OBVIOUS
    <2>1. CASE t.click = was.click
      <3>1. t.text = was.text /\ was.text.n \in 1..promptsWritten /\ was.click \in 1..clicked /\ (t.how = "line" => ~t.text.many)
        BY <1>3, <1>4, <1>6, <1>12, <2>1 DEF RunOK, SendIInv, TakeOK
      <3>2. CASE ~ends
        BY <1>2, <1>5, <1>9, <2>1, <3>1, <3>2 DEF TakeOK
      <3>3. CASE ends
        <4>1. \A r \in sends' : r.text = was.text => was.text \in overlapped
          BY <1>9, <3>3 DEF SendIInv, RunsApart
        <4>2. composerDraft' = NoText => was.text # composerDraft'
          BY <3>1 DEF NoText
        <4> QED BY <1>2, <1>19, <2>1, <3>1, <3>3, <4>1, <4>2 DEF TakeOK
      <3> QED BY <3>2, <3>3
    <2>2. CASE t.click # was.click
      <3>1. t \in took /\ TakeOK(t)
        BY <1>6, <1>12, <2>2 DEF SendIInv
      <3>2. t.text # NoText
        BY <3>1 DEF TakeOK, NoText
      <3>3. \A r \in sends' : r.text = was.text \/ r \in sends
        BY <1>5, <1>9
      <3>4. (\E r \in sends : r.click = t.click) => \E r \in sends' : r.click = t.click
        BY <1>9, <2>2
      <3> QED BY <1>2, <1>11, <3>1, <3>2, <3>3, <3>4 DEF TakeOK
    <2> QED BY <2>1, <2>2
  <1>21. TakenOnce'
    <2> SUFFICES ASSUME NEW t \in took', NEW u \in took', t.id = u.id, t.text = u.text, t # u,
                        t.text \notin overlapped, t.text \notin untold'
                 PROVE  FALSE
      BY <1>2 DEF TakenOnce
    <2>1. ASSUME NEW v \in took, v.id = take.id, v.text = was.text, was.text \notin overlapped, was.text \notin untold'
          PROVE  FALSE
      <3>1. TakeOK(v) /\ v.text \notin untold
        BY <1>11, <2>1 DEF SendIInv
      <3>2. PICK r \in sends : r.click = v.click
        BY <2>1, <3>1 DEF TakeOK
      <3>3. r.text = was.text
        BY <2>1, <3>2 DEF SendIInv, RunOK
      <3>4. r = was
        BY <2>1, <3>3 DEF SendIInv, RunsApart
      <3> QED BY <1>6, <1>14, <2>1, <3>2, <3>4
    <2>2. t \notin took \/ u \notin took
      BY <1>11 DEF SendIInv, TakenOnce
    <2> QED BY <1>6, <1>12, <2>1, <2>2
  <1>22. DraftsAreKept'
    <2>1. \A t \in took : t.text.n \in Nat
      BY DEF SendIInv, SendTyped, Taken, Texts
    <2>2. CASE composerDraft' = composerDraft /\ lostDrafts' = lostDrafts
      BY <2>2, <1>2, <1>11 DEF SendIInv, DraftsAreKept
    <2>3. CASE ends /\ run.sent # <<>>
      <3>1. PICK t \in took' : t.text = was.text
        <4>1. CASE outcome = "sent"
          BY <4>1, <1>6, <1>7
        <4>2. CASE outcome # "sent"
          <5>1. was.sent \in Seq(PromptTargets) /\ was.sent # <<>>
            BY <1>3, <1>5, <2>3, <4>2 DEF Runs
          <5>2. 1 \in DOMAIN was.sent
            BY <5>1
          <5> QED BY <1>3, <1>11, <5>2 DEF RunOK
        <4> QED BY <4>1, <4>2
      <3>2. was.text.n \in 1..promptsWritten /\ promptsWritten \in Nat
            /\ (was.text.n = promptsWritten => composerDraft \in {NoText, was.text})
        BY <1>3 DEF RunOK, SendIInv, SendTyped
      <3>3. composerDraft # NoText => composerDraft.n = promptsWritten
        BY DEF SendIInv, SendTyped
      <3>4. \A d \in lostDrafts' : \E s \in took' : s.text.n < d.n
        <4> SUFFICES ASSUME NEW d \in lostDrafts' PROVE \E s \in took' : s.text.n < d.n
          OBVIOUS
        <4>1. CASE d \in lostDrafts
          BY <4>1, <1>11 DEF SendIInv, DraftsAreKept
        <4>2. CASE d = composerDraft /\ composerDraft \notin {NoText, was.text}
          BY <4>2, <3>1, <3>2, <3>3
        <4> QED BY <4>1, <4>2, <1>10, <2>3
      <3>5. promptsWritten > 0 => (\E s \in took' : s.text.n = promptsWritten) \/ (\E d \in lostDrafts' : d.n = promptsWritten)
        <4>1. CASE composerDraft = NoText
          BY <4>1, <1>10, <1>11, <2>3 DEF SendIInv, DraftsAreKept
        <4>2. CASE composerDraft # NoText /\ composerDraft = was.text
          BY <4>2, <3>1, <3>3
        <4>3. CASE composerDraft \notin {NoText, was.text}
          BY <4>3, <1>10, <2>3, <3>3
        <4> QED BY <4>1, <4>2, <4>3
      <3> QED BY <1>2, <3>4, <3>5 DEF DraftsAreKept
    <2> QED BY <1>10, <2>2, <2>3
  <1>23. \A i \in DOMAIN sentTargets' : \E t \in took' : t.id = sentTargets'[i]
    <2>1. CASE ends
      BY <1>a, <1>10, <2>1
    <2>2. CASE ~ends
      BY <2>2, <1>10, <1>11 DEF SendIInv
    <2> QED BY <2>1, <2>2
  <1>24. \A r \in sends' : RunOK(r)'
    BY <1>9, <1>16, <1>17
  <1> QED
    BY <1>13, <1>18, <1>20, <1>21, <1>22, <1>23, <1>24 DEF SendIInv

\* What neither sends nor writes leaves all of it.
LEMMA SendRestOK ==
  ASSUME SendIInv, UNCHANGED <<composerDraft, promptsWritten, sends, clicked, took, sentTargets, untold, overlapped, lostDrafts>>,
         composerOpen' \in 0..mounts', mounts' \in Nat,
         targetOf' \in [PromptTargets -> {"agent", "plain", "closed"}],
         listedAs' \in [PromptTargets -> {"agent", "plain", "closed"}]
  PROVE  SendIInv'
  BY DEF SendIInv, SendTyped, RunsApart, TakenOnce, DraftsAreKept, RunOK, TakeOK

LEMMA SendStepOK == ASSUME SendIInv, [ComposerNext]_composerVars PROVE SendIInv'
  <1>0. composerOpen \in 0..mounts /\ mounts \in Nat /\ targetOf \in [PromptTargets -> {"agent", "plain", "closed"}]
        /\ listedAs \in [PromptTargets -> {"agent", "plain", "closed"}]
    BY DEF SendIInv, SendTyped
  <1>1. CASE OpensComposer
    BY <1>0, <1>1, SendRestOK DEF OpensComposer, sendVars
  <1>2. CASE ClosesComposer
    BY <1>0, <1>2, SendRestOK DEF ClosesComposer, sendVars
  <1>3. CASE Writes
    BY <1>3, NewTextOK DEF Writes
  <1>4. CASE TargetMoves
    BY <1>0, <1>4, SendRestOK DEF TargetMoves
  <1>5. CASE TargetsListed
    BY <1>0, <1>5, SendRestOK DEF TargetsListed
  <1>6. CASE TakesProposal
    <2>1. CASE NewText
      BY <1>6, <2>1, NewTextOK DEF TakesProposal
    <2>2. CASE UNCHANGED sendVars
      BY <1>0, <1>6, <2>2, SendRestOK DEF TakesProposal, sendVars
    <2> QED BY <1>6, <2>1, <2>2 DEF TakesProposal
  <1>7. CASE UNCHANGED <<composerOpen, mounts, sendVars>>
    BY <1>0, <1>7, SendRestOK DEF sendVars
  <1> QED
    BY <1>1, <1>2, <1>3, <1>4, <1>5, <1>6, <1>7, DoSendOK, SendGoesOnOK
    DEF ComposerNext, SendNext, RefineNext, RunRefine, CancelRefine, RefinerHears, RefineArrives, CommandEnds, composerVars

(* A shell that took a text took it of one Send, at an item that Send is past: the
   inductive invariant of the Sends (PromptComposer.tsx doSend).            *)
THEOREM SendsHold == ComposerSpec => []SendIInv
  BY SendInitOK, SendStepOK, PTL DEF ComposerSpec

(* No prompt of many lines is typed into a plain shell, none is taken twice unless two
   dialogs sent it or an answer was lost, and a draft goes only when one was taken
   (prompt-send.ts planSend, PromptComposer.tsx doSend).                    *)
THEOREM PromptsGoWhereMeant == ComposerSpec => [](PromptsAreSafe /\ DraftsAreKept)
  <1>1. SendIInv => PromptsAreSafe /\ DraftsAreKept
    <2> SUFFICES ASSUME SendIInv PROVE PromptsAreSafe
      BY DEF SendIInv
    <2>1. \A t \in took : t.plain /\ t.text.many => t.how = "paste"
      BY DEF SendIInv, SendTyped, Taken, Ways, TakeOK
    <2>2. \A s \in ToSet(sentTargets) : \E t \in took : t.id = s
      BY DEF SendIInv, SendTyped, ToSet
    <2> QED BY <2>1, <2>2 DEF PromptsAreSafe, SendIInv, TakenOnce
  <1> QED BY <1>1, SendsHold, PTL

-----------------------------------------------------------------------------
(***************************************************************************)
(* The composer: refines.  They are asked one after the other, and what is *)
(* heard, run or answered was asked before what is still on its way.       *)
(***************************************************************************)
RefineTyped ==
  /\ mounts \in Nat /\ composerOpen \in Nat /\ refines \in 0..MaxRefines /\ refining \in {0, refines} /\ proposal \in 0..refines
  /\ toRefiner \in Seq(0..refines) /\ activeRefine \in 0..refines
  /\ commands \subseteq [id : 1..refines, aborted : BOOLEAN]
  /\ refined \in Seq([id : 1..refines, how : {"ok", "failed", "cancelled"}])
  /\ stopped \subseteq 1..refines

AskedInOrder ==
  /\ \A i, j \in DOMAIN toRefiner : i < j /\ toRefiner[i] # 0 /\ toRefiner[j] # 0 => toRefiner[i] < toRefiner[j]
  /\ \A i \in DOMAIN toRefiner : toRefiner[i] # 0 =>
        /\ activeRefine < toRefiner[i]
        /\ \A c \in commands : c.id < toRefiner[i]
        /\ \A k \in DOMAIN refined : refined[k].id < toRefiner[i]
  /\ \A c, d \in commands : c.id = d.id => c = d
  /\ \A c \in commands, k \in DOMAIN refined : refined[k].id # c.id

\* The last refine asked is the last the main process hears of.
LastAsked ==
  IF \E i \in DOMAIN toRefiner : toRefiner[i] # 0
  THEN \E i \in DOMAIN toRefiner : toRefiner[i] = refines
  ELSE activeRefine \in {0, refines}

\* A Cancel on its way stops one that somebody gave up.
CancelsTheStopped ==
  \A i \in DOMAIN toRefiner : toRefiner[i] = 0 =>
     \A k \in {activeRefine} \cup {toRefiner[j] : j \in 1..(i - 1)} :
        k # 0 /\ (\A j \in 1..(i - 1) : toRefiner[j] <= k) => k \in stopped

\* What runs unstopped is the active one; and with the messages heard the one the dialog awaits.
OneRuns ==
  /\ \A c \in commands : IF c.aborted THEN c.id \in stopped ELSE c.id = activeRefine
  /\ IF toRefiner = <<>> THEN \A c \in commands : ~c.aborted => c.id = refining
     ELSE toRefiner[Len(toRefiner)] \in {0, refining}

DialogAsks == (composerOpen = 0 => refining = 0) /\ (proposal # 0 => composerOpen # 0 /\ refining = 0)

RefineIInv == RefineTyped /\ AskedInOrder /\ LastAsked /\ CancelsTheStopped /\ OneRuns /\ DialogAsks

LEMMA RefineInitOK == ComposerInit => RefineIInv
  BY ComposerAssumption DEF ComposerInit, RefineIInv, RefineTyped, AskedInOrder, LastAsked, CancelsTheStopped, OneRuns, DialogAsks

\* What is asked and heard of, counted.
LEMMA RefineTypes ==
  ASSUME RefineTyped
  PROVE  /\ refines \in Nat /\ refines <= MaxRefines /\ refining \in Nat /\ proposal \in 0..refines /\ activeRefine \in 0..refines
         /\ Len(toRefiner) \in Nat /\ DOMAIN toRefiner = 1..Len(toRefiner)
         /\ (toRefiner = <<>> <=> Len(toRefiner) = 0)
         /\ \A i \in 1..Len(toRefiner) : toRefiner[i] \in 0..refines
         /\ \A c \in commands : c \in [id : 1..refines, aborted : BOOLEAN] /\ c.id \in 1..refines
         /\ \A k \in DOMAIN refined : refined[k].id \in 1..refines
  <1>1. /\ refines \in 0..MaxRefines /\ MaxRefines \in Nat /\ refining \in {0, refines} /\ proposal \in 0..refines
        /\ activeRefine \in 0..refines /\ toRefiner \in Seq(0..refines)
    BY ComposerAssumption DEF RefineTyped
  <1>2. refines \in Nat /\ refines <= MaxRefines /\ refining \in Nat
    BY <1>1
  <1>3. /\ Len(toRefiner) \in Nat /\ DOMAIN toRefiner = 1..Len(toRefiner) /\ (toRefiner = <<>> <=> Len(toRefiner) = 0)
        /\ \A i \in 1..Len(toRefiner) : toRefiner[i] \in 0..refines
    BY <1>1
  <1>4. \A c \in commands : c \in [id : 1..refines, aborted : BOOLEAN] /\ c.id \in 1..refines
    BY DEF RefineTyped
  <1>5. \A k \in DOMAIN refined : refined[k] \in [id : 1..refines, how : {"ok", "failed", "cancelled"}]
    <2> DEFINE P == [id : 1..refines, how : {"ok", "failed", "cancelled"}]
    <2>1. refined \in Seq(P)
      BY DEF RefineTyped
    <2> HIDE DEF P
    <2>2. \A k \in DOMAIN refined : refined[k] \in P
      BY <2>1
    <2> QED BY <2>2 DEF P
  <1>6. \A k \in DOMAIN refined : refined[k].id \in 1..refines
    BY <1>5
  <1> QED BY <1>1, <1>2, <1>3, <1>4, <1>6

\* A Cancel sent: the dialog may go on waiting or be gone.
LEMMA CancelOK ==
  ASSUME RefineIInv, CancelsRefine, refining' \in {refining, 0}, proposal' \in {proposal, 0}, composerOpen' \in {composerOpen, 0},
         composerOpen' = 0 => refining' = 0 /\ proposal' = 0, refining' = refining \/ proposal' = 0,
         UNCHANGED <<mounts, refines, activeRefine, commands, refined>>
  PROVE  RefineIInv'
  <1>0. /\ RefineTyped /\ refining \in {0, refines} /\ composerOpen \in Nat /\ toRefiner \in Seq(0..refines)
        /\ stopped \subseteq 1..refines
    BY DEF RefineIInv, RefineTyped
  <1>1. CASE refining = 0
    <2>1. UNCHANGED <<refining, toRefiner, stopped>>
      BY <1>1 DEF CancelsRefine
    <2> QED BY <1>0, <2>1, RefineTypes
         DEF RefineIInv, RefineTyped, AskedInOrder, LastAsked, CancelsTheStopped, OneRuns, DialogAsks
  <1>2. CASE refining # 0
    <2>1. toRefiner' = Append(toRefiner, 0) /\ stopped' = stopped \cup {refines} /\ refining = refines /\ refines \in 1..refines
      BY <1>0, <1>2, RefineTypes DEF CancelsRefine
    <2> DEFINE n == Len(toRefiner)
    <2>2. /\ n \in Nat /\ Len(toRefiner') = n + 1 /\ toRefiner'[n + 1] = 0 /\ toRefiner' # <<>> /\ toRefiner' \in Seq(0..refines)
          /\ DOMAIN toRefiner = 1..n /\ DOMAIN toRefiner' = 1..(n + 1)
          /\ \A i \in 1..n : toRefiner'[i] = toRefiner[i] /\ toRefiner[i] \in 0..refines
      <3> DEFINE P == 0..refines
      <3>1. toRefiner \in Seq(P) /\ 0 \in P /\ toRefiner' = Append(toRefiner, 0)
        BY <1>0, <2>1, RefineTypes
      <3> HIDE DEF P
      <3>2. /\ Len(toRefiner) \in Nat /\ Append(toRefiner, 0) \in Seq(P) /\ Append(toRefiner, 0) # <<>>
            /\ Len(Append(toRefiner, 0)) = Len(toRefiner) + 1 /\ Append(toRefiner, 0)[Len(toRefiner) + 1] = 0
            /\ DOMAIN toRefiner = 1..Len(toRefiner) /\ DOMAIN Append(toRefiner, 0) = 1..(Len(toRefiner) + 1)
            /\ \A i \in 1..Len(toRefiner) : Append(toRefiner, 0)[i] = toRefiner[i] /\ toRefiner[i] \in P
        BY <3>1, OneMore
      <3> QED BY <3>1, <3>2 DEF P
    <2> HIDE DEF n
    <2>3. RefineTyped'
      BY <1>0, <2>1, <2>2, RefineTypes DEF RefineTyped
    <2>4. AskedInOrder'
      BY <2>1, <2>2 DEF RefineIInv, AskedInOrder
    <2>5. LastAsked'
      BY <2>1, <2>2 DEF RefineIInv, LastAsked
    <2>6. CancelsTheStopped'
      <3> SUFFICES ASSUME NEW i \in 1..(n + 1), toRefiner'[i] = 0,
                          NEW k \in {activeRefine} \cup {toRefiner'[j] : j \in 1..(i - 1)}, k # 0,
                          \A j \in 1..(i - 1) : toRefiner'[j] <= k
                   PROVE  k \in stopped'
        BY <2>2 DEF CancelsTheStopped
      <3>0. \A j \in 1..(i - 1) : j \in 1..n /\ toRefiner'[j] = toRefiner[j]
        BY <2>2
      <3>a. k \in {activeRefine} \cup {toRefiner[j] : j \in 1..(i - 1)} /\ \A j \in 1..(i - 1) : toRefiner[j] <= k
        BY <3>0
      <3>1. CASE i \in 1..n
        BY <2>1, <2>2, <3>a, <3>1 DEF RefineIInv, CancelsTheStopped
      <3>2. CASE i = n + 1
        <4>1. \A j \in 1..n : toRefiner[j] <= k /\ toRefiner[j] \in 0..refines
          BY <2>2, <3>a, <3>2
        <4>2. k \in 0..refines
          BY <1>0, <2>2, <3>0, <3>a, RefineTypes
        <4>3. CASE \E j \in 1..n : toRefiner[j] # 0
          <5>1. \E j \in 1..n : toRefiner[j] = refines
            BY <2>2, <4>3 DEF RefineIInv, LastAsked
          <5>2. k = refines
            BY <2>1, <4>1, <4>2, <5>1
          <5> QED BY <2>1, <5>2
        <4>4. CASE \A j \in 1..n : toRefiner[j] = 0
          <5>1. k = activeRefine
            BY <2>2, <3>0, <3>a, <3>2, <4>4
          <5>2. activeRefine \in {0, refines}
            BY <2>2, <4>4 DEF RefineIInv, LastAsked
          <5> QED BY <2>1, <5>1, <5>2
        <4> QED BY <4>3, <4>4
      <3> QED BY <2>2, <3>1, <3>2
    <2>7. OneRuns'
      BY <2>1, <2>2 DEF RefineIInv, OneRuns
    <2>8. DialogAsks'
      BY DEF RefineIInv, DialogAsks
    <2> QED BY <2>3, <2>4, <2>5, <2>6, <2>7, <2>8 DEF RefineIInv
  <1> QED BY <1>1, <1>2

LEMMA RunRefineOK == ASSUME RefineIInv, RunRefine PROVE RefineIInv'
  <1>0. RefineTyped /\ toRefiner \in Seq(0..refines) /\ stopped \subseteq 1..refines /\ mounts \in Nat /\ composerOpen \in Nat
    BY DEF RefineIInv, RefineTyped
  <1>1. /\ toRefiner' = Append(toRefiner, refines + 1) /\ refines \in Nat /\ refines' = refines + 1 /\ refining' = refines'
        /\ proposal' = 0 /\ composerOpen # 0 /\ refines < MaxRefines /\ MaxRefines \in Nat
        /\ UNCHANGED <<composerOpen, mounts, activeRefine, commands, refined, stopped>>
    BY <1>0, RefineTypes, ComposerAssumption DEF RunRefine
  <1> DEFINE n == Len(toRefiner)
  <1>a. toRefiner \in Seq(0..(refines + 1)) /\ refines + 1 \in 0..(refines + 1)
    <2>1. 0..refines \subseteq 0..(refines + 1)
      BY <1>1
    <2> QED BY <1>0, <1>1, <2>1
  <1>2. /\ n \in Nat /\ Len(toRefiner') = n + 1 /\ toRefiner'[n + 1] = refines + 1 /\ toRefiner' # <<>>
        /\ toRefiner' \in Seq(0..(refines + 1))
        /\ DOMAIN toRefiner = 1..n /\ DOMAIN toRefiner' = 1..(n + 1)
        /\ \A i \in 1..n : toRefiner'[i] = toRefiner[i] /\ toRefiner[i] \in 0..refines
    BY <1>0, <1>1, <1>a, OneMore, RefineTypes
  <1> HIDE DEF n
  <1>3. RefineTyped'
    <2>1. refined \in Seq([id : 1..refines', how : {"ok", "failed", "cancelled"}])
      <3>1. 1..refines \subseteq 1..refines'
        BY <1>1
      <3>2. [id : 1..refines, how : {"ok", "failed", "cancelled"}] \subseteq [id : 1..refines', how : {"ok", "failed", "cancelled"}]
        BY <3>1
      <3> DEFINE P == [id : 1..refines, how : {"ok", "failed", "cancelled"}]
                 Q == [id : 1..refines', how : {"ok", "failed", "cancelled"}]
      <3>3. refined \in Seq(P) /\ P \subseteq Q
        BY <1>0, <3>2 DEF RefineTyped
      <3> HIDE DEF P, Q
      <3>4. refined \in Seq(Q)
        BY <3>3
      <3> QED BY <3>4 DEF Q
    <2>2. commands \subseteq [id : 1..refines', aborted : BOOLEAN]
      BY <1>0, <1>1 DEF RefineTyped
    <2>3. stopped \subseteq 1..refines' /\ activeRefine \in 0..refines'
      BY <1>0, <1>1, RefineTypes
    <2> QED BY <1>0, <1>1, <1>2, <2>1, <2>2, <2>3 DEF RefineTyped
  <1>4. AskedInOrder'
    <2>1. \A i \in 1..(n + 1) : i # n + 1 => i \in 1..n
      BY <1>2
    <2>2. \A i, j \in 1..(n + 1) : i < j => i \in 1..n
      BY <1>2
    <2>3. \A i \in 1..n : toRefiner[i] < refines + 1
      BY <1>1, <1>2
    <2>4. /\ activeRefine < refines + 1 /\ \A c \in commands : c.id < refines + 1
          /\ \A k \in DOMAIN refined : refined[k].id < refines + 1
      BY <1>0, <1>1, RefineTypes
    <2>5. \A i, j \in DOMAIN toRefiner' : i < j /\ toRefiner'[i] # 0 /\ toRefiner'[j] # 0 => toRefiner'[i] < toRefiner'[j]
      BY <1>2, <2>1, <2>2, <2>3 DEF RefineIInv, AskedInOrder
    <2>6. \A i \in DOMAIN toRefiner' : toRefiner'[i] # 0 =>
          /\ activeRefine < toRefiner'[i]
          /\ \A c \in commands : c.id < toRefiner'[i]
          /\ \A k \in DOMAIN refined : refined[k].id < toRefiner'[i]
      BY <1>2, <2>1, <2>4 DEF RefineIInv, AskedInOrder
    <2> QED BY <1>1, <2>5, <2>6 DEF RefineIInv, AskedInOrder
  <1>5. LastAsked'
    <2>1. n + 1 \in DOMAIN toRefiner'
      BY <1>2
    <2> QED BY <1>1, <1>2, <2>1 DEF LastAsked
  <1>6. CancelsTheStopped'
    <2> SUFFICES ASSUME NEW i \in 1..(n + 1), toRefiner'[i] = 0,
                        NEW k \in {activeRefine} \cup {toRefiner'[j] : j \in 1..(i - 1)}, k # 0,
                        \A j \in 1..(i - 1) : toRefiner'[j] <= k
                 PROVE  k \in stopped'
      BY <1>1, <1>2 DEF CancelsTheStopped
    <2>1. i \in 1..n
      BY <1>1, <1>2
    <2>2. \A j \in 1..(i - 1) : toRefiner'[j] = toRefiner[j]
      BY <1>2, <2>1
    <2>3. toRefiner[i] = 0 /\ k \in {activeRefine} \cup {toRefiner[j] : j \in 1..(i - 1)} /\ \A j \in 1..(i - 1) : toRefiner[j] <= k
      BY <1>2, <2>1, <2>2
    <2> QED BY <1>1, <1>2, <2>1, <2>3 DEF RefineIInv, CancelsTheStopped
  <1>7. OneRuns' /\ DialogAsks'
    BY <1>1, <1>2 DEF RefineIInv, OneRuns, DialogAsks
  <1> QED BY <1>3, <1>4, <1>5, <1>6, <1>7 DEF RefineIInv

\* The queue when its first message is heard: what is in it moves up, and what was below it stays so.
HeadIs(h, n) ==
  /\ n \in Nat /\ h = toRefiner[1] /\ h \in 0..refines /\ toRefiner # <<>>
  /\ DOMAIN toRefiner = 1..(n + 1) /\ Len(toRefiner) = n + 1 /\ DOMAIN toRefiner' = 1..n /\ Len(toRefiner') = n
  /\ toRefiner' \in Seq(0..refines) /\ (toRefiner' = <<>> <=> n = 0)
  /\ \A i \in 1..n : /\ i + 1 \in 1..(n + 1) /\ toRefiner'[i] = toRefiner[i + 1] /\ toRefiner'[i] \in 0..refines
                     /\ (h # 0 /\ toRefiner'[i] # 0 => h < toRefiner'[i])

LEMMA HeadFacts ==
  ASSUME RefineIInv, toRefiner # <<>>, toRefiner' = Tail(toRefiner)
  PROVE  HeadIs(Head(toRefiner), Len(toRefiner) - 1) /\ 1 \in DOMAIN toRefiner
  <1> DEFINE n == Len(toRefiner) - 1
  <1>1. RefineTyped /\ toRefiner \in Seq(0..refines) /\ refines \in Nat
    BY RefineTypes DEF RefineIInv, RefineTyped
  <1>2. /\ toRefiner' \in Seq(0..refines) /\ Len(toRefiner) \in Nat /\ Len(toRefiner) >= 1 /\ Head(toRefiner) = toRefiner[1]
        /\ toRefiner[1] \in 0..refines /\ Len(toRefiner') = n /\ DOMAIN toRefiner = 1..Len(toRefiner) /\ DOMAIN toRefiner' = 1..n
        /\ \A i \in 1..n : toRefiner'[i] = toRefiner[i + 1] /\ toRefiner[i + 1] \in 0..refines
    BY <1>1, OneLess
  <1>3. n \in Nat /\ Len(toRefiner) = n + 1 /\ (toRefiner' = <<>> <=> n = 0)
    BY <1>2
  <1>4. \A i \in 1..n : i + 1 \in 1..(n + 1) /\ 1 < i + 1 /\ 1 \in 1..(n + 1)
    BY <1>3
  <1>5. ASSUME NEW i \in 1..n, toRefiner[1] # 0, toRefiner[i + 1] # 0 PROVE toRefiner[1] < toRefiner[i + 1]
    BY <1>2, <1>3, <1>4, <1>5 DEF RefineIInv, AskedInOrder
  <1> HIDE DEF n
  <1>6. HeadIs(Head(toRefiner), n)
    BY <1>2, <1>3, <1>4, <1>5 DEF HeadIs
  <1> QED BY <1>2, <1>3, <1>6 DEF n

\* A Cancel still on its way stops whom it stopped, with the first message heard.
LEMMA CancelsMoveUp ==
  ASSUME RefineIInv, NEW h, NEW n, HeadIs(h, n), activeRefine' = (IF h = 0 THEN activeRefine ELSE h), stopped \subseteq stopped',
         refines \in Nat, activeRefine \in 0..refines
  PROVE  CancelsTheStopped'
  <1> SUFFICES ASSUME NEW i \in 1..n, toRefiner'[i] = 0,
                      NEW k \in {activeRefine'} \cup {toRefiner'[j] : j \in 1..(i - 1)}, k # 0,
                      \A j \in 1..(i - 1) : toRefiner'[j] <= k
               PROVE  k \in stopped'
    BY DEF CancelsTheStopped, HeadIs
  <1>1. i + 1 \in 1..(n + 1) /\ toRefiner[i + 1] = 0 /\ (i + 1) - 1 = i /\ 1 \in 1..i /\ i \in Nat /\ n \in Nat
    BY DEF HeadIs
  <1>2. \A j \in 1..(i - 1) : j \in 1..n /\ j + 1 \in 1..i /\ toRefiner'[j] = toRefiner[j + 1] /\ toRefiner'[j] \in 0..refines
    BY <1>1 DEF HeadIs
  <1>3. k \in {activeRefine} \cup {toRefiner[j] : j \in 1..i} /\ k \in Nat
    <2>1. CASE \E j \in 1..(i - 1) : k = toRefiner'[j]
      BY <2>1, <1>2
    <2>2. CASE k = activeRefine'
      BY <2>2, <1>1 DEF HeadIs
    <2> QED BY <2>1, <2>2
  <1>4. h <= k
    <2>1. CASE h = 0
      BY <2>1, <1>3
    <2>2. CASE h # 0 /\ k = activeRefine'
      BY <2>2, <1>3
    <2>3. CASE h # 0 /\ \E j \in 1..(i - 1) : k = toRefiner'[j]
      BY <2>3, <1>2, <1>3 DEF HeadIs
    <2> QED BY <2>1, <2>2, <2>3
  <1>5. ASSUME NEW j \in 1..i PROVE toRefiner[j] <= k
    <2>1. CASE j = 1
      BY <2>1, <1>4 DEF HeadIs
    <2>2. CASE j # 1
      <3>1. j - 1 \in 1..(i - 1) /\ (j - 1) + 1 = j
        BY <2>2, <1>1
      <3>2. toRefiner'[j - 1] = toRefiner[j]
        BY <3>1, <1>2
      <3> QED BY <3>1, <3>2
    <2> QED BY <2>1, <2>2
  <1>6. \A j \in 1..((i + 1) - 1) : toRefiner[j] <= k
    BY <1>1, <1>5
  <1>7. k \in {activeRefine} \cup {toRefiner[j] : j \in 1..((i + 1) - 1)}
    BY <1>1, <1>3
  <1>8. i + 1 \in DOMAIN toRefiner
    BY <1>1 DEF HeadIs
  <1> QED BY <1>1, <1>6, <1>7, <1>8 DEF RefineIInv, CancelsTheStopped

LEMMA HearsOK == ASSUME RefineIInv, RefinerHears PROVE RefineIInv'
  <1>0. RefineTyped /\ mounts \in Nat /\ composerOpen \in Nat /\ stopped \subseteq 1..refines
        /\ refined \in Seq([id : 1..refines, how : {"ok", "failed", "cancelled"}])
    BY DEF RefineIInv, RefineTyped
  <1> DEFINE h == Head(toRefiner)
             n == Len(toRefiner) - 1
  <1>1. /\ toRefiner # <<>> /\ toRefiner' = Tail(toRefiner)
        /\ UNCHANGED <<composerOpen, mounts, refining, proposal, refines, refined>>
        /\ IF h = 0
           THEN commands' = Aborted(commands) /\ UNCHANGED <<activeRefine, stopped>>
           ELSE /\ commands' = Aborted(commands) \cup {[id |-> h, aborted |-> FALSE]}
                /\ activeRefine' = h /\ stopped' = stopped \cup ({activeRefine} \ {0})
    BY DEF RefinerHears
  <1>2. HeadIs(h, n) /\ 1 \in DOMAIN toRefiner
    BY <1>1, HeadFacts
  <1> HIDE DEF h, n
  <1>3. refines \in Nat /\ activeRefine \in 0..refines
        /\ \A c \in commands : c.id \in 1..refines /\ c \in [id : 1..refines, aborted : BOOLEAN]
    BY <1>0, RefineTypes
  <1>4. Aborted(commands) \subseteq [id : 1..refines, aborted : BOOLEAN]
    BY <1>3 DEF Aborted
  <1>5. ASSUME NEW c \in Aborted(commands)
        PROVE  c.aborted /\ \E d \in commands : c.id = d.id /\ (c.id = activeRefine \/ c = d)
    <2>1. PICK d \in commands : c = IF d.id = activeRefine THEN [d EXCEPT !.aborted = TRUE] ELSE d
      BY DEF Aborted
    <2>2. d \in [id : 1..refines, aborted : BOOLEAN] /\ (d.id # activeRefine => d.aborted)
      BY <1>3 DEF RefineIInv, OneRuns
    <2> QED BY <2>1, <2>2
  <1>6. \A c, d \in Aborted(commands) : c.id = d.id => c = d
    <2> SUFFICES ASSUME NEW a \in Aborted(commands), NEW b \in Aborted(commands), a.id = b.id PROVE a = b
      OBVIOUS
    <2>1. PICK c \in commands : a = IF c.id = activeRefine THEN [c EXCEPT !.aborted = TRUE] ELSE c
      BY DEF Aborted
    <2>2. PICK d \in commands : b = IF d.id = activeRefine THEN [d EXCEPT !.aborted = TRUE] ELSE d
      BY DEF Aborted
    <2>3. c \in [id : 1..refines, aborted : BOOLEAN] /\ d \in [id : 1..refines, aborted : BOOLEAN]
      BY <1>3
    <2>4. a.id = c.id /\ b.id = d.id
      BY <2>1, <2>2, <2>3
    <2>5. c = d
      BY <2>4 DEF RefineIInv, AskedInOrder
    <2> QED BY <2>1, <2>2, <2>5
  <1>7. CancelsTheStopped'
    BY <1>1, <1>2, <1>3, CancelsMoveUp
  <1>8. toRefiner' # <<>> => toRefiner'[n] \in {0, refining}
    BY <1>2 DEF HeadIs, RefineIInv, OneRuns
  <1>9. \A i, j \in DOMAIN toRefiner' : i < j /\ toRefiner'[i] # 0 /\ toRefiner'[j] # 0 => toRefiner'[i] < toRefiner'[j]
    <2> SUFFICES ASSUME NEW i \in 1..n, NEW j \in 1..n, i < j, toRefiner'[i] # 0, toRefiner'[j] # 0
                 PROVE  toRefiner'[i] < toRefiner'[j]
      BY <1>2 DEF HeadIs
    <2>1. i + 1 \in DOMAIN toRefiner /\ j + 1 \in DOMAIN toRefiner /\ i + 1 < j + 1
      BY <1>2 DEF HeadIs
    <2>2. toRefiner'[i] = toRefiner[i + 1] /\ toRefiner'[j] = toRefiner[j + 1]
      BY <1>2 DEF HeadIs
    <2>3. toRefiner[i + 1] < toRefiner[j + 1]
      BY <2>1, <2>2 DEF RefineIInv, AskedInOrder
    <2> QED BY <2>2, <2>3
  <1>10. CASE h = 0
    <2>1. commands' = Aborted(commands) /\ UNCHANGED <<activeRefine, stopped>>
      BY <1>1, <1>10
    <2>2. RefineTyped'
      BY <1>0, <1>1, <1>2, <1>4, <2>1 DEF RefineTyped, HeadIs
    <2>3. activeRefine # 0 => activeRefine \in stopped
      <3>1. toRefiner[1] = 0 /\ \A j \in 1..(1 - 1) : FALSE
        BY <1>2, <1>10 DEF HeadIs
      <3> QED BY <1>2, <3>1 DEF RefineIInv, CancelsTheStopped
    <2>4. OneRuns' /\ DialogAsks'
      <3>1. \A c \in commands' : c.aborted /\ c.id \in stopped
        BY <1>3, <1>5, <2>1, <2>3 DEF RefineIInv, OneRuns
      <3> QED BY <1>1, <1>2, <1>8, <2>1, <3>1 DEF HeadIs, RefineIInv, OneRuns, DialogAsks
    <2>5. AskedInOrder'
      <3>2. \A c \in commands' : \E d \in commands : c.id = d.id
        BY <1>5, <2>1
      <3>3. \A i \in DOMAIN toRefiner' : toRefiner'[i] # 0 =>
          /\ activeRefine < toRefiner'[i]
          /\ \A c \in commands' : c.id < toRefiner'[i]
          /\ \A k \in DOMAIN refined : refined[k].id < toRefiner'[i]
        BY <1>2, <3>2 DEF HeadIs, RefineIInv, AskedInOrder
      <3>4. \A c \in commands', k \in DOMAIN refined : refined[k].id # c.id
        BY <3>2 DEF RefineIInv, AskedInOrder
      <3> QED BY <1>1, <1>6, <1>9, <2>1, <3>3, <3>4 DEF AskedInOrder
    <2>6. LastAsked'
      <3>1. CASE \E i \in 1..n : toRefiner'[i] # 0
        <4>1. \E i \in 1..(n + 1) : toRefiner[i] # 0
          BY <1>2, <3>1 DEF HeadIs
        <4>2. PICK i \in 1..(n + 1) : toRefiner[i] = refines
          BY <1>2, <4>1 DEF HeadIs, RefineIInv, LastAsked
        <4>3. CASE i = 1
          <5>1. refines = 0
            BY <1>2, <1>10, <4>2, <4>3 DEF HeadIs
          <5> QED BY <1>2, <3>1, <5>1 DEF HeadIs
        <4>4. CASE i # 1
          <5>1. i - 1 \in 1..n /\ (i - 1) + 1 = i
            BY <1>2, <4>4 DEF HeadIs
          <5>2. toRefiner'[i - 1] = refines
            BY <1>2, <4>2, <5>1 DEF HeadIs
          <5> QED BY <1>1, <1>2, <3>1, <5>1, <5>2 DEF HeadIs, LastAsked
        <4> QED BY <4>3, <4>4
      <3>2. CASE \A i \in 1..n : toRefiner'[i] = 0
        <4>1. ASSUME NEW i \in 1..(n + 1) PROVE toRefiner[i] = 0
          <5>1. CASE i = 1
            BY <1>2, <1>10, <5>1 DEF HeadIs
          <5>2. CASE i # 1
            <6>1. i - 1 \in 1..n /\ (i - 1) + 1 = i
              BY <1>2, <5>2 DEF HeadIs
            <6> QED BY <1>2, <3>2, <6>1 DEF HeadIs
          <5> QED BY <5>1, <5>2
        <4>2. activeRefine \in {0, refines}
          BY <1>2, <4>1 DEF HeadIs, RefineIInv, LastAsked
        <4> QED BY <1>1, <1>2, <2>1, <3>2, <4>2 DEF HeadIs, LastAsked
      <3> QED BY <3>1, <3>2
    <2> QED BY <1>7, <2>2, <2>4, <2>5, <2>6 DEF RefineIInv
  <1>11. CASE h # 0
    <2>1. /\ commands' = Aborted(commands) \cup {[id |-> h, aborted |-> FALSE]}
          /\ activeRefine' = h /\ stopped' = stopped \cup ({activeRefine} \ {0}) /\ h \in 1..refines
      BY <1>1, <1>2, <1>3, <1>11 DEF HeadIs
    <2>2. RefineTyped'
      <3>1. commands' \subseteq [id : 1..refines, aborted : BOOLEAN]
        <4>1. [id |-> h, aborted |-> FALSE] \in [id : 1..refines, aborted : BOOLEAN]
          BY <2>1
        <4> QED BY <1>4, <2>1, <4>1
      <3>2. stopped' \subseteq 1..refines
        BY <1>0, <1>3, <2>1
      <3>3. activeRefine' \in 0..refines /\ toRefiner' \in Seq(0..refines)
        BY <1>2, <1>3, <2>1 DEF HeadIs
      <3> QED BY <1>0, <1>1, <3>1, <3>2, <3>3 DEF RefineTyped
    <2>3. /\ \A c \in commands : c.id < h /\ c.id # h
          /\ \A k \in DOMAIN refined : refined[k].id # h
      <3>1. h = toRefiner[1] /\ toRefiner[1] # 0
        BY <1>2, <1>11 DEF HeadIs
      <3>2. (\A c \in commands : c.id < h) /\ \A k \in DOMAIN refined : refined[k].id < h /\ refined[k].id \in Nat
        BY <1>0, <1>2, <3>1, RefineTypes DEF RefineIInv, AskedInOrder
      <3> QED BY <1>3, <2>1, <3>2
    <2>4. OneRuns' /\ DialogAsks'
      <3>1. \A c \in commands' : IF c.aborted THEN c.id \in stopped' ELSE c.id = h
        BY <1>3, <1>5, <2>1 DEF RefineIInv, OneRuns
      <3>3. toRefiner' = <<>> => h = refining
        BY <1>2, <1>11 DEF HeadIs, RefineIInv, OneRuns
      <3> QED BY <1>1, <1>2, <1>8, <2>1, <3>1, <3>3 DEF HeadIs, RefineIInv, OneRuns, DialogAsks
    <2>5. AskedInOrder'
      <3>1. \A c \in commands' : (c.id = h /\ c = [id |-> h, aborted |-> FALSE])
                                 \/ (c \in Aborted(commands) /\ \E d \in commands : c.id = d.id)
        BY <1>5, <2>1
      <3>2. \A c, d \in commands' : c.id = d.id => c = d
        BY <1>6, <2>3, <3>1
      <3>3. \A i \in DOMAIN toRefiner' : toRefiner'[i] # 0 =>
          /\ h < toRefiner'[i]
          /\ \A c \in commands' : c.id < toRefiner'[i]
          /\ \A k \in DOMAIN refined : refined[k].id < toRefiner'[i]
        BY <1>2, <1>11, <3>1 DEF HeadIs, RefineIInv, AskedInOrder
      <3>4. \A c \in commands', k \in DOMAIN refined : refined[k].id # c.id
        BY <2>3, <3>1 DEF RefineIInv, AskedInOrder
      <3> QED BY <1>1, <1>9, <2>1, <3>2, <3>3, <3>4 DEF AskedInOrder
    <2>6. LastAsked'
      <3>1. PICK i \in 1..(n + 1) : toRefiner[i] = refines
        BY <1>2, <1>11 DEF HeadIs, RefineIInv, LastAsked
      <3>2. CASE i = 1
        <4>1. h = refines /\ \A j \in 1..n : toRefiner'[j] = 0
          BY <1>2, <1>3, <1>11, <3>1, <3>2 DEF HeadIs
        <4> QED BY <1>1, <1>2, <2>1, <4>1 DEF HeadIs, LastAsked
      <3>3. CASE i # 1
        <4>1. i - 1 \in 1..n /\ (i - 1) + 1 = i
          BY <1>2, <3>3 DEF HeadIs
        <4>2. toRefiner'[i - 1] = refines /\ refines # 0
          BY <1>2, <2>1, <3>1, <4>1 DEF HeadIs
        <4> QED BY <1>1, <1>2, <4>1, <4>2 DEF HeadIs, LastAsked
      <3> QED BY <3>2, <3>3
    <2> QED BY <1>7, <2>2, <2>4, <2>5, <2>6 DEF RefineIInv
  <1> QED BY <1>10, <1>11

LEMMA CommandEndsOK == ASSUME RefineIInv, NEW c \in commands, CommandEnds(c) PROVE RefineIInv'
  <1>0. RefineTyped
    BY DEF RefineIInv
  <1>1. PICK how \in {"ok", "failed", "cancelled"} : refined' = Append(refined, [id |-> c.id, how |-> how])
    BY DEF CommandEnds
  <1>2. /\ commands' = commands \ {c} /\ activeRefine' \in {activeRefine, 0} /\ (activeRefine' # activeRefine => activeRefine = c.id)
        /\ UNCHANGED <<composerOpen, mounts, refining, proposal, refines, toRefiner, stopped>>
    BY DEF CommandEnds, ActiveAfter
  <1> DEFINE r == [id |-> c.id, how |-> how]
             R == [id : 1..refines, how : {"ok", "failed", "cancelled"}]
  <1>3. c.id \in 1..refines /\ r \in R /\ r.id = c.id /\ refined \in Seq(R)
    BY <1>0, RefineTypes DEF RefineTyped
  <1>4. /\ refined' \in Seq(R)
        /\ \A k \in DOMAIN refined' : refined'[k].id = c.id \/ (k \in DOMAIN refined /\ refined'[k] = refined[k])
    <2> HIDE DEF r, R
    <2>1. refined' = Append(refined, r)
      BY <1>1 DEF r
    <2>2. /\ Append(refined, r) \in Seq(R) /\ Len(refined) \in Nat
          /\ DOMAIN refined = 1..Len(refined) /\ DOMAIN Append(refined, r) = 1..(Len(refined) + 1)
          /\ Append(refined, r)[Len(refined) + 1] = r
          /\ \A i \in 1..Len(refined) : Append(refined, r)[i] = refined[i]
      BY <1>3, OneMore
    <2>3. \A k \in 1..(Len(refined) + 1) : k = Len(refined) + 1 \/ k \in 1..Len(refined)
      BY <2>2
    <2> QED BY <1>3, <2>1, <2>2, <2>3
  <1> HIDE DEF r
  <1>5. RefineTyped'
    BY <1>0, <1>2, <1>4, RefineTypes DEF RefineTyped
  <1>6. AskedInOrder'
    <2>1. \A i \in DOMAIN toRefiner : toRefiner[i] # 0 => 0 < toRefiner[i]
      BY <1>0, RefineTypes
    <2>2. \A i \in DOMAIN toRefiner : toRefiner[i] # 0 =>
          /\ activeRefine' < toRefiner[i]
          /\ \A d \in commands' : d.id < toRefiner[i]
          /\ \A k \in DOMAIN refined' : refined'[k].id < toRefiner[i]
      BY <1>2, <1>4, <2>1 DEF RefineIInv, AskedInOrder
    <2>3. \A d \in commands', k \in DOMAIN refined' : refined'[k].id # d.id
      BY <1>2, <1>4 DEF RefineIInv, AskedInOrder
    <2> QED BY <1>2, <2>2, <2>3 DEF RefineIInv, AskedInOrder
  <1>7. LastAsked' /\ DialogAsks'
    BY <1>2 DEF RefineIInv, LastAsked, DialogAsks
  <1>8. CancelsTheStopped'
    BY <1>2 DEF RefineIInv, CancelsTheStopped
  <1>9. OneRuns'
    BY <1>2 DEF RefineIInv, AskedInOrder, OneRuns
  <1> QED BY <1>5, <1>6, <1>7, <1>8, <1>9 DEF RefineIInv

LEMMA ArrivesOK == ASSUME RefineIInv, RefineArrives PROVE RefineIInv'
  <1>0. RefineTyped /\ refined \in Seq([id : 1..refines, how : {"ok", "failed", "cancelled"}])
    BY DEF RefineIInv, RefineTyped
  <1> DEFINE R == [id : 1..refines, how : {"ok", "failed", "cancelled"}]
  <1>1. /\ refined # <<>> /\ refined' = Tail(refined) /\ Head(refined) = refined[1]
        /\ UNCHANGED <<composerOpen, mounts, refines, toRefiner, activeRefine, commands, stopped>>
        /\ IF refined[1].id = refining THEN refining' = 0 /\ proposal' \in {refined[1].id, proposal} ELSE UNCHANGED <<refining, proposal>>
    BY <1>0, OneLess DEF RefineArrives
  <1>2. /\ refined' \in Seq(R) /\ 1 \in DOMAIN refined
        /\ refined[1].id \in 1..refines
        /\ \A k \in DOMAIN refined' : k + 1 \in DOMAIN refined /\ refined'[k] = refined[k + 1]
    <2>1. /\ Tail(refined) \in Seq(R) /\ Len(refined) \in Nat /\ Len(refined) >= 1 /\ refined[1] \in R
          /\ DOMAIN refined = 1..Len(refined) /\ DOMAIN Tail(refined) = 1..(Len(refined) - 1)
          /\ \A i \in 1..(Len(refined) - 1) : Tail(refined)[i] = refined[i + 1]
      <3>1. refined \in Seq(R)
        BY <1>0
      <3> HIDE DEF R
      <3> QED BY <1>1, <3>1, OneLess
    <2>2. \A k \in 1..(Len(refined) - 1) : k + 1 \in 1..Len(refined)
      BY <2>1
    <2>3. refined[1].id \in 1..refines /\ 1 \in 1..Len(refined)
      BY <2>1
    <2> QED BY <1>1, <2>1, <2>2, <2>3
  <1>3. RefineTyped'
    BY <1>0, <1>1, <1>2, RefineTypes DEF RefineTyped
  <1>4. AskedInOrder' /\ LastAsked' /\ CancelsTheStopped'
    BY <1>1, <1>2 DEF RefineIInv, AskedInOrder, LastAsked, CancelsTheStopped
  <1>5. refined[1].id = refining =>
          /\ \A c \in commands : c.id # refining
          /\ toRefiner # <<>> => toRefiner[Len(toRefiner)] = 0
    <2> SUFFICES ASSUME refined[1].id = refining
                 PROVE (\A c \in commands : c.id # refining) /\ (toRefiner # <<>> => toRefiner[Len(toRefiner)] = 0)
      OBVIOUS
    <2>1. \A c \in commands : c.id # refining
      BY <1>2 DEF RefineIInv, AskedInOrder
    <2>2. toRefiner # <<>> => Len(toRefiner) \in DOMAIN toRefiner /\ toRefiner[Len(toRefiner)] \in Nat
      BY <1>0, RefineTypes
    <2>3. toRefiner # <<>> /\ toRefiner[Len(toRefiner)] # 0 => refining < toRefiner[Len(toRefiner)]
      BY <1>2, <2>2 DEF RefineIInv, AskedInOrder
    <2> QED BY <1>0, <1>2, <2>1, <2>2, <2>3, RefineTypes DEF RefineIInv, OneRuns
  <1>6. OneRuns'
    BY <1>1, <1>5 DEF RefineIInv, OneRuns
  <1>7. DialogAsks'
    BY <1>1, <1>2 DEF RefineIInv, DialogAsks
  <1> QED BY <1>3, <1>4, <1>6, <1>7 DEF RefineIInv

LEMMA RefineRestOK ==
  ASSUME RefineIInv, UNCHANGED <<refining, refines, toRefiner, activeRefine, commands, refined, stopped>>,
         proposal' \in {proposal, 0}, mounts' \in Nat, composerOpen' \in Nat, composerOpen' = 0 => refining = 0 /\ proposal' = 0
  PROVE  RefineIInv'
  BY DEF RefineIInv, RefineTyped, AskedInOrder, LastAsked, CancelsTheStopped, OneRuns, DialogAsks

LEMMA RefineStepOK == ASSUME RefineIInv, [ComposerNext]_composerVars PROVE RefineIInv'
  <1>0. mounts \in Nat /\ composerOpen \in Nat /\ (composerOpen = 0 => refining = 0 /\ proposal = 0)
    BY DEF RefineIInv, RefineTyped, DialogAsks
  <1>1. CASE OpensComposer
    BY <1>0, <1>1, RefineRestOK DEF OpensComposer
  <1>2. CASE ClosesComposer
    BY <1>0, <1>2, CancelOK DEF ClosesComposer
  <1>3. ASSUME NEW was \in sends, SendGoesOn(was) PROVE RefineIInv'
    <2>1. \/ /\ composerOpen' = 0 /\ refining' = 0 /\ proposal' = 0
             /\ IF composerOpen # 0 THEN CancelsRefine ELSE UNCHANGED <<toRefiner, stopped>>
          \/ UNCHANGED <<composerOpen, refining, proposal, toRefiner, stopped>>
      BY <1>3 DEF SendGoesOn
    <2>2. UNCHANGED <<mounts, refines, activeRefine, commands, refined>>
      BY <1>3 DEF SendGoesOn
    <2> QED BY <1>0, <2>1, <2>2, CancelOK, RefineRestOK
  <1>4. CASE TakesProposal
    BY <1>0, <1>4, RefineRestOK DEF TakesProposal
  <1>5. CASE CancelRefine
    BY <1>0, <1>5, CancelOK DEF CancelRefine
  <1>6. CASE UNCHANGED <<composerOpen, mounts, refineVars>>
    BY <1>0, <1>6, RefineRestOK DEF refineVars
  <1> QED
    BY <1>1, <1>2, <1>3, <1>4, <1>5, <1>6, RunRefineOK, HearsOK, CommandEndsOK, ArrivesOK
    DEF ComposerNext, SendNext, RefineNext, Writes, DoSend, TargetMoves, TargetsListed, composerVars

(* Refines are heard in the order they were asked in, and what a Cancel on its way
   finds active was given up: the inductive invariant of the refines
   (main.ts promptRefine, PromptComposer.tsx runRefine).                    *)
THEOREM RefinesHold == ComposerSpec => []RefineIInv
  BY RefineInitOK, RefineStepOK, PTL DEF ComposerSpec

(* At most one refine command runs that nobody stopped, none for a dialog that is gone
   once its messages are heard, and none is stopped that nobody gave up (main.ts activeRefine). *)
THEOREM RefinesOwned == ComposerSpec => []RefinesAreOwned
  <1>1. RefineIInv => RefinesAreOwned
    <2> SUFFICES ASSUME RefineIInv PROVE RefinesAreOwned
      OBVIOUS
    <2>1. \A c \in commands : c.id # 0
      BY DEF RefineIInv, RefineTyped
    <2> QED BY <2>1 DEF RefineIInv, RefinesAreOwned, AskedInOrder, OneRuns, DialogAsks
  <1> QED BY <1>1, RefinesHold, PTL

-----------------------------------------------------------------------------
(***************************************************************************)
(* The console.  Keys are refused for one reason at a time, and an action  *)
(* in flight was asked for by the prompt that was up, the form that was    *)
(* filled in or the key itself (DoneSoundly), so that what is destroyed is *)
(* what the prompt named.                                                  *)
(***************************************************************************)
DoingIsOne == doing = [op |-> doing.op, of |-> doing.of, fresh |-> doing.fresh]
TuiTyped ==
  /\ DoingIsOne
  /\ prompt # NoPrompt => prompt.op \in {"kill", "gc"}
  /\ uiBusy \in BOOLEAN /\ form \in BOOLEAN /\ layer \in BOOLEAN /\ exited \in BOOLEAN

\* Keys are refused for one reason at a time, and under a prompt the bindings are away.
BusyForOne ==
  /\ uiBusy <=> form \/ prompt # NoPrompt \/ doing # Idle
  /\ form => prompt = NoPrompt /\ doing = Idle
  /\ prompt # NoPrompt => doing = Idle /\ ~layer

TuiIInv == TuiTyped /\ BusyForOne /\ TerminalIsRestored /\ (doing.op = "land all" => doing.fresh)

LEMMA IdleDoesNothing == Idle.op = "none" /\ Idle = [op |-> Idle.op, of |-> Idle.of, fresh |-> Idle.fresh]
  BY DEF Idle

LEMMA TuiInitOK == TuiInit => TuiIInv
  <1> SUFFICES ASSUME TuiInit PROVE TuiIInv
    OBVIOUS
  <1>1. doing = [op |-> "none", of |-> Noone, fresh |-> FALSE] /\ prompt = NoPrompt /\ ~uiBusy /\ ~form /\ layer = FALSE /\ exited = FALSE
    BY DEF TuiInit, Idle
  <1>2. doing.op = "none" /\ doing = [op |-> doing.op, of |-> doing.of, fresh |-> doing.fresh]
    BY <1>1
  <1> QED BY <1>1, <1>2 DEF TuiInit, TuiIInv, TuiTyped, DoingIsOne, BusyForOne, TerminalIsRestored, Idle

LEMMA DoingBecomes ==
  ASSUME NEW o, NEW s, NEW b, doing' = [op |-> o, of |-> s, fresh |-> b]
  PROVE  DoingIsOne' /\ doing'.op = o /\ doing'.of = s /\ doing'.fresh = b
  BY DEF DoingIsOne

\* What an action in flight may become.
DoneSoundly ==
  /\ doing' # doing /\ doing'.op \in {"kill", "gc"} => prompt.op = doing'.op /\ prompt.of = doing'.of
  /\ doing'.op = "land all" => doing'.fresh

\* A key: under a prompt it is the prompt's.
LEMMA KeyOK ==
  ASSUME TuiIInv, NEW key \in TuiKeys, KeyPress(key)
  PROVE  TuiIInv' /\ DoneSoundly /\ (prompt # NoPrompt => prompt' = NoPrompt)
  <1> USE DEF TuiIInv, TuiTyped, DoingIsOne, BusyForOne, TerminalIsRestored, DoneSoundly
  <1>0. screen = "up" /\ ~exited
    BY DEF KeyPress, Live
  <1>1. CASE UNCHANGED Console /\ prompt = NoPrompt
    BY <1>1, <1>0 DEF Console, KeyPress, NoPrompt
  <1>2. CASE Handles(key) /\ ~form /\ layer
    <2>0. prompt = NoPrompt
      BY <1>2
    <2>1. CASE Quits
      BY <1>2, <2>0, <2>1 DEF Quits
    <2>2. CASE ~uiBusy /\ form' = TRUE /\ uiBusy' = TRUE /\ UNCHANGED <<screen, exited, layer, prompt, doing>>
      BY <1>0, <1>2, <2>0, <2>2
    <2>3. ASSUME NEW op \in {"start", "land", "status"}, NEW s, ~uiBusy, Begins(op, s)
          PROVE  TuiIInv' /\ DoneSoundly /\ prompt' = NoPrompt
      BY <1>0, <1>2, <2>0, <2>3 DEF Begins, Act, Idle
    <2>4. ASSUME NEW op \in {"kill", "gc"}, NEW s, ~uiBusy, Prompts(op, s)
          PROVE  TuiIInv' /\ DoneSoundly /\ (prompt # NoPrompt => prompt' = NoPrompt)
      BY <1>0, <1>2, <2>0, <2>4 DEF Prompts, NoPrompt, LayerDuringPrompt
    <2> QED BY <1>1, <1>2, <2>0, <2>1, <2>2, <2>3, <2>4 DEF Handles
  <1>3. CASE prompt # NoPrompt /\ Answers(key)
    <2>1. doing = Idle /\ ~form /\ uiBusy /\ prompt.op \in {"kill", "gc"}
      BY <1>3
    <2>2. CASE key = "y"
      <3>1. doing' = [op |-> prompt.op, of |-> prompt.of, fresh |-> FALSE] /\ prompt' = NoPrompt /\ layer' = TRUE
            /\ UNCHANGED <<uiBusy, screen, exited, form>>
        BY <1>3, <2>2 DEF Answers, Confirmed, Act
      <3>2. doing'.op = prompt.op /\ doing'.of = prompt.of
        BY <3>1
      <3> QED BY <1>0, <2>1, <3>1, <3>2 DEF Idle
    <2>3. CASE key # "y"
      BY <1>0, <1>3, <2>1, <2>3 DEF Answers, Idle
    <2> QED BY <2>2, <2>3
  <1>4. CASE ~form /\ prompt = NoPrompt /\ Attaches
    BY <1>0, <1>4 DEF Attaches, Act, Idle
  <1> QED BY <1>1, <1>2, <1>3, <1>4 DEF KeyPress

\* An action in flight, and its end.
LEMMA DoingOK ==
  ASSUME TuiIInv, (\E fails \in BOOLEAN : Ends(fails)) \/ StatusRead \/ OneLanded \/ LandAllEnds
  PROVE  TuiIInv' /\ DoneSoundly
  <1> USE DEF TuiIInv, TuiTyped, BusyForOne, TerminalIsRestored, DoneSoundly, Live
  <1>1. ASSUME NEW fails \in BOOLEAN, Ends(fails) PROVE TuiIInv' /\ DoneSoundly
    <2>1. doing # Idle /\ ~form /\ prompt = NoPrompt
      BY <1>1, IdleDoesNothing DEF Ends
    <2> QED BY <1>1, <2>1, IdleDoesNothing DEF Ends, BusyAfter, DoingIsOne
  <1>2. CASE StatusRead
    <2>1. doing # Idle /\ ~form /\ prompt = NoPrompt
      BY <1>2, IdleDoesNothing DEF StatusRead
    <2>2. /\ doing'.op = "land all" /\ doing'.fresh /\ DoingIsOne'
          /\ UNCHANGED <<screen, exited, layer, uiBusy, form, prompt>>
      <3>1. PICK s \in there : doing' = [op |-> "land all", of |-> s, fresh |-> TRUE]
        BY <1>2 DEF StatusRead
      <3> QED BY <1>2, <3>1, DoingBecomes DEF StatusRead
    <2> QED BY <2>1, <2>2, IdleDoesNothing
  <1>3. CASE OneLanded
    <2>1. doing # Idle /\ ~form /\ prompt = NoPrompt
      BY <1>3, IdleDoesNothing DEF OneLanded
    <2>2. doing' = [op |-> "status", of |-> doing.of, fresh |-> FALSE]
      <3>1. DoingIsOne
        OBVIOUS
      <3> QED BY <1>3, <3>1 DEF OneLanded, AfterLand, DoingIsOne
    <2>3. doing'.op = "status" /\ DoingIsOne' /\ UNCHANGED <<screen, exited, layer, uiBusy, form, prompt>>
      BY <1>3, <2>2, DoingBecomes DEF OneLanded
    <2> QED BY <2>1, <2>3, IdleDoesNothing
  <1>4. CASE LandAllEnds
    <2>1. doing # Idle /\ ~form /\ prompt = NoPrompt
      BY <1>4, IdleDoesNothing DEF LandAllEnds
    <2> QED BY <1>4, <2>1, IdleDoesNothing DEF LandAllEnds, DoingIsOne
  <1> QED BY <1>1, <1>2, <1>3, <1>4

LEMMA TuiRestOK ==
  ASSUME TuiIInv, \/ ListChanges \/ LineLost \/ MoveCursor \/ FormCloses \/ RendererUp \/ PanesBuilt \/ SetupThrows \/ Signal
                  \/ (\E i \in DOMAIN refreshes : RefreshEnds(i) \/ RefreshFails(i)) \/ UNCHANGED tuiVars
  PROVE  TuiIInv' /\ doing' = doing
  <1> USE DEF TuiIInv, TuiTyped, BusyForOne, TerminalIsRestored, Live
  <1>1. CASE UNCHANGED Console
    BY <1>1 DEF Console, DoingIsOne
  <1>2. CASE FormCloses
    <2>1. DoingIsOne' /\ doing = Idle /\ doing' = doing /\ prompt = NoPrompt
      BY <1>2 DEF FormCloses, DoingIsOne
    <2> QED BY <1>2, <2>1 DEF FormCloses
  <1>3. CASE RendererUp \/ PanesBuilt
    <2>1. doing' = doing /\ DoingIsOne' /\ (doing'.op = "land all" => doing'.fresh) /\ UNCHANGED <<exited, uiBusy, form, prompt>>
      BY <1>3 DEF RendererUp, PanesBuilt, DoingIsOne
    <2>2. RendererUp => screen' = "up" /\ ~exited /\ layer' = layer
      BY DEF RendererUp
    <2>3. PanesBuilt => screen' = screen /\ layer' = TRUE /\ prompt = NoPrompt
      BY DEF PanesBuilt
    <2>4. (prompt # NoPrompt => ~layer') /\ layer' \in BOOLEAN
      <3>1. CASE RendererUp
        <4>1. layer' = layer
          BY <2>2, <3>1
        <4>2. layer \in BOOLEAN /\ (prompt # NoPrompt => ~layer)
          OBVIOUS
        <4> QED BY <4>1, <4>2
      <3>2. CASE PanesBuilt
        BY <2>3, <3>2
      <3> QED BY <1>3, <3>1, <3>2
    <2>6. BusyForOne'
      BY <2>1, <2>4
    <2>5. TerminalIsRestored'
      BY <1>3, <2>1, <2>2, <2>3
    <2> QED BY <2>1, <2>4, <2>5, <2>6
  <1>4. CASE SetupThrows \/ Signal
    <2>1. doing' = doing /\ DoingIsOne' /\ (doing'.op = "land all" => doing'.fresh)
          /\ UNCHANGED <<layer, uiBusy, form, prompt>> /\ exited' = TRUE
      BY <1>4 DEF SetupThrows, Signal, Quits, DoingIsOne
    <2>2. screen' \in {"none", "restored"}
      BY <1>4 DEF SetupThrows, Signal, Quits, RestoredBeforeReport
    <2> QED BY <2>1, <2>2
  <1> QED BY <1>1, <1>2, <1>3, <1>4 DEF ListChanges, LineLost, MoveCursor, RefreshEnds, RefreshFails, tuiVars, Console

LEMMA TuiStepOK ==
  ASSUME TuiIInv, [TuiNext]_tuiVars
  PROVE  TuiIInv' /\ (doing' # doing => DoneSoundly)
  <1>1. ASSUME NEW key \in TuiKeys, KeyPress(key) PROVE TuiIInv' /\ (doing' # doing => DoneSoundly)
    BY <1>1, KeyOK
  <1> QED BY <1>1, DoingOK, TuiRestOK DEF TuiNext

(* Keys are refused for one reason at a time, of which each ends with its own `finally`,
   and under a prompt no binding eats its keys: the inductive invariant of the
   console (tui.ts).                                                        *)
THEOREM ConsoleHolds == TuiSpec => []TuiIInv
  BY TuiInitOK, TuiStepOK, PTL DEF TuiSpec

(* The keys come back after every prompt, form and action, and however the process
   ends it gives its terminal back (uiBusy, destroyRendererBeforeReporting). *)
THEOREM ConsoleComesBack == TuiSpec => [](KeysComeBack /\ TerminalIsRestored)
  <1>1. TuiIInv => KeysComeBack /\ TerminalIsRestored
    BY DEF TuiIInv, BusyForOne, KeysComeBack
  <1> QED BY <1>1, ConsoleHolds, PTL

(* Nothing is killed or reclaimed but what a prompt named and `y` answered, every key
   answers a prompt, and land-all lands what was ready after its own last land
   (confirmDestructive, landAllInOrder).                                    *)
THEOREM OnlyTheNamed == TuiSpec => DestroysOnlyTheNamed
  <1>1. ASSUME TuiIInv, [TuiNext]_tuiVars
        PROVE  [/\ doing' # doing /\ doing'.op \in {"kill", "gc"} => prompt.op = doing'.op /\ prompt.of = doing'.of
                /\ \A key \in TuiKeys : KeyPress(key) /\ prompt # NoPrompt => prompt' = NoPrompt
                /\ doing'.op = "land all" => doing'.fresh]_tuiVars
    <2>1. \A key \in TuiKeys : KeyPress(key) /\ prompt # NoPrompt => prompt' = NoPrompt
      BY <1>1, KeyOK
    <2>2. doing' # doing => DoneSoundly
      BY <1>1, TuiStepOK
    <2>3. doing'.op = "land all" => doing'.fresh
      BY <1>1, TuiStepOK DEF TuiIInv
    <2> QED BY <2>1, <2>2, <2>3 DEF DoneSoundly
  <1> QED BY <1>1, ConsoleHolds, PTL DEF TuiSpec, DestroysOnlyTheNamed

-----------------------------------------------------------------------------
(***************************************************************************)
(* The installer.  Until a move fails the pieces stand in step: those      *)
(* before the one whose turn it is are done, the others not begun          *)
(* (StepByStep); a move that fails leaves its piece torn or as pieces may  *)
(* be on the way, which is what makes the rollback right.                  *)
(***************************************************************************)
Hows == {"", "installed", "restored", "incomplete", "killed"}
Installers == [step : 1..10, ships : BOOLEAN, how : Hows]
PiecesTyped ==
  /\ target \in [PieceNames -> {"none", "old", "new", "part", "nested"}]
  /\ aside \in [PieceNames -> {"none", "old", "part"}] /\ putIn \subseteq PieceNames
\* The step it is at, and whether it is still at it.
AtStep == installer.step
StillRuns == installer.how = ""
StillOrKilled == installer.how \in {"", "killed"}
InstallTyped ==
  /\ installer \in Installers /\ PiecesTyped /\ before \in [PieceNames -> {"none", "old"}]
  /\ torn \in BOOLEAN /\ (AtStep < 10 => torn = FALSE)

IsAsBefore(p) == target[p] = before[p] /\ aside[p] = "none" /\ p \notin putIn
IsAside(p) == target[p] = "none" /\ aside[p] = before[p] /\ p \notin putIn
IsIn(p) == target[p] = "new" /\ aside[p] = before[p] /\ p \in putIn
IsLeft(p) == p = "cockpit" /\ ~installer.ships

\* Where the pieces stand when it is the turn of step n: those before are done, the others not begun.
Stands(i, n) ==
  /\ IsLeft(Pieces[i]) \/ (n <= 4 /\ i >= n) => IsAsBefore(Pieces[i])
  /\ ~IsLeft(Pieces[i]) /\ ((n <= 4 /\ i < n) \/ (n > 4 /\ i >= n - 4)) => IsAside(Pieces[i])
  /\ ~IsLeft(Pieces[i]) /\ n > 4 /\ i < n - 4 => IsIn(Pieces[i])
SomeWay(p) == IsAsBefore(p) \/ IsAside(p) \/ IsIn(p)
StepByStep ==
  /\ AtStep \in 1..9 => \A i \in 1..4 : Stands(i, AtStep)
  /\ AtStep = 10 => \A p \in PieceNames : SomeWay(p)

InstallIInv == InstallTyped /\ (StillOrKilled /\ ~torn => StepByStep) /\ InstallsWhole

LEMMA PieceFacts ==
  /\ PieceNames = {"cw", "cwd", "cockpit", "config"}
  /\ \A i \in 1..4 : Pieces[i] \in PieceNames
  /\ \A p \in PieceNames : \E i \in 1..4 : p = Pieces[i]
  /\ \A i, j \in 1..4 : Pieces[i] = Pieces[j] => i = j
  /\ \A n \in 1..4 : PieceAt(n) = Pieces[n]
  /\ \A n \in 5..8 : PieceAt(n) = Pieces[n - 4] /\ n - 4 \in 1..4
  <1>1. Pieces[1] = "cw" /\ Pieces[2] = "cwd" /\ Pieces[3] = "cockpit" /\ Pieces[4] = "config"
    BY DEF Pieces
  <1>2. \A i \in 1..4 : i = 1 \/ i = 2 \/ i = 3 \/ i = 4
    OBVIOUS
  <1>3. \A n \in 1..4 : PieceAt(n) = Pieces[n]
    BY DEF PieceAt
  <1>4. \A n \in 5..8 : PieceAt(n) = Pieces[n - 4] /\ n - 4 \in 1..4
    BY DEF PieceAt
  <1>5. PieceNames = {"cw", "cwd", "cockpit", "config"}
    <2>1. PieceNames = {Pieces[i] : i \in 1..4}
      BY DEF PieceNames
    <2> QED BY <1>1, <1>2, <2>1
  <1> QED BY <1>1, <1>2, <1>3, <1>4, <1>5

\* Whatever the step, a piece is as it was, aside or put in.
LEMMA RunningIsNotEnded == (StillRuns => StillOrKilled) /\ (StillRuns' => StillOrKilled')
  BY DEF StillRuns, StillOrKilled

LEMMA StepFacts ==
  ASSUME installer \in Installers
  PROVE  AtStep \in 1..10 /\ (StillRuns => StillOrKilled)
  BY DEF Installers, AtStep, StillRuns, StillOrKilled

LEMMA EachPiece ==
  ASSUME InstallTyped, StepByStep, NEW p \in PieceNames
  PROVE  SomeWay(p)
  <1>1. PICK i \in 1..4 : p = Pieces[i]
    BY PieceFacts
  <1>2. AtStep \in 1..10
    BY StepFacts DEF InstallTyped
  <1>3. CASE AtStep = 10
    BY <1>3 DEF StepByStep
  <1>4. CASE AtStep \in 1..9
    <2>1. PICK n \in 1..9 : AtStep = n
      BY <1>4
    <2>2. Stands(i, n)
      BY <1>4, <2>1 DEF StepByStep
    <2>3. n <= 4 \/ n > 4
      OBVIOUS
    <2>4. (i >= n \/ i < n) /\ (i >= n - 4 \/ i < n - 4)
      OBVIOUS
    <2> QED BY <1>1, <2>2, <2>3, <2>4 DEF Stands, SomeWay
  <1> QED BY <1>2, <1>3, <1>4

LEMMA WholeOnTheWay ==
  ASSUME InstallTyped, StillOrKilled, ~torn => StepByStep
  PROVE  InstallsWhole
  <1>1. ASSUME ~torn, NEW p \in PieceNames, before[p] = "old" PROVE "old" \in {target[p], aside[p]}
    BY <1>1, EachPiece DEF SomeWay, IsAsBefore, IsAside, IsIn
  <1>2. installer.how # "installed" /\ installer.how # "restored"
    BY DEF StillOrKilled
  <1> QED BY <1>1, <1>2 DEF InstallsWhole

LEMMA WholeNext ==
  (InstallTyped /\ StillOrKilled /\ (~torn => StepByStep) => InstallsWhole)'
  <1>1. InstallTyped /\ StillOrKilled /\ (~torn => StepByStep) => InstallsWhole
    BY WholeOnTheWay
  <1> QED BY <1>1, PTL

LEMMA InstallInitOK == InstallInit => InstallIInv
  <1> SUFFICES ASSUME InstallInit PROVE InstallIInv
    OBVIOUS
  <1>0. installer \in [step : {1}, ships : BOOLEAN, how : {""}]
    BY DEF InstallInit
  <1>1. AtStep = 1 /\ StillRuns /\ StillOrKilled /\ installer \in Installers
    <2>1. 1 \in 1..10
      OBVIOUS
    <2>2. PICK r : r = installer
      OBVIOUS
    <2>3. PICK w \in BOOLEAN : installer = [step |-> 1, ships |-> w, how |-> ""]
      BY <1>0
    <2>4. installer \in Installers
      BY <2>1, <2>3 DEF Installers, Hows
    <2>5. AtStep = 1
      BY <2>3 DEF AtStep
    <2>6. StillRuns
      BY <2>3 DEF StillRuns
    <2> QED BY <2>4, <2>5, <2>6, StepFacts
  <1>2. target \in [PieceNames -> {"none", "old"}] /\ before = target /\ torn = FALSE
        /\ aside = [p \in PieceNames |-> "none"] /\ putIn = {}
    BY DEF InstallInit
  <1>3. InstallTyped
    <2>1. target \in [PieceNames -> {"none", "old", "new", "part", "nested"}] /\ aside \in [PieceNames -> {"none", "old", "part"}]
      BY <1>2
    <2> QED BY <1>1, <1>2, <2>1 DEF InstallTyped, PiecesTyped
  <1>4. ASSUME NEW i \in 1..4 PROVE Stands(i, 1)
    <2>1. IsAsBefore(Pieces[i])
      BY <1>2, PieceFacts DEF IsAsBefore
    <2>2. ~(i < 1) /\ ~(1 > 4)
      OBVIOUS
    <2> QED BY <2>1, <2>2 DEF Stands
  <1>5. StepByStep
    BY <1>1, <1>4 DEF StepByStep
  <1> QED BY <1>1, <1>3, <1>5, WholeOnTheWay DEF InstallIInv

\* A step that leaves the other pieces alone, whatever becomes of p.
OnlyOf(p) ==
  /\ UNCHANGED before
  /\ \A q \in PieceNames \ {p} : target'[q] = target[q] /\ aside'[q] = aside[q] /\ (q \in putIn' <=> q \in putIn)

LEMMA OthersStay ==
  ASSUME NEW p \in PieceNames, OnlyOf(p), NEW q \in PieceNames \ {p}
  PROVE  (IsAsBefore(q) => IsAsBefore(q)') /\ (IsAside(q) => IsAside(q)') /\ (IsIn(q) => IsIn(q)')
  BY DEF OnlyOf, IsAsBefore, IsAside, IsIn

\* The piece whose turn it is comes to be what it should, and the next one's turn comes.
LEMMA GoesOnOK ==
  ASSUME InstallIInv, StillRuns, NEW n \in 1..8, AtStep = n,
         AtStep' = n + 1, StillRuns', \A p : IsLeft(p)' <=> IsLeft(p), installer' \in Installers,
         UNCHANGED torn, OnlyOf(PieceAt(n)), PiecesTyped',
         IsLeft(PieceAt(n)) => IsAsBefore(PieceAt(n))',
         ~IsLeft(PieceAt(n)) /\ n <= 4 => IsAside(PieceAt(n))',
         ~IsLeft(PieceAt(n)) /\ n > 4 => IsIn(PieceAt(n))'
  PROVE  InstallIInv'
  <1>1. InstallTyped /\ StepByStep /\ torn = FALSE
    <2>1. InstallTyped /\ (StillOrKilled /\ ~torn => StepByStep)
      BY DEF InstallIInv
    <2>2. torn = FALSE /\ StillOrKilled
      BY <2>1, StepFacts DEF InstallTyped
    <2> QED BY <2>1, <2>2
  <1>2. InstallTyped'
    BY <1>1 DEF InstallTyped, OnlyOf
  <1>4. PICK k \in 1..4 : PieceAt(n) = Pieces[k] /\ (n <= 4 => k = n) /\ (n > 4 => k = n - 4)
    <2>1. CASE n \in 1..4
      BY <2>1, PieceFacts
    <2>2. CASE n \in 5..8
      BY <2>2, PieceFacts
    <2> QED BY <2>1, <2>2
  <1>5. ASSUME NEW i \in 1..4 PROVE Stands(i, n + 1)'
    <2>1. CASE i = k
      <3>1. n + 1 <= 4 => n <= 4 /\ i < n + 1
        BY <1>4, <2>1
      <3>2. n + 1 > 4 /\ i >= (n + 1) - 4 => n <= 4
        BY <1>4, <2>1
      <3>3. n + 1 > 4 /\ i < (n + 1) - 4 => n > 4
        BY <1>4, <2>1
      <3>4. n + 1 <= 4 => ~(i >= n + 1)
        BY <3>1
      <3> QED BY <1>4, <2>1, <3>1, <3>2, <3>3, <3>4 DEF Stands
    <2>2. CASE i # k
      <3>1. Pieces[i] \in PieceNames \ {Pieces[k]} /\ Pieces[k] \in PieceNames
        BY <2>2, PieceFacts
      <3>2. (IsAsBefore(Pieces[i]) => IsAsBefore(Pieces[i])') /\ (IsAside(Pieces[i]) => IsAside(Pieces[i])')
            /\ (IsIn(Pieces[i]) => IsIn(Pieces[i])')
        BY <1>4, <3>1, OthersStay
      <3>3. Stands(i, n)
        BY <1>1 DEF StepByStep
      <3>4. n + 1 <= 4 /\ i >= n + 1 => n <= 4 /\ i >= n
        OBVIOUS
      <3>5. n + 1 <= 4 /\ i < n + 1 => n <= 4 /\ i < n
        BY <1>4, <2>2
      <3>6. n + 1 > 4 /\ i >= (n + 1) - 4 => (n <= 4 /\ i < n) \/ (n > 4 /\ i >= n - 4)
        BY <1>4, <2>2
      <3>7. n + 1 > 4 /\ i < (n + 1) - 4 => n > 4 /\ i < n - 4
        BY <1>4, <2>2
      <3> QED BY <3>2, <3>3, <3>4, <3>5, <3>6, <3>7 DEF Stands
    <2> QED BY <2>1, <2>2
  <1>6. StepByStep'
    <2>1. n + 1 # 10 /\ AtStep' = n + 1
      OBVIOUS
    <2> QED BY <1>5, <2>1 DEF StepByStep
  <1>7. StillOrKilled'
    BY RunningIsNotEnded
  <1> QED BY <1>2, <1>6, <1>7, WholeNext DEF InstallIInv

\* A move that fails leaves its piece torn, or as a piece may be on the way.
LEMMA GivesUpOK ==
  ASSUME InstallIInv, StillRuns, NEW n \in 1..8, AtStep = n,
         AtStep' = 10, StillRuns', installer' \in Installers,
         OnlyOf(PieceAt(n)), PiecesTyped', torn' \in BOOLEAN, ~torn' => SomeWay(PieceAt(n))'
  PROVE  InstallIInv'
  <1>1. InstallTyped /\ StepByStep
    <2>1. InstallTyped /\ (StillOrKilled /\ ~torn => StepByStep)
      BY DEF InstallIInv
    <2>2. torn = FALSE /\ StillOrKilled
      BY <2>1, StepFacts DEF InstallTyped
    <2> QED BY <2>1, <2>2
  <1>2. InstallTyped'
    BY <1>1 DEF InstallTyped, OnlyOf
  <1>3. PieceAt(n) \in PieceNames
    <2>1. n \in 1..4 \/ n \in 5..8
      OBVIOUS
    <2> QED BY <2>1, PieceFacts
  <1>4. ASSUME NEW q \in PieceNames, ~torn' PROVE SomeWay(q)'
    <2>1. CASE q = PieceAt(n)
      BY <1>4, <2>1
    <2>2. CASE q # PieceAt(n)
      <3>1. SomeWay(q)
        BY <1>1, EachPiece
      <3>2. q \in PieceNames \ {PieceAt(n)}
        BY <2>2
      <3> QED BY <1>3, <3>1, <3>2, OthersStay DEF SomeWay
    <2> QED BY <2>1, <2>2
  <1>5. ~torn' => StepByStep'
    BY <1>4 DEF StepByStep
  <1>7. StillOrKilled'
    BY RunningIsNotEnded
  <1> QED BY <1>2, <1>5, <1>7, WholeNext DEF InstallIInv


LEMMA InstallerSteps ==
  ASSUME installer \in Installers, NEW n \in 1..8, AtStep = n, StillRuns, Steps
  PROVE  AtStep' = n + 1 /\ StillRuns' /\ (\A p : IsLeft(p)' <=> IsLeft(p)) /\ installer' \in Installers
  <1>0. \A k \in 1..8 : k + 1 \in 1..10
    OBVIOUS
  <1>1. PICK w \in BOOLEAN, h \in Hows, m \in 1..10 :
             installer = [step |-> m, ships |-> w, how |-> h]
    BY DEF Installers, Hows
  <1>2. m = n
    BY <1>1 DEF AtStep
  <1>3. installer' = [step |-> m + 1, ships |-> w, how |-> h]
    BY <1>1 DEF Steps
  <1>4. m + 1 \in 1..10
    BY <1>0, <1>2
  <1>5. installer' \in Installers
    BY <1>3, <1>4 DEF Installers, Hows
  <1>6. AtStep' = n + 1
    BY <1>2, <1>3 DEF AtStep
  <1>7. installer'.ships = installer.ships
    BY <1>1, <1>3
  <1>8. h = ""
    BY <1>1 DEF StillRuns
  <1>9. StillRuns'
    BY <1>3, <1>8 DEF StillRuns
  <1> QED BY <1>5, <1>6, <1>7, <1>9 DEF IsLeft

LEMMA InstallerGivesUp ==
  ASSUME installer \in Installers, StillRuns, GivesUpInstall
  PROVE  AtStep' = 10 /\ StillRuns' /\ installer' \in Installers
  <1>0. 10 \in 1..10
    OBVIOUS
  <1>1. PICK w \in BOOLEAN, h \in Hows, m \in 1..10 :
             installer = [step |-> m, ships |-> w, how |-> h]
    BY DEF Installers, Hows
  <1>2. installer' = [step |-> 10, ships |-> w, how |-> h]
    BY <1>1 DEF GivesUpInstall
  <1>3. installer' \in Installers
    BY <1>0, <1>2 DEF Installers, Hows
  <1>4. AtStep' = 10
    BY <1>2 DEF AtStep
  <1>5. h = ""
    BY <1>1 DEF StillRuns
  <1>6. StillRuns'
    BY <1>2, <1>5 DEF StillRuns
  <1> QED BY <1>3, <1>4, <1>6

LEMMA SetAsideOK == InstallIInv /\ SetAside => InstallIInv'
  <1> SUFFICES ASSUME InstallIInv, SetAside PROVE InstallIInv'
    OBVIOUS
  <1>1. InstallTyped /\ (StillOrKilled /\ ~torn => StepByStep)
    BY DEF InstallIInv
  <1>a. AtStep \in 1..4 /\ StillRuns
    <2>1. AtStep <= 4 /\ StillRuns
      BY DEF SetAside, AtStep, StillRuns
    <2>2. AtStep \in 1..10
      BY <1>1, StepFacts DEF InstallTyped
    <2> QED BY <2>1, <2>2
  <1>b. UNCHANGED <<putIn, before>>
    BY DEF SetAside
  <1>c. PICK n \in 1..4 : AtStep = n
    BY <1>a
  <1>2. installer \in Installers /\ StillRuns /\ StillOrKilled /\ PiecesTyped
        /\ before \in [PieceNames -> {"none", "old"}]
    BY <1>1, <1>a, StepFacts DEF InstallTyped
  <1>3. torn = FALSE /\ StepByStep
    <2>1. AtStep < 10
      BY <1>c
    <2> QED BY <1>1, <1>2, <2>1 DEF InstallTyped
  <1>4. PICK p \in PieceNames : p = Pieces[n] /\ PieceAt(n) = p /\ PieceAt(installer.step) = p
    BY <1>c, PieceFacts DEF AtStep
  <1>5. IsAsBefore(p)
    <2>1. Stands(n, n)
      BY <1>c, <1>3 DEF StepByStep
    <2> QED BY <1>c, <1>4, <2>1 DEF Stands
  <1>6. target[p] = before[p] /\ aside[p] = "none" /\ p \notin putIn /\ before[p] \in {"none", "old"}
    BY <1>2, <1>4, <1>b, <1>5 DEF IsAsBefore
  <1>7. Skips(p) <=> IsLeft(p) \/ target[p] = "none"
    BY <1>c DEF Skips, IsLeft, AtStep
  <1>8. CASE Skips(p) /\ Steps /\ UNCHANGED <<target, aside, torn>>
    <2>1. OnlyOf(p) /\ PiecesTyped'
      BY <1>2, <1>4, <1>b, <1>8 DEF OnlyOf, PiecesTyped
    <2>2. IsAsBefore(p)' /\ (~IsLeft(p) => IsAside(p)')
      BY <1>2, <1>4, <1>b, <1>6, <1>7, <1>8 DEF IsAsBefore, IsAside
    <2>3. n \in 1..8 /\ AtStep = n /\ n <= 4 /\ ~(n > 4)
      BY <1>c
    <2> QED BY <1>2, <1>4, <1>b, <1>8, <2>1, <2>2, <2>3, InstallerSteps, GoesOnOK
  <1>9. CASE ~Skips(p) /\ Steps /\ UNCHANGED torn
             /\ target' = [target EXCEPT ![p] = "none"] /\ aside' = [aside EXCEPT ![p] = "old"]
    <2>1. OnlyOf(p) /\ PiecesTyped'
      BY <1>2, <1>4, <1>b, <1>9 DEF OnlyOf, PiecesTyped
    <2>2. ~IsLeft(p) /\ IsAside(p)'
      BY <1>2, <1>4, <1>b, <1>6, <1>7, <1>9 DEF IsAside, PiecesTyped
    <2>3. n \in 1..8 /\ AtStep = n /\ n <= 4 /\ ~(n > 4)
      BY <1>c
    <2> QED BY <1>2, <1>4, <1>b, <1>9, <2>1, <2>2, <2>3, InstallerSteps, GoesOnOK
  <1>10. CASE /\ ~Skips(p) /\ GivesUpInstall /\ UNCHANGED target
              /\ \E half \in BOOLEAN : /\ torn' = half
                                       /\ aside' = [aside EXCEPT ![p] = IF half THEN "part" ELSE "none"]
    <2>1. OnlyOf(p) /\ PiecesTyped' /\ torn' \in BOOLEAN
      BY <1>2, <1>4, <1>b, <1>10 DEF OnlyOf, PiecesTyped
    <2>2. ~torn' => IsAsBefore(p)'
      BY <1>2, <1>4, <1>b, <1>6, <1>10 DEF IsAsBefore, PiecesTyped
    <2>3. n \in 1..8 /\ AtStep = n
      BY <1>c
    <2>4. ~torn' => SomeWay(p)'
      BY <2>2 DEF SomeWay
    <2> QED BY <1>2, <1>4, <1>b, <1>10, <2>1, <2>3, <2>4, InstallerGivesUp, GivesUpOK
  <1> QED BY <1>4, <1>8, <1>9, <1>10 DEF SetAside

LEMMA PutsInOK == InstallIInv /\ PutsIn => InstallIInv'
  <1> SUFFICES ASSUME InstallIInv, PutsIn PROVE InstallIInv'
    OBVIOUS
  <1>1. InstallTyped /\ (StillOrKilled /\ ~torn => StepByStep)
    BY DEF InstallIInv
  <1>a. AtStep \in 5..8 /\ StillRuns
    <2>1. AtStep \in 5..8 /\ StillRuns
      BY DEF PutsIn, AtStep, StillRuns
    <2>2. AtStep \in 1..10
      BY <1>1, StepFacts DEF InstallTyped
    <2> QED BY <2>1, <2>2
  <1>b. UNCHANGED <<aside, before>>
    BY DEF PutsIn
  <1>c. PICK n \in 5..8 : AtStep = n
    BY <1>a
  <1>2. installer \in Installers /\ StillRuns /\ StillOrKilled /\ PiecesTyped
        /\ before \in [PieceNames -> {"none", "old"}]
    BY <1>1, <1>a, StepFacts DEF InstallTyped
  <1>3. torn = FALSE /\ StepByStep
    <2>1. AtStep < 10
      BY <1>c
    <2> QED BY <1>1, <1>2, <2>1 DEF InstallTyped
  <1>4. PICK p \in PieceNames : p = Pieces[n - 4] /\ n - 4 \in 1..4 /\ PieceAt(n) = p /\ PieceAt(installer.step) = p
    BY <1>c, PieceFacts DEF AtStep
  <1>5. (IsLeft(p) => IsAsBefore(p)) /\ (~IsLeft(p) => IsAside(p))
    <2>1. Stands(n - 4, n)
      BY <1>c, <1>3, <1>4 DEF StepByStep
    <2>2. n > 4 /\ n - 4 >= n - 4 /\ ~(n <= 4)
      BY <1>c
    <2> QED BY <1>4, <2>1, <2>2 DEF Stands
  <1>6. Skips(p) <=> IsLeft(p)
    <2>1. ~(installer.step <= 4)
      BY <1>c DEF AtStep
    <2> QED BY <2>1 DEF Skips, IsLeft
  <1>7. n \in 1..8 /\ AtStep = n /\ n > 4 /\ ~(n <= 4)
    BY <1>c
  <1>8. CASE Skips(p) /\ Steps /\ UNCHANGED <<target, putIn, torn>>
    <2>1. OnlyOf(p) /\ PiecesTyped'
      BY <1>2, <1>4, <1>b, <1>8 DEF OnlyOf, PiecesTyped
    <2>2. IsLeft(p) /\ IsAsBefore(p)'
      BY <1>2, <1>4, <1>b, <1>5, <1>6, <1>8 DEF IsAsBefore
    <2> QED BY <1>2, <1>4, <1>b, <1>7, <1>8, <2>1, <2>2, InstallerSteps, GoesOnOK
  <1>9. CASE ~Skips(p) /\ Steps /\ UNCHANGED torn
             /\ target' = [target EXCEPT ![p] = "new"] /\ putIn' = putIn \cup {p}
    <2>1. OnlyOf(p) /\ PiecesTyped'
      BY <1>2, <1>4, <1>b, <1>9 DEF OnlyOf, PiecesTyped
    <2>2. ~IsLeft(p) /\ IsIn(p)'
      BY <1>2, <1>4, <1>b, <1>5, <1>6, <1>9 DEF IsIn, IsAside, PiecesTyped
    <2> QED BY <1>2, <1>4, <1>b, <1>7, <1>9, <2>1, <2>2, InstallerSteps, GoesOnOK
  <1>10. CASE /\ ~Skips(p) /\ GivesUpInstall /\ UNCHANGED putIn
              /\ \E left \in {"none", "part", "new"} :
                    target' = [target EXCEPT ![p] = left] /\ torn' = (left # "none")
    <2>1. PICK left \in {"none", "part", "new"} : target' = [target EXCEPT ![p] = left] /\ torn' = (left # "none")
      BY <1>10
    <2>2. OnlyOf(p) /\ PiecesTyped'
      BY <1>2, <1>4, <1>b, <1>10, <2>1 DEF OnlyOf, PiecesTyped
    <2>3. torn' \in BOOLEAN
      BY <2>1
    <2>4. ASSUME ~torn' PROVE SomeWay(p)'
      <3>1. left = "none"
        BY <2>1, <2>4
      <3>2. IsAside(p)'
        BY <1>2, <1>4, <1>b, <1>5, <1>6, <1>10, <2>1, <3>1 DEF IsAside, PiecesTyped
      <3> QED BY <3>2 DEF SomeWay
    <2> QED BY <1>2, <1>4, <1>b, <1>7, <1>10, <2>2, <2>3, <2>4, InstallerGivesUp, GivesUpOK
  <1> QED BY <1>4, <1>8, <1>9, <1>10 DEF PutsIn


LEMMA CommitsOK == InstallIInv /\ CommitsInstall => InstallIInv'
  <1> SUFFICES ASSUME InstallIInv, CommitsInstall PROVE InstallIInv'
    OBVIOUS
  <1>1. InstallTyped /\ (StillOrKilled /\ ~torn => StepByStep)
    BY DEF InstallIInv
  <1>2. StillRuns /\ AtStep = 9
    BY DEF CommitsInstall, StillRuns, AtStep
  <1>3. torn = FALSE /\ StepByStep
    <2>1. AtStep < 10
      BY <1>2
    <2> QED BY <1>1, <1>2, <2>1, RunningIsNotEnded DEF InstallTyped
  <1>4. UNCHANGED <<target, aside, putIn, before, torn>>
    BY DEF CommitsInstall
  <1>5. PICK w \in BOOLEAN, h \in Hows, m \in 1..10 :
             installer = [step |-> m, ships |-> w, how |-> h]
    BY <1>1 DEF Installers, InstallTyped
  <1>6. installer' = [step |-> m, ships |-> w, how |-> "installed"]
    BY <1>5 DEF CommitsInstall
  <1>7. installer' \in Installers
    BY <1>6 DEF Installers, Hows
  <1>8. AtStep' = AtStep /\ installer'.how = "installed" /\ installer'.ships = installer.ships
    BY <1>5, <1>6 DEF AtStep
  <1>9. InstallTyped'
    BY <1>1, <1>4, <1>7, <1>8 DEF InstallTyped, PiecesTyped
  <1>10. ASSUME NEW p \in PieceNames PROVE target[p] = IF IsLeft(p) THEN before[p] ELSE "new"
    <2>1. PICK i \in 1..4 : p = Pieces[i]
      BY PieceFacts
    <2>2. Stands(i, 9)
      <3>1. 9 \in 1..9
        OBVIOUS
      <3> QED BY <1>2, <1>3, <3>1 DEF StepByStep
    <2>3. 9 > 4 /\ i < 9 - 4
      OBVIOUS
    <2> QED BY <2>1, <2>2, <2>3 DEF Stands, IsAsBefore, IsIn
  <1>11. InstallsWhole'
    BY <1>4, <1>8, <1>10 DEF InstallsWhole, IsLeft
  <1>12. ~StillOrKilled'
    BY <1>8 DEF StillOrKilled
  <1> QED BY <1>9, <1>11, <1>12 DEF InstallIInv

\* A rollback all of whose moves go through puts each piece back; whatever fails, nothing old is lost.
LEMMA RollsBackOK == InstallIInv /\ RollsBack => InstallIInv'
  <1> SUFFICES ASSUME InstallIInv, RollsBack PROVE InstallIInv'
    OBVIOUS
  <1>1. InstallTyped /\ (StillOrKilled /\ ~torn => StepByStep)
    BY DEF InstallIInv
  <1>2. StillRuns /\ AtStep = 10 /\ UNCHANGED <<putIn, before, torn>>
    BY DEF RollsBack, StillRuns, AtStep
  <1>3. PICK away \in SUBSET putIn, back \in SUBSET {p \in PieceNames : aside[p] # "none"} :
          /\ target' = [p \in PieceNames |-> MovedBack(p, away, back)]
          /\ aside' = [p \in PieceNames |-> IF p \in back THEN aside[p] ELSE "none"]
          /\ installer' = [installer EXCEPT !.how = IF away \cup back = {} THEN "restored" ELSE "incomplete"]
    BY DEF RollsBack
  <1>4. PICK w \in BOOLEAN, h \in Hows, m \in 1..10 :
             installer = [step |-> m, ships |-> w, how |-> h]
    BY <1>1 DEF Installers, InstallTyped
  <1>5. PICK e \in {"restored", "incomplete"} : /\ installer' = [step |-> m, ships |-> w, how |-> e]
                                               /\ (e = "restored" => away = {} /\ back = {})
    <2>1. CASE away \cup back = {}
      BY <1>3, <1>4, <2>1
    <2>2. CASE away \cup back # {}
      BY <1>3, <1>4, <2>2
    <2> QED BY <2>1, <2>2
  <1>6. installer' \in Installers
    BY <1>5 DEF Installers, Hows
  <1>7. AtStep' = 10 /\ installer'.how = e
    BY <1>2, <1>4, <1>5 DEF AtStep
  <1>8. ~StillOrKilled' /\ installer'.how # "installed"
    BY <1>5, <1>7 DEF StillOrKilled
  <1>9. PiecesTyped'
    <2>1. ASSUME NEW p \in PieceNames
          PROVE  /\ MovedBack(p, away, back) \in {"none", "old", "new", "part", "nested"}
                 /\ (IF p \in back THEN aside[p] ELSE "none") \in {"none", "old", "part"}
      <3>1. target[p] \in {"none", "old", "new", "part", "nested"} /\ aside[p] \in {"none", "old", "part"}
        BY <1>1 DEF InstallTyped, PiecesTyped
      <3> QED BY <3>1 DEF MovedBack, TakenAway
    <2>2. putIn' \subseteq PieceNames
      BY <1>1, <1>2 DEF InstallTyped, PiecesTyped
    <2> QED BY <1>3, <2>1, <2>2 DEF PiecesTyped
  <1>10. InstallTyped'
    <2>1. before' \in [PieceNames -> {"none", "old"}] /\ torn' \in BOOLEAN /\ ~(AtStep' < 10)
      BY <1>1, <1>2, <1>7 DEF InstallTyped
    <2> QED BY <1>6, <1>9, <2>1 DEF InstallTyped
  <1>11. ASSUME ~torn, NEW p \in PieceNames
         PROVE  /\ away = {} /\ back = {} => MovedBack(p, away, back) = before[p]
                /\ before[p] = "old" => \/ MovedBack(p, away, back) \in {"old", "nested"}
                                        \/ p \in back /\ aside[p] = "old"
    <2>1. SomeWay(p)
      BY <1>1, <1>2, <1>11, EachPiece, RunningIsNotEnded
    <2>2. before[p] \in {"none", "old"}
      BY <1>1 DEF InstallTyped
    <2>3. p \in away => p \in putIn
      OBVIOUS
    <2>4. CASE IsAsBefore(p)
      <3>1. MovedBack(p, away, back) = before[p]
        <4>1. TakenAway(p, away) = before[p]
          BY <2>4 DEF IsAsBefore, TakenAway
        <4>2. aside[p] = "none"
          BY <2>4 DEF IsAsBefore
        <4> QED BY <4>1, <4>2 DEF MovedBack
      <3> QED BY <3>1
    <2>5. CASE IsAside(p)
      BY <2>2, <2>5 DEF IsAside, MovedBack, TakenAway
    <2>6. CASE IsIn(p)
      BY <2>2, <2>6 DEF IsIn, MovedBack, TakenAway
    <2> QED BY <2>1, <2>4, <2>5, <2>6 DEF SomeWay
  <1>12. InstallsWhole'
    <2>1. installer'.how = "restored" /\ ~torn' => target' = before'
      <3>1. ASSUME e = "restored", ~torn PROVE target' = before
        <4>1. \A p \in PieceNames : MovedBack(p, away, back) = before[p]
          BY <1>5, <1>11, <3>1
        <4>2. before = [p \in PieceNames |-> before[p]]
          BY <1>1 DEF InstallTyped
        <4> QED BY <1>3, <4>1, <4>2
      <3> QED BY <1>2, <1>7, <3>1
    <2>2. ASSUME ~torn, NEW p \in PieceNames, before[p] = "old"
          PROVE  "old" \in {target'[p], aside'[p]} \/ target'[p] = "nested"
      <3>1. target'[p] = MovedBack(p, away, back) /\ aside'[p] = IF p \in back THEN aside[p] ELSE "none"
        BY <1>3
      <3> QED BY <1>11, <2>2, <3>1
    <2> QED BY <1>2, <1>8, <2>1, <2>2 DEF InstallsWhole
  <1> QED BY <1>8, <1>10, <1>12 DEF InstallIInv

LEMMA KilledOK == InstallIInv /\ IsKilled => InstallIInv'
  <1> SUFFICES ASSUME InstallIInv, IsKilled PROVE InstallIInv'
    OBVIOUS
  <1>1. InstallTyped /\ (StillOrKilled /\ ~torn => StepByStep) /\ StillRuns
    BY DEF InstallIInv, IsKilled, StillRuns
  <1>2. UNCHANGED <<target, aside, putIn, before, torn>>
    BY DEF IsKilled
  <1>3. PICK w \in BOOLEAN, h \in Hows, m \in 1..10 :
             installer = [step |-> m, ships |-> w, how |-> h]
    BY <1>1 DEF Installers, InstallTyped
  <1>4. installer' = [step |-> m, ships |-> w, how |-> "killed"]
    BY <1>3 DEF IsKilled
  <1>5. installer' \in Installers
    BY <1>4 DEF Installers, Hows
  <1>6. AtStep' = AtStep /\ installer'.ships = installer.ships
    BY <1>3, <1>4 DEF AtStep
  <1>7. StillOrKilled'
    BY <1>4 DEF StillOrKilled
  <1>8. InstallTyped'
    BY <1>1, <1>2, <1>5, <1>6 DEF InstallTyped, PiecesTyped
  <1>9. StepByStep => StepByStep'
    BY <1>2, <1>6 DEF StepByStep, Stands, SomeWay, IsAsBefore, IsAside, IsIn, IsLeft
  <1> QED BY <1>1, <1>2, <1>7, <1>8, <1>9, RunningIsNotEnded, WholeNext DEF InstallIInv

LEMMA InstallUnchanged == InstallIInv /\ UNCHANGED installVars => InstallIInv'
  <1> SUFFICES ASSUME InstallIInv, UNCHANGED installVars PROVE InstallIInv'
    OBVIOUS
  <1>1. UNCHANGED <<installer, target, aside, putIn, before, torn>>
    BY DEF installVars
  <1>2. InstallTyped'
    <2>1. PiecesTyped' = PiecesTyped
      BY <1>1, ZenonT(30) DEF PiecesTyped
    <2>2. AtStep' = AtStep
      BY <1>1, Zenon DEF AtStep
    <2> QED BY <1>1, <2>1, <2>2 DEF InstallIInv, InstallTyped
  <1>3. AtStep' = AtStep /\ StillOrKilled' = StillOrKilled /\ InstallsWhole' = InstallsWhole
    BY <1>1, ZenonT(30) DEF AtStep, StillOrKilled, InstallsWhole
  <1>4. StepByStep' = StepByStep
    <2>1. \A p \in PieceNames : /\ IsAsBefore(p)' = IsAsBefore(p) /\ IsAside(p)' = IsAside(p)
                               /\ IsIn(p)' = IsIn(p) /\ IsLeft(p)' = IsLeft(p)
      BY <1>1, ZenonT(30) DEF IsAsBefore, IsAside, IsIn, IsLeft
    <2>2. \A i \in 1..4 : Stands(i, AtStep)' = Stands(i, AtStep)
      BY <1>3, <2>1, PieceFacts DEF Stands
    <2>3. \A p \in PieceNames : SomeWay(p)' = SomeWay(p)
      BY <2>1 DEF SomeWay
    <2> QED BY <1>3, <2>2, <2>3 DEF StepByStep
  <1> QED BY <1>1, <1>2, <1>3, <1>4 DEF InstallIInv

LEMMA ConfigLeavesPieces == ConfigNext => UNCHANGED installVars
  <1> SUFFICES ASSUME ConfigNext PROVE UNCHANGED installVars
    OBVIOUS
  <1>1. CASE CwUpdate \/ UpdateStatus \/ CachesAge \/ IsReleased
    BY <1>1 DEF CwUpdate, UpdateStatus, CachesAge, IsReleased
  <1>2. CASE \E i \in 1..2 : TagArrives(i) \/ LookAnswers(i)
    BY <1>2 DEF TagArrives, LookAnswers
  <1>3. ASSUME NEW p \in UpdateProcs, \/ \E on \in BOOLEAN : SetsSwitch(p, on)
                              \/ Later(p) \/ ChecksForUpdate(p) \/ resolveLatestTag(p) \/ Announces(p)
                              \/ EmptiesConfig(p) \/ saveGlobalConfig(p)
        PROVE  UNCHANGED installVars
    BY <1>3 DEF SetsSwitch, Later, ChecksForUpdate, resolveLatestTag, Announces, EmptiesConfig, saveGlobalConfig
  <1> QED BY <1>1, <1>2, <1>3 DEF ConfigNext

(* Until a move of the installer fails, the pieces before the one whose turn it
   is are done and the others not begun; after it, each piece but a torn one is
   still as it was, set aside or put in (install.sh, the transaction and
   rollback_install).                                                       *)
THEOREM InstallHolds == UpdatesSpec => []InstallIInv
  <1>1. UpdatesInit => InstallIInv
    BY InstallInitOK DEF UpdatesInit
  <1>2. InstallIInv /\ [UpdatesNext]_updateVars => InstallIInv'
    <2>1. UNCHANGED updateVars => UNCHANGED installVars
      BY DEF updateVars
    <2> QED BY <2>1, SetAsideOK, PutsInOK, CommitsOK, RollsBackOK, KilledOK, InstallUnchanged, ConfigLeavesPieces
            DEF UpdatesNext, InstallNext
  <1> QED BY <1>1, <1>2, PTL DEF UpdatesSpec

(* However it ends, an installer whose moves are whole leaves everything new, or
   everything as it was, or, killed or rolled back in part, the previous install
   in place or in the directory it keeps (install.sh).                      *)
THEOREM InstalledWhole == UpdatesSpec => []InstallsWhole
  <1>1. InstallIInv => InstallsWhole
    BY DEF InstallIInv
  <1> QED BY <1>1, InstallHolds, PTL

-----------------------------------------------------------------------------
(***************************************************************************)
(* The file everybody shares.  Unless somebody was overtaken, what a       *)
(* process will write is the file as it is but for what it is about        *)
(* (Overlays), what is announced is no newer than what runs or was told of *)
(* last (ToldInOrder), and what the corner names is due (LooksAreDue,      *)
(* LaterIsHeard).                                                          *)
(***************************************************************************)
GlobalConfigs == [on : BOOLEAN, fresh : BOOLEAN, known : Nat, notified : Nat, dismissed : Nat]
UseKinds == {"none", "switch", "enable", "later", "check"}
UseSteps == {"none", "saves", "asks", "knows", "tells"}
Users == [kind : UseKinds, step : UseSteps, cfg : GlobalConfigs, tag : Nat, runs : Nat, base : Nat]
Looks == [cfg : GlobalConfigs, at : Nat, asks : BOOLEAN]
UserTyped(u) ==
  /\ u \in Users /\ u.base <= configWrites /\ u.tag <= released /\ u.cfg.known <= released
  /\ u.step \in {"asks", "knows", "tells"} => u.kind = "check"
ConfigFileTyped ==
  /\ globalConfig \in GlobalConfigs /\ globalConfig.known <= released
  /\ configWrites \in Nat /\ released \in Nat /\ running \in 1..released
  /\ announced \in [1..MaxReleases -> Nat]
  /\ wished = [on |-> wished.on, dismissed |-> wished.dismissed]
ProcsTyped ==
  /\ proc \in [UpdateProcs -> Users] /\ \A p \in UpdateProcs : UserTyped(proc[p])
  /\ writing \subseteq UpdateProcs /\ \A p \in writing : proc[p].step \in {"saves", "tells"}
NoticeTyped ==
  /\ notice = [latest |-> notice.latest, checked |-> notice.checked, looks |-> notice.looks]
  /\ notice.latest \in Nat /\ notice.latest <= released /\ notice.looks \in Seq(Looks)
  /\ \A i \in DOMAIN notice.looks : notice.looks[i].at <= configWrites
  /\ cornerVersion = 0 \/ cornerVersion \in 2..released
ConfigTyped == ConfigFileTyped /\ ProcsTyped /\ NoticeTyped /\ overtaken \in BOOLEAN /\ lateLook \in BOOLEAN

\* What is announced is not newer than what runs or was last told of, and that not newer than what is known.
ToldInOrder ==
  /\ globalConfig.on = wished.on /\ globalConfig.dismissed = wished.dismissed
  /\ globalConfig.known # 0 => globalConfig.known >= running
  /\ globalConfig.notified <= globalConfig.known
  /\ \A v \in 1..MaxReleases : announced[v] <= 1 /\ (announced[v] = 1 => v <= running \/ v <= globalConfig.notified)

\* What a process will save is the file as it is but for what the process is about.
Overlays(u) ==
  /\ u.kind \notin {"switch", "enable"} => u.cfg.on = globalConfig.on
  /\ u.kind # "later" => u.cfg.dismissed = globalConfig.dismissed
  /\ u.step # "tells" => u.cfg.notified = globalConfig.notified
  /\ ~(u.kind = "check" /\ u.step = "saves") => u.cfg.known = globalConfig.known
  /\ u.kind = "check" => u.runs = running
  /\ u.kind = "check" /\ u.step = "saves" => u.cfg.known = u.tag /\ u.tag >= running /\ u.tag >= globalConfig.known
  /\ u.step \in {"knows", "tells"} => u.tag = globalConfig.known
  /\ u.step = "tells" => u.cfg.notified = u.tag /\ u.tag > running /\ globalConfig.notified # u.tag
StillOverlays == \A p \in UpdateProcs : proc[p].step # "none" /\ proc[p].base = configWrites => Overlays(proc[p])

\* What the corner names was not put off, nor will a look just taken name it.
LooksAreDue ==
  /\ \A i \in DOMAIN notice.looks : notice.looks[i].at = configWrites => notice.looks[i].cfg.dismissed = globalConfig.dismissed
  /\ cornerVersion # 0 /\ ~lateLook => cornerVersion # wished.dismissed

\* While the person's "Later" is being written no notice is up that was looked up before it.
LaterIsHeard ==
  /\ \A p, q \in UpdateProcs : proc[p].kind \in {"enable", "later"} /\ proc[q].kind \in {"enable", "later"} => p = q
  /\ (\E p \in UpdateProcs : proc[p].kind = "later") => cornerVersion = 0 \/ lateLook

ConfigIInv == ConfigTyped /\ LaterIsHeard /\ (~overtaken => ToldInOrder /\ StillOverlays /\ LooksAreDue)

LEMMA UserRecords ==
  ASSUME NEW kind \in UseKinds, NEW step \in UseSteps, NEW cfg \in GlobalConfigs, NEW tag \in Nat, NEW runs \in Nat, NEW base \in Nat,
         NEW u, u = [kind |-> kind, step |-> step, cfg |-> cfg, tag |-> tag, runs |-> runs, base |-> base]
  PROVE  u \in Users /\ u.kind = kind /\ u.step = step /\ u.cfg = cfg /\ u.tag = tag /\ u.runs = runs /\ u.base = base
  BY DEF Users

LEMMA NotUsingFacts ==
  /\ NotUsing \in Users /\ NotUsing.step = "none" /\ NotUsing.kind = "none"
  /\ DEFAULT_GLOBAL_CONFIG \in GlobalConfigs /\ DEFAULT_GLOBAL_CONFIG.known = 0 /\ DEFAULT_GLOBAL_CONFIG.notified = 0
  /\ DEFAULT_GLOBAL_CONFIG.dismissed = 0 /\ DEFAULT_GLOBAL_CONFIG.on = TRUE
  /\ NotUsing.tag = 0 /\ NotUsing.base = 0 /\ NotUsing.cfg = DEFAULT_GLOBAL_CONFIG
  <1>1. DEFAULT_GLOBAL_CONFIG \in GlobalConfigs
    BY DEF DEFAULT_GLOBAL_CONFIG, GlobalConfigs
  <1>2. NotUsing \in Users
    <2>1. "none" \in UseKinds /\ "none" \in UseSteps /\ 0 \in Nat
      BY DEF UseKinds, UseSteps
    <2> QED BY <1>1, <2>1, UserRecords DEF NotUsing
  <1>3. DEFAULT_GLOBAL_CONFIG.known = 0 /\ DEFAULT_GLOBAL_CONFIG.notified = 0 /\ DEFAULT_GLOBAL_CONFIG.dismissed = 0
        /\ DEFAULT_GLOBAL_CONFIG.on = TRUE
    BY DEF DEFAULT_GLOBAL_CONFIG
  <1>4. NotUsing.step = "none" /\ NotUsing.kind = "none" /\ NotUsing.tag = 0 /\ NotUsing.base = 0 /\ NotUsing.cfg = DEFAULT_GLOBAL_CONFIG
    BY DEF NotUsing
  <1> QED BY <1>1, <1>2, <1>3, <1>4

LEMMA ConfigFields ==
  ASSUME NEW c \in GlobalConfigs
  PROVE  c.on \in BOOLEAN /\ c.fresh \in BOOLEAN /\ c.known \in Nat /\ c.notified \in Nat /\ c.dismissed \in Nat
  BY DEF GlobalConfigs

LEMMA UserFields ==
  ASSUME NEW u \in Users
  PROVE  /\ u = [kind |-> u.kind, step |-> u.step, cfg |-> u.cfg, tag |-> u.tag, runs |-> u.runs, base |-> u.base]
         /\ u.kind \in UseKinds /\ u.step \in UseSteps /\ u.cfg \in GlobalConfigs /\ u.tag \in Nat /\ u.runs \in Nat /\ u.base \in Nat
  BY DEF Users

\* The file reads as it is or, while it is being written, as the defaults.
LEMMA Reads ==
  ASSUME ConfigTyped
  PROVE  /\ loadGlobalConfig \in GlobalConfigs /\ loadGlobalConfig.known <= released
         /\ writing = {} => loadGlobalConfig = globalConfig
  <1>1. globalConfig \in GlobalConfigs /\ globalConfig.known <= released /\ released \in Nat
    BY DEF ConfigTyped, ConfigFileTyped
  <1>2. 0 <= released
    BY <1>1
  <1> QED BY <1>1, <1>2, NotUsingFacts DEF loadGlobalConfig

ConfigFile == <<globalConfig, configWrites, released, running, announced, wished>>
\* What a process takes up or lays down, the file being left alone.
LEMMA OneUser ==
  ASSUME ConfigIInv, NEW p \in UpdateProcs, NEW u, proc' = [proc EXCEPT ![p] = u], UNCHANGED ConfigFile,
         UserTyped(u), writing' \subseteq writing \cup {p}, p \in writing' => u.step \in {"saves", "tells"},
         NoticeTyped', LaterIsHeard', overtaken' \in BOOLEAN, lateLook' \in BOOLEAN,
         ~overtaken' => ~overtaken /\ (u.step # "none" /\ u.base = configWrites => Overlays(u)) /\ LooksAreDue'
  PROVE  ConfigIInv'
  <1>1. ConfigFileTyped /\ ProcsTyped /\ UNCHANGED <<globalConfig, configWrites, released, running, announced, wished>>
    BY DEF ConfigIInv, ConfigTyped, ConfigFile
  <1>2. ConfigFileTyped'
    BY <1>1 DEF ConfigFileTyped
  <1>3. \A v : (UserTyped(v) => UserTyped(v)') /\ (Overlays(v) => Overlays(v)')
    BY <1>1 DEF UserTyped, Overlays
  <1>4. ProcsTyped'
    <2>1. u \in Users
      BY DEF UserTyped
    <2>2. proc' \in [UpdateProcs -> Users] /\ proc'[p] = u /\ \A q \in UpdateProcs \ {p} : proc'[q] = proc[q]
      BY <1>1, <2>1 DEF ProcsTyped
    <2>3. \A q \in UpdateProcs : UserTyped(proc'[q])
      BY <1>1, <2>2 DEF ProcsTyped
    <2>4. \A q \in UpdateProcs : UserTyped(proc[q])'
      BY <1>1, <2>3 DEF UserTyped
    <2> QED BY <1>1, <2>2, <2>4 DEF ProcsTyped
  <1>5. ConfigTyped'
    BY <1>2, <1>4 DEF ConfigTyped
  <1>6. ASSUME ~overtaken' PROVE ToldInOrder' /\ StillOverlays'
    <2>1. ToldInOrder /\ StillOverlays
      BY <1>6 DEF ConfigIInv
    <2>2. ToldInOrder'
      BY <1>1, <2>1 DEF ToldInOrder
    <2>3. ASSUME NEW q \in UpdateProcs, proc'[q].step # "none", proc'[q].base = configWrites' PROVE Overlays(proc'[q])
      <3>1. CASE q = p
        BY <1>1, <1>6, <2>3, <3>1 DEF ProcsTyped
      <3>2. CASE q # p
        BY <1>1, <2>1, <2>3, <3>2 DEF ProcsTyped, StillOverlays
      <3> QED BY <3>1, <3>2
    <2>4. \A q \in UpdateProcs : Overlays(proc'[q]) => Overlays(proc[q])'
      BY <1>1 DEF Overlays
    <2> QED BY <2>2, <2>3, <2>4 DEF StillOverlays
  <1> QED BY <1>5, <1>6 DEF ConfigIInv


LEMMA LaidDown ==
  ASSUME ConfigTyped
  PROVE  UserTyped(NotUsing)
  <1>1. configWrites \in Nat /\ released \in Nat
    BY DEF ConfigTyped, ConfigFileTyped
  <1>2. NotUsing.step \notin {"asks", "knows", "tells"}
    BY NotUsingFacts
  <1> QED BY <1>1, <1>2, NotUsingFacts DEF UserTyped

\* A use begun: what it will write is the file as it is read, but for what it is about.
LEMMA UseBegins ==
  ASSUME ConfigIInv, NEW p \in UpdateProcs, NEW kind \in UseKinds, NEW step \in UseSteps, NEW cfg \in GlobalConfigs, NEW tag \in Nat,
         TakesConfig(p, kind, step, cfg, tag), cfg.known <= released, tag <= released,
         step \in {"asks", "knows", "tells"} => kind = "check", step # "tells" /\ ~(kind = "check" /\ step = "saves"),
         UNCHANGED <<ConfigFile, writing>>, NoticeTyped', LaterIsHeard', lateLook' \in BOOLEAN,
         ~overtaken /\ writing = {} =>
            /\ LooksAreDue'
            /\ kind \notin {"switch", "enable"} => cfg.on = globalConfig.on
            /\ kind # "later" => cfg.dismissed = globalConfig.dismissed
            /\ cfg.notified = globalConfig.notified /\ cfg.known = globalConfig.known
            /\ step = "knows" => tag = globalConfig.known
  PROVE  ConfigIInv'
  <1>1. PICK u : u = [kind |-> kind, step |-> step, cfg |-> cfg, tag |-> tag, runs |-> running, base |-> configWrites]
    OBVIOUS
  <1>2. configWrites \in Nat /\ running \in Nat /\ released \in Nat /\ overtaken \in BOOLEAN /\ ConfigTyped
    BY DEF ConfigIInv, ConfigTyped, ConfigFileTyped
  <1>3. u \in Users /\ u.kind = kind /\ u.step = step /\ u.cfg = cfg /\ u.tag = tag /\ u.runs = running /\ u.base = configWrites
    BY <1>1, <1>2, UserRecords
  <1>4. UserTyped(u)
    BY <1>2, <1>3 DEF UserTyped
  <1>5. proc[p] = NotUsing /\ proc' = [proc EXCEPT ![p] = u] /\ overtaken' = (overtaken \/ writing # {})
    BY <1>1 DEF TakesConfig
  <1>6. p \notin writing'
    BY <1>2, <1>5, NotUsingFacts DEF ConfigTyped, ProcsTyped
  <1>7. overtaken' \in BOOLEAN /\ (~overtaken' => ~overtaken /\ writing = {})
    BY <1>2, <1>5
  <1>8. ASSUME ~overtaken' PROVE Overlays(u) /\ LooksAreDue'
    BY <1>3, <1>7, <1>8 DEF Overlays
  <1> QED BY <1>4, <1>5, <1>6, <1>7, <1>8, OneUser

LEMMA LooksStay ==
  ASSUME NoticeTyped, UNCHANGED <<globalConfig, configWrites, released, wished>>,
         notice'.looks = notice.looks, notice'.latest = notice.latest,
         notice' = [latest |-> notice'.latest, checked |-> notice'.checked, looks |-> notice'.looks],
         UNCHANGED <<cornerVersion, lateLook>> \/ cornerVersion' = 0
  PROVE  NoticeTyped' /\ (LooksAreDue => LooksAreDue')
  BY DEF NoticeTyped, LooksAreDue

LEMMA SetsSwitchOK ==
  ASSUME ConfigIInv, NEW p \in UpdateProcs, NEW on \in BOOLEAN, SetsSwitch(p, on)
  PROVE  ConfigIInv'
  <1>1. PICK kind \in {"switch", "enable"} :
          /\ kind = "enable" => ~CockpitBusy
          /\ TakesConfig(p, kind, "saves", [loadGlobalConfig EXCEPT !.on = on], 0)
          /\ notice' = IF on /\ kind = "enable" THEN [notice EXCEPT !.checked = "no"] ELSE notice
    BY DEF SetsSwitch
  <1>2. UNCHANGED <<ConfigFile, writing, globalConfig, configWrites, released, wished, cornerVersion, lateLook>>
    BY DEF SetsSwitch, ConfigFile
  <1>3. ConfigTyped /\ LaterIsHeard /\ (~overtaken => LooksAreDue) /\ lateLook \in BOOLEAN /\ released \in Nat /\ NoticeTyped /\ ProcsTyped
    BY DEF ConfigIInv, ConfigTyped, ConfigFileTyped
  <1>4. notice'.looks = notice.looks /\ notice'.latest = notice.latest
        /\ notice' = [latest |-> notice'.latest, checked |-> notice'.checked, looks |-> notice'.looks]
    <2>1. notice = [latest |-> notice.latest, checked |-> notice.checked, looks |-> notice.looks]
      BY <1>3 DEF NoticeTyped
    <2>2. CASE on /\ kind = "enable"
      <3>1. notice' = [latest |-> notice.latest, checked |-> "no", looks |-> notice.looks]
        BY <1>1, <2>1, <2>2
      <3> QED BY <3>1
    <2>3. CASE ~(on /\ kind = "enable")
      BY <1>1, <2>1, <2>3
    <2> QED BY <2>2, <2>3
  <1>5. NoticeTyped' /\ (LooksAreDue => LooksAreDue')
    BY <1>2, <1>3, <1>4, LooksStay
  <1>6. LaterIsHeard'
    <2>1. \A q \in UpdateProcs \ {p} : proc'[q] = proc[q]
      BY <1>1, <1>3 DEF TakesConfig, ProcsTyped
    <2>2. proc'[p].kind = kind
      BY <1>1, <1>3 DEF TakesConfig, ProcsTyped
    <2>3. kind # "later" /\ (kind = "enable" => \A q \in UpdateProcs : proc[q].kind \notin {"enable", "later"})
      BY <1>1 DEF CockpitBusy
    <2>4. kind # "enable" => kind = "switch"
      OBVIOUS
    <2> QED BY <1>2, <1>3, <2>1, <2>2, <2>3, <2>4 DEF LaterIsHeard
  <1>7. PICK c : c = [loadGlobalConfig EXCEPT !.on = on]
    OBVIOUS
  <1>8. c \in GlobalConfigs /\ c.known = loadGlobalConfig.known /\ c.notified = loadGlobalConfig.notified
        /\ c.dismissed = loadGlobalConfig.dismissed /\ loadGlobalConfig.known <= released
        /\ (writing = {} => loadGlobalConfig = globalConfig)
    <2>1. /\ loadGlobalConfig \in GlobalConfigs /\ loadGlobalConfig.known <= released
          /\ (writing = {} => loadGlobalConfig = globalConfig)
      BY <1>3, Reads
    <2>2. PICK g : g = loadGlobalConfig
      OBVIOUS
    <2>3. g \in GlobalConfigs /\ c = [g EXCEPT !.on = on] /\ on \in BOOLEAN
      BY <1>3, <1>7, <2>1, <2>2
    <2>4. c \in GlobalConfigs /\ c.known = g.known /\ c.notified = g.notified /\ c.dismissed = g.dismissed
      BY <2>3 DEF GlobalConfigs
    <2> QED BY <2>1, <2>2, <2>4
  <1>9. kind \in UseKinds /\ "saves" \in UseSteps /\ 0 \in Nat /\ 0 <= released /\ kind # "later" /\ kind # "check"
    BY <1>3 DEF UseKinds, UseSteps
  <1>10. TakesConfig(p, kind, "saves", c, 0)
    BY <1>1, <1>7
  <1> QED BY <1>2, <1>3, <1>5, <1>6, <1>8, <1>9, <1>10, UseBegins

LEMMA LaterOK ==
  ASSUME ConfigIInv, NEW p \in UpdateProcs, Later(p)
  PROVE  ConfigIInv'
  <1>1. /\ ~CockpitBusy /\ cornerVersion # 0 /\ cornerVersion' = 0 /\ lateLook' = FALSE
        /\ TakesConfig(p, "later", "saves", [loadGlobalConfig EXCEPT !.dismissed = cornerVersion], 0)
        /\ UNCHANGED notice
    BY DEF Later
  <1>2. UNCHANGED <<ConfigFile, writing, globalConfig, configWrites, released, wished>>
    BY DEF Later, ConfigFile
  <1>3. ConfigTyped /\ LaterIsHeard /\ (~overtaken => LooksAreDue) /\ released \in Nat /\ NoticeTyped /\ ProcsTyped
    BY DEF ConfigIInv, ConfigTyped, ConfigFileTyped
  <1>4. NoticeTyped' /\ (LooksAreDue => LooksAreDue')
    <2>1. notice = [latest |-> notice.latest, checked |-> notice.checked, looks |-> notice.looks]
      BY <1>3 DEF NoticeTyped
    <2> QED BY <1>1, <1>2, <1>3, <2>1, LooksStay
  <1>5. LaterIsHeard'
    <2>1. \A q \in UpdateProcs \ {p} : proc'[q] = proc[q]
      BY <1>1, <1>3 DEF TakesConfig, ProcsTyped
    <2>2. \A q \in UpdateProcs : proc[q].kind \notin {"enable", "later"}
      BY <1>1 DEF CockpitBusy
    <2> QED BY <1>1, <2>1, <2>2 DEF LaterIsHeard
  <1>6. cornerVersion \in Nat
    BY <1>3 DEF NoticeTyped
  <1>7. PICK c : c = [loadGlobalConfig EXCEPT !.dismissed = cornerVersion]
    OBVIOUS
  <1>8. c \in GlobalConfigs /\ c.known = loadGlobalConfig.known /\ c.notified = loadGlobalConfig.notified
        /\ c.on = loadGlobalConfig.on /\ loadGlobalConfig.known <= released
        /\ (writing = {} => loadGlobalConfig = globalConfig)
    <2>1. /\ loadGlobalConfig \in GlobalConfigs /\ loadGlobalConfig.known <= released
          /\ (writing = {} => loadGlobalConfig = globalConfig)
      BY <1>3, Reads
    <2>2. PICK g : g = loadGlobalConfig
      OBVIOUS
    <2>3. g \in GlobalConfigs /\ c = [g EXCEPT !.dismissed = cornerVersion] /\ cornerVersion \in Nat
      BY <1>6, <1>7, <2>1, <2>2
    <2>4. c \in GlobalConfigs /\ c.known = g.known /\ c.notified = g.notified /\ c.on = g.on
      BY <2>3 DEF GlobalConfigs
    <2> QED BY <2>1, <2>2, <2>4
  <1>9. "later" \in UseKinds /\ "saves" \in UseSteps /\ 0 \in Nat /\ 0 <= released
    BY <1>3 DEF UseKinds, UseSteps
  <1>10. TakesConfig(p, "later", "saves", c, 0) /\ lateLook' \in BOOLEAN
    BY <1>1, <1>7
  <1> QED BY <1>2, <1>3, <1>4, <1>5, <1>8, <1>9, <1>10, UseBegins

LEMMA ChecksForUpdateOK ==
  ASSUME ConfigIInv, NEW p \in UpdateProcs, ChecksForUpdate(p)
  PROVE  ConfigIInv'
  <1>1. PICK step \in {"knows", "asks"} : TakesConfig(p, "check", step, loadGlobalConfig, loadGlobalConfig.known)
    BY DEF ChecksForUpdate
  <1>2. UNCHANGED <<ConfigFile, writing, globalConfig, configWrites, released, wished, notice, cornerVersion, lateLook>>
    BY DEF ChecksForUpdate, ConfigFile
  <1>3. ConfigTyped /\ LaterIsHeard /\ (~overtaken => LooksAreDue) /\ lateLook \in BOOLEAN /\ released \in Nat /\ NoticeTyped /\ ProcsTyped
    BY DEF ConfigIInv, ConfigTyped, ConfigFileTyped
  <1>4. NoticeTyped' /\ (LooksAreDue => LooksAreDue')
    <2>1. notice = [latest |-> notice.latest, checked |-> notice.checked, looks |-> notice.looks]
      BY <1>3 DEF NoticeTyped
    <2> QED BY <1>2, <1>3, <2>1, LooksStay
  <1>5. LaterIsHeard'
    <2>1. \A q \in UpdateProcs \ {p} : proc'[q] = proc[q]
      BY <1>1, <1>3 DEF TakesConfig, ProcsTyped
    <2>2. proc'[p].kind = "check"
      BY <1>1, <1>3 DEF TakesConfig, ProcsTyped
    <2> QED BY <1>2, <1>3, <2>1, <2>2 DEF LaterIsHeard
  <1>6. PICK c : c = loadGlobalConfig
    OBVIOUS
  <1>7. c \in GlobalConfigs /\ c.known <= released /\ c.known \in Nat /\ (writing = {} => c = globalConfig)
    BY <1>3, <1>6, Reads, ConfigFields
  <1>8. "check" \in UseKinds /\ step \in UseSteps /\ TakesConfig(p, "check", step, c, c.known)
    BY <1>1, <1>6 DEF UseKinds, UseSteps
  <1> QED BY <1>2, <1>3, <1>4, <1>5, <1>7, <1>8, UseBegins


\* One step of a process, nothing else being touched.
LEMMA Proceeds ==
  ASSUME ConfigIInv, NEW p \in UpdateProcs, NEW u, proc' = [proc EXCEPT ![p] = u],
         UNCHANGED <<ConfigFile, notice, cornerVersion, lateLook>>,
         UserTyped(u), u.kind = proc[p].kind \/ u.kind = "none",
         writing' \subseteq writing \cup {p}, p \in writing' => u.step \in {"saves", "tells"}, overtaken' \in BOOLEAN,
         ~overtaken' => ~overtaken /\ (u.step # "none" /\ u.base = configWrites => Overlays(u))
  PROVE  ConfigIInv'
  <1>1. ConfigTyped /\ LaterIsHeard /\ (~overtaken => LooksAreDue) /\ lateLook \in BOOLEAN /\ NoticeTyped /\ ProcsTyped
    BY DEF ConfigIInv, ConfigTyped
  <1>2. UNCHANGED <<globalConfig, configWrites, released, wished, notice, cornerVersion, lateLook>>
    BY DEF ConfigFile
  <1>3. NoticeTyped' /\ (LooksAreDue => LooksAreDue')
    <2>1. notice = [latest |-> notice.latest, checked |-> notice.checked, looks |-> notice.looks]
      BY <1>1 DEF NoticeTyped
    <2> QED BY <1>1, <1>2, <2>1, LooksStay
  <1>4. LaterIsHeard'
    <2>1. (\A q \in UpdateProcs \ {p} : proc'[q] = proc[q]) /\ proc'[p] = u
      BY <1>1 DEF ProcsTyped
    <2>2. \A q \in UpdateProcs : proc'[q].kind = proc[q].kind \/ proc'[q].kind = "none"
      BY <2>1
    <2> QED BY <1>1, <1>2, <2>2 DEF LaterIsHeard
  <1>5. UNCHANGED ConfigFile /\ lateLook' \in BOOLEAN
    BY <1>1
  <1> QED BY <1>1, <1>3, <1>4, <1>5, OneUser

\* A use is laid down: nothing is left to hold of it.
LEMMA LaysDown ==
  ASSUME ConfigIInv, NEW p \in UpdateProcs, proc' = [proc EXCEPT ![p] = NotUsing], p \notin writing,
         UNCHANGED <<ConfigFile, writing, notice, cornerVersion, lateLook, overtaken>>
  PROVE  ConfigIInv'
  <1>1. UserTyped(NotUsing) /\ NotUsing.kind = "none" /\ NotUsing.step = "none"
    BY LaidDown, NotUsingFacts DEF ConfigIInv
  <1>2. overtaken' \in BOOLEAN /\ (~overtaken' => ~overtaken) /\ p \notin writing'
    BY DEF ConfigIInv, ConfigTyped
  <1> QED BY <1>1, <1>2, Proceeds

LEMMA resolveLatestTagOK ==
  ASSUME ConfigIInv, NEW p \in UpdateProcs, resolveLatestTag(p)
  PROVE  ConfigIInv'
  <1>1. proc[p].step = "asks" /\ UNCHANGED <<ConfigFile, writing, notice, cornerVersion, lateLook, overtaken>>
    BY DEF resolveLatestTag, ConfigFile
  <1>2. ProcsTyped /\ released \in Nat /\ configWrites \in Nat /\ overtaken \in BOOLEAN /\ running <= released
        /\ globalConfig.known <= released
    BY DEF ConfigIInv, ConfigTyped, ConfigFileTyped
  <1>3. p \notin writing
    BY <1>1, <1>2 DEF ProcsTyped
  <1>4. CASE proc' = [proc EXCEPT ![p] = NotUsing]
    BY <1>1, <1>3, <1>4, LaysDown
  <1>5. CASE proc' = [proc EXCEPT ![p] = [@ EXCEPT !.step = "saves", !.tag = released,
                                          !.cfg = [proc[p].cfg EXCEPT !.fresh = TRUE, !.known = released]]]
    <2>1. PICK v : v = proc[p]
      OBVIOUS
    <2>2. v \in Users /\ v.kind = "check" /\ v.base <= configWrites
      BY <1>1, <1>2, <2>1 DEF ProcsTyped, UserTyped
    <2>a. PICK g \in GlobalConfigs : g = v.cfg
      BY <2>2, UserFields
    <2>3. PICK c : c = [g EXCEPT !.fresh = TRUE, !.known = released]
      OBVIOUS
    <2>4. c \in GlobalConfigs /\ c.on = g.on /\ c.known = released /\ c.notified = g.notified /\ c.dismissed = g.dismissed
      <3>1. released \in Nat
        BY <1>2
      <3> QED BY <2>3, <3>1 DEF GlobalConfigs
    <2>5. PICK u : u = [v EXCEPT !.step = "saves", !.tag = released, !.cfg = c]
      OBVIOUS
    <2>7. proc' = [proc EXCEPT ![p] = u]
      <3>1. proc' = [proc EXCEPT ![p] = [proc[p] EXCEPT !.step = "saves", !.tag = released,
                                                   !.cfg = [proc[p].cfg EXCEPT !.fresh = TRUE, !.known = released]]]
        BY <1>5
      <3>2. [proc[p].cfg EXCEPT !.fresh = TRUE, !.known = released] = c
        BY <2>1, <2>3, <2>a
      <3>3. [proc[p] EXCEPT !.step = "saves", !.tag = released, !.cfg = c] = u
        BY <2>1, <2>5
      <3> QED BY <3>1, <3>2, <3>3
    <2>8. u \in Users /\ u.kind = v.kind /\ u.step = "saves" /\ u.cfg = c /\ u.tag = released /\ u.runs = v.runs /\ u.base = v.base
      <3>1. v \in Users /\ c \in GlobalConfigs /\ released \in Nat
        BY <1>2, <2>2, <2>4
      <3> QED BY <2>5, <3>1 DEF Users, UseSteps
    <2>9. UserTyped(u)
      BY <1>2, <2>2, <2>4, <2>8 DEF UserTyped
    <2>10. ASSUME ~overtaken, u.base = configWrites PROVE Overlays(u)
      <3>1. Overlays(v)
        BY <1>1, <2>1, <2>8, <2>10 DEF ConfigIInv, StillOverlays
      <3> QED BY <1>1, <1>2, <2>1, <2>2, <2>4, <2>8, <2>a, <3>1 DEF Overlays
    <2>11. writing' \subseteq writing \cup {p} /\ p \notin writing' /\ overtaken' = overtaken
      BY <1>1, <1>3
    <2>12. /\ overtaken' \in BOOLEAN /\ (~overtaken' => ~overtaken /\ (u.step # "none" /\ u.base = configWrites => Overlays(u)))
           /\ (u.kind = proc[p].kind \/ u.kind = "none") /\ (p \in writing' => u.step \in {"saves", "tells"})
           /\ UNCHANGED <<ConfigFile, notice, cornerVersion, lateLook>>
      BY <1>1, <1>2, <2>1, <2>8, <2>10, <2>11
    <2> QED BY <2>7, <2>9, <2>11, <2>12, Proceeds
  <1> QED BY <1>4, <1>5 DEF resolveLatestTag

LEMMA AnnouncesOK ==
  ASSUME ConfigIInv, NEW p \in UpdateProcs, Announces(p)
  PROVE  ConfigIInv'
  <1>1. proc[p].step = "knows" /\ UNCHANGED <<ConfigFile, writing, notice, cornerVersion, lateLook>>
    BY DEF Announces, ConfigFile
  <1>2. ConfigTyped /\ ProcsTyped /\ released \in Nat /\ configWrites \in Nat /\ overtaken \in BOOLEAN
    BY DEF ConfigIInv, ConfigTyped, ConfigFileTyped
  <1>3. p \notin writing
    BY <1>1, <1>2 DEF ProcsTyped
  <1>4. CASE ~WorthTelling(proc[p].tag, proc[p].cfg, proc[p].runs)
    <2>1. proc' = [proc EXCEPT ![p] = NotUsing] /\ UNCHANGED overtaken
      BY <1>4 DEF Announces
    <2> QED BY <1>1, <1>3, <2>1, LaysDown
  <1>5. CASE WorthTelling(proc[p].tag, proc[p].cfg, proc[p].runs)
    <2>0. /\ proc' = [proc EXCEPT ![p] = [@ EXCEPT !.step = "tells", !.base = configWrites,
                             !.cfg = [loadGlobalConfig EXCEPT !.known = proc[p].tag, !.notified = proc[p].tag]]]
          /\ overtaken' = (overtaken \/ writing # {} \/ proc[p].base # configWrites)
      BY <1>5 DEF Announces
    <2>1. PICK v : v = proc[p]
      OBVIOUS
    <2>2. v \in Users /\ v.kind = "check" /\ v.tag \in Nat /\ v.runs \in Nat /\ v.tag <= released
      BY <1>1, <1>2, <2>1, UserFields DEF ProcsTyped, UserTyped
    <2>a. PICK l \in GlobalConfigs : l = loadGlobalConfig
      BY <1>2, Reads
    <2>b. writing = {} => l = globalConfig
      BY <1>2, <2>a, Reads
    <2>e. PICK t \in Nat : t = v.tag
      BY <2>2
    <2>3. PICK c : c = [l EXCEPT !.known = t, !.notified = t]
      OBVIOUS
    <2>4. c \in GlobalConfigs /\ c.on = l.on /\ c.known = v.tag /\ c.notified = v.tag /\ c.dismissed = l.dismissed
      <3>2. c \in GlobalConfigs /\ c.on = l.on /\ c.known = t /\ c.notified = t /\ c.dismissed = l.dismissed
        BY <2>3 DEF GlobalConfigs
      <3> QED BY <2>e, <3>2
    <2>5. PICK u : u = [v EXCEPT !.step = "tells", !.base = configWrites, !.cfg = c]
      OBVIOUS
    <2>7. proc' = [proc EXCEPT ![p] = u]
      <3>1. proc' = [proc EXCEPT ![p] = [proc[p] EXCEPT !.step = "tells", !.base = configWrites,
                             !.cfg = [loadGlobalConfig EXCEPT !.known = proc[p].tag, !.notified = proc[p].tag]]]
        BY <2>0
      <3>2. [loadGlobalConfig EXCEPT !.known = proc[p].tag, !.notified = proc[p].tag] = c
        BY <2>1, <2>3, <2>a, <2>e
      <3>3. [proc[p] EXCEPT !.step = "tells", !.base = configWrites, !.cfg = c] = u
        BY <2>1, <2>5
      <3> QED BY <3>1, <3>2, <3>3
    <2>8. u \in Users /\ u.kind = v.kind /\ u.step = "tells" /\ u.cfg = c /\ u.tag = v.tag /\ u.runs = v.runs /\ u.base = configWrites
      <3>1. v \in Users /\ c \in GlobalConfigs /\ configWrites \in Nat
        BY <1>2, <2>2, <2>4
      <3> QED BY <2>5, <3>1 DEF Users, UseSteps
    <2>9. UserTyped(u)
      BY <1>2, <2>2, <2>4, <2>8 DEF UserTyped
    <2>c. overtaken' \in BOOLEAN /\ (~overtaken' => ~overtaken /\ writing = {} /\ v.base = configWrites)
      BY <1>2, <2>0, <2>1
    <2>d. v.tag > v.runs /\ v.cfg.notified # v.tag
      BY <1>5, <2>1 DEF WorthTelling
    <2>10. ASSUME ~overtaken' PROVE Overlays(u)
      <3>1. Overlays(v)
        BY <1>1, <2>1, <2>c, <2>10 DEF ConfigIInv, StillOverlays
      <3> QED BY <1>1, <2>1, <2>2, <2>4, <2>8, <2>10, <2>b, <2>c, <2>d, <3>1 DEF Overlays
    <2>11. writing' \subseteq writing \cup {p} /\ p \notin writing'
      BY <1>1, <1>3
    <2> QED BY <1>1, <1>2, <2>1, <2>7, <2>8, <2>9, <2>10, <2>11, <2>c, Proceeds
  <1> QED BY <1>4, <1>5

LEMMA EmptiesConfigOK ==
  ASSUME ConfigIInv, NEW p \in UpdateProcs, EmptiesConfig(p)
  PROVE  ConfigIInv'
  <1>1. proc[p].step \in {"saves", "tells"} /\ p \notin writing /\ UNCHANGED <<ConfigFile, notice, cornerVersion, lateLook, overtaken>>
    BY DEF EmptiesConfig, ConfigFile
  <1>2. ProcsTyped /\ overtaken \in BOOLEAN
    BY DEF ConfigIInv, ConfigTyped
  <1>3. CASE proc' = [proc EXCEPT ![p] = NotUsing] /\ UNCHANGED writing
    BY <1>1, <1>3, LaysDown
  <1>4. CASE writing' = writing \cup {p} /\ UNCHANGED proc
    <2>1. PICK u : u = proc[p]
      OBVIOUS
    <2>2. proc' = [proc EXCEPT ![p] = u]
      BY <1>2, <1>4, <2>1 DEF ProcsTyped
    <2>3. UserTyped(u)
      BY <1>2, <2>1 DEF ProcsTyped
    <2>4. ~overtaken' => ~overtaken /\ (u.step # "none" /\ u.base = configWrites => Overlays(u))
      BY <1>1, <2>1 DEF ConfigIInv, StillOverlays
    <2> QED BY <1>1, <1>2, <1>4, <2>1, <2>2, <2>3, <2>4, Proceeds
  <1> QED BY <1>3, <1>4 DEF EmptiesConfig


\* When the file is written, every look and every use taken before is older than it.
LEMMA LooksGrowOld ==
  ASSUME NoticeTyped, configWrites \in Nat, configWrites' = configWrites + 1, UNCHANGED <<notice, released, cornerVersion>>
  PROVE  NoticeTyped' /\ \A i \in DOMAIN notice'.looks : notice'.looks[i].at # configWrites'
  <1>1. \A i \in DOMAIN notice.looks : notice.looks[i].at \in Nat /\ notice.looks[i].at <= configWrites
    <2>1. \A i \in DOMAIN notice.looks : notice.looks[i] \in Looks
      BY ElementOfSeq DEF NoticeTyped
    <2> QED BY <2>1 DEF NoticeTyped, Looks
  <1>2. \A i \in DOMAIN notice.looks : notice.looks[i].at <= configWrites + 1 /\ notice.looks[i].at # configWrites + 1
    BY <1>1
  <1> QED BY <1>2 DEF NoticeTyped

LEMMA saveGlobalConfigOK ==
  ASSUME ConfigIInv, NEW p \in UpdateProcs, saveGlobalConfig(p)
  PROVE  ConfigIInv'
  <1>1. /\ p \in writing /\ writing' = writing \ {p} /\ globalConfig' = proc[p].cfg /\ configWrites' = configWrites + 1
        /\ overtaken' = (overtaken \/ proc[p].base # configWrites) /\ proc' = [proc EXCEPT ![p] = AfterSave(p)]
        /\ UNCHANGED <<released, running, notice, cornerVersion, lateLook>>
    BY DEF saveGlobalConfig
  <1>2. /\ ConfigFileTyped /\ ProcsTyped /\ NoticeTyped /\ overtaken \in BOOLEAN /\ lateLook \in BOOLEAN /\ LaterIsHeard
        /\ released \in Nat /\ configWrites \in Nat /\ running \in Nat
    BY DEF ConfigIInv, ConfigTyped, ConfigFileTyped
  <1>3. PICK v \in Users : v = proc[p]
    BY <1>2 DEF ProcsTyped
  <1>4. /\ v.step \in {"saves", "tells"} /\ UserTyped(v) /\ v.cfg \in GlobalConfigs /\ v.tag \in Nat /\ v.base \in Nat
        /\ v.kind \in UseKinds /\ (v.step = "tells" => v.kind = "check")
    BY <1>1, <1>2, <1>3, UserFields DEF ProcsTyped, UserTyped
  <1>5. PICK u : u = AfterSave(p)
    OBVIOUS
  <1>6. /\ u \in Users /\ UserTyped(u)' /\ (u.kind = v.kind \/ u.kind = "none")
        /\ u.step # "none" => /\ v.kind = "check" /\ v.step = "saves" /\ u.kind = "check" /\ u.step = "knows"
                              /\ u.cfg = v.cfg /\ u.tag = v.tag /\ u.runs = v.runs
    <2>1. CASE v.kind = "check" /\ v.step = "saves"
      <3>1. u = [v EXCEPT !.step = "knows", !.base = configWrites + 1]
        BY <1>1, <1>3, <1>5, <2>1 DEF AfterSave
      <3>2. configWrites + 1 \in Nat
        BY <1>2
      <3>3. u \in Users /\ u.kind = v.kind /\ u.step = "knows" /\ u.cfg = v.cfg /\ u.tag = v.tag /\ u.runs = v.runs
            /\ u.base = configWrites + 1
        BY <3>1, <3>2 DEF Users, UseSteps
      <3>4. UserTyped(u)'
        BY <1>1, <1>2, <1>4, <2>1, <3>3 DEF UserTyped
      <3> QED BY <2>1, <3>3, <3>4
    <2>2. CASE ~(v.kind = "check" /\ v.step = "saves")
      <3>1. u = NotUsing
        BY <1>3, <1>5, <2>2 DEF AfterSave
      <3>2. NotUsing.step \notin {"asks", "knows", "tells"} /\ 0 <= released /\ 0 <= configWrites + 1
        BY <1>2, NotUsingFacts
      <3>3. UserTyped(u)'
        BY <1>1, <3>1, <3>2, NotUsingFacts DEF UserTyped
      <3> QED BY <3>1, <3>3, NotUsingFacts
    <2> QED BY <2>1, <2>2
  <1>7. proc' \in [UpdateProcs -> Users] /\ proc'[p] = u /\ \A q \in UpdateProcs \ {p} : proc'[q] = proc[q]
    BY <1>1, <1>2, <1>5, <1>6 DEF ProcsTyped
  <1>8. ProcsTyped'
    <2>1. ASSUME NEW w \in Users, UserTyped(w) PROVE UserTyped(w)'
      <3>1. w.base <= configWrites + 1
        BY <1>2, <2>1, UserFields DEF UserTyped
      <3> QED BY <1>1, <2>1, <3>1 DEF UserTyped
    <2>2. \A q \in UpdateProcs : \E w \in Users : w = proc'[q] /\ UserTyped(w)'
      BY <1>2, <1>6, <1>7, <2>1 DEF ProcsTyped
    <2>3. \A q \in UpdateProcs : UserTyped(proc[q])'
      BY <2>2 DEF UserTyped
    <2>4. \A q \in writing' : q # p /\ proc'[q].step \in {"saves", "tells"}
      BY <1>1, <1>2, <1>7 DEF ProcsTyped
    <2> QED BY <1>1, <1>2, <1>7, <2>3, <2>4 DEF ProcsTyped
  <1>9. /\ announced' = IF v.step = "tells" THEN [announced EXCEPT ![v.tag] = @ + 1] ELSE announced
        /\ wished' = CASE v.kind \in {"switch", "enable"} -> [wished EXCEPT !.on = v.cfg.on]
                       [] v.kind = "later" -> [wished EXCEPT !.dismissed = v.cfg.dismissed]
                       [] OTHER -> wished
    BY <1>3 DEF saveGlobalConfig
  <1>10. /\ wished' = [on |-> wished'.on, dismissed |-> wished'.dismissed]
         /\ wished'.on = IF v.kind \in {"switch", "enable"} THEN v.cfg.on ELSE wished.on
         /\ wished'.dismissed = IF v.kind = "later" THEN v.cfg.dismissed ELSE wished.dismissed
    <2>1. wished = [on |-> wished.on, dismissed |-> wished.dismissed]
      BY <1>2 DEF ConfigFileTyped
    <2>2. CASE v.kind \in {"switch", "enable"}
      <3>1. wished' = [wished EXCEPT !.on = v.cfg.on] /\ v.kind # "later"
        BY <1>9, <2>2
      <3>2. wished' = [on |-> v.cfg.on, dismissed |-> wished.dismissed]
        BY <2>1, <3>1
      <3> QED BY <2>2, <3>1, <3>2
    <2>3. CASE v.kind = "later"
      <3>1. wished' = [wished EXCEPT !.dismissed = v.cfg.dismissed]
        BY <1>9, <2>3
      <3>2. wished' = [on |-> wished.on, dismissed |-> v.cfg.dismissed]
        BY <2>1, <3>1
      <3> QED BY <2>3, <3>2
    <2>4. CASE v.kind \notin {"switch", "enable", "later"}
      <3>1. wished' = wished
        BY <1>9, <2>4
      <3> QED BY <2>1, <2>4, <3>1
    <2> QED BY <2>2, <2>3, <2>4
  <1>11. announced' \in [1..MaxReleases -> Nat]
    <2>1. announced \in [1..MaxReleases -> Nat]
      BY <1>2 DEF ConfigFileTyped
    <2>2. CASE v.step = "tells"
      <3>1. announced' = [announced EXCEPT ![v.tag] = announced[v.tag] + 1]
        BY <1>9, <2>2
      <3>2. v.tag \in 1..MaxReleases => announced[v.tag] + 1 \in Nat
        BY <2>1
      <3> QED BY <2>1, <3>1, <3>2
    <2>3. CASE v.step # "tells"
      BY <1>9, <2>1, <2>3
    <2> QED BY <2>2, <2>3
  <1>12. ConfigFileTyped'
    <2>1. globalConfig' \in GlobalConfigs /\ globalConfig'.known <= released
      BY <1>1, <1>3, <1>4 DEF UserTyped
    <2>2. configWrites' \in Nat /\ running \in 1..released
      BY <1>1, <1>2 DEF ConfigFileTyped
    <2> QED BY <1>1, <1>2, <1>10, <1>11, <2>1, <2>2 DEF ConfigFileTyped
  <1>13. NoticeTyped' /\ \A i \in DOMAIN notice'.looks : notice'.looks[i].at # configWrites'
    BY <1>1, <1>2, LooksGrowOld
  <1>14. LaterIsHeard'
    <2>1. \A q \in UpdateProcs : proc'[q].kind = proc[q].kind \/ proc'[q].kind = "none"
      BY <1>3, <1>6, <1>7
    <2> QED BY <1>1, <1>2, <2>1 DEF LaterIsHeard
  <1>15. overtaken' \in BOOLEAN /\ (~overtaken' => ~overtaken /\ v.base = configWrites)
    BY <1>1, <1>2, <1>3
  <1>16. ASSUME ~overtaken' PROVE ToldInOrder' /\ StillOverlays' /\ LooksAreDue'
    <2>1. ToldInOrder /\ StillOverlays /\ LooksAreDue /\ Overlays(v)
      BY <1>3, <1>4, <1>15, <1>16 DEF ConfigIInv, StillOverlays
    <2>2. PICK g \in GlobalConfigs : g = v.cfg /\ globalConfig' = g
      BY <1>1, <1>3, <1>4
    <2>3. PICK h \in GlobalConfigs : h = globalConfig
      BY <1>2 DEF ConfigFileTyped
    <2>4. g.known \in Nat /\ g.notified \in Nat /\ h.known \in Nat /\ h.notified \in Nat
      BY ConfigFields
    <2>5. g.on = wished'.on /\ g.dismissed = wished'.dismissed
      BY <1>10, <2>1, <2>2, <2>3 DEF Overlays, ToldInOrder
    <2>6. (g.known # 0 => g.known >= running) /\ g.notified <= g.known /\ h.notified <= g.notified
      <3>1. CASE v.step = "tells"
        BY <1>2, <1>4, <2>1, <2>2, <2>3, <2>4, <3>1 DEF Overlays, ToldInOrder
      <3>2. CASE v.step = "saves"
        BY <1>2, <1>4, <2>1, <2>2, <2>3, <2>4, <3>2 DEF Overlays, ToldInOrder
      <3> QED BY <1>4, <3>1, <3>2
    <2>7. ASSUME NEW x \in 1..MaxReleases
          PROVE  announced'[x] <= 1 /\ (announced'[x] = 1 => x <= running \/ x <= g.notified)
      <3>1. announced[x] \in Nat /\ announced[x] <= 1 /\ (announced[x] = 1 => x <= running \/ x <= h.notified) /\ x \in Nat
        BY <1>2, <2>1, <2>3 DEF ConfigFileTyped, ToldInOrder
      <3>2. CASE v.step = "tells" /\ x = v.tag
        <4>1. v.tag > running /\ v.tag = h.known /\ h.notified # v.tag /\ h.notified <= h.known /\ g.notified = v.tag
          BY <2>1, <2>2, <2>3, <3>2 DEF Overlays, ToldInOrder
        <4>2. announced[x] = 0
          BY <1>2, <2>4, <3>1, <3>2, <4>1
        <4>3. announced'[x] = announced[x] + 1
          BY <1>2, <1>9, <3>2 DEF ConfigFileTyped
        <4> QED BY <3>1, <3>2, <4>1, <4>2, <4>3
      <3>3. CASE ~(v.step = "tells" /\ x = v.tag)
        <4>1. announced'[x] = announced[x]
          BY <1>2, <1>9, <3>3 DEF ConfigFileTyped
        <4> QED BY <1>2, <2>4, <2>6, <3>1, <4>1
      <3> QED BY <3>2, <3>3
    <2>8. ToldInOrder'
      BY <1>1, <2>2, <2>5, <2>6, <2>7 DEF ToldInOrder
    <2>9. StillOverlays'
      <3>1. ASSUME NEW q \in UpdateProcs, proc'[q].step # "none", proc'[q].base = configWrites'
            PROVE  q = p
        <4>1. CASE q # p
          <5>1. proc[q].base <= configWrites /\ proc[q].base \in Nat /\ proc[q].base = configWrites + 1
            BY <1>1, <1>2, <1>7, <3>1, <4>1, UserFields DEF ProcsTyped, UserTyped
          <5> QED BY <1>2, <5>1
        <4> QED BY <4>1
      <3>2. ASSUME u.step # "none"
            PROVE  Overlays(u)'
        <4>1. /\ v.kind = "check" /\ v.step = "saves" /\ u.kind = "check" /\ u.step = "knows" /\ u.cfg = g /\ u.tag = v.tag
              /\ u.runs = v.runs /\ g.known = v.tag /\ v.runs = running
          BY <1>6, <2>1, <2>2, <3>2 DEF Overlays
        <4> QED BY <1>1, <2>2, <4>1 DEF Overlays
      <3>3. \A q \in UpdateProcs : proc'[q].step # "none" /\ proc'[q].base = configWrites' => \E w : w = proc'[q] /\ Overlays(w)'
        BY <1>7, <3>1, <3>2
      <3>4. \A q \in UpdateProcs : proc'[q].step # "none" /\ proc'[q].base = configWrites' => Overlays(proc[q])'
        BY <3>3 DEF Overlays
      <3> QED BY <3>4 DEF StillOverlays
    <2>10. LooksAreDue'
      <3>1. CASE v.kind = "later"
        BY <1>1, <1>2, <1>3, <1>13, <3>1 DEF LooksAreDue, LaterIsHeard
      <3>2. CASE v.kind # "later"
        BY <1>1, <1>10, <1>13, <2>1, <3>2 DEF LooksAreDue
      <3> QED BY <3>1, <3>2
    <2> QED BY <2>8, <2>9, <2>10
  <1>17. lateLook' \in BOOLEAN
    BY <1>1, <1>2
  <1> QED BY <1>8, <1>12, <1>13, <1>14, <1>15, <1>16, <1>17 DEF ConfigIInv, ConfigTyped


\* `cw update` starts the file anew: what was announced is no newer than what now runs.
LEMMA CwUpdateOK ==
  ASSUME ConfigIInv, CwUpdate
  PROVE  ConfigIInv'
  <1>1. /\ running' = ChosenRelease /\ globalConfig' = InstalledConfig /\ configWrites' = configWrites + 1
        /\ wished' = [wished EXCEPT !.dismissed = 0] /\ overtaken' = (overtaken \/ writing # {})
        /\ UNCHANGED <<writing, proc, released, announced, notice, cornerVersion, lateLook>>
    BY DEF CwUpdate
  <1>2. /\ ConfigTyped /\ ConfigFileTyped /\ ProcsTyped /\ NoticeTyped /\ overtaken \in BOOLEAN /\ lateLook \in BOOLEAN /\ LaterIsHeard
        /\ released \in Nat /\ configWrites \in Nat /\ running \in 1..released
    BY DEF ConfigIInv, ConfigTyped, ConfigFileTyped
  <1>3. PICK l \in GlobalConfigs : l = loadGlobalConfig /\ l.known <= released /\ (writing = {} => l = globalConfig)
    BY <1>2, Reads
  <1>4. l.known \in Nat /\ l.on \in BOOLEAN
    BY ConfigFields
  <1>5. running' = IF l.known # 0 THEN l.known ELSE released
    BY <1>1, <1>3 DEF ChosenRelease
  <1>6. running' \in 1..released
    BY <1>2, <1>3, <1>4, <1>5
  <1>7. PICK d \in GlobalConfigs : d = DEFAULT_GLOBAL_CONFIG
    BY NotUsingFacts
  <1>8. PICK g : g = [d EXCEPT !.on = l.on]
    OBVIOUS
  <1>9. g \in GlobalConfigs /\ g.on = l.on /\ g.known = 0 /\ g.notified = 0 /\ g.dismissed = 0 /\ globalConfig' = g
    <2>1. g \in GlobalConfigs /\ g.on = l.on /\ g.known = d.known /\ g.notified = d.notified /\ g.dismissed = d.dismissed
      BY <1>4, <1>8 DEF GlobalConfigs
    <2>2. globalConfig' = g
      BY <1>1, <1>3, <1>7, <1>8 DEF InstalledConfig
    <2> QED BY <1>7, <2>1, <2>2, NotUsingFacts
  <1>10. wished' = [on |-> wished.on, dismissed |-> 0]
    <2>1. wished = [on |-> wished.on, dismissed |-> wished.dismissed]
      BY <1>2 DEF ConfigFileTyped
    <2> QED BY <1>1, <2>1
  <1>11. wished'.on = wished.on /\ wished'.dismissed = 0 /\ wished' = [on |-> wished'.on, dismissed |-> wished'.dismissed]
    BY <1>10
  <1>12. ConfigFileTyped'
    <2>1. configWrites' \in Nat /\ 0 <= released
      BY <1>1, <1>2
    <2> QED BY <1>1, <1>2, <1>6, <1>9, <1>11, <2>1 DEF ConfigFileTyped
  <1>13. ProcsTyped'
    <2>1. ASSUME NEW w \in Users, UserTyped(w) PROVE UserTyped(w)'
      <3>1. w.base <= configWrites + 1
        BY <1>2, <2>1, UserFields DEF UserTyped
      <3> QED BY <1>1, <2>1, <3>1 DEF UserTyped
    <2>2. \A q \in UpdateProcs : \E w \in Users : w = proc'[q] /\ UserTyped(w)'
      BY <1>1, <1>2, <2>1 DEF ProcsTyped
    <2>3. \A q \in UpdateProcs : UserTyped(proc[q])'
      BY <2>2 DEF UserTyped
    <2> QED BY <1>1, <1>2, <2>3 DEF ProcsTyped
  <1>14. NoticeTyped' /\ \A i \in DOMAIN notice'.looks : notice'.looks[i].at # configWrites'
    BY <1>1, <1>2, LooksGrowOld
  <1>15. LaterIsHeard'
    BY <1>1, <1>2 DEF LaterIsHeard
  <1>16. overtaken' \in BOOLEAN /\ lateLook' \in BOOLEAN /\ (~overtaken' => ~overtaken /\ writing = {})
    BY <1>1, <1>2
  <1>17. ASSUME ~overtaken' PROVE ToldInOrder' /\ StillOverlays' /\ LooksAreDue'
    <2>1. ToldInOrder /\ l = globalConfig
      BY <1>3, <1>16, <1>17 DEF ConfigIInv
    <2>2. ASSUME NEW x \in 1..MaxReleases PROVE announced'[x] <= 1 /\ (announced'[x] = 1 => x <= running')
      <3>1. announced[x] <= 1 /\ (announced[x] = 1 => x <= running \/ x <= l.notified) /\ l.notified <= l.known /\ x \in Nat
            /\ (l.known # 0 => l.known >= running) /\ l.notified \in Nat /\ x > 0
        BY <2>1, ConfigFields DEF ToldInOrder
      <3>2. running' >= running /\ (l.known # 0 => running' = l.known)
        BY <1>2, <1>3, <1>4, <1>5, <3>1
      <3> QED BY <1>1, <1>2, <1>4, <1>6, <3>1, <3>2
    <2>3. ToldInOrder'
      BY <1>9, <1>11, <2>1, <2>2 DEF ToldInOrder
    <2>4. StillOverlays'
      <3>1. ASSUME NEW q \in UpdateProcs, proc'[q].base = configWrites' PROVE FALSE
        <4>1. proc[q].base <= configWrites /\ proc[q].base \in Nat /\ proc[q].base = configWrites + 1
          BY <1>1, <1>2, <3>1, UserFields DEF ProcsTyped, UserTyped
        <4> QED BY <1>2, <4>1
      <3> QED BY <3>1 DEF StillOverlays
    <2>5. LooksAreDue'
      BY <1>1, <1>11, <1>14 DEF LooksAreDue
    <2> QED BY <2>3, <2>4, <2>5
  <1> QED BY <1>12, <1>13, <1>14, <1>15, <1>16, <1>17 DEF ConfigIInv, ConfigTyped

\* What changes the cockpit's side alone.
LEMMA CockpitSide ==
  ASSUME ConfigIInv, UNCHANGED <<ConfigFile, writing, proc>>, NoticeTyped', overtaken' \in BOOLEAN, lateLook' \in BOOLEAN,
         ~overtaken' => ~overtaken /\ LooksAreDue', UNCHANGED <<cornerVersion, lateLook>> \/ (CockpitBusy => lateLook')
  PROVE  ConfigIInv'
  <1>1. ConfigFileTyped /\ ProcsTyped /\ LaterIsHeard /\ UNCHANGED <<globalConfig, configWrites, released, running, announced, wished, writing, proc>>
    BY DEF ConfigIInv, ConfigTyped, ConfigFile
  <1>2. ConfigFileTyped'
    BY <1>1 DEF ConfigFileTyped
  <1>3. ProcsTyped'
    BY <1>1 DEF ProcsTyped, UserTyped
  <1>4. LaterIsHeard'
    BY <1>1 DEF LaterIsHeard, CockpitBusy
  <1>5. ASSUME ~overtaken' PROVE ToldInOrder' /\ StillOverlays'
    BY <1>1, <1>5 DEF ConfigIInv, ToldInOrder, StillOverlays, Overlays
  <1> QED BY <1>2, <1>3, <1>4, <1>5 DEF ConfigIInv, ConfigTyped

LEMMA UpdateStatusOK ==
  ASSUME ConfigIInv, UpdateStatus
  PROVE  ConfigIInv'
  <1>1. /\ UNCHANGED <<ConfigFile, writing, proc, cornerVersion, lateLook, globalConfig, configWrites, released, wished>>
        /\ overtaken' = (overtaken \/ writing # {})
    BY DEF UpdateStatus, ConfigFile
  <1>2. /\ ConfigTyped /\ NoticeTyped /\ overtaken \in BOOLEAN /\ lateLook \in BOOLEAN /\ configWrites \in Nat
    BY DEF ConfigIInv, ConfigTyped, ConfigFileTyped
  <1>3. PICK g \in GlobalConfigs : g = loadGlobalConfig /\ (writing = {} => g = globalConfig)
    BY <1>2, Reads
  <1>4. PICK b \in BOOLEAN : b = (loadGlobalConfig.on /\ notice.checked = "no")
    OBVIOUS
  <1>5. PICK l : l = [cfg |-> g, at |-> configWrites, asks |-> b]
    OBVIOUS
  <1>6. l \in Looks /\ l.cfg = g /\ l.at = configWrites
    BY <1>2, <1>5 DEF Looks
  <1>7. PICK s \in Seq(Looks) : s = notice.looks
    BY <1>2 DEF NoticeTyped
  <1>8. notice' = [latest |-> notice.latest, checked |-> notice.checked, looks |-> Append(s, l)]
    <2>1. notice = [latest |-> notice.latest, checked |-> notice.checked, looks |-> notice.looks]
      BY <1>2 DEF NoticeTyped
    <2>2. notice' = [notice EXCEPT !.looks = Append(notice.looks, [cfg |-> loadGlobalConfig, at |-> configWrites,
                      asks |-> loadGlobalConfig.on /\ notice.checked = "no"])]
      BY DEF UpdateStatus
    <2>3. notice' = [notice EXCEPT !.looks = Append(s, l)]
      BY <1>3, <1>4, <1>5, <1>7, <2>2
    <2> QED BY <2>1, <2>3
  <1>9. /\ Append(s, l) \in Seq(Looks) /\ Len(Append(s, l)) = Len(s) + 1 /\ Len(s) \in Nat
        /\ \A i \in 1..Len(s) : Append(s, l)[i] = s[i]
        /\ Append(s, l)[Len(s) + 1] = l
    BY <1>6, AppendProperties, LenProperties
  <1>10. DOMAIN s = 1..Len(s) /\ DOMAIN Append(s, l) = 1..(Len(s) + 1)
    BY <1>9, LenProperties
  <1>11. \A i \in DOMAIN Append(s, l) : (i \in DOMAIN s /\ Append(s, l)[i] = s[i]) \/ Append(s, l)[i] = l
    BY <1>9, <1>10
  <1>12. notice'.latest = notice.latest /\ notice'.looks = Append(s, l)
         /\ notice' = [latest |-> notice'.latest, checked |-> notice'.checked, looks |-> notice'.looks]
    BY <1>8
  <1>13. NoticeTyped'
    <2>1. \A i \in DOMAIN notice'.looks : notice'.looks[i].at <= configWrites
      BY <1>2, <1>6, <1>7, <1>11, <1>12 DEF NoticeTyped
    <2> QED BY <1>1, <1>2, <1>9, <1>12, <2>1 DEF NoticeTyped
  <1>14. ASSUME ~overtaken' PROVE ~overtaken /\ LooksAreDue'
    <2>1. ~overtaken /\ LooksAreDue /\ g = globalConfig
      BY <1>1, <1>2, <1>3, <1>14 DEF ConfigIInv
    <2>2. \A i \in DOMAIN notice'.looks : notice'.looks[i].at = configWrites => notice'.looks[i].cfg.dismissed = globalConfig.dismissed
      BY <1>6, <1>7, <1>11, <1>12, <2>1 DEF LooksAreDue
    <2> QED BY <1>1, <2>1, <2>2 DEF LooksAreDue
  <1>15. overtaken' \in BOOLEAN /\ lateLook' \in BOOLEAN
    BY <1>1, <1>2
  <1> QED BY <1>1, <1>13, <1>14, <1>15, CockpitSide


LEMMA TagArrivesOK ==
  ASSUME ConfigIInv, NEW k, TagArrives(k)
  PROVE  ConfigIInv'
  <1>1. UNCHANGED <<ConfigFile, writing, proc, cornerVersion, lateLook, overtaken, globalConfig, configWrites, released, wished>>
        /\ k \in DOMAIN notice.looks
    BY DEF TagArrives, ConfigFile
  <1>2. NoticeTyped /\ overtaken \in BOOLEAN /\ lateLook \in BOOLEAN /\ released \in Nat
    BY DEF ConfigIInv, ConfigTyped, ConfigFileTyped
  <1>3. PICK ok \in BOOLEAN :
          notice' = [notice EXCEPT !.looks[k].asks = FALSE, !.latest = IF ok THEN released ELSE @,
                                   !.checked = IF ok THEN "fresh" ELSE "failed"]
    BY DEF TagArrives
  <1>4. PICK s \in Seq(Looks) : s = notice.looks
    BY <1>2 DEF NoticeTyped
  <1>5. s[k] \in Looks
    BY <1>1, <1>4, ElementOfSeq
  <1>6. PICK l : l = [s[k] EXCEPT !.asks = FALSE]
    OBVIOUS
  <1>7. l \in Looks /\ l.at = s[k].at /\ l.cfg = s[k].cfg
    BY <1>5, <1>6 DEF Looks
  <1>8. PICK t : t = [s EXCEPT ![k] = l]
    OBVIOUS
  <1>9. PICK n : n = IF ok THEN released ELSE notice.latest
    OBVIOUS
  <1>10. PICK c : c = IF ok THEN "fresh" ELSE "failed"
    OBVIOUS
  <1>11. notice' = [latest |-> n, checked |-> c, looks |-> t]
    <2>1. notice = [latest |-> notice.latest, checked |-> notice.checked, looks |-> s]
      BY <1>2, <1>4 DEF NoticeTyped
    <2>2. notice' = [notice EXCEPT !.looks = t, !.latest = n, !.checked = c]
      BY <1>3, <1>4, <1>6, <1>8, <1>9, <1>10
    <2> QED BY <2>1, <2>2
  <1>12. notice'.latest = n /\ notice'.looks = t
         /\ notice' = [latest |-> notice'.latest, checked |-> notice'.checked, looks |-> notice'.looks]
    BY <1>11
  <1>13. t \in Seq(Looks) /\ DOMAIN t = DOMAIN s
    BY <1>1, <1>4, <1>7, <1>8, ExceptSeq
  <1>14. \A i \in DOMAIN t : t[i].at = s[i].at /\ t[i].cfg = s[i].cfg
    BY <1>1, <1>4, <1>7, <1>8, <1>13
  <1>15. n \in Nat /\ n <= released
    BY <1>2, <1>9 DEF NoticeTyped
  <1>16. NoticeTyped'
    BY <1>1, <1>2, <1>4, <1>12, <1>13, <1>14, <1>15 DEF NoticeTyped
  <1>17. LooksAreDue => LooksAreDue'
    BY <1>1, <1>4, <1>12, <1>13, <1>14 DEF LooksAreDue
  <1>18. overtaken' \in BOOLEAN /\ lateLook' \in BOOLEAN /\ (~overtaken' => ~overtaken /\ LooksAreDue')
    BY <1>1, <1>2, <1>17 DEF ConfigIInv
  <1> QED BY <1>1, <1>16, <1>18, CockpitSide

\* An answer names what is not put off, by a look at the file as it still is.
LEMMA LookAnswersOK ==
  ASSUME ConfigIInv, NEW k, LookAnswers(k)
  PROVE  ConfigIInv'
  <1>1. /\ UNCHANGED <<ConfigFile, writing, proc, overtaken, globalConfig, configWrites, released, wished>>
        /\ k \in DOMAIN notice.looks
        /\ cornerVersion' = Available(notice.looks[k])
        /\ lateLook' = (CockpitBusy \/ notice.looks[k].at # configWrites)
        /\ notice' = [notice EXCEPT !.looks = [j \in 1..(Len(@) - 1) |-> @[IF j < k THEN j ELSE j + 1]]]
    BY DEF LookAnswers, ConfigFile
  <1>2. NoticeTyped /\ overtaken \in BOOLEAN /\ released \in Nat /\ ConfigFileTyped
    BY DEF ConfigIInv, ConfigTyped, ConfigFileTyped
  <1>3. PICK s \in Seq(Looks) : s = notice.looks
    BY <1>2 DEF NoticeTyped
  <1>4. Len(s) \in Nat /\ DOMAIN s = 1..Len(s) /\ k \in 1..Len(s)
    BY <1>1, <1>3, LenProperties
  <1>5. PICK t : t = [j \in 1..(Len(s) - 1) |-> s[IF j < k THEN j ELSE j + 1]]
    OBVIOUS
  <1>6. \A j \in 1..(Len(s) - 1) : (IF j < k THEN j ELSE j + 1) \in DOMAIN s
    BY <1>4
  <1>7. DOMAIN t = 1..(Len(s) - 1) /\ \A j \in DOMAIN t : \E i \in DOMAIN s : t[j] = s[i]
    BY <1>5, <1>6
  <1>8. t \in Seq(Looks)
    <2>1. Len(s) - 1 \in Nat
      BY <1>4
    <2>2. \A j \in 1..(Len(s) - 1) : t[j] \in Looks
      BY <1>3, <1>7, ElementOfSeq
    <2>3. t \in [1..(Len(s) - 1) -> Looks]
      BY <1>5, <1>7, <2>2
    <2> QED BY <2>1, <2>3, IsASeq
  <1>9. notice' = [latest |-> notice.latest, checked |-> notice.checked, looks |-> t]
    <2>1. notice = [latest |-> notice.latest, checked |-> notice.checked, looks |-> s]
      BY <1>2, <1>3 DEF NoticeTyped
    <2>2. notice' = [notice EXCEPT !.looks = t]
      BY <1>1, <1>3, <1>5
    <2> QED BY <2>1, <2>2
  <1>10. notice'.latest = notice.latest /\ notice'.looks = t
         /\ notice' = [latest |-> notice'.latest, checked |-> notice'.checked, looks |-> notice'.looks]
    BY <1>9
  <1>11. cornerVersion' = 0 \/ (cornerVersion' = notice.latest /\ notice.latest > 1 /\ s[k].cfg.dismissed # notice.latest)
    BY <1>1, <1>3 DEF Available
  <1>12. cornerVersion' = 0 \/ cornerVersion' \in 2..released
    BY <1>2, <1>11 DEF NoticeTyped
  <1>13. NoticeTyped'
    <2>1. \A i \in DOMAIN t : t[i].at <= configWrites
      BY <1>2, <1>3, <1>7 DEF NoticeTyped
    <2> QED BY <1>1, <1>2, <1>8, <1>10, <1>12, <2>1 DEF NoticeTyped
  <1>14. ASSUME ~overtaken PROVE LooksAreDue'
    <2>1. LooksAreDue /\ ToldInOrder
      BY <1>14 DEF ConfigIInv
    <2>2. \A i \in DOMAIN t : t[i].at = configWrites => t[i].cfg.dismissed = globalConfig.dismissed
      BY <1>3, <1>7, <2>1 DEF LooksAreDue
    <2>3. ~lateLook' => s[k].cfg.dismissed = wished.dismissed
      BY <1>1, <1>3, <2>1 DEF LooksAreDue, ToldInOrder
    <2>4. cornerVersion' # 0 /\ ~lateLook' => cornerVersion' # wished.dismissed
      BY <1>11, <2>3
    <2> QED BY <1>1, <1>10, <2>2, <2>4 DEF LooksAreDue
  <1>15. overtaken' \in BOOLEAN /\ lateLook' \in BOOLEAN /\ (CockpitBusy => lateLook')
    BY <1>1, <1>2
  <1> QED BY <1>1, <1>13, <1>14, <1>15, CockpitSide

LEMMA CachesAgeOK ==
  ASSUME ConfigIInv, CachesAge
  PROVE  ConfigIInv'
  <1>1. /\ globalConfig' = [globalConfig EXCEPT !.fresh = FALSE] /\ notice' = [notice EXCEPT !.checked = "no"]
        /\ UNCHANGED <<writing, configWrites, proc, released, running, announced, cornerVersion, wished, overtaken, lateLook>>
    BY DEF CachesAge
  <1>2. ConfigFileTyped /\ ProcsTyped /\ NoticeTyped /\ LaterIsHeard /\ overtaken \in BOOLEAN /\ lateLook \in BOOLEAN
    BY DEF ConfigIInv, ConfigTyped
  <1>3. globalConfig' \in GlobalConfigs /\ globalConfig'.on = globalConfig.on /\ globalConfig'.known = globalConfig.known
        /\ globalConfig'.notified = globalConfig.notified /\ globalConfig'.dismissed = globalConfig.dismissed
    <2>1. PICK g \in GlobalConfigs : g = globalConfig
      BY <1>2 DEF ConfigFileTyped
    <2>2. globalConfig' = [g EXCEPT !.fresh = FALSE]
      BY <1>1, <2>1
    <2> QED BY <2>1, <2>2 DEF GlobalConfigs
  <1>4. notice' = [latest |-> notice.latest, checked |-> "no", looks |-> notice.looks]
    <2>1. notice = [latest |-> notice.latest, checked |-> notice.checked, looks |-> notice.looks]
      BY <1>2 DEF NoticeTyped
    <2> QED BY <1>1, <2>1
  <1>5. notice'.latest = notice.latest /\ notice'.looks = notice.looks
        /\ notice' = [latest |-> notice'.latest, checked |-> notice'.checked, looks |-> notice'.looks]
    BY <1>4
  <1>6. ConfigFileTyped'
    BY <1>1, <1>2, <1>3 DEF ConfigFileTyped
  <1>7. ProcsTyped'
    BY <1>1, <1>2 DEF ProcsTyped, UserTyped
  <1>8. NoticeTyped'
    BY <1>1, <1>2, <1>5 DEF NoticeTyped
  <1>9. LaterIsHeard'
    BY <1>1, <1>2 DEF LaterIsHeard
  <1>10. ASSUME ~overtaken PROVE ToldInOrder' /\ StillOverlays' /\ LooksAreDue'
    <2>1. ToldInOrder /\ StillOverlays /\ LooksAreDue
      BY <1>10 DEF ConfigIInv
    <2>2. ToldInOrder'
      BY <1>1, <1>3, <2>1 DEF ToldInOrder
    <2>3. StillOverlays'
      BY <1>1, <1>3, <2>1 DEF StillOverlays, Overlays
    <2>4. LooksAreDue'
      BY <1>1, <1>3, <1>5, <2>1 DEF LooksAreDue
    <2> QED BY <2>2, <2>3, <2>4
  <1> QED BY <1>1, <1>2, <1>6, <1>7, <1>8, <1>9, <1>10 DEF ConfigIInv, ConfigTyped

LEMMA IsReleasedOK ==
  ASSUME ConfigIInv, IsReleased
  PROVE  ConfigIInv'
  <1>1. /\ released' = released + 1
        /\ UNCHANGED <<globalConfig, writing, configWrites, proc, running, announced, notice, cornerVersion, wished, overtaken, lateLook>>
    BY DEF IsReleased
  <1>2. /\ ConfigFileTyped /\ ProcsTyped /\ NoticeTyped /\ LaterIsHeard /\ overtaken \in BOOLEAN /\ lateLook \in BOOLEAN
        /\ released \in Nat
    BY DEF ConfigIInv, ConfigTyped, ConfigFileTyped
  <1>3. \A n \in Nat : n <= released => n <= released'
    BY <1>1, <1>2
  <1>4. ConfigFileTyped'
    <2>1. globalConfig.known <= released' /\ running \in 1..released' /\ released' \in Nat
      BY <1>1, <1>2, <1>3, ConfigFields DEF ConfigFileTyped
    <2> QED BY <1>1, <1>2, <2>1 DEF ConfigFileTyped
  <1>5. ProcsTyped'
    <2>1. ASSUME NEW w \in Users, UserTyped(w) PROVE UserTyped(w)'
      <3>1. w.tag \in Nat /\ w.cfg.known \in Nat
        BY UserFields, ConfigFields
      <3> QED BY <1>1, <1>3, <2>1, <3>1 DEF UserTyped
    <2>2. \A q \in UpdateProcs : \E w \in Users : w = proc'[q] /\ UserTyped(w)'
      BY <1>1, <1>2, <2>1 DEF ProcsTyped
    <2>3. \A q \in UpdateProcs : UserTyped(proc[q])'
      BY <2>2 DEF UserTyped
    <2> QED BY <1>1, <1>2, <2>3 DEF ProcsTyped
  <1>6. NoticeTyped'
    <2>1. notice.latest <= released' /\ (cornerVersion = 0 \/ cornerVersion \in 2..released')
      BY <1>1, <1>2, <1>3 DEF NoticeTyped
    <2> QED BY <1>1, <1>2, <2>1 DEF NoticeTyped
  <1>7. LaterIsHeard'
    BY <1>1, <1>2 DEF LaterIsHeard
  <1>8. ASSUME ~overtaken PROVE ToldInOrder' /\ StillOverlays' /\ LooksAreDue'
    BY <1>1, <1>8 DEF ConfigIInv, ToldInOrder, StillOverlays, Overlays, LooksAreDue
  <1> QED BY <1>1, <1>2, <1>4, <1>5, <1>6, <1>7, <1>8 DEF ConfigIInv, ConfigTyped

LEMMA ConfigUnchanged == ConfigIInv /\ UNCHANGED configVars => ConfigIInv'
  <1> SUFFICES ASSUME ConfigIInv, UNCHANGED configVars PROVE ConfigIInv'
    OBVIOUS
  <1>1. UNCHANGED <<ConfigFile, writing, proc, notice, cornerVersion, lateLook, overtaken, globalConfig, configWrites, released, wished>>
    BY DEF configVars, ConfigFile
  <1>2. NoticeTyped' /\ overtaken' \in BOOLEAN /\ lateLook' \in BOOLEAN
    BY <1>1 DEF ConfigIInv, ConfigTyped, NoticeTyped
  <1>3. ~overtaken' => ~overtaken /\ LooksAreDue'
    BY <1>1 DEF ConfigIInv, LooksAreDue
  <1> QED BY <1>1, <1>2, <1>3, CockpitSide

LEMMA ConfigInitOK == UpdatesInit => ConfigIInv
  <1> SUFFICES ASSUME UpdatesInit PROVE ConfigIInv
    OBVIOUS
  <1>1. /\ globalConfig = DEFAULT_GLOBAL_CONFIG /\ writing = {} /\ configWrites = 0
        /\ proc = [p \in UpdateProcs |-> NotUsing] /\ released = 1 /\ running = 1
        /\ announced = [v \in 1..MaxReleases |-> 0] /\ cornerVersion = 0 /\ overtaken = FALSE /\ lateLook = FALSE
    BY DEF UpdatesInit
  <1>2. notice = [latest |-> 0, checked |-> "no", looks |-> <<>>] /\ wished = [on |-> TRUE, dismissed |-> 0]
    BY DEF UpdatesInit
  <1>3. /\ notice.latest = 0 /\ notice.looks = <<>> /\ notice = [latest |-> notice.latest, checked |-> notice.checked, looks |-> notice.looks]
        /\ wished.on = TRUE /\ wished.dismissed = 0 /\ wished = [on |-> wished.on, dismissed |-> wished.dismissed]
    BY <1>2
  <1>4. ConfigFileTyped
    <2>1. 0 <= released /\ 0 \in Nat /\ released \in Nat /\ running \in 1..released
      BY <1>1
    <2>2. announced \in [1..MaxReleases -> Nat]
      BY <1>1
    <2> QED BY <1>1, <1>3, <2>1, <2>2, NotUsingFacts DEF ConfigFileTyped
  <1>5. ProcsTyped
    <2>1. NotUsing.step \notin {"asks", "knows", "tells"} /\ 0 <= released /\ 0 <= configWrites
      BY <1>1, NotUsingFacts
    <2>2. UserTyped(NotUsing)
      BY <2>1, NotUsingFacts DEF UserTyped
    <2> QED BY <1>1, <2>2, NotUsingFacts DEF ProcsTyped
  <1>6. NoticeTyped
    <2>1. <<>> \in Seq(Looks) /\ DOMAIN <<>> = {}
      OBVIOUS
    <2>2. 0 <= released /\ 0 \in Nat
      BY <1>1
    <2> QED BY <1>1, <1>3, <2>1, <2>2 DEF NoticeTyped
  <1>7. LaterIsHeard
    <2>1. \A p \in UpdateProcs : proc[p].kind \notin {"enable", "later"}
      BY <1>1, NotUsingFacts
    <2> QED BY <2>1 DEF LaterIsHeard
  <1>8. ToldInOrder
    <2>1. /\ globalConfig.on = wished.on /\ globalConfig.dismissed = wished.dismissed
          /\ globalConfig.known = 0 /\ globalConfig.notified = 0
      <3>1. /\ globalConfig.known = 0 /\ globalConfig.notified = 0 /\ globalConfig.dismissed = 0
            /\ globalConfig.on = DEFAULT_GLOBAL_CONFIG.on
        BY <1>1, NotUsingFacts
      <3>2. DEFAULT_GLOBAL_CONFIG.on = wished.on
        BY <1>2 DEF DEFAULT_GLOBAL_CONFIG
      <3> QED BY <1>3, <3>1, <3>2
    <2>2. \A v \in 1..MaxReleases : announced[v] = 0
      BY <1>1
    <2> QED BY <2>1, <2>2 DEF ToldInOrder
  <1>9. StillOverlays
    <2>1. \A p \in UpdateProcs : proc[p].step = "none"
      BY <1>1, NotUsingFacts
    <2> QED BY <2>1 DEF StillOverlays
  <1>10. LooksAreDue
    BY <1>1, <1>3 DEF LooksAreDue
  <1> QED BY <1>1, <1>4, <1>5, <1>6, <1>7, <1>8, <1>9, <1>10 DEF ConfigIInv, ConfigTyped

LEMMA PiecesLeaveConfig == InstallNext => UNCHANGED configVars
  BY DEF InstallNext, SetAside, PutsIn, CommitsInstall, RollsBack, IsKilled

(* Unless one writes from a reading another has overtaken, what each process is
   about to write to config.json is the file as it is but for what the process
   is about (checker.ts checkForUpdate, global-config.ts saveGlobalConfig).  *)
THEOREM ConfigHolds == UpdatesSpec => []ConfigIInv
  <1>1. ConfigIInv /\ [UpdatesNext]_updateVars => ConfigIInv'
    <2> SUFFICES ASSUME ConfigIInv, [UpdatesNext]_updateVars PROVE ConfigIInv'
      OBVIOUS
    <2>1. CASE UNCHANGED updateVars \/ InstallNext
      BY <2>1, ConfigUnchanged, PiecesLeaveConfig DEF updateVars
    <2>2. ASSUME NEW p \in UpdateProcs, \/ \E on \in BOOLEAN : SetsSwitch(p, on)
                              \/ Later(p) \/ ChecksForUpdate(p) \/ resolveLatestTag(p) \/ Announces(p)
                              \/ EmptiesConfig(p) \/ saveGlobalConfig(p)
          PROVE  ConfigIInv'
      BY <2>2, SetsSwitchOK, LaterOK, ChecksForUpdateOK, resolveLatestTagOK, AnnouncesOK, EmptiesConfigOK, saveGlobalConfigOK
    <2>3. CASE CwUpdate \/ UpdateStatus \/ CachesAge \/ IsReleased
      BY <2>3, CwUpdateOK, UpdateStatusOK, CachesAgeOK, IsReleasedOK
    <2>4. ASSUME NEW i \in 1..2, TagArrives(i) \/ LookAnswers(i) PROVE ConfigIInv'
      BY <2>4, TagArrivesOK, LookAnswersOK
    <2> QED BY <2>1, <2>2, <2>3, <2>4 DEF UpdatesNext, ConfigNext
  <1> QED BY <1>1, ConfigInitOK, PTL DEF UpdatesSpec

(* However many processes use config.json, unless a reading is overtaken the
   person's switch and "Later" stand, a release is announced once, an update
   never goes back, and the corner notice names a release that is newer and not
   put off (checker.ts checkForUpdate, update-notice.ts, UpdateNotice.tsx).  *)
THEOREM ConfigStaysKept == UpdatesSpec => [](ConfigIsKept /\ NoticeIsDue)
  <1>1. ConfigIInv => ConfigIsKept
    BY DEF ConfigIInv, ToldInOrder, ConfigIsKept
  <1>2. ConfigIInv => NoticeIsDue
    BY DEF ConfigIInv, ConfigTyped, NoticeTyped, LooksAreDue, NoticeIsDue
  <1> QED BY <1>1, <1>2, ConfigHolds, PTL

(***************************************************************************)
(* The dashboard.  What a deletion loses is told at its end, so the rows   *)
(* its dialog was made from are followed: a row is of its session's counts *)
(* or known to be old (Remembers); sizes are asked for by a timer, or by a *)
(* request that no answer has overtaken (MeasuringOn).                     *)
(***************************************************************************)
\* A row as some answer had it: unless the session changed since, its counts are those of today.
Remembers(s, r) ==
  /\ r \in SessionStat
  /\ s \in DOMAIN facts => /\ r.moves <= facts[s].moves
                           /\ r.moves = facts[s].moves => r.ahead = facts[s].ahead /\ r.changed = facts[s].changed
EntryOK(p, e) ==
  e.state = "ok" => /\ DOMAIN e.rows \subseteq DashSessions
                    /\ \A s \in DOMAIN e.rows : ProjectOf[s] = p /\ Remembers(s, e.rows[s])
EntriesOK(es) == \A p \in DOMAIN es : EntryOK(p, es[p])
ToldOK(told) == \A t \in told : Remembers(t.id, t.row)
NamesAll(kind, ids, told) == kind = "delete" => \A s \in ids : \E t \in told : t.id = s
FactsTyped == facts \in [DOMAIN facts -> SessionStat] /\ DOMAIN facts \subseteq DashSessions
RequestsOK ==
  \A c \in asking : DOMAIN c = {"start", "entries"} /\ c.start \in 1..gate.started /\ EntriesOK(c.entries)
GateOK == /\ gate \in [started : Nat, applied : Nat] /\ gate.applied <= gate.started
          /\ dashData.at \in Nat /\ dashData.at <= gate.applied
ShownOK == DOMAIN dashData.entries = DashProjects /\ EntriesOK(dashData.entries)
DialogOK == /\ pendingAction.ids \subseteq DashSessions /\ ToldOK(pendingAction.told) /\ pendingAction.kind # "kill"
            /\ NamesAll(pendingAction.kind, pendingAction.ids, pendingAction.told)
ActionsOK == \A a \in underWay : /\ DOMAIN a = {"kind", "ids", "told", "step"} /\ ToldOK(a.told)
                                 /\ NamesAll(a.kind, a.ids, a.told)
                                 /\ a.step \in {"kill", "delete"} => a.kind = "delete"
\* What is to be measured is asked for by a timer, or by a request no answer has overtaken.
MeasuringOn ==
  /\ summarize(dashData).unmeasured > 0 /\ polls < MaxPolls /\ ~lastLookFailed
        => timer \/ \E c \in asking : c.start > gate.applied
  /\ asking = {} => ~dashLoading
  /\ polls \in 0..MaxPolls /\ (timer => polls < MaxPolls)
DashRead == FactsTyped /\ GateOK /\ RequestsOK /\ ShownOK
DashIInv == DashRead /\ DialogOK /\ ActionsOK /\ MeasuringOn /\ untoldLosses = {}

-----------------------------------------------------------------------------
\* Sessions change and go, and what was read of them stays what it was, or is known to be old.
GoOn ==
  /\ DOMAIN facts' \subseteq DOMAIN facts
  /\ \A s \in DOMAIN facts' : /\ facts[s].moves <= facts'[s].moves
                              /\ facts'[s].moves = facts[s].moves =>
                                    facts'[s].ahead = facts[s].ahead /\ facts'[s].changed = facts[s].changed

\* What was read of a session is sound of what it has become.
LEMMA RememberedOn ==
  ASSUME FactsTyped, FactsTyped', GoOn, NEW s, NEW r, Remembers(s, r)
  PROVE  Remembers(s, r)'
  <1>1. r.moves \in Nat
    BY DEF Remembers, SessionStat
  <1>2. ASSUME s \in DOMAIN facts'
        PROVE  /\ r.moves <= facts'[s].moves
               /\ r.moves = facts'[s].moves => r.ahead = facts'[s].ahead /\ r.changed = facts'[s].changed
    <2>1. s \in DOMAIN facts /\ facts[s].moves \in Nat /\ facts'[s].moves \in Nat
      BY <1>2 DEF GoOn, FactsTyped, SessionStat
    <2> QED BY <1>1, <1>2, <2>1 DEF GoOn, Remembers
  <1> QED BY <1>2 DEF Remembers

\* An answer stays sound while the sessions go on.
LEMMA EntriesOn ==
  ASSUME FactsTyped, FactsTyped', GoOn, NEW es, EntriesOK(es)
  PROVE  EntriesOK(es)'
  <1> SUFFICES ASSUME NEW p \in DOMAIN es, es[p].state = "ok", NEW s \in DOMAIN es[p].rows
               PROVE  DOMAIN es[p].rows \subseteq DashSessions /\ ProjectOf[s] = p /\ Remembers(s, es[p].rows[s])'
    BY DEF EntriesOK, EntryOK
  <1>1. DOMAIN es[p].rows \subseteq DashSessions /\ ProjectOf[s] = p /\ Remembers(s, es[p].rows[s])
    BY DEF EntriesOK, EntryOK
  <1> QED BY <1>1, RememberedOn

\* So does what a dialog said.
LEMMA ToldOn ==
  ASSUME FactsTyped, FactsTyped', GoOn, NEW told, ToldOK(told)
  PROVE  ToldOK(told)'
  BY RememberedOn DEF ToldOK

\* Nothing happens to the sessions.
LEMMA StayOn == FactsTyped /\ facts' = facts => GoOn /\ FactsTyped'
  BY DEF GoOn, FactsTyped, SessionStat

\* What is kept of the sessions stays sound while they go on and nothing else moves.
LEMMA KeptOn ==
  ASSUME FactsTyped, FactsTyped', GoOn
  PROVE  /\ ShownOK /\ dashData' = dashData => ShownOK'
         /\ DialogOK /\ pendingAction' = pendingAction => DialogOK'
         /\ \A c : EntriesOK(c.entries) => EntriesOK(c.entries)'
         /\ \A a : ToldOK(a.told) => ToldOK(a.told)'
  <1>1. ASSUME ShownOK, dashData' = dashData PROVE ShownOK'
    <2>1. PICK es : es = dashData.entries
      OBVIOUS
    <2>2. EntriesOK(es)'
      BY <1>1, <2>1, EntriesOn DEF ShownOK
    <2> QED BY <1>1, <2>1, <2>2 DEF ShownOK, EntriesOK, EntryOK, Remembers
  <1>2. ASSUME DialogOK, pendingAction' = pendingAction PROVE DialogOK'
    <2>1. PICK told : told = pendingAction.told
      OBVIOUS
    <2>2. ToldOK(told)'
      BY <1>2, <2>1, ToldOn DEF DialogOK
    <2> QED BY <1>2, <2>1, <2>2 DEF DialogOK, ToldOK, Remembers, NamesAll
  <1>3. ASSUME NEW c, EntriesOK(c.entries) PROVE EntriesOK(c.entries)'
    BY <1>3, EntriesOn
  <1>4. ASSUME NEW a, ToldOK(a.told) PROVE ToldOK(a.told)'
    BY <1>4, ToldOn
  <1> QED BY <1>1, <1>2, <1>3, <1>4

\* At first one request is on its way, and nothing is shown.
LEMMA DashInitOK == DashInit => DashIInv
  <1> SUFFICES ASSUME DashInit PROVE DashIInv
    OBVIOUS
  <1>1. FactsTyped
    BY DashboardAssumption DEF DashInit, FactsTyped
  <1>2. GateOK
    BY DEF DashInit, GateOK, NoData
  <1>3. RequestsOK
    <2>1. PICK c : c = [start |-> 1, entries |-> <<>>]
      OBVIOUS
    <2>2. DOMAIN c = {"start", "entries"} /\ c.start = 1 /\ DOMAIN c.entries = {}
      BY <2>1
    <2> QED BY <2>1, <2>2 DEF DashInit, RequestsOK, EntriesOK
  <1>4. ShownOK
    <2>1. DOMAIN dashData.entries = DashProjects /\ \A p \in DashProjects : dashData.entries[p].state = "unreachable"
      BY DEF DashInit, NoData, Silent
    <2> QED BY <2>1 DEF ShownOK, EntriesOK, EntryOK
  <1>5. DialogOK
    BY DEF DashInit, DialogOK, NoAction, ToldOK, NamesAll
  <1>6. ActionsOK
    BY DEF DashInit, ActionsOK
  <1>7. MeasuringOn
    <2>1. \E c \in asking : c.start > gate.applied
      BY DEF DashInit
    <2> QED BY <2>1, DashboardAssumption DEF DashInit, MeasuringOn
  <1> QED BY <1>1, <1>2, <1>3, <1>4, <1>5, <1>6, <1>7 DEF DashIInv, DashRead, DashInit

\* A request more: later than every answer, and so one that will be heard.
LEMMA RefreshesOK ==
  ASSUME GateOK, RequestsOK, FactsTyped, FactsTyped', GoOn, Refreshes, dashData' = dashData
  PROVE  GateOK' /\ RequestsOK' /\ (\E c \in asking' : c.start > gate'.applied) /\ asking' # {}
  <1>1. gate'.started = gate.started + 1 /\ gate'.applied = gate.applied /\ gate' \in [started : Nat, applied : Nat]
    BY DEF Refreshes, GateOK
  <1>2. PICK n : n = [start |-> gate'.started, entries |-> <<>>]
    OBVIOUS
  <1>3. DOMAIN n = {"start", "entries"} /\ n.start = gate.started + 1 /\ DOMAIN n.entries = {}
    BY <1>1, <1>2
  <1>4. asking' = asking \cup {n}
    BY <1>2 DEF Refreshes
  <1>5. ASSUME NEW c \in asking'
        PROVE  DOMAIN c = {"start", "entries"} /\ c.start \in 1..gate'.started /\ EntriesOK(c.entries)'
    <2>1. CASE c = n
      BY <1>1, <1>3, <2>1 DEF EntriesOK, GateOK
    <2>2. CASE c \in asking
      BY <1>1, <2>2, KeptOn DEF RequestsOK, GateOK
    <2> QED BY <1>4, <2>1, <2>2
  <1> QED BY <1>1, <1>3, <1>4, <1>5 DEF GateOK, RequestsOK

\* Refresh is pressed: a request more.
LEMMA PressRefreshOK == ASSUME DashIInv, PressRefresh PROVE DashIInv'
  <1>1. FactsTyped' /\ GoOn
    BY StayOn DEF DashIInv, DashRead, PressRefresh
  <1>2. GateOK' /\ RequestsOK' /\ (\E c \in asking' : c.start > gate'.applied) /\ asking' # {}
    BY <1>1, RefreshesOK DEF DashIInv, DashRead, PressRefresh
  <1>3. ShownOK' /\ DialogOK'
    BY <1>1, KeptOn DEF DashIInv, DashRead, PressRefresh
  <1>4. ActionsOK'
    BY <1>1, KeptOn DEF DashIInv, DashRead, PressRefresh, ActionsOK
  <1>5. MeasuringOn'
    BY <1>2, DashboardAssumption DEF DashIInv, MeasuringOn, PressRefresh
  <1> QED BY <1>1, <1>2, <1>3, <1>4, <1>5 DEF DashIInv, DashRead, PressRefresh

\* The timer fires: a request more, and one look less.
LEMMA LooksAgainOK == ASSUME DashIInv, LooksAgainNow PROVE DashIInv'
  <1>1. FactsTyped' /\ GoOn
    BY StayOn DEF DashIInv, DashRead, LooksAgainNow
  <1>2. GateOK' /\ RequestsOK' /\ (\E c \in asking' : c.start > gate'.applied) /\ asking' # {}
    BY <1>1, RefreshesOK DEF DashIInv, DashRead, LooksAgainNow
  <1>3. ShownOK' /\ DialogOK'
    BY <1>1, KeptOn DEF DashIInv, DashRead, LooksAgainNow
  <1>4. ActionsOK'
    BY <1>1, KeptOn DEF DashIInv, DashRead, LooksAgainNow, ActionsOK
  <1>5. MeasuringOn'
    <2>1. polls \in 0..MaxPolls /\ polls < MaxPolls /\ polls' = polls + 1 /\ timer' = FALSE /\ MaxPolls \in Nat
      BY DashboardAssumption DEF DashIInv, MeasuringOn, LooksAgainNow
    <2> QED BY <1>2, <2>1 DEF MeasuringOn
  <1> QED BY <1>1, <1>2, <1>3, <1>4, <1>5 DEF DashIInv, DashRead, LooksAgainNow

\* One daemon answers, with the sessions as they are.
LEMMA ProjectAnswersOK ==
  ASSUME DashIInv, NEW c \in asking, NEW p \in DashProjects, ProjectAnswers(c, p)
  PROVE  DashIInv'
  <1>1. FactsTyped' /\ GoOn
    BY StayOn DEF DashIInv, DashRead, ProjectAnswers
  <1>a. PICK state \in {"ok", "needs-restart", "unreachable"} :
          LET rows == IF state = "ok" THEN [s \in {t \in DOMAIN facts : ProjectOf[t] = p} |-> facts[s]] ELSE <<>>
              more == [q \in DOMAIN c.entries \cup {p} |->
                          IF q = p THEN [state |-> state, rows |-> rows] ELSE c.entries[q]]
          IN asking' = (asking \ {c}) \cup {[c EXCEPT !.entries = more]}
    BY Zenon DEF ProjectAnswers
  <1>2. PICK rows : rows = (IF state = "ok" THEN [s \in {t \in DOMAIN facts : ProjectOf[t] = p} |-> facts[s]] ELSE <<>>)
    OBVIOUS
  <1>3. PICK more : more = [q \in DOMAIN c.entries \cup {p} |->
                              IF q = p THEN [state |-> state, rows |-> rows] ELSE c.entries[q]]
    OBVIOUS
  <1>4. PICK n : n = [c EXCEPT !.entries = more]
    OBVIOUS
  <1>5. asking' = (asking \ {c}) \cup {n}
    BY <1>a, <1>2, <1>3, <1>4, Zenon
  <1>6. DOMAIN c = {"start", "entries"} /\ c.start \in 1..gate.started /\ EntriesOK(c.entries)
    BY DEF DashIInv, DashRead, RequestsOK
  <1>7. DOMAIN n = {"start", "entries"} /\ n.start = c.start /\ n.entries = more
    BY <1>4, <1>6
  <1>8. EntriesOK(more)
    <2>1. ASSUME NEW q \in DOMAIN more, q # p PROVE EntryOK(q, more[q])
      <3>1. q \in DOMAIN c.entries /\ more[q] = c.entries[q]
        BY <1>3, <2>1
      <3> QED BY <1>6, <3>1 DEF EntriesOK
    <2>2. p \in DOMAIN more => EntryOK(p, more[p])
      <3>1. PICK e : e = [state |-> state, rows |-> rows]
        OBVIOUS
      <3>2. more[p] = e /\ e.state = state /\ e.rows = rows
        BY <1>3, <3>1
      <3>3. ASSUME state = "ok"
            PROVE  /\ DOMAIN rows \subseteq DashSessions
                   /\ \A s \in DOMAIN rows : ProjectOf[s] = p /\ Remembers(s, rows[s])
        <4>1. \A s \in DOMAIN rows : s \in DOMAIN facts /\ ProjectOf[s] = p /\ rows[s] = facts[s]
          BY <1>2, <3>3
        <4>2. \A s \in DOMAIN facts : facts[s] \in SessionStat /\ facts[s].moves <= facts[s].moves /\ s \in DashSessions
          BY DEF DashIInv, DashRead, FactsTyped, SessionStat
        <4> QED BY <4>1, <4>2 DEF Remembers
      <3> QED BY <3>2, <3>3 DEF EntryOK
    <2> QED BY <2>1, <2>2 DEF EntriesOK
  <1>9. RequestsOK'
    <2> SUFFICES ASSUME NEW d \in asking'
                 PROVE  DOMAIN d = {"start", "entries"} /\ d.start \in 1..gate'.started /\ EntriesOK(d.entries)'
      BY DEF RequestsOK
    <2>1. gate' = gate /\ facts' = facts
      BY DEF ProjectAnswers
    <2>2. CASE d = n
      <3>1. EntriesOK(more)'
        BY <1>1, <1>8, EntriesOn DEF DashIInv, DashRead
      <3> QED BY <1>6, <1>7, <2>1, <2>2, <3>1
    <2>3. CASE d \in asking
      BY <1>1, <2>1, <2>3, KeptOn DEF RequestsOK, DashIInv, DashRead
    <2> QED BY <1>5, <2>2, <2>3
  <1>10. ShownOK' /\ DialogOK'
    BY <1>1, KeptOn DEF DashIInv, DashRead, ProjectAnswers
  <1>11. ActionsOK'
    BY <1>1, KeptOn DEF DashIInv, DashRead, ProjectAnswers, ActionsOK
  <1>12. MeasuringOn'
    <2>1. (\E d \in asking : d.start > gate.applied) => \E d \in asking' : d.start > gate.applied
      BY <1>5, <1>7
    <2>2. asking # {} /\ asking' # {}
      BY <1>5
    <2> QED BY <2>1, <2>2 DEF DashIInv, MeasuringOn, ProjectAnswers
  <1>13. GateOK'
    BY DEF DashIInv, DashRead, GateOK, ProjectAnswers
  <1> QED BY <1>1, <1>9, <1>10, <1>11, <1>12, <1>13 DEF DashIInv, DashRead, ProjectAnswers

\* The whole answer or the failure, heard unless a later one was.
LEMMA GetEndsOK ==
  ASSUME DashIInv, NEW c \in asking, GetEnds(c)
  PROVE  DashIInv' /\ (dashData' # dashData => dashData'.at >= dashData.at)
  <1>1. FactsTyped' /\ GoOn
    BY StayOn DEF DashIInv, DashRead, GetEnds
  <1>2. /\ c.start \in Nat /\ c.start <= gate.started /\ EntriesOK(c.entries)
        /\ gate.started \in Nat /\ gate.applied \in Nat /\ gate.applied <= gate.started
    BY DEF DashIInv, DashRead, RequestsOK, GateOK
  <1>3. /\ gate' \in [started : Nat, applied : Nat] /\ gate'.started = gate.started
        /\ gate'.applied = (IF Accepted(c) THEN c.start ELSE gate.applied)
    BY <1>2 DEF GetEnds, DashIInv, DashRead, GateOK
  <1>4. gate'.applied <= gate'.started /\ gate.applied <= gate'.applied
    BY <1>2, <1>3 DEF Accepted
  <1>5. RequestsOK'
    BY <1>1, <1>3, KeptOn DEF RequestsOK, GetEnds, DashIInv, DashRead
  <1>6. DialogOK'
    BY <1>1, KeptOn DEF DashIInv, DashRead, GetEnds
  <1>7. ActionsOK'
    BY <1>1, KeptOn DEF DashIInv, DashRead, GetEnds, ActionsOK
  <1>8. \A d \in asking : d.start > gate'.applied => d \in asking'
    BY <1>2, <1>3 DEF GetEnds, Accepted
  <1>9. polls' = polls /\ dashLoading' = FALSE /\ polls \in 0..MaxPolls /\ untoldLosses' = {} /\ gate.applied >= dashData.at /\ dashData.at \in Nat
    BY DEF GetEnds, DashIInv, DashRead, MeasuringOn, GateOK
  <1>10. CASE DOMAIN c.entries = DashProjects /\ Accepted(c) /\ dashData' = [at |-> c.start, entries |-> c.entries]
              /\ timer' = WantsAnotherLook(dashData') /\ lastLookFailed' = FALSE
    <2>1. dashData'.at = c.start /\ dashData'.entries = c.entries
      BY <1>10
    <2>2. ShownOK'
      <3>1. EntriesOK(c.entries)'
        BY <1>1, <1>2, KeptOn DEF DashIInv, DashRead
      <3> QED BY <1>10, <2>1, <3>1 DEF ShownOK, EntriesOK, EntryOK, Remembers
    <2>3. MeasuringOn'
      BY <1>9, <1>10 DEF MeasuringOn, WantsAnotherLook
    <2>4. GateOK' /\ dashData'.at >= dashData.at
      BY <1>2, <1>3, <1>4, <1>9, <1>10, <2>1 DEF GateOK, Accepted
    <2> QED BY <1>1, <1>5, <1>6, <1>7, <1>9, <2>2, <2>3, <2>4 DEF DashIInv, DashRead
  <1>11. CASE UNCHANGED <<dashData, timer>> /\ lastLookFailed' = (lastLookFailed \/ Accepted(c))
    <2>1. ShownOK'
      BY <1>1, <1>11, KeptOn DEF DashIInv, DashRead
    <2>2. GateOK'
      BY <1>2, <1>3, <1>4, <1>9, <1>11 DEF GateOK
    <2>3. ~lastLookFailed' => ~lastLookFailed /\ gate'.applied = gate.applied
      BY <1>3, <1>11
    <2>4. MeasuringOn'
      BY <1>8, <1>9, <1>11, <2>3 DEF MeasuringOn, DashIInv
    <2> QED BY <1>1, <1>5, <1>6, <1>7, <1>9, <1>11, <2>1, <2>2, <2>4 DEF DashIInv, DashRead
  <1>12. CASE ~Accepted(c) /\ UNCHANGED <<dashData, timer, lastLookFailed>>
    <2>1. ShownOK'
      BY <1>1, <1>12, KeptOn DEF DashIInv, DashRead
    <2>2. GateOK'
      BY <1>2, <1>3, <1>4, <1>9, <1>12 DEF GateOK
    <2>3. gate'.applied = gate.applied
      BY <1>3, <1>12
    <2>4. MeasuringOn'
      BY <1>8, <1>9, <1>12, <2>3 DEF MeasuringOn, DashIInv
    <2> QED BY <1>1, <1>5, <1>6, <1>7, <1>9, <1>12, <2>1, <2>2, <2>4 DEF DashIInv, DashRead
  <1> QED BY <1>10, <1>11, <1>12 DEF GetEnds

\* What is listed was answered, by the project of the session.
LEMMA ListedIs ==
  ASSUME ShownOK, NEW s \in listedRows(dashData)
  PROVE  /\ s \in DashSessions /\ Remembers(s, rowOf(dashData, s)) /\ rowOf(dashData, s) \in SessionStat
         /\ s \in DOMAIN rowsOf(dashData, ProjectOf[s]) /\ ProjectOf[s] \in DashProjects
  <1>1. PICK p \in DashProjects : s \in DOMAIN rowsOf(dashData, p)
    BY DEF listedRows
  <1>2. dashData.entries[p].state = "ok" /\ s \in DOMAIN dashData.entries[p].rows
    <2>1. DOMAIN <<>> = {}
      OBVIOUS
    <2> QED BY <1>1, <2>1 DEF rowsOf
  <1>3. ProjectOf[s] = p /\ s \in DashSessions /\ Remembers(s, dashData.entries[p].rows[s])
    BY <1>1, <1>2 DEF ShownOK, EntriesOK, EntryOK
  <1> QED BY <1>1, <1>3 DEF rowOf, Remembers

\* A dialog is opened about rows as they were answered.
LEMMA AsksFirstOK ==
  ASSUME DashIInv, NEW a, AsksFirst(a), a.ids \subseteq DashSessions, a.kind # "kill", ToldOK(a.told), NamesAll(a.kind, a.ids, a.told)
  PROVE  DashIInv'
  <1>1. FactsTyped' /\ GoOn
    BY StayOn DEF DashIInv, DashRead, AsksFirst
  <1>2. RequestsOK'
    BY <1>1, KeptOn DEF RequestsOK, AsksFirst, DashIInv, DashRead
  <1>3. ShownOK'
    BY <1>1, KeptOn DEF DashIInv, DashRead, AsksFirst
  <1>4. DialogOK'
    <2>1. ToldOK(a.told)' /\ pendingAction' = a
      BY <1>1, KeptOn DEF AsksFirst, DashIInv, DashRead
    <2> QED BY <2>1 DEF DialogOK, NamesAll, ToldOK, Remembers
  <1>5. ActionsOK'
    BY <1>1, KeptOn DEF DashIInv, DashRead, AsksFirst, ActionsOK
  <1>6. MeasuringOn' /\ GateOK'
    BY DEF DashIInv, DashRead, MeasuringOn, GateOK, AsksFirst
  <1> QED BY <1>1, <1>2, <1>3, <1>4, <1>5, <1>6 DEF DashIInv, DashRead, AsksFirst

\* Stop is pressed on a row.
LEMMA AskStopOK == ASSUME DashIInv, NEW s \in DashSessions, AskStop(s) PROVE DashIInv'
  <1>1. PICK a : a = [kind |-> "stop", ids |-> {s}, told |-> {}]
    OBVIOUS
  <1>2. AsksFirst(a) /\ a.kind = "stop" /\ a.ids = {s} /\ a.told = {}
    BY <1>1 DEF AskStop
  <1> QED BY <1>2, AsksFirstOK DEF ToldOK, NamesAll

\* Delete is pressed on a row, whose figures the dialog gives.
LEMMA AskDeleteOK == ASSUME DashIInv, NEW s \in DashSessions, AskDelete(s) PROVE DashIInv'
  <1>1. PICK t : t = [id |-> s, row |-> rowOf(dashData, s)]
    OBVIOUS
  <1>2. PICK a : a = [kind |-> "delete", ids |-> {s}, told |-> {t}]
    OBVIOUS
  <1>3. AsksFirst(a) /\ a.kind = "delete" /\ a.ids = {s} /\ a.told = {t} /\ t.id = s /\ t.row = rowOf(dashData, s)
    BY <1>1, <1>2 DEF AskDelete
  <1>4. Remembers(s, rowOf(dashData, s))
    BY ListedIs DEF AskDelete, DashIInv, DashRead
  <1> QED BY <1>3, <1>4, AsksFirstOK DEF ToldOK, NamesAll

\* A suggestion about one session that may lose work names its row.
LEMMA SuggestedOne ==
  ASSUME ShownOK, NEW g \in ProposeDelete(dashData) \cup ProposeUnlanded(dashData)
  PROVE  \E s \in listedRows(dashData) : \E t : /\ g.ids = {s} /\ g.told = {t} /\ t.id = s /\ t.row = rowOf(dashData, s)
                                                /\ g.kind \in {"delete", "unlanded"}
  <1>1. PICK s \in listedRows(dashData), k \in {"delete", "unlanded"} :
             g = Proposed(k, {s}, rowOf(dashData, s).disk, {[id |-> s, row |-> rowOf(dashData, s)]})
    BY DEF ProposeDelete, ProposeUnlanded
  <1>2. PICK t : t = [id |-> s, row |-> rowOf(dashData, s)]
    OBVIOUS
  <1>3. g = Proposed(k, {s}, rowOf(dashData, s).disk, {t}) /\ t.id = s /\ t.row = rowOf(dashData, s)
    BY <1>1, <1>2
  <1>4. g.kind = k /\ g.ids = {s} /\ g.told = {t}
    BY <1>3 DEF Proposed
  <1> QED BY <1>3, <1>4

\* A Clean up or a stop is about listed sessions, and says nothing of losses.
LEMMA SuggestedMany ==
  ASSUME ShownOK, NEW g \in ProposeCleanup(dashData) \cup ProposeStop(dashData)
  PROVE  g.ids \subseteq DashSessions /\ g.told = {} /\ g.kind \in {"cleanup", "stop"}
  <1>1. CASE g \in ProposeCleanup(dashData)
    <2>1. PICK p \in DashProjects : \E n : g = Proposed("cleanup", Reclaimable(dashData, p), n, {})
      BY <1>1 DEF ProposeCleanup
    <2>2. g.kind = "cleanup" /\ g.ids = Reclaimable(dashData, p) /\ g.told = {}
      BY <2>1 DEF Proposed
    <2>3. \A s \in Reclaimable(dashData, p) : s \in listedRows(dashData)
      BY DEF Reclaimable, listedRows
    <2> QED BY <2>2, <2>3, ListedIs
  <1>2. CASE g \in ProposeStop(dashData)
    <2>1. PICK s \in listedRows(dashData) : g = Proposed("stop", {s}, Unknown, {})
      BY <1>2 DEF ProposeStop
    <2>2. g.kind = "stop" /\ g.ids = {s} /\ g.told = {}
      BY <2>1 DEF Proposed
    <2> QED BY <2>2, ListedIs
  <1> QED BY <1>1, <1>2

\* A suggestion is taken up.
LEMMA OnSuggestionOK == ASSUME DashIInv, NEW g, OnSuggestion(g) PROVE DashIInv'
  <1>1. PICK a : a = [kind |-> IF g.kind = "unlanded" THEN "delete" ELSE g.kind, ids |-> g.ids, told |-> g.told]
    OBVIOUS
  <1>2. /\ AsksFirst(a) /\ a.kind = (IF g.kind = "unlanded" THEN "delete" ELSE g.kind) /\ a.ids = g.ids /\ a.told = g.told
        /\ g \in suggestions(dashData) /\ ShownOK
    BY <1>1 DEF OnSuggestion, DashIInv, DashRead
  <1>3. CASE g \in ProposeDelete(dashData) \cup ProposeUnlanded(dashData)
    <2>1. PICK s \in listedRows(dashData) : \E t :
               g.ids = {s} /\ g.told = {t} /\ t.id = s /\ t.row = rowOf(dashData, s) /\ g.kind \in {"delete", "unlanded"}
      BY <1>2, <1>3, SuggestedOne
    <2>2. s \in DashSessions /\ Remembers(s, rowOf(dashData, s))
      BY <1>2, ListedIs
    <2>3. a.ids \subseteq DashSessions /\ ToldOK(a.told) /\ NamesAll(a.kind, a.ids, a.told) /\ a.kind # "kill"
      BY <1>2, <2>1, <2>2 DEF ToldOK, NamesAll
    <2> QED BY <1>2, <2>3, AsksFirstOK
  <1>4. CASE g \in ProposeCleanup(dashData) \cup ProposeStop(dashData)
    <2>1. g.ids \subseteq DashSessions /\ g.told = {} /\ g.kind \in {"cleanup", "stop"}
      BY <1>2, <1>4, SuggestedMany
    <2>2. a.ids \subseteq DashSessions /\ ToldOK(a.told) /\ NamesAll(a.kind, a.ids, a.told) /\ a.kind # "kill"
      BY <1>2, <2>1 DEF ToldOK, NamesAll
    <2> QED BY <1>2, <2>2, AsksFirstOK
  <1> QED BY <1>2, <1>3, <1>4 DEF suggestions

\* The dialog is cancelled, or its action begins.
LEMMA DialogClosesOK == ASSUME DashIInv, CancelsDialog \/ ConfirmPending PROVE DashIInv'
  <1>1. /\ FactsTyped' /\ GoOn /\ pendingAction' = NoAction
        /\ UNCHANGED <<facts, asking, gate, dashData, dashLoading, polls, timer, lastLookFailed, untoldLosses>>
    BY StayOn DEF DashIInv, DashRead, CancelsDialog, ConfirmPending
  <1>2. RequestsOK'
    BY <1>1, KeptOn DEF RequestsOK, DashIInv, DashRead
  <1>3. ShownOK'
    BY <1>1, KeptOn DEF DashIInv, DashRead
  <1>4. DialogOK'
    BY <1>1 DEF DialogOK, NoAction, ToldOK, NamesAll
  <1>5. MeasuringOn' /\ GateOK'
    BY <1>1 DEF DashIInv, DashRead, MeasuringOn, GateOK
  <1>6. ActionsOK'
    <2>1. CASE CancelsDialog
      BY <1>1, <2>1, KeptOn DEF DashIInv, DashRead, CancelsDialog, ActionsOK
    <2>2. CASE ConfirmPending
      <3>1. PICK n : n = [kind |-> pendingAction.kind, ids |-> pendingAction.ids, told |-> pendingAction.told,
                          step |-> FirstStep(pendingAction)]
        OBVIOUS
      <3>2. /\ DOMAIN n = {"kind", "ids", "told", "step"} /\ n.kind = pendingAction.kind /\ n.ids = pendingAction.ids
            /\ n.told = pendingAction.told /\ n.step = FirstStep(pendingAction)
        BY <3>1
      <3>3. underWay' = underWay \cup {n}
        BY <2>2, <3>1 DEF ConfirmPending
      <3>4. ToldOK(n.told)' /\ NamesAll(n.kind, n.ids, n.told) /\ (n.step \in {"kill", "delete"} => n.kind = "delete")
        <4>1. ToldOK(n.told) /\ NamesAll(n.kind, n.ids, n.told)
          BY <3>2 DEF DashIInv, DialogOK
        <4>2. n.step \in {"kill", "delete"} => n.kind = "delete"
          BY <3>2 DEF FirstStep, DashIInv, DialogOK
        <4>3. PICK told : told = n.told
          OBVIOUS
        <4>4. ToldOK(told)'
          BY <1>1, <4>1, <4>3, ToldOn DEF DashIInv, DashRead
        <4> QED BY <4>1, <4>2, <4>3, <4>4
      <3>5. \A a \in underWay : ToldOK(a.told)'
        BY <1>1, KeptOn DEF DashIInv, DashRead, ActionsOK
      <3> QED BY <3>2, <3>3, <3>4, <3>5 DEF DashIInv, ActionsOK, NamesAll
    <2> QED BY <2>1, <2>2
  <1> QED BY <1>1, <1>2, <1>3, <1>4, <1>5, <1>6 DEF DashIInv, DashRead

\* A session turns to another status, and is otherwise what it was.
LEMMA StatusOn ==
  ASSUME FactsTyped, NEW S, NEW x \in DashStatuses,
         facts' = [s \in DOMAIN facts |-> IF s \in S THEN [facts[s] EXCEPT !.status = x] ELSE facts[s]]
  PROVE  FactsTyped' /\ GoOn
  <1>1. ASSUME NEW s \in DOMAIN facts
        PROVE  /\ facts'[s] \in SessionStat /\ facts[s].moves <= facts'[s].moves
               /\ facts'[s].ahead = facts[s].ahead /\ facts'[s].changed = facts[s].changed
    <2>1. facts[s] \in SessionStat /\ facts[s].moves \in Nat
      BY DEF FactsTyped, SessionStat
    <2>2. CASE s \in S
      <3>1. PICK f : f = facts[s]
        OBVIOUS
      <3>2. facts'[s] = [f EXCEPT !.status = x]
        BY <2>2, <3>1
      <3> QED BY <2>1, <3>1, <3>2 DEF SessionStat
    <2>3. CASE s \notin S
      BY <2>1, <2>3
    <2> QED BY <2>2, <2>3
  <1>2. DOMAIN facts' = DOMAIN facts /\ facts' = [s \in DOMAIN facts |-> facts'[s]]
    OBVIOUS
  <1> QED BY <1>1, <1>2 DEF FactsTyped, GoOn

\* Sessions go, and the others stay what they were.
LEMMA RowsGoOn ==
  ASSUME FactsTyped, NEW ids, RowsGo(ids)
  PROVE  FactsTyped' /\ GoOn
  <1>1. DOMAIN facts' = DOMAIN facts \ ids /\ \A s \in DOMAIN facts' : facts'[s] = facts[s]
    BY DEF RowsGo
  <1>2. facts' = [s \in DOMAIN facts' |-> facts'[s]]
    BY DEF RowsGo
  <1> QED BY <1>1, <1>2 DEF FactsTyped, GoOn, SessionStat

\* An action is over, well or not: what it left is asked for.
LEMMA ActionEndsOK ==
  ASSUME DashIInv, NEW a \in underWay, ActionEnds(a), FactsTyped', GoOn, untoldLosses' = {},
         UNCHANGED <<dashData, timer, pendingAction, lastLookFailed>>
  PROVE  DashIInv'
  <1>1. GateOK' /\ RequestsOK' /\ (\E c \in asking' : c.start > gate'.applied) /\ asking' # {}
    BY RefreshesOK DEF DashIInv, DashRead, ActionEnds
  <1>2. ShownOK' /\ DialogOK'
    BY KeptOn DEF DashIInv, DashRead
  <1>3. ActionsOK'
    BY KeptOn DEF DashIInv, DashRead, ActionEnds, ActionsOK
  <1>4. MeasuringOn'
    BY <1>1, DashboardAssumption DEF DashIInv, MeasuringOn, ActionEnds
  <1> QED BY <1>1, <1>2, <1>3, <1>4 DEF DashIInv, DashRead

\* Of a row that is remembered, nothing is lost that was not named.
LEMMA NothingUntold ==
  ASSUME DashIInv, NEW a \in underWay, a.step = "delete", NEW s \in a.ids, s \in DOMAIN facts
  PROVE  ~Untold(a, s)
  <1>1. ToldOK(a.told) /\ \E t \in a.told : t.id = s
    BY DEF DashIInv, ActionsOK, NamesAll
  <1>2. PICK t \in a.told : t.id = s /\ t = (CHOOSE u \in a.told : u.id = s)
    BY <1>1
  <1>3. Remembers(s, t.row) /\ ToldOf(a, s) = t.row
    BY <1>1, <1>2 DEF ToldOK, ToldOf
  <1>4. t.row.moves = facts[s].moves => t.row.ahead = facts[s].ahead /\ t.row.changed = facts[s].changed
    BY <1>3 DEF Remembers
  <1>5. facts[s].ahead \in Int /\ facts[s].changed \in Int
    BY DEF DashIInv, DashRead, FactsTyped, SessionStat
  <1> QED BY <1>3, <1>4, <1>5 DEF Untold

\* An action's next step, or its end.
LEMMA ActionGoesOnOK ==
  ASSUME DashIInv, NEW a \in underWay, ActionGoesOn(a)
  PROVE  DashIInv'
  <1>1. UNCHANGED <<dashData, timer, pendingAction, lastLookFailed>> /\ FactsTyped /\ untoldLosses = {}
    BY DEF ActionGoesOn, DashIInv, DashRead
  <1>2. CASE ActionEnds(a) /\ UNCHANGED <<facts, untoldLosses>>
    BY <1>1, <1>2, StayOn, ActionEndsOK
  <1>3. CASE /\ ActionEnds(a) /\ UNCHANGED untoldLosses
             /\ facts' = [s \in DOMAIN facts |->
                            IF s \in a.ids /\ isRunning(facts[s]) THEN [facts[s] EXCEPT !.status = "idle"] ELSE facts[s]]
    <2>1. PICK S : S = {s \in DOMAIN facts : s \in a.ids /\ isRunning(facts[s])}
      OBVIOUS
    <2>2. facts' = [s \in DOMAIN facts |-> IF s \in S THEN [facts[s] EXCEPT !.status = "idle"] ELSE facts[s]]
      BY <1>3, <2>1
    <2>3. FactsTyped' /\ GoOn
      BY <1>1, <2>2, StatusOn DEF DashStatuses
    <2> QED BY <1>1, <1>3, <2>3, ActionEndsOK
  <1>4. CASE /\ a.step = "kill" /\ underWay' = (underWay \ {a}) \cup {[a EXCEPT !.step = "delete"]}
             /\ UNCHANGED <<polls, gate, asking, dashLoading, untoldLosses>>
             /\ facts' = [s \in DOMAIN facts |->
                            IF s \in a.ids /\ ~isEnded(facts[s]) THEN [facts[s] EXCEPT !.status = "dead"] ELSE facts[s]]
    <2>1. PICK S : S = {s \in DOMAIN facts : s \in a.ids /\ ~isEnded(facts[s])}
      OBVIOUS
    <2>2. facts' = [s \in DOMAIN facts |-> IF s \in S THEN [facts[s] EXCEPT !.status = "dead"] ELSE facts[s]]
      BY <1>4, <2>1
    <2>3. FactsTyped' /\ GoOn
      BY <1>1, <2>2, StatusOn DEF DashStatuses
    <2>4. RequestsOK'
      BY <1>4, <2>3, KeptOn DEF RequestsOK, DashIInv, DashRead
    <2>5. ShownOK' /\ DialogOK'
      BY <1>1, <2>3, KeptOn DEF DashIInv, DashRead
    <2>6. PICK n : n = [a EXCEPT !.step = "delete"]
      OBVIOUS
    <2>7. /\ DOMAIN a = {"kind", "ids", "told", "step"} /\ ToldOK(a.told) /\ NamesAll(a.kind, a.ids, a.told)
          /\ a.kind = "delete"
      BY <1>4 DEF DashIInv, ActionsOK
    <2>8. DOMAIN n = {"kind", "ids", "told", "step"} /\ n.kind = a.kind /\ n.ids = a.ids /\ n.told = a.told
      BY <2>6, <2>7
    <2>9. ActionsOK'
      <3>1. \A b \in underWay : ToldOK(b.told)'
        BY <1>1, <2>3, KeptOn DEF DashIInv, ActionsOK
      <3>2. underWay' = (underWay \ {a}) \cup {n}
        BY <1>4, <2>6
      <3>3. ToldOK(n.told)'
        <4>1. PICK told : told = n.told
          OBVIOUS
        <4>2. ToldOK(told)'
          BY <1>1, <2>3, <2>7, <2>8, <4>1, ToldOn
        <4> QED BY <4>1, <4>2
      <3> QED BY <2>7, <2>8, <3>1, <3>2, <3>3 DEF DashIInv, ActionsOK, NamesAll
    <2>10. MeasuringOn' /\ GateOK'
      BY <1>1, <1>4 DEF DashIInv, DashRead, MeasuringOn, GateOK
    <2> QED BY <1>1, <1>4, <2>3, <2>4, <2>5, <2>9, <2>10 DEF DashIInv, DashRead
  <1>5. CASE /\ a.step = "delete" /\ \A s \in a.ids : s \in DOMAIN facts /\ isEnded(facts[s])
             /\ RowsGo(a.ids) /\ ActionEnds(a)
             /\ untoldLosses' = untoldLosses \cup {s \in a.ids : facts[s].status = "dead" /\ Untold(a, s)}
    <2>1. \A s \in a.ids : ~Untold(a, s)
      BY <1>5, NothingUntold
    <2>2. untoldLosses' = {}
      BY <1>1, <1>5, <2>1
    <2>3. FactsTyped' /\ GoOn
      BY <1>1, <1>5, RowsGoOn
    <2> QED BY <1>1, <1>5, <2>2, <2>3, ActionEndsOK
  <1>6. CASE ActionEnds(a) /\ (\E ids : RowsGo(ids)) /\ UNCHANGED untoldLosses
    <2>1. FactsTyped' /\ GoOn
      BY <1>1, <1>6, RowsGoOn
    <2> QED BY <1>1, <1>6, <2>1, ActionEndsOK
  <1> QED BY <1>2, <1>3, <1>4, <1>5, <1>6, Zenon DEF ActionGoesOn

\* Whatever a session turns to, its counts were of the time before; a size that is measured counts nothing.
LEMMA SessionChangesOK ==
  ASSUME DashIInv, NEW s \in DashSessions, SessionChanges(s)
  PROVE  DashIInv'
  <1>1. /\ UNCHANGED <<asking, gate, dashData, dashLoading, polls, timer, pendingAction, underWay, lastLookFailed, untoldLosses>>
        /\ s \in DOMAIN facts
    BY DEF SessionChanges
  <1>2. PICK next \in [status : {"idle", "running", "dead", "landed"}, disk : {Unknown, 6}, ahead : {Unknown, 0, 1}, age : {0}] :
             \/ facts' = [facts EXCEPT ![s] = [facts[s] EXCEPT !.status = next.status, !.ahead = next.ahead, !.age = next.age, !.moves = facts[s].moves + 1]]
             \/ facts' = [facts EXCEPT ![s] = [facts[s] EXCEPT !.disk = 6]]
    BY DEF SessionChanges
  <1>3. PICK f : f = facts[s]
    OBVIOUS
  <1>4. /\ f \in SessionStat /\ f.moves \in Nat /\ DOMAIN facts \subseteq DashSessions
        /\ facts = [t \in DOMAIN facts |-> facts[t]] /\ \A t \in DOMAIN facts : facts[t] \in SessionStat
    BY <1>1, <1>3 DEF DashIInv, DashRead, FactsTyped, SessionStat
  <1>5. PICK h : facts' = [facts EXCEPT ![s] = h] /\ h \in SessionStat
                 /\ (h.moves = f.moves + 1 \/ (h.moves = f.moves /\ h.ahead = f.ahead /\ h.changed = f.changed))
    <2>1. PICK g : g = [facts[s] EXCEPT !.status = next.status, !.ahead = next.ahead, !.age = next.age, !.moves = facts[s].moves + 1]
      OBVIOUS
    <2>2. g \in SessionStat /\ g.moves = f.moves + 1
      <3>1. next.status \in DashStatuses /\ next.ahead \in Int /\ next.age \in Int /\ f.moves + 1 \in Nat
        BY <1>4 DEF DashStatuses, Unknown
      <3>2. g = [f EXCEPT !.status = next.status, !.ahead = next.ahead, !.age = next.age, !.moves = f.moves + 1]
        BY <1>3, <2>1
      <3> QED BY <1>4, <3>1, <3>2 DEF SessionStat
    <2>3. PICK d : d = [facts[s] EXCEPT !.disk = 6]
      OBVIOUS
    <2>4. d \in SessionStat /\ d.moves = f.moves /\ d.ahead = f.ahead /\ d.changed = f.changed
      BY <1>3, <1>4, <2>3 DEF SessionStat
    <2>5. facts' = [facts EXCEPT ![s] = g] \/ facts' = [facts EXCEPT ![s] = d]
      BY <1>2, <2>1, <2>3, Zenon
    <2>6. CASE facts' = [facts EXCEPT ![s] = g]
      BY <2>2, <2>6, Zenon
    <2>7. CASE facts' = [facts EXCEPT ![s] = d]
      BY <2>4, <2>7, Zenon
    <2> QED BY <2>5, <2>6, <2>7, Zenon
  <1>6. FactsTyped' /\ GoOn
    <2>1. DOMAIN facts' = DOMAIN facts /\ facts'[s] = h /\ (\A t \in DOMAIN facts \ {s} : facts'[t] = facts[t])
          /\ facts' = [t \in DOMAIN facts |-> facts'[t]]
      BY <1>1, <1>4, <1>5
    <2>2. h.moves \in Nat /\ \A t \in DOMAIN facts : facts[t].moves \in Nat
      BY <1>4, <1>5 DEF SessionStat
    <2>3. FactsTyped'
      BY <1>4, <1>5, <2>1 DEF FactsTyped
    <2>4. ASSUME NEW t \in DOMAIN facts
          PROVE  /\ facts[t].moves <= facts'[t].moves
                 /\ facts'[t].moves = facts[t].moves => facts'[t].ahead = facts[t].ahead /\ facts'[t].changed = facts[t].changed
      BY <1>3, <1>4, <1>5, <2>1, <2>2
    <2> QED BY <2>1, <2>3, <2>4 DEF GoOn
  <1>7. RequestsOK'
    BY <1>1, <1>6, KeptOn DEF RequestsOK, DashIInv, DashRead
  <1>8. ShownOK' /\ DialogOK'
    BY <1>1, <1>6, KeptOn DEF DashIInv, DashRead
  <1>9. ActionsOK'
    BY <1>1, <1>6, KeptOn DEF DashIInv, DashRead, ActionsOK
  <1>10. MeasuringOn' /\ GateOK'
    BY <1>1 DEF DashIInv, DashRead, MeasuringOn, GateOK
  <1> QED BY <1>1, <1>6, <1>7, <1>8, <1>9, <1>10 DEF DashIInv, DashRead

\* Nothing moves.
LEMMA DashStutters == ASSUME DashIInv, UNCHANGED dashVars PROVE DashIInv'
  <1>1. FactsTyped' /\ GoOn
    BY StayOn DEF DashIInv, DashRead, dashVars
  <1>2. RequestsOK'
    BY <1>1, KeptOn DEF RequestsOK, DashIInv, DashRead, dashVars
  <1>3. ShownOK' /\ DialogOK'
    BY <1>1, KeptOn DEF DashIInv, DashRead, dashVars
  <1>4. ActionsOK'
    BY <1>1, KeptOn DEF DashIInv, DashRead, ActionsOK, dashVars
  <1>5. MeasuringOn' /\ GateOK'
    BY DEF DashIInv, DashRead, MeasuringOn, GateOK, dashVars
  <1> QED BY <1>1, <1>2, <1>3, <1>4, <1>5 DEF DashIInv, DashRead, dashVars

\* Every step keeps the invariant.
LEMMA DashStep == DashIInv /\ [DashNext]_dashVars => DashIInv'
  <1> SUFFICES ASSUME DashIInv, [DashNext]_dashVars PROVE DashIInv'
    OBVIOUS
  <1>1. CASE PressRefresh \/ LooksAgainNow \/ CancelsDialog \/ ConfirmPending
    BY <1>1, PressRefreshOK, LooksAgainOK, DialogClosesOK
  <1>2. CASE \E c \in asking : GetEnds(c) \/ \E p \in DashProjects : ProjectAnswers(c, p)
    BY <1>2, GetEndsOK, ProjectAnswersOK
  <1>3. CASE \E s \in DashSessions : AskStop(s) \/ AskDelete(s) \/ SessionChanges(s)
    BY <1>3, AskStopOK, AskDeleteOK, SessionChangesOK
  <1>4. CASE \E g \in suggestions(dashData) : OnSuggestion(g)
    BY <1>4, OnSuggestionOK
  <1>5. CASE \E a \in underWay : ActionGoesOn(a)
    BY <1>5, ActionGoesOnOK
  <1>6. CASE UNCHANGED dashVars
    BY <1>6, DashStutters
  <1> QED BY <1>1, <1>2, <1>3, <1>4, <1>5, <1>6 DEF DashNext

\* What is suggested of a session is what its row calls for, and of a project one Clean up.
CleanupOf(p) ==
  Proposed("cleanup", Reclaimable(dashData, p),
           IF \A s \in Reclaimable(dashData, p) : rowOf(dashData, s).disk = Unknown THEN Unknown
           ELSE DiskOf(dashData, Reclaimable(dashData, p)), {})
NamedOf(kind, s) == Proposed(kind, {s}, rowOf(dashData, s).disk, {[id |-> s, row |-> rowOf(dashData, s)]})
StopOf(s) == Proposed("stop", {s}, Unknown, {})
Gone(r) == isEnded(r) /\ hasOwnWorktree(r) /\ (r.status = "landed" \/ HoldsNothing(r))
SuggestedAs(g, s) ==
  \/ Gone(rowOf(dashData, s)) /\ g = CleanupOf(ProjectOf[s])
  \/ StaleEmpty(rowOf(dashData, s)) /\ g = NamedOf("delete", s)
  \/ StaleUnlanded(rowOf(dashData, s)) /\ g = NamedOf("unlanded", s)
  \/ IdleShell(rowOf(dashData, s)) /\ g = StopOf(s)

\* A suggestion is of one of four kinds, each about the session it names.
LEMMA SuggestedIs ==
  ASSUME ShownOK, NEW g \in suggestions(dashData), NEW s \in g.ids
  PROVE  s \in listedRows(dashData) /\ SuggestedAs(g, s)
  <1>1. CASE g \in ProposeCleanup(dashData)
    <2>1. PICK p \in DashProjects : g = CleanupOf(p)
      BY <1>1 DEF ProposeCleanup, CleanupOf
    <2>2. g.ids = Reclaimable(dashData, p)
      BY <2>1 DEF CleanupOf, Proposed
    <2>3. s \in Reclaimable(dashData, p) /\ s \in listedRows(dashData) /\ Gone(rowOf(dashData, s))
      BY <2>2 DEF Reclaimable, listedRows, Gone
    <2>4. ProjectOf[s] = p
      <3>1. s \in DOMAIN rowsOf(dashData, p)
        BY <2>3 DEF Reclaimable
      <3>2. dashData.entries[p].state = "ok" /\ s \in DOMAIN dashData.entries[p].rows
        <4>1. DOMAIN <<>> = {}
          OBVIOUS
        <4> QED BY <3>1, <4>1 DEF rowsOf
      <3> QED BY <3>2 DEF ShownOK, EntriesOK, EntryOK
    <2> QED BY <2>1, <2>3, <2>4 DEF SuggestedAs
  <1>2. CASE g \in ProposeDelete(dashData)
    <2>1. PICK t \in listedRows(dashData) : StaleEmpty(rowOf(dashData, t)) /\ g = NamedOf("delete", t)
      BY <1>2 DEF ProposeDelete, NamedOf
    <2>2. g.ids = {t}
      BY <2>1 DEF NamedOf, Proposed
    <2> QED BY <2>1, <2>2 DEF SuggestedAs
  <1>3. CASE g \in ProposeUnlanded(dashData)
    <2>1. PICK t \in listedRows(dashData) : StaleUnlanded(rowOf(dashData, t)) /\ g = NamedOf("unlanded", t)
      BY <1>3 DEF ProposeUnlanded, NamedOf
    <2>2. g.ids = {t}
      BY <2>1 DEF NamedOf, Proposed
    <2> QED BY <2>1, <2>2 DEF SuggestedAs
  <1>4. CASE g \in ProposeStop(dashData)
    <2>1. PICK t \in listedRows(dashData) : IdleShell(rowOf(dashData, t)) /\ g = StopOf(t)
      BY <1>4 DEF ProposeStop, StopOf
    <2>2. g.ids = {t}
      BY <2>1 DEF StopOf, Proposed
    <2> QED BY <2>1, <2>2 DEF SuggestedAs
  <1> QED BY <1>1, <1>2, <1>3, <1>4 DEF suggestions

\* A row calls for one thing at most.
LEMMA CalledForOnce ==
  ASSUME NEW r \in SessionStat
  PROVE  /\ Gone(r) => ~StaleEmpty(r) /\ ~StaleUnlanded(r) /\ ~IdleShell(r)
         /\ StaleEmpty(r) => ~StaleUnlanded(r) /\ ~IdleShell(r)
         /\ StaleUnlanded(r) => ~IdleShell(r)
  <1>1. r.ahead \in Int /\ r.changed \in Int
    BY DEF SessionStat
  <1> QED BY <1>1 DEF Gone, StaleEmpty, StaleUnlanded, IdleShell, isEnded, isRunning, Holds, HoldsNothing

\* What is suggested of an answer whose rows are whole is safe.
LEMMA SuggestionsSafe == ShownOK => SuggestionsAreSafe
  <1> SUFFICES ASSUME ShownOK PROVE SuggestionsAreSafe
    OBVIOUS
  <1>1. ASSUME NEW g \in suggestions(dashData), NEW h \in suggestions(dashData), g.ids \cap h.ids # {} PROVE g = h
    <2>1. PICK s : s \in g.ids /\ s \in h.ids
      BY <1>1
    <2>2. s \in listedRows(dashData) /\ SuggestedAs(g, s) /\ SuggestedAs(h, s)
      BY <2>1, SuggestedIs
    <2>3. rowOf(dashData, s) \in SessionStat
      BY <2>2, ListedIs
    <2> QED BY <2>2, <2>3, CalledForOnce DEF SuggestedAs
  <1>2. ASSUME NEW g \in suggestions(dashData), NEW s \in g.ids
        PROVE  LET r == rowOf(dashData, s)
               IN /\ ~(r.agent /\ isRunning(r)) /\ (g.kind # "cleanup" => r.age >= IDLE_SHELL_HOURS)
                  /\ g.kind # "stop" => ~r.shared
                  /\ g.kind \in {"cleanup", "delete"} => r.status = "landed" \/ (r.ahead = 0 /\ r.changed = 0)
                  /\ g.kind = "unlanded" => \E t \in g.told : t.row.ahead > 0 \/ t.row.changed > 0
    <2>1. PICK r : r = rowOf(dashData, s)
      OBVIOUS
    <2>2. r \in SessionStat /\ SuggestedAs(g, s) /\ r.age \in Int
      BY <2>1, SuggestedIs, ListedIs DEF SessionStat
    <2>3. CASE Gone(r) /\ g = CleanupOf(ProjectOf[s])
      <3>1. g.kind = "cleanup"
        BY <2>3 DEF CleanupOf, Proposed
      <3> QED BY <2>1, <2>3, <3>1 DEF Gone, isEnded, isRunning, HoldsNothing, hasOwnWorktree
    <2>4. CASE StaleEmpty(r) /\ g = NamedOf("delete", s)
      <3>1. g.kind = "delete"
        BY <2>4 DEF NamedOf, Proposed
      <3> QED BY <2>1, <2>2, <2>4, <3>1 DEF StaleEmpty, isRunning, HoldsNothing, hasOwnWorktree, STALE_EMPTY_HOURS, IDLE_SHELL_HOURS
    <2>5. CASE StaleUnlanded(r) /\ g = NamedOf("unlanded", s)
      <3>1. PICK t : t = [id |-> s, row |-> r]
        OBVIOUS
      <3>2. g.kind = "unlanded" /\ g.told = {t} /\ t.row = r
        BY <2>1, <2>5, <3>1 DEF NamedOf, Proposed
      <3> QED BY <2>1, <2>2, <2>5, <3>2 DEF StaleUnlanded, isRunning, Holds, hasOwnWorktree, STALE_UNLANDED_HOURS, IDLE_SHELL_HOURS
    <2>6. CASE IdleShell(r) /\ g = StopOf(s)
      <3>1. g.kind = "stop"
        BY <2>6 DEF StopOf, Proposed
      <3> QED BY <2>1, <2>2, <2>6, <3>1 DEF IdleShell, isRunning, IDLE_SHELL_HOURS
    <2> QED BY <2>1, <2>2, <2>3, <2>4, <2>5, <2>6 DEF SuggestedAs
  <1> QED BY <1>1, <1>2 DEF SuggestionsAreSafe

\* Shown, remembered, asked and told, for any sessions and projects: the inductive invariant.
THEOREM DashHolds == DashSpec => []DashIInv
  BY DashInitOK, DashStep, PTL DEF DashSpec

\* However requests overlap, sessions change and actions fail: what is suggested is safe, no work that
\* was counted goes unnamed, and sizes are asked for until they are known (dashboard.ts, SettingsDashboard.tsx).
THEOREM DashboardSound == DashSpec => [](SuggestionsAreSafe /\ LossesAreTold /\ MeasuringIsFollowed)
  <1>1. DashIInv => SuggestionsAreSafe
    BY SuggestionsSafe DEF DashIInv, DashRead
  <1>2. DashIInv => LossesAreTold
    BY DEF DashIInv, LossesAreTold
  <1>3. DashIInv => MeasuringIsFollowed
    BY DEF DashIInv, MeasuringOn, MeasuringIsFollowed
  <1> QED BY <1>1, <1>2, <1>3, DashHolds, PTL

\* Of overlapping requests an older one's answer never replaces a later one's (load-gate.ts).
THEOREM FiguresAge == DashSpec => FiguresOnlyNewer
  <1>1. DashIInv /\ [DashNext]_dashVars => (dashData' # dashData => dashData'.at >= dashData.at)
    <2> SUFFICES ASSUME DashIInv, [DashNext]_dashVars, dashData' # dashData PROVE dashData'.at >= dashData.at
      OBVIOUS
    <2>1. CASE \E c \in asking : GetEnds(c)
      BY <2>1, GetEndsOK
    <2>2. CASE ~\E c \in asking : GetEnds(c)
      BY <2>2 DEF DashNext, PressRefresh, LooksAgainNow, CancelsDialog, ConfirmPending, ProjectAnswers, AskStop, AskDelete,
         SessionChanges, OnSuggestion, AsksFirst, ActionGoesOn, dashVars
    <2> QED BY <2>1, <2>2
  <1> QED BY <1>1, DashHolds, PTL DEF DashSpec, FiguresOnlyNewer

-----------------------------------------------------------------------------
(***************************************************************************)
(* What several parts promise together (Promises): each keeps its own, as  *)
(* shown above, for they share no state.                                   *)
(***************************************************************************)

(* The console's keys come back and the shell has its terminal again, whatever prompts,
   forms, actions and attached children come between (cli/commands/tui.ts).          *)
THEOREM ConsoleSound == TuiSpec => []ConsoleIsSound
  BY ConsoleComesBack, PTL DEF ConsoleIsSound

(* What a person writes or chooses is on disk, arrives, and is found by the next start:
   settings, prompts and drafts, what a deletion takes, installs and config.json.    *)
THEOREM SavedStaysKept == PromisesSpec => []SavedIsKept
  BY NoChangeIsLost, PromptsGoWhereMeant, RefinesOwned, DashboardSound, InstalledWhole, ConfigStaysKept, PTL
     DEF PromisesSpec, SavedIsKept

(* Nothing is killed or reclaimed but what was said yes to, and nothing older is put
   over what is newer: no draft of the settings, no figures of the dashboard.        *)
THEOREM NothingIsUnasked == PromisesSpec => NothingUnasked
  BY OnlyTheNamed, SavedInOrder, FiguresAge, PTL DEF PromisesSpec, NothingUnasked
=============================================================================
