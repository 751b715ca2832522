---------------------------- MODULE Trust_proofs ----------------------------
(* Proofs about what a person trusts: the test command's verdicts (Checks), the
   hooks of a session's life (Hooks), and that a restore makes what was asked for
   and can be undone (Checkpoints). *)
EXTENDS Checks, Hooks, Checkpoints, TLAPS, FiniteSetTheorems, SequenceTheorems

(***************************************************************************)
(* Checks.  What a run still in flight owes (RunsOwe): from its start to   *)
(* its end the session is unjudged, so that no verdict is shown or kept,   *)
(* and what git saw at its end is what is judged.  So every verdict, shown *)
(* or kept, of a judged session is pinned to what was judged (Pins).       *)
(***************************************************************************)
ChecksTyped ==
  /\ verdict \in [CheckSessions -> [state: {"none", "running", "pass", "fail"}, mark: Marks]]
  /\ stored \in [CheckSessions -> [state: {"none", "pass", "fail"}, mark: Marks]]
  /\ run \in [CheckSessions -> [at: {"none", "testing", "read"}, ok: BOOLEAN, saw: Marks]]
  /\ unjudged \in [CheckSessions -> BOOLEAN]
  /\ counts \in [CheckSessions -> Marks]
  /\ scan = Idle \/ scan \in [of: CheckSessions, saw: Marks]
  /\ work \in [CheckSessions -> 0..MaxEdits]
  /\ touched \in [CheckSessions -> BOOLEAN]
  /\ judged \in [CheckSessions -> Marks]
  /\ open \in [CheckSessions -> {"live", "ended", "gone"}]
  /\ slot \subseteq CheckSessions
  /\ asking \in [CheckSessions -> BOOLEAN]

RunsOwe ==
  \A s \in CheckSessions :
    /\ run[s].at # "none" => unjudged[s]
    /\ run[s].at = "read" => judged[s] = run[s].saw

Says(v) == v.state \in {"pass", "fail"}
Pins ==
  \A s \in CheckSessions : judged[s] # Unknown =>
    /\ Says(verdict[s]) => verdict[s].mark = judged[s]
    /\ Says(stored[s]) => stored[s].mark = judged[s]

ChecksIInv == ChecksTyped /\ NoVerdictComesBack /\ RunsOwe /\ Pins /\ OneAutoRun

-----------------------------------------------------------------------------
(* Starting runs.                                                           *)

LEMMA MarkFacts == Unknown \in Marks /\ 0..MaxEdits \subseteq Marks /\ NoVerdict.state = "none"
  BY DEF Marks, NoVerdict, Unknown

LEMMA ChecksInitOK == ChecksInit => ChecksIInv
  <1> SUFFICES ASSUME ChecksInit PROVE ChecksIInv
    OBVIOUS
  <1>1. ChecksTyped
    BY MarkFacts, ChecksAssumption DEF ChecksInit, ChecksTyped, NoVerdict, NoRun, Idle
  <1>2. NoVerdictComesBack /\ RunsOwe /\ Pins /\ OneAutoRun
    BY DEF ChecksInit, NoVerdictComesBack, RunsOwe, Pins, Says, OneAutoRun, NoVerdict, NoRun
  <1> QED BY <1>1, <1>2 DEF ChecksIInv


\* The maps a step hands on to a start.
Fits(ver, sto, rn, unj) ==
  /\ ver \in [CheckSessions -> [state: {"none", "running", "pass", "fail"}, mark: Marks]]
  /\ sto \in [CheckSessions -> [state: {"none", "pass", "fail"}, mark: Marks]]
  /\ rn \in [CheckSessions -> [at: {"none", "testing", "read"}, ok: BOOLEAN, saw: Marks]]
  /\ unj \in [CheckSessions -> BOOLEAN]
  /\ \A s \in CheckSessions :
       /\ unj[s] => sto[s] = NoVerdict /\ ver[s].state \in {"none", "running"}
       /\ rn[s].at # "none" => unj[s]
       /\ rn[s].at = "read" => judged[s] = rn[s].saw
       /\ judged[s] # Unknown =>
            /\ Says(ver[s]) => ver[s].mark = judged[s]
            /\ Says(sto[s]) => sto[s].mark = judged[s]

\* What a start of ss, from the runs rn, leaves behind.
Started(ss, rn) ==
  /\ verdict' \in [CheckSessions -> [state: {"none", "running", "pass", "fail"}, mark: Marks]]
  /\ stored' \in [CheckSessions -> [state: {"none", "pass", "fail"}, mark: Marks]]
  /\ run' \in [CheckSessions -> [at: {"none", "testing", "read"}, ok: BOOLEAN, saw: Marks]]
  /\ unjudged' \in [CheckSessions -> BOOLEAN]
  /\ NoVerdictComesBack' /\ RunsOwe' /\ Pins'
  /\ \A s \in CheckSessions : run'[s].at # "none" \/ (s \notin ss /\ run'[s] = rn[s])

\* Runs start from whatever maps an end, or nothing, left: what they owe holds.
LEMMA StartsOK ==
  ASSUME NEW ss \in SUBSET CheckSessions,
         NEW ver, NEW sto, NEW rn, NEW unj, Fits(ver, sto, rn, unj),
         Starts(ss, ver, sto, rn, unj),
         counts' \in [CheckSessions -> Marks], judged' = judged
  PROVE  Started(ss, rn)
  <1> DEFINE new == [NoRun EXCEPT !.at = "testing"]
  <1>1. /\ verdict' = [s \in CheckSessions |->
                         IF s \in ss THEN [state |-> "running", mark |-> counts'[s]] ELSE ver[s]]
        /\ stored' = [s \in CheckSessions |-> IF s \in ss THEN NoVerdict ELSE sto[s]]
        /\ run' = [s \in CheckSessions |-> IF s \in ss THEN new ELSE rn[s]]
        /\ unjudged' = [s \in CheckSessions |-> s \in ss \/ unj[s]]
    BY Zenon DEF Starts, StoreAtStart
  <1>2. /\ NoVerdict \in [state: {"none", "pass", "fail"}, mark: Marks] /\ NoVerdict.state = "none"
        /\ new \in [at: {"none", "testing", "read"}, ok: BOOLEAN, saw: Marks] /\ new.at = "testing"
    BY DEF NoVerdict, NoRun, Marks
  <1> HIDE DEF new
  <1>3. /\ verdict' \in [CheckSessions -> [state: {"none", "running", "pass", "fail"}, mark: Marks]]
        /\ stored' \in [CheckSessions -> [state: {"none", "pass", "fail"}, mark: Marks]]
        /\ run' \in [CheckSessions -> [at: {"none", "testing", "read"}, ok: BOOLEAN, saw: Marks]]
        /\ unjudged' \in [CheckSessions -> BOOLEAN]
    BY <1>1, <1>2 DEF Fits
  <1>4. ASSUME NEW s \in CheckSessions, s \in ss
        PROVE  /\ verdict'[s].state = "running" /\ stored'[s] = NoVerdict
               /\ run'[s].at = "testing" /\ unjudged'[s]
    BY <1>1, <1>2, <1>4
  <1>5. ASSUME NEW s \in CheckSessions, s \notin ss
        PROVE  /\ verdict'[s] = ver[s] /\ stored'[s] = sto[s] /\ run'[s] = rn[s]
               /\ unjudged'[s] <=> unj[s]
    BY <1>1, <1>5
  <1>6. NoVerdictComesBack'
    BY <1>4, <1>5 DEF Fits, NoVerdictComesBack
  <1>7. RunsOwe'
    BY <1>4, <1>5 DEF Fits, RunsOwe
  <1>8. Pins'
    BY <1>2, <1>4, <1>5 DEF Fits, Pins, Says
  <1> QED BY <1>3, <1>4, <1>5, <1>6, <1>7, <1>8 DEF Started

\* A pump starts at most one run, and only with the slot free.
LEMMA PumpFacts ==
  ASSUME NEW on, NEW o, NEW sl, NEW skip, NEW ver, NEW sto, NEW rn, NEW unj,
         Pump(on, o, sl, skip, ver, sto, rn, unj)
  PROVE  \E ss \in SUBSET CheckSessions :
           /\ Starts(ss, ver, sto, rn, unj) /\ slot' = sl \cup ss
           /\ ss # {} => sl = {}
           /\ \A s, t \in ss : s = t
  <1> DEFINE can == {i \in DOMAIN o : ~Skips(o[i], skip) /\ ~Refused(o[i]) /\ ~Busy(o[i], ver)}
             free == on /\ SlotFree(sl)
             first == IF free /\ can # {} THEN CHOOSE i \in can : \A j \in can : i <= j ELSE Len(o) + 1
             picked == {s \in CheckSessions : free /\ \E i \in can : i = first /\ o[i] = s}
  <1>1. slot' = sl \cup picked /\ Starts(picked, ver, sto, rn, unj)
    BY DEF Pump
  <1>2. picked # {} => sl = {}
    BY DEF SlotFree
  <1> HIDE DEF can, free, first
  <1>3. \A s, t \in picked : s = t
    OBVIOUS
  <1>4. picked \in SUBSET CheckSessions
    OBVIOUS
  <1> HIDE DEF picked
  <1> QED BY <1>1, <1>2, <1>3, <1>4

-----------------------------------------------------------------------------
(* The steps.                                                               *)

\* The maps as they stand before a step.
LEMMA AsTheyStand == ChecksIInv => Fits(verdict, stored, run, unjudged)
  BY DEF ChecksIInv, ChecksTyped, NoVerdictComesBack, RunsOwe, Pins, Fits

LEMMA CheckOK == ASSUME ChecksIInv, NEW s \in CheckSessions, Check(s) PROVE ChecksIInv'
  <1>1. /\ Starts({s}, verdict, stored, run, unjudged)
        /\ UNCHANGED <<counts, scan, work, touched, judged, owed, slot, asking, open>>
    BY DEF Check, gitVars, autoVars
  <1>2. /\ ChecksTyped' /\ NoVerdictComesBack' /\ RunsOwe' /\ Pins'
        /\ \A t \in CheckSessions : run'[t].at # "none" \/ run'[t] = run[t]
    <2>1. Fits(verdict, stored, run, unjudged) /\ {s} \in SUBSET CheckSessions
      BY AsTheyStand
    <2>2. counts' \in [CheckSessions -> Marks] /\ judged' = judged
      BY <1>1 DEF ChecksIInv, ChecksTyped
    <2>3. Started({s}, run)
      BY <1>1, <2>1, <2>2, StartsOK
    <2> QED BY <1>1, <2>3 DEF ChecksIInv, ChecksTyped, Started
  <1>3. OneAutoRun'
    BY <1>1, <1>2 DEF ChecksIInv, ChecksTyped, OneAutoRun
  <1> QED BY <1>2, <1>3 DEF ChecksIInv

LEMMA TurnEndsOK ==
  ASSUME ChecksIInv, NEW s \in CheckSessions, NEW changed \in BOOLEAN, NEW asks \in BOOLEAN, NEW on \in BOOLEAN,
         TurnEnds(s, changed, asks, on)
  PROVE  ChecksIInv'
  <1>1. PICK ss \in SUBSET CheckSessions :
          /\ Starts(ss, verdict, stored, run, unjudged) /\ slot' = slot \cup ss
          /\ ss # {} => slot = {}
          /\ \A t, u \in ss : t = u
    BY PumpFacts DEF TurnEnds
  <1>2. /\ asking' = [asking EXCEPT ![s] = asks]
        /\ UNCHANGED <<counts, scan, work, touched, judged, open>>
    BY DEF TurnEnds, gitVars
  <1>3. /\ ChecksTyped' /\ NoVerdictComesBack' /\ RunsOwe' /\ Pins'
        /\ \A t \in CheckSessions : run'[t].at # "none" \/ (t \notin ss /\ run'[t] = run[t])
    <2>1. Fits(verdict, stored, run, unjudged)
      BY AsTheyStand
    <2>2. counts' \in [CheckSessions -> Marks] /\ judged' = judged
      BY <1>2 DEF ChecksIInv, ChecksTyped
    <2>3. Started(ss, run)
      BY <1>1, <2>1, <2>2, StartsOK
    <2> QED BY <1>1, <1>2, <2>3 DEF ChecksIInv, ChecksTyped, Started
  <1>4. OneAutoRun'
    BY <1>1, <1>3 DEF ChecksIInv, ChecksTyped, OneAutoRun
  <1> QED BY <1>3, <1>4 DEF ChecksIInv

LEMMA FinishesOK ==
  ASSUME ChecksIInv, NEW s \in CheckSessions, NEW on \in BOOLEAN, Finishes(s, on)
  PROVE  ChecksIInv'
  <1> DEFINE done == [state |-> IF run[s].ok THEN "pass" ELSE "fail", mark |-> MarkAtFinish(s)]
             ver == [verdict EXCEPT ![s] = done]
             sto == [stored EXCEPT ![s] = IF open[s] = "gone" THEN NoVerdict ELSE done]
             rn == [run EXCEPT ![s] = NoRun]
             unj == [unjudged EXCEPT ![s] = FALSE]
  <1>1. /\ run[s].at = "read" /\ counts' = [counts EXCEPT ![s] = run[s].saw]
        /\ touched' = [touched EXCEPT ![s] = FALSE]
        /\ UNCHANGED <<scan, work, judged, asking, open>>
        /\ Pump(on, owed, slot \ {s}, "nobody", ver, sto, rn, unj)
    BY DEF Finishes, SlotAfterFinish
  <1>2. /\ done \in [state: {"pass", "fail"}, mark: Marks]
        /\ judged[s] # Unknown => done.mark = judged[s]
    BY <1>1 DEF ChecksIInv, ChecksTyped, RunsOwe, MarkAtFinish
  <1>3. NoVerdict \in [state: {"none"}, mark: Marks] /\ NoVerdict.state = "none"
    BY DEF NoVerdict, Marks
  <1>4. NoRun \in [at: {"none"}, ok: BOOLEAN, saw: Marks] /\ NoRun.at = "none"
    BY DEF NoRun, Marks
  <1> HIDE DEF done
  <1>5. /\ ver \in [CheckSessions -> [state: {"none", "running", "pass", "fail"}, mark: Marks]]
        /\ sto \in [CheckSessions -> [state: {"none", "pass", "fail"}, mark: Marks]]
        /\ rn \in [CheckSessions -> [at: {"none", "testing", "read"}, ok: BOOLEAN, saw: Marks]]
        /\ unj \in [CheckSessions -> BOOLEAN]
    BY <1>2, <1>3, <1>4 DEF ChecksIInv, ChecksTyped
  <1>6. /\ ver[s] = done /\ sto[s] \in {NoVerdict, done} /\ rn[s] = NoRun /\ ~unj[s]
        /\ \A t \in CheckSessions \ {s} :
              ver[t] = verdict[t] /\ sto[t] = stored[t] /\ rn[t] = run[t] /\ unj[t] = unjudged[t]
    BY DEF ChecksIInv, ChecksTyped
  <1> HIDE DEF ver, sto, rn, unj
  <1>7. \A t \in CheckSessions :
           /\ unj[t] => sto[t] = NoVerdict /\ ver[t].state \in {"none", "running"}
           /\ rn[t].at # "none" => unj[t]
           /\ rn[t].at = "read" => judged[t] = rn[t].saw
           /\ judged[t] # Unknown =>
                /\ Says(ver[t]) => ver[t].mark = judged[t]
                /\ Says(sto[t]) => sto[t].mark = judged[t]
    <2>1. ASSUME NEW t \in CheckSessions, t # s
          PROVE  /\ unj[t] => sto[t] = NoVerdict /\ ver[t].state \in {"none", "running"}
                 /\ rn[t].at # "none" => unj[t]
                 /\ rn[t].at = "read" => judged[t] = rn[t].saw
                 /\ judged[t] # Unknown =>
                      /\ Says(ver[t]) => ver[t].mark = judged[t]
                      /\ Says(sto[t]) => sto[t].mark = judged[t]
      BY <1>6, <2>1, AsTheyStand DEF Fits
    <2> QED BY <1>2, <1>3, <1>4, <1>6, <2>1 DEF Says
  <1>12. Fits(ver, sto, rn, unj)
    BY <1>5, <1>7 DEF Fits
  <1>8. PICK ss \in SUBSET CheckSessions :
          /\ Starts(ss, ver, sto, rn, unj) /\ slot' = (slot \ {s}) \cup ss
          /\ ss # {} => slot \ {s} = {}
          /\ \A t, u \in ss : t = u
    BY <1>1, PumpFacts
  <1>9. counts' \in [CheckSessions -> Marks] /\ touched' \in [CheckSessions -> BOOLEAN]
    BY <1>1 DEF ChecksIInv, ChecksTyped
  <1>10. /\ ChecksTyped' /\ NoVerdictComesBack' /\ RunsOwe' /\ Pins'
         /\ \A t \in CheckSessions : run'[t].at # "none" \/ (t \notin ss /\ run'[t] = rn[t])
    <2>1. judged' = judged
      BY <1>1
    <2>2. Started(ss, rn)
      BY <1>8, <1>9, <1>12, <2>1, StartsOK
    <2> QED BY <1>1, <1>8, <1>9, <2>2 DEF ChecksIInv, ChecksTyped, Started
  <1>11. OneAutoRun'
    <2>1. slot \subseteq CheckSessions /\ \A t \in slot : run[t].at # "none" /\ \A u \in slot : u = t
      BY DEF ChecksIInv, ChecksTyped, OneAutoRun
    <2>2. \A t \in slot' : run'[t].at # "none"
      BY <1>6, <1>8, <1>10, <2>1
    <2>3. \A t, u \in slot' : u = t
      BY <1>8, <2>1
    <2> QED BY <2>2, <2>3 DEF OneAutoRun
  <1> QED BY <1>10, <1>11 DEF ChecksIInv

LEMMA TestEndsOK ==
  ASSUME ChecksIInv, NEW s \in CheckSessions, NEW ok \in BOOLEAN, NEW readable \in BOOLEAN,
         TestEnds(s, ok, readable)
  PROVE  ChecksIInv'
  <1> DEFINE saw == IF readable THEN work[s] ELSE Unknown
  <1>1. /\ run[s].at = "testing" /\ run' = [run EXCEPT ![s] = [at |-> "read", ok |-> ok, saw |-> saw]]
        /\ judged' = [judged EXCEPT ![s] = saw]
        /\ UNCHANGED <<verdict, stored, unjudged, counts, scan, work, touched, owed, slot, asking, open>>
    BY DEF TestEnds, autoVars
  <1>2. saw \in Marks
    BY DEF ChecksIInv, ChecksTyped, Marks
  <1> HIDE DEF saw
  <1>3. ChecksTyped'
    BY <1>1, <1>2 DEF ChecksIInv, ChecksTyped
  <1>4. NoVerdictComesBack' /\ RunsOwe'
    BY <1>1 DEF ChecksIInv, ChecksTyped, NoVerdictComesBack, RunsOwe
  <1>5. ~Says(verdict[s]) /\ ~Says(stored[s])
    BY <1>1, MarkFacts DEF ChecksIInv, RunsOwe, NoVerdictComesBack, Says
  <1>6. Pins'
    BY <1>1, <1>5 DEF ChecksIInv, ChecksTyped, Pins
  <1>7. OneAutoRun'
    BY <1>1 DEF ChecksIInv, ChecksTyped, OneAutoRun
  <1> QED BY <1>3, <1>4, <1>6, <1>7 DEF ChecksIInv

\* A reader of the verdict pins one that is not pinned; a judged one is.
LEMMA LookOK == ASSUME ChecksIInv, NEW s \in CheckSessions, Look(s) PROVE ChecksIInv'
  <1>1. /\ verdict' = [verdict EXCEPT ![s].mark = Pinned(s)]
        /\ UNCHANGED <<stored, run, unjudged, counts, scan, work, touched, judged, owed, slot, asking, open>>
    BY DEF Look, gitVars, autoVars
  <1>2. Pinned(s) \in Marks /\ (verdict[s].mark # Unknown => Pinned(s) = verdict[s].mark)
    BY DEF ChecksIInv, ChecksTyped, Pinned
  <1>3. /\ verdict' \in [CheckSessions -> [state: {"none", "running", "pass", "fail"}, mark: Marks]]
        /\ verdict'[s].state = verdict[s].state /\ verdict'[s].mark = Pinned(s)
        /\ \A t \in CheckSessions \ {s} : verdict'[t] = verdict[t]
    <2> DEFINE v == [verdict[s] EXCEPT !.mark = Pinned(s)]
    <2>1. verdict \in [CheckSessions -> [state: {"none", "running", "pass", "fail"}, mark: Marks]]
          /\ verdict' = [verdict EXCEPT ![s] = v]
      BY <1>1 DEF ChecksIInv, ChecksTyped
    <2>2. v \in [state: {"none", "running", "pass", "fail"}, mark: Marks] /\ v.state = verdict[s].state /\ v.mark = Pinned(s)
      BY <2>1, <1>2
    <2> HIDE DEF v
    <2> QED BY <2>1, <2>2
  <1>4. ChecksTyped' /\ OneAutoRun' /\ RunsOwe'
    BY <1>1, <1>3 DEF ChecksIInv, ChecksTyped, OneAutoRun, RunsOwe
  <1>5. NoVerdictComesBack'
    BY <1>1, <1>3 DEF ChecksIInv, NoVerdictComesBack
  <1>6. Pins'
    BY <1>1, <1>2, <1>3 DEF ChecksIInv, Pins, Says
  <1> QED BY <1>4, <1>5, <1>6 DEF ChecksIInv

\* git's counts, edits, the terminal and the row do not touch what a run owes.
LEMMA AroundOK ==
  ASSUME ChecksIInv, NEW s \in CheckSessions,
         Scan(s) \/ ScanEnds(s) \/ Edit(s) \/ Activity(s) \/ SessionEnds(s)
  PROVE  ChecksIInv'
  <1>1. UNCHANGED <<verdict, stored, run, unjudged, judged, owed, slot, asking>>
    BY DEF Scan, ScanEnds, Edit, Activity, SessionEnds, checkVars, gitVars, autoVars
  <1>2. /\ scan' = Idle \/ scan' \in [of: CheckSessions, saw: Marks]
        /\ counts' \in [CheckSessions -> Marks] /\ work' \in [CheckSessions -> 0..MaxEdits]
        /\ touched' \in [CheckSessions -> BOOLEAN] /\ open' \in [CheckSessions -> {"live", "ended", "gone"}]
    <2>1. CASE Scan(s)
      BY <2>1 DEF Scan, checkVars, autoVars, ChecksIInv, ChecksTyped, Marks
    <2>2. CASE ScanEnds(s)
      <3>1. scan.saw \in Marks
        BY <2>2 DEF ScanEnds, ChecksIInv, ChecksTyped, Idle, Marks
      <3> QED BY <2>2, <3>1 DEF ScanEnds, checkVars, autoVars, ChecksIInv, ChecksTyped
    <2>3. CASE Edit(s)
      <3>1. work' = [work EXCEPT ![s] = @ + 1] /\ work[s] < MaxEdits /\ UNCHANGED <<counts, scan, touched, open>>
        BY <2>3 DEF Edit
      <3>2. work[s] + 1 \in 0..MaxEdits
        BY <3>1, ChecksAssumption DEF ChecksIInv, ChecksTyped
      <3> QED BY <3>1, <3>2 DEF ChecksIInv, ChecksTyped
    <2>4. CASE Activity(s) \/ SessionEnds(s)
      BY <2>4 DEF Activity, SessionEnds, gitVars, ChecksIInv, ChecksTyped
    <2> QED BY <2>1, <2>2, <2>3, <2>4
  <1>3. ChecksTyped'
    BY <1>1, <1>2 DEF ChecksIInv, ChecksTyped
  <1> QED BY <1>1, <1>3 DEF ChecksIInv, NoVerdictComesBack, RunsOwe, Pins, OneAutoRun

LEMMA PurgeOK == ASSUME ChecksIInv, NEW s \in CheckSessions, Purge(s) PROVE ChecksIInv'
  <1>1. /\ open' = [open EXCEPT ![s] = "gone"] /\ stored' = [stored EXCEPT ![s] = NoVerdict]
        /\ UNCHANGED <<verdict, run, unjudged, counts, scan, work, touched, judged, owed, slot, asking>>
    BY DEF Purge, gitVars, autoVars
  <1>2. NoVerdict \in [state: {"none", "pass", "fail"}, mark: Marks] /\ ~Says(NoVerdict)
    BY DEF NoVerdict, Marks, Says
  <1>3. ChecksTyped'
    BY <1>1, <1>2 DEF ChecksIInv, ChecksTyped
  <1>4. \A t \in CheckSessions : stored'[t] \in {stored[t], NoVerdict}
    BY <1>1 DEF ChecksIInv, ChecksTyped
  <1> QED BY <1>1, <1>2, <1>3, <1>4 DEF ChecksIInv, NoVerdictComesBack, RunsOwe, Pins, OneAutoRun

\* A restart loads what was kept, and nothing was kept of a session unjudged.
LEMMA RestartOK == ASSUME ChecksIInv, RestartChecks PROVE ChecksIInv'
  <1>1. /\ verdict' = stored /\ run' = [s \in CheckSessions |-> NoRun]
        /\ counts' = [s \in CheckSessions |-> Unknown] /\ scan' = Idle
        /\ touched' = [s \in CheckSessions |-> FALSE] /\ slot' = {}
        /\ UNCHANGED <<stored, unjudged, work, judged, open, asking>>
    BY DEF RestartChecks
  <1>2. NoRun \in [at: {"none", "testing", "read"}, ok: BOOLEAN, saw: Marks] /\ NoRun.at = "none" /\ Unknown \in Marks
    BY DEF NoRun, Marks
  <1>3. ChecksTyped'
    BY <1>1, <1>2 DEF ChecksIInv, ChecksTyped
  <1>4. NoVerdictComesBack' /\ Pins'
    BY <1>1, MarkFacts DEF ChecksIInv, NoVerdictComesBack, Pins
  <1>5. RunsOwe' /\ OneAutoRun'
    BY <1>1, <1>2 DEF RunsOwe, OneAutoRun
  <1> QED BY <1>3, <1>4, <1>5 DEF ChecksIInv

LEMMA ChecksStepOK == ChecksIInv /\ [ChecksNext]_checksVars => ChecksIInv'
  <1> SUFFICES ASSUME ChecksIInv, [ChecksNext]_checksVars PROVE ChecksIInv'
    OBVIOUS
  <1>1. CASE UNCHANGED checksVars
    BY <1>1 DEF checksVars, checkVars, gitVars, autoVars, ChecksIInv, ChecksTyped, NoVerdictComesBack,
                RunsOwe, Pins, OneAutoRun
  <1>2. CASE \E s \in CheckSessions : Check(s) \/ RunStep(s) \/ Look(s)
    BY <1>2, CheckOK, TestEndsOK, FinishesOK, LookOK DEF RunStep
  <1>3. CASE \E s \in CheckSessions, changed, asks, on \in BOOLEAN : TurnEnds(s, changed, asks, on)
    BY <1>3, TurnEndsOK
  <1>4. CASE \E s \in CheckSessions : Scan(s) \/ ScanEnds(s) \/ Edit(s) \/ Activity(s) \/ SessionEnds(s)
    BY <1>4, AroundOK
  <1>5. CASE RestartChecks \/ \E s \in CheckSessions : Purge(s)
    BY <1>5, RestartOK, PurgeOK
  <1> QED BY <1>1, <1>2, <1>3, <1>4, <1>5 DEF ChecksNext

\* A run in flight owes its session a judgement, and every verdict of a judged session
\* is pinned to what git saw at that run's end: the inductive invariant (checks.ts).
THEOREM ChecksHold == ChecksSpec => []ChecksIInv
  BY ChecksInitOK, ChecksStepOK, PTL DEF ChecksSpec

\* No verdict is shown, kept across a restart or let through to a land that is
\* not the last run's own, whatever ends, is purged or dies in between.
THEOREM VerdictsHold == ChecksSpec => []VerdictsAreTrue
  <1>1. ASSUME ChecksIInv, NEW s \in CheckSessions, GateOpen(s), counts[s] = work[s], judged[s] # Unknown
        PROVE  work[s] = judged[s]
    <2>1. Says(verdict[s]) /\ Pinned(s) = counts[s]
      BY <1>1 DEF GateOpen, Stale, Says
    <2> QED BY <1>1, <2>1 DEF ChecksIInv, Pins, Pinned
  <1>2. ChecksIInv => VerdictsAreTrue
    BY <1>1 DEF ChecksIInv, VerdictsAreTrue, PassedWorkIsUnmoved
  <1> QED BY <1>2, ChecksHold, PTL

\* One automatic run at a time in the daemon, and the slot is never lost.
THEOREM SlotIsKept == ChecksSpec => []OneAutoRun
  <1>1. ChecksIInv => OneAutoRun
    BY DEF ChecksIInv
  <1> QED BY <1>1, ChecksHold, PTL

-----------------------------------------------------------------------------
(***************************************************************************)
(* Hooks.  A hash in the workspace's row is always one a person agreed to  *)
(* (TrustWasGiven), whatever the repository's file says by now.  A session *)
(* that can be started again has been typed one setup less than it may be, *)
(* as long as it is not marked (OneLeft); the code of a marked one is that *)
(* of its last setup, heard or not yet ended (LastIsKept).                 *)
(***************************************************************************)
HooksTyped ==
  /\ trust \in [test: HookLines \cup {NotSet}, hooks: HookLines \cup {NotSet}]
  /\ configFile \in Config /\ config \in Config
  /\ setupOf \in [HookSessions -> [marked: BOOLEAN, code: {NotHeard, 0, 1}]]
  /\ shellOf \in [HookSessions -> [on: BOOLEAN, setups: Int]]
  /\ place \in [HookSessions -> {"own", "share", "gone"}]
  /\ askedAgain \in [HookSessions -> Nat] /\ typed \in [HookSessions -> Nat]
  /\ lastCode \in [HookSessions -> {NotHeard, 0, 1}]

TrustWasGiven ==
  /\ trust.test # NotSet => <<"test", trust.test>> \in agreed
  /\ trust.hooks # NotSet => <<"hooks", trust.hooks>> \in agreed
  /\ uninvited = {}

OneLeft ==
  \A s \in HookSessions :
    /\ typed[s] <= 1 + askedAgain[s]
    /\ place[s] # "gone" /\ ~setupOf[s].marked => typed[s] <= askedAgain[s]

LastIsKept ==
  \A s \in HookSessions \ lost : setupOf[s].marked => setupOf[s].code = lastCode[s]

HooksIInv == HooksTyped /\ TrustWasGiven /\ OneLeft /\ LastIsKept

LEMMA HookRecords ==
  /\ NotMarked \in [marked: BOOLEAN, code: {NotHeard, 0, 1}] /\ ~NotMarked.marked
  /\ NoShellOpen \in [on: BOOLEAN, setups: Int]
  /\ Nothing \in [test: HookLines \cup {NotSet}, hooks: HookLines \cup {NotSet}]
  /\ Nothing.test = NotSet /\ Nothing.hooks = NotSet
  BY DEF NotMarked, NoShellOpen, Nothing

LEMMA HooksInitOK == HooksInit => HooksIInv
  <1> SUFFICES ASSUME HooksInit PROVE HooksIInv
    OBVIOUS
  <1>1. HooksTyped
    BY HookRecords DEF HooksInit, HooksTyped
  <1>2. TrustWasGiven
    BY HookRecords DEF HooksInit, TrustWasGiven
  <1>3. OneLeft /\ LastIsKept
    BY HookRecords DEF HooksInit, OneLeft, LastIsKept
  <1> QED BY <1>1, <1>2, <1>3 DEF HooksIInv

\* Trust is given or taken back; the file changes; the daemon reads it anew.
LEMMA TrustStepOK ==
  ASSUME HooksIInv, TrustHooks \/ TrustTestCommand \/ Untrust \/ EditConfig \/ RestartWithConfig
  PROVE  HooksIInv'
  <1>1. CASE TrustHooks \/ TrustTestCommand
    <2>1. UNCHANGED <<configFile, config, setupOf, shellOf, place, askedAgain, typed, lastCode, lost, uninvited>>
      BY <1>1 DEF TrustHooks, TrustTestCommand
    <2>2. /\ trust' \in [test: HookLines \cup {NotSet}, hooks: HookLines \cup {NotSet}]
          /\ agreed \subseteq agreed'
          /\ trust'.test # NotSet => trust'.test = trust.test \/ <<"test", trust'.test>> \in agreed'
          /\ trust'.hooks # NotSet => trust'.hooks = trust.hooks \/ <<"hooks", trust'.hooks>> \in agreed'
      BY <1>1 DEF TrustHooks, TrustTestCommand, HooksIInv, HooksTyped, Config
    <2>3. HooksTyped' /\ OneLeft' /\ LastIsKept'
      BY <2>1, <2>2 DEF HooksIInv, HooksTyped, OneLeft, LastIsKept
    <2>4. TrustWasGiven'
      BY <2>1, <2>2 DEF HooksIInv, TrustWasGiven
    <2> QED BY <2>3, <2>4 DEF HooksIInv
  <1>2. CASE Untrust
    <2>1. trust' = Nothing
          /\ UNCHANGED <<configFile, config, setupOf, shellOf, place, askedAgain, typed, lastCode, lost, uninvited>>
      BY <1>2 DEF Untrust
    <2>2. HooksTyped' /\ OneLeft' /\ LastIsKept'
      BY <2>1, HookRecords DEF HooksIInv, HooksTyped, OneLeft, LastIsKept
    <2>3. TrustWasGiven'
      BY <2>1, HookRecords DEF HooksIInv, TrustWasGiven
    <2> QED BY <2>2, <2>3 DEF HooksIInv
  <1>3. CASE EditConfig \/ RestartWithConfig
    <2>1. /\ configFile' \in Config /\ config' \in Config
          /\ shellOf' \in [HookSessions -> [on: BOOLEAN, setups: Int]]
          /\ UNCHANGED <<trust, setupOf, place, agreed, askedAgain, typed, lastCode, lost, uninvited>>
      BY <1>3, HookRecords DEF EditConfig, RestartWithConfig, HooksIInv, HooksTyped
    <2>2. HooksTyped' /\ OneLeft' /\ LastIsKept'
      BY <2>1 DEF HooksIInv, HooksTyped, OneLeft, LastIsKept
    <2>3. TrustWasGiven'
      BY <2>1 DEF HooksIInv, TrustWasGiven
    <2> QED BY <2>2, <2>3 DEF HooksIInv
  <1> QED BY <1>1, <1>2, <1>3

\* A setup is typed with the hooks trusted as they are: nobody is uninvited.
LEMMA TypesFacts ==
  ASSUME HooksIInv, NEW s \in HookSessions, Types(s), HooksTrusted
  PROVE  /\ setupOf' \in [HookSessions -> [marked: BOOLEAN, code: {NotHeard, 0, 1}]]
         /\ shellOf' \in [HookSessions -> [on: BOOLEAN, setups: Int]]
         /\ typed' \in [HookSessions -> Nat] /\ typed'[s] = typed[s] + 1
         /\ lastCode' \in [HookSessions -> {NotHeard, 0, 1}]
         /\ setupOf'[s].marked /\ setupOf'[s].code = lastCode'[s]
         /\ lost' = lost \ {s} /\ uninvited' = uninvited
         /\ \A t \in HookSessions \ {s} :
               setupOf'[t] = setupOf[t] /\ typed'[t] = typed[t] /\ lastCode'[t] = lastCode[t]
  <1> DEFINE mark == [marked |-> TRUE, code |-> NotHeard]
             shell == [on |-> TRUE, setups |-> shellOf[s].setups + 1]
  <1>1. /\ setupOf' = [setupOf EXCEPT ![s] = mark] /\ shellOf' = [shellOf EXCEPT ![s] = shell]
        /\ typed' = [typed EXCEPT ![s] = typed[s] + 1]
        /\ lastCode' = [lastCode EXCEPT ![s] = NotHeard] /\ lost' = lost \ {s}
        /\ uninvited' = IF <<"hooks", config.hooks>> \in agreed THEN uninvited ELSE uninvited \cup {s}
    BY DEF Types, HooksIInv, HooksTyped
  <1>2. mark \in [marked: BOOLEAN, code: {NotHeard, 0, 1}] /\ mark.marked /\ mark.code = NotHeard
    OBVIOUS
  <1>3. shell \in [on: BOOLEAN, setups: Int]
    BY DEF HooksIInv, HooksTyped
  <1>4. <<"hooks", config.hooks>> \in agreed
    BY DEF HooksTrusted, HooksIInv, TrustWasGiven
  <1> HIDE DEF mark, shell
  <1> QED BY <1>1, <1>2, <1>3, <1>4 DEF HooksIInv, HooksTyped

\* A start types the setup of a session that is not marked, or nothing.
LEMMA StartTypesOK == ASSUME HooksIInv, NEW s \in HookSessions, StartTypes(s) PROVE HooksIInv'
  <1>1. place[s] # "gone" /\ UNCHANGED <<configFile, config, trust, place, agreed, askedAgain>>
    BY DEF StartTypes
  <1>2. CASE Decides(s)
    <2>1. Types(s) /\ HooksTrusted /\ ~setupOf[s].marked
      BY <1>2 DEF StartTypes, Decides
    <2>2. typed[s] <= askedAgain[s] /\ typed[s] \in Nat /\ askedAgain[s] \in Nat
      BY <1>1, <2>1 DEF HooksIInv, HooksTyped, OneLeft
    <2>3. HooksTyped'
      BY <1>1, <2>1, TypesFacts DEF HooksIInv, HooksTyped
    <2>4. TrustWasGiven'
      BY <1>1, <2>1, TypesFacts DEF HooksIInv, TrustWasGiven
    <2>5. OneLeft'
      <3>1. typed'[s] <= 1 + askedAgain'[s] /\ setupOf'[s].marked
        BY <1>1, <2>1, <2>2, TypesFacts
      <3>2. ASSUME NEW t \in HookSessions, t # s
            PROVE  /\ typed'[t] <= 1 + askedAgain'[t]
                   /\ place'[t] # "gone" /\ ~setupOf'[t].marked => typed'[t] <= askedAgain'[t]
        BY <1>1, <2>1, <3>2, TypesFacts DEF HooksIInv, OneLeft
      <3> QED BY <3>1, <3>2 DEF OneLeft
    <2>6. LastIsKept'
      BY <1>1, <2>1, TypesFacts DEF HooksIInv, LastIsKept
    <2> QED BY <2>3, <2>4, <2>5, <2>6 DEF HooksIInv
  <1>3. CASE ~Decides(s)
    <2>1. shellOf' = [shellOf EXCEPT ![s].on = TRUE] /\ UNCHANGED <<setupOf, typed, lastCode, lost, uninvited>>
      BY <1>3 DEF StartTypes
    <2>2. HooksTyped'
      BY <1>1, <2>1 DEF HooksIInv, HooksTyped
    <2> QED BY <1>1, <2>1, <2>2 DEF HooksIInv, TrustWasGiven, OneLeft, LastIsKept
  <1> QED BY <1>2, <1>3

\* A person asks for it again, which allows one more.
LEMMA SetupAgainOK == ASSUME HooksIInv, NEW s \in HookSessions, SetupAgain(s) PROVE HooksIInv'
  <1>1. /\ place[s] = "own" /\ HooksTrusted
        /\ askedAgain' = [askedAgain EXCEPT ![s] = @ + 1]
        /\ UNCHANGED <<configFile, config, trust, place, agreed>>
    BY DEF SetupAgain
  <1>2. /\ askedAgain' \in [HookSessions -> Nat] /\ askedAgain'[s] = askedAgain[s] + 1
        /\ \A t \in HookSessions \ {s} : askedAgain'[t] = askedAgain[t]
    BY <1>1 DEF HooksIInv, HooksTyped
  <1>3. /\ typed[s] <= 1 + askedAgain[s] /\ typed[s] \in Nat /\ askedAgain[s] \in Nat
    BY DEF HooksIInv, HooksTyped, OneLeft
  <1>4. CASE shellOf[s].on
    <2>1. Types(s)
      BY <1>4 DEF SetupAgain
    <2>2. HooksTyped'
      BY <1>1, <1>2, <2>1, TypesFacts DEF HooksIInv, HooksTyped
    <2>3. TrustWasGiven'
      BY <1>1, <2>1, TypesFacts DEF HooksIInv, TrustWasGiven
    <2>4. OneLeft'
      <3>1. typed'[s] <= 1 + askedAgain'[s] /\ setupOf'[s].marked
        BY <1>1, <1>2, <1>3, <2>1, TypesFacts
      <3>2. ASSUME NEW t \in HookSessions, t # s
            PROVE  /\ typed'[t] <= 1 + askedAgain'[t]
                   /\ place'[t] # "gone" /\ ~setupOf'[t].marked => typed'[t] <= askedAgain'[t]
        BY <1>1, <1>2, <2>1, <3>2, TypesFacts DEF HooksIInv, OneLeft
      <3> QED BY <3>1, <3>2 DEF OneLeft
    <2>5. LastIsKept'
      BY <1>1, <2>1, TypesFacts DEF HooksIInv, LastIsKept
    <2> QED BY <2>2, <2>3, <2>4, <2>5 DEF HooksIInv
  <1>5. CASE ~shellOf[s].on
    <2>1. setupOf' = [setupOf EXCEPT ![s] = NotMarked] /\ UNCHANGED <<shellOf, typed, lastCode, lost, uninvited>>
      BY <1>5 DEF SetupAgain
    <2>2. /\ setupOf' \in [HookSessions -> [marked: BOOLEAN, code: {NotHeard, 0, 1}]]
          /\ ~setupOf'[s].marked /\ \A t \in HookSessions \ {s} : setupOf'[t] = setupOf[t]
      BY <2>1, HookRecords DEF HooksIInv, HooksTyped
    <2>3. HooksTyped' /\ TrustWasGiven'
      BY <1>1, <1>2, <2>1, <2>2 DEF HooksIInv, HooksTyped, TrustWasGiven
    <2>4. OneLeft'
      <3>1. typed'[s] <= 1 + askedAgain'[s] /\ typed'[s] <= askedAgain'[s]
        BY <1>2, <1>3, <2>1
      <3>2. ASSUME NEW t \in HookSessions, t # s
            PROVE  /\ typed'[t] <= 1 + askedAgain'[t]
                   /\ place'[t] # "gone" /\ ~setupOf'[t].marked => typed'[t] <= askedAgain'[t]
        BY <1>1, <1>2, <2>1, <2>2, <3>2 DEF HooksIInv, OneLeft
      <3> QED BY <3>1, <3>2 DEF OneLeft
    <2>5. LastIsKept'
      BY <2>1, <2>2 DEF HooksIInv, LastIsKept
    <2> QED BY <2>3, <2>4, <2>5 DEF HooksIInv
  <1> QED BY <1>4, <1>5

\* A setup ends; what is not heard of it leaves the session lost.
LEMMA SetupEndsOK == ASSUME HooksIInv, NEW s \in HookSessions, SetupEnds(s) PROVE HooksIInv'
  <1>1. PICK code \in {0, 1}, swamped \in BOOLEAN :
          /\ IF swamped THEN UNCHANGED setupOf ELSE RecordExitCode(s, code)
          /\ lost' = IF swamped THEN lost \cup {s} ELSE lost \ {s}
          /\ lastCode' = [lastCode EXCEPT ![s] = code]
    BY DEF SetupEnds
  <1>2. /\ shellOf' = [shellOf EXCEPT ![s].setups = @ - 1]
        /\ UNCHANGED <<configFile, config, trust, place, agreed, askedAgain, typed, uninvited>>
    BY DEF SetupEnds
  <1>3. /\ setupOf' \in [HookSessions -> [marked: BOOLEAN, code: {NotHeard, 0, 1}]]
        /\ \A t \in HookSessions : setupOf'[t].marked = setupOf[t].marked
        /\ \A t \in HookSessions \ {s} : setupOf'[t] = setupOf[t]
        /\ ~swamped /\ setupOf[s].marked => setupOf'[s].code = code
    <2>1. setupOf \in [HookSessions -> [marked: BOOLEAN, code: {NotHeard, 0, 1}]]
      BY DEF HooksIInv, HooksTyped
    <2>2. CASE setupOf' = setupOf /\ (swamped \/ ~setupOf[s].marked)
      BY <2>1, <2>2
    <2>3. CASE setupOf' = [setupOf EXCEPT ![s].code = code]
      <3>1. setupOf'[s] = [setupOf[s] EXCEPT !.code = code]
        BY <2>1, <2>3
      <3>2. \A t \in HookSessions \ {s} : setupOf'[t] = setupOf[t]
        BY <2>1, <2>3
      <3>3. setupOf' \in [HookSessions -> [marked: BOOLEAN, code: {NotHeard, 0, 1}]]
        BY <2>1, <2>3
      <3>4. setupOf'[s].marked = setupOf[s].marked /\ setupOf'[s].code = code
        BY <2>1, <3>1
      <3> QED BY <3>2, <3>3, <3>4
    <2>4. \/ setupOf' = setupOf /\ (swamped \/ ~setupOf[s].marked)
          \/ setupOf' = [setupOf EXCEPT ![s].code = code]
      BY <1>1, Zenon DEF RecordExitCode
    <2> QED BY <2>2, <2>3, <2>4
  <1>4. /\ lastCode' \in [HookSessions -> {NotHeard, 0, 1}] /\ lastCode'[s] = code
        /\ \A t \in HookSessions \ {s} : lastCode'[t] = lastCode[t]
    BY <1>1 DEF HooksIInv, HooksTyped
  <1>5. shellOf' \in [HookSessions -> [on: BOOLEAN, setups: Int]]
    BY <1>2 DEF HooksIInv, HooksTyped
  <1>6. HooksTyped' /\ TrustWasGiven'
    BY <1>2, <1>3, <1>4, <1>5 DEF HooksIInv, HooksTyped, TrustWasGiven
  <1>7. OneLeft'
    BY <1>2, <1>3 DEF HooksIInv, OneLeft
  <1>8. LastIsKept'
    BY <1>1, <1>3, <1>4 DEF HooksIInv, LastIsKept
  <1> QED BY <1>6, <1>7, <1>8 DEF HooksIInv

\* A shell ends, or a session goes with its mark: it is not started again.
LEMMA HookEndsOK ==
  ASSUME HooksIInv, NEW s \in HookSessions, HookShellEnds(s) \/ TearsDown(s)
  PROVE  HooksIInv'
  <1>1. CASE HookShellEnds(s)
    <2>1. /\ shellOf' \in [HookSessions -> [on: BOOLEAN, setups: Int]]
          /\ UNCHANGED <<configFile, config, trust, setupOf, place, agreed, askedAgain, typed, lastCode, lost, uninvited>>
      BY <1>1, HookRecords DEF HookShellEnds, HooksIInv, HooksTyped
    <2> QED BY <2>1 DEF HooksIInv, HooksTyped, TrustWasGiven, OneLeft, LastIsKept
  <1>2. CASE TearsDown(s)
    <2>1. /\ place' = [place EXCEPT ![s] = "gone"] /\ setupOf' = [setupOf EXCEPT ![s] = NotMarked]
          /\ UNCHANGED <<configFile, config, trust, shellOf, agreed, askedAgain, typed, lastCode, lost, uninvited>>
      BY <1>2 DEF TearsDown
    <2>2. /\ setupOf' \in [HookSessions -> [marked: BOOLEAN, code: {NotHeard, 0, 1}]]
          /\ place' \in [HookSessions -> {"own", "share", "gone"}] /\ place'[s] = "gone"
          /\ ~setupOf'[s].marked
          /\ \A t \in HookSessions \ {s} : setupOf'[t] = setupOf[t] /\ place'[t] = place[t]
      BY <2>1, HookRecords DEF HooksIInv, HooksTyped
    <2>3. HooksTyped' /\ TrustWasGiven'
      BY <2>1, <2>2 DEF HooksIInv, HooksTyped, TrustWasGiven
    <2>4. OneLeft' /\ LastIsKept'
      BY <2>1, <2>2 DEF HooksIInv, OneLeft, LastIsKept
    <2> QED BY <2>3, <2>4 DEF HooksIInv
  <1> QED BY <1>1, <1>2

LEMMA HooksStepOK == HooksIInv /\ [HooksNext]_hooksVars => HooksIInv'
  <1> SUFFICES ASSUME HooksIInv, [HooksNext]_hooksVars PROVE HooksIInv'
    OBVIOUS
  <1>1. CASE UNCHANGED hooksVars
    BY <1>1 DEF hooksVars, HooksIInv, HooksTyped, TrustWasGiven, OneLeft, LastIsKept
  <1>2. CASE HooksNext
    BY <1>2, TrustStepOK, StartTypesOK, SetupAgainOK, SetupEndsOK, HookEndsOK DEF HooksNext
  <1> QED BY <1>1, <1>2

\* A hash in the workspace's row is one a person agreed to, and a session that is not
\* marked has one setup left to run: the inductive invariant (trust.ts, session-setup.ts).
THEOREM HooksHold == HooksSpec => []HooksIInv
  BY HooksInitOK, HooksStepOK, PTL DEF HooksSpec

\* What runs, a person said yes to word for word; a session is set up once, and
\* once more for each time a person asked; what a list says of a setup is what
\* its last one ended with (trust.ts, session-setup.ts, setup-exit-watcher.ts).
THEOREM HooksAreHonest == HooksSpec => []HooksAreAgreed
  <1>1. HooksIInv => TrustIsAgreed
    BY DEF HooksIInv, TrustWasGiven, TrustIsAgreed, TestTrusted, HooksTrusted
  <1>2. HooksIInv => SetUpOnce
    BY DEF HooksIInv, OneLeft, SetUpOnce
  <1>3. HooksIInv => FailureIsShown
    BY DEF HooksIInv, LastIsKept, FailureIsShown
  <1>4. HooksIInv => HooksAreAgreed
    BY <1>1, <1>2, <1>3 DEF HooksAreAgreed
  <1> QED BY <1>4, HooksHold, PTL

-----------------------------------------------------------------------------
(***************************************************************************)
(* What a restore may rely on between two of its steps, although the agent *)
(* writes and the session may be removed meanwhile.  From the moment the   *)
(* checkpoint before the restore is there it stays the newest one with the *)
(* tree that was read (SnapIsKept: nobody else is in the chain, and a      *)
(* prune spares the newest).  A path nobody wrote since holds what was     *)
(* read, or what the restore has put there (PathsAreKnown).                *)
(***************************************************************************)
ChainIsTold ==
  at # "first" =>
    /\ chain # <<>> /\ Head(chain).kind \in TakeKinds \cup {"restore"}
    /\ at \notin {"commit", "prune"} => Head(chain).kind = "restore"

SnapIsKept ==
  at \in {"prune", "replan", "delete", "write"} =>
    row = "gone" \/ (refs # <<>> /\ Head(refs).tree = snap)

AsRead(p) == p \in late \/ ~present \/ tree[p] = snap[p]
Restored(p) == p \in late \/ ~present \/ tree[p] = target[p]

PathsAreKnown ==
  /\ at \in {"commit", "prune", "replan"} => \A p \in Paths : AsRead(p)
  /\ at \in {"delete", "write"} =>
       \A p \in Paths : Restored(p) \/ (tree[p] = snap[p] /\ p \in plan.delete \cup plan.write)
  /\ at \in {"delete", "write"} => \A p \in plan.delete : target[p] = Absent
  /\ at = "write" => plan.delete = {}

CheckpointsIInv == CheckpointsTypeOK /\ ChainIsTold /\ SnapIsKept /\ PathsAreKnown

-----------------------------------------------------------------------------
(* What the operators of the model do to the chain and to the checkpoints.  *)

\* An operation is asked for, and the first one ends.
LEMMA ChainFacts ==
  ASSUME NEW q \in Seq(Ops), NEW op \in Ops
  PROVE  /\ Append(q, op) \in Seq(Ops) /\ Append(q, op) # <<>>
         /\ q # <<>> => /\ Head(q) \in Ops /\ Tail(q) \in Seq(Ops)
                        /\ Head(Append(q, op)) = Head(q)
  <1>1. Append(q, op) \in Seq(Ops) /\ Append(q, op) # <<>>
    BY AppendProperties
  <1>2. ASSUME q # <<>> PROVE Head(q) \in Ops /\ Tail(q) \in Seq(Ops)
    BY <1>2, HeadTailProperties
  <1>3. ASSUME q # <<>> PROVE Head(Append(q, op)) = Head(q)
    <2> DEFINE r == Append(q, op)
    <2>1. 1 \in 1..Len(q)
      BY <1>3, EmptySeq
    <2>2. r[1] = q[1]
      BY <2>1, AppendProperties
    <2>3. r \in Seq(Ops) /\ r # <<>>
      BY <1>1
    <2> HIDE DEF r
    <2>4. Head(r) = r[1] /\ Head(q) = q[1]
      BY <2>3, <1>3
    <2> QED BY <2>2, <2>4 DEF r
  <1> QED BY <1>1, <1>2, <1>3

\* The new checkpoint is a checkpoint, and the newest.
LEMMA NewFacts ==
  ASSUME refs \in Seq(Checkpoint), snap \in Trees
  PROVE  /\ WithNew \in Seq(Checkpoint) /\ Len(WithNew) = Len(refs) + 1
         /\ WithNew[1] = [seq |-> NewestSeq + 1, tree |-> snap]
         /\ \A i \in 1..Len(refs) : WithNew[i + 1] = refs[i]
         /\ WithNew # <<>> /\ Head(WithNew).tree = snap
  <1> DEFINE new == [seq |-> NewestSeq + 1, tree |-> snap]
             one == <<new>>
             with == one \o refs
  <1>1. NewestSeq \in Nat
    <2>1. CASE refs = <<>>
      BY <2>1 DEF NewestSeq
    <2>2. CASE refs # <<>>
      <3>1. Head(refs) \in Checkpoint
        BY <2>2, HeadTailProperties
      <3> QED BY <3>1, <2>2 DEF NewestSeq, Checkpoint
    <2> QED BY <2>1, <2>2
  <1>2. new \in Checkpoint /\ new.tree = snap
    BY <1>1 DEF Checkpoint
  <1> HIDE DEF new
  <1>3. one \in Seq(Checkpoint) /\ Len(one) = 1 /\ one[1] = new
    BY <1>2
  <1> HIDE DEF one
  <1>4. Len(refs) \in Nat
    BY LenProperties
  <1>5. /\ with \in Seq(Checkpoint) /\ Len(with) = 1 + Len(refs)
        /\ \A i \in 1..(1 + Len(refs)) : with[i] = IF i <= 1 THEN one[i] ELSE refs[i - 1]
    <2>1. /\ with \in Seq(Checkpoint) /\ Len(with) = Len(one) + Len(refs)
          /\ \A i \in 1..(Len(one) + Len(refs)) : with[i] = IF i <= Len(one) THEN one[i] ELSE refs[i - Len(one)]
      BY <1>3, ConcatProperties, Zenon
    <2> HIDE DEF with
    <2> QED BY <2>1, <1>3
  <1> HIDE DEF with
  <1>6. with[1] = new /\ \A i \in 1..Len(refs) : with[i + 1] = refs[i]
    BY <1>3, <1>4, <1>5
  <1>7. with # <<>> /\ Head(with) = new
    BY <1>4, <1>5, <1>6, EmptySeq
  <1> QED BY <1>2, <1>4, <1>5, <1>6, <1>7 DEF WithNew, with, one, new

\* A prune takes one checkpoint, not the newest, and leaves the order as it is.
LEMMA DropFacts ==
  ASSUME refs \in Seq(Checkpoint), Len(refs) > Keep
  PROVE  /\ DropNext \in Seq(Checkpoint) /\ Len(DropNext) = Len(refs) - 1
         /\ \A i \in 1..(Len(refs) - 1) : DropNext[i] = refs[IF i <= Keep THEN i ELSE i + 1]
         /\ refs # <<>> /\ DropNext # <<>> /\ Head(DropNext) = Head(refs)
  <1> DEFINE n == Len(refs)
             first == SubSeq(refs, 1, Keep)
             rest == SubSeq(refs, Keep + 2, n)
             both == first \o rest
  <1>1. n \in Nat /\ Keep \in Nat /\ Keep >= 1 /\ n > Keep /\ \A i \in 1..n : refs[i] \in Checkpoint
    BY CheckpointsAssumption, LenProperties
  <1> HIDE DEF n
  <1>2. /\ first \in Seq(Checkpoint) /\ Len(first) = Keep
        /\ \A i \in 1..Keep : first[i] = refs[i]
    <2>1. \A i \in 1..Keep : refs[i] \in Checkpoint
      BY <1>1
    <2>2. /\ first \in Seq(Checkpoint) /\ Len(first) = IF 1 <= Keep THEN Keep - 1 + 1 ELSE 0
          /\ \A i \in 1..(Keep - 1 + 1) : first[i] = refs[1 + i - 1]
      BY <2>1, <1>1, SubSeqProperties
    <2> HIDE DEF first
    <2> QED BY <2>2, <1>1
  <1>3. /\ rest \in Seq(Checkpoint) /\ Len(rest) = n - Keep - 1
        /\ \A i \in 1..(n - Keep - 1) : rest[i] = refs[i + Keep + 1]
    <2>1. \A i \in (Keep + 2)..n : refs[i] \in Checkpoint
      BY <1>1
    <2>2. Keep + 2 \in Int /\ n \in Int
      BY <1>1
    <2>3. /\ rest \in Seq(Checkpoint) /\ Len(rest) = IF Keep + 2 <= n THEN n - (Keep + 2) + 1 ELSE 0
          /\ \A i \in 1..(n - (Keep + 2) + 1) : rest[i] = refs[(Keep + 2) + i - 1]
      BY <2>1, <2>2, SubSeqProperties
    <2> HIDE DEF rest
    <2> QED BY <2>3, <1>1
  <1> HIDE DEF first, rest
  <1>4. /\ both \in Seq(Checkpoint) /\ Len(both) = Len(first) + Len(rest)
        /\ \A i \in 1..(Len(first) + Len(rest)) : both[i] = IF i <= Len(first) THEN first[i] ELSE rest[i - Len(first)]
    <2>1. first \in Seq(Checkpoint) /\ rest \in Seq(Checkpoint)
      BY <1>2, <1>3
    <2> QED BY <2>1, ConcatProperties, Zenon
  <1> HIDE DEF both
  <1>5. Len(both) = n - 1 /\ \A i \in 1..(n - 1) : both[i] = refs[IF i <= Keep THEN i ELSE i + 1]
    <2>1. Len(first) + Len(rest) = n - 1
      BY <1>1, <1>2, <1>3
    <2>2. ASSUME NEW i \in 1..(n - 1), i <= Keep PROVE both[i] = refs[i]
      BY <1>1, <1>2, <1>4, <2>1, <2>2
    <2>3. ASSUME NEW i \in 1..(n - 1), ~(i <= Keep) PROVE both[i] = refs[i + 1]
      <3>1. i - Keep \in 1..(n - Keep - 1) /\ (i - Keep) + Keep + 1 = i + 1
        BY <1>1, <2>3
      <3>2. both[i] = rest[i - Keep]
        BY <1>2, <1>4, <2>1, <2>3
      <3> QED BY <1>3, <3>1, <3>2
    <2> QED BY <1>4, <2>1, <2>2, <2>3
  <1>6. refs # <<>> /\ both # <<>>
    BY <1>1, <1>4, <1>5, EmptySeq DEF n
  <1>7. Head(both) = both[1] /\ Head(refs) = refs[1] /\ both[1] = refs[1]
    BY <1>1, <1>4, <1>5, <1>6
  <1> QED BY <1>4, <1>5, <1>6, <1>7 DEF DropNext, both, first, rest, n

\* What `Ends` leaves behind.
LEMMA EndsFacts ==
  ASSUME chain \in Seq(Ops), chain # <<>>, Ends
  PROVE  /\ chain' \in Seq(Ops) /\ at' = "first"
         /\ snap' \in Trees /\ target' \in Trees /\ plan' \in [delete: SUBSET Paths, write: SUBSET Paths]
  <1>1. NoTree \in Trees /\ NoPlan \in [delete: SUBSET Paths, write: SUBSET Paths]
    BY DEF NoTree, Trees, NoPlan
  <1>2. chain' = Tail(chain) /\ at' = "first" /\ snap' = NoTree /\ target' = NoTree /\ plan' = NoPlan
    BY DEF Ends
  <1>3. Tail(chain) \in Seq(Ops)
    BY HeadTailProperties
  <1> QED BY <1>1, <1>2, <1>3

\* An operation that ends, and leaves everything else typed, leaves nothing to keep.
LEMMA EndsOK ==
  ASSUME CheckpointsIInv, chain # <<>>, Ends,
         tree' \in Trees, present' \in BOOLEAN, row' \in {"there", "going", "gone"}, refs' \in Seq(Checkpoint),
         UNCHANGED <<late, writes, opsAsked>>
  PROVE  CheckpointsIInv'
  <1>1. /\ chain' \in Seq(Ops) /\ at' = "first"
        /\ snap' \in Trees /\ target' \in Trees /\ plan' \in [delete: SUBSET Paths, write: SUBSET Paths]
    BY EndsFacts DEF CheckpointsIInv, CheckpointsTypeOK
  <1> QED BY <1>1 DEF CheckpointsIInv, CheckpointsTypeOK, ChainIsTold, SnapIsKept, PathsAreKnown

-----------------------------------------------------------------------------
(* Init and the steps.                                                      *)

LEMMA CheckpointsInitOK == CheckpointsInit => CheckpointsIInv
  <1> SUFFICES ASSUME CheckpointsInit PROVE CheckpointsIInv
    OBVIOUS
  <1>1. NoTree \in Trees /\ NoPlan \in [delete: SUBSET Paths, write: SUBSET Paths]
    BY DEF NoTree, Trees, NoPlan
  <1>2. <<>> \in Seq(Ops) /\ <<>> \in Seq(Checkpoint)
    BY EmptySeq
  <1>3. CheckpointsTypeOK
    BY <1>1, <1>2, CheckpointsAssumption DEF CheckpointsInit, CheckpointsTypeOK
  <1> QED BY <1>3 DEF CheckpointsInit, CheckpointsIInv, ChainIsTold, SnapIsKept, PathsAreKnown

\* Operations are asked for, the session's removal too.
LEMMA AskedOK ==
  ASSUME CheckpointsIInv,
         \/ \E kind \in TakeKinds : Request(kind, 0)
         \/ \E kind \in RestoreKinds, i \in 1..Len(refs) : Request(kind, refs[i].seq)
         \/ \E removed \in BOOLEAN : RemoveSession(removed)
  PROVE  CheckpointsIInv'
  <1>1. ASSUME NEW kind \in TakeKinds \cup RestoreKinds, NEW seq \in Nat, Request(kind, seq) PROVE CheckpointsIInv'
    <2> DEFINE op == [kind |-> kind, seq |-> seq]
    <2>1. op \in Ops
      BY DEF Ops
    <2>2. /\ chain' = Append(chain, op) /\ opsAsked' = opsAsked + 1 /\ opsAsked < MaxOps
          /\ UNCHANGED <<tree, present, row, refs, at, snap, target, plan, late, writes>>
      BY <1>1 DEF Request, Locked, opVars
    <2> HIDE DEF op
    <2>3. /\ chain' \in Seq(Ops) /\ chain' # <<>>
          /\ chain # <<>> => Head(chain') = Head(chain)
      BY <2>1, <2>2, ChainFacts DEF CheckpointsIInv, CheckpointsTypeOK
    <2>4. opsAsked' \in 0..MaxOps
      BY <2>2, CheckpointsAssumption DEF CheckpointsIInv, CheckpointsTypeOK
    <2>5. CheckpointsTypeOK' /\ ChainIsTold' /\ SnapIsKept'
      BY <2>2, <2>3, <2>4 DEF CheckpointsIInv, CheckpointsTypeOK, ChainIsTold, SnapIsKept
    <2>6. PathsAreKnown'
      BY <2>2 DEF CheckpointsIInv, PathsAreKnown, AsRead, Restored
    <2> QED BY <2>5, <2>6 DEF CheckpointsIInv
  <1>2. ASSUME NEW removed \in BOOLEAN, RemoveSession(removed) PROVE CheckpointsIInv'
    <2> DEFINE op == [kind |-> "forget", seq |-> 0]
    <2>1. op \in Ops /\ NoTree \in Trees
      BY DEF Ops, NoTree, Trees
    <2>2. /\ chain' = Append(chain, op) /\ row = "there" /\ row' = "going"
          /\ present' = (present /\ ~removed) /\ tree' = IF removed THEN NoTree ELSE tree
          /\ UNCHANGED <<refs, at, snap, target, plan, late, writes, opsAsked>>
      BY <1>2 DEF RemoveSession, Locked, opVars
    <2> HIDE DEF op
    <2>3. /\ chain' \in Seq(Ops) /\ chain' # <<>>
          /\ chain # <<>> => Head(chain') = Head(chain)
      BY <2>1, <2>2, ChainFacts DEF CheckpointsIInv, CheckpointsTypeOK
    <2>4. CheckpointsTypeOK' /\ ChainIsTold' /\ SnapIsKept'
      BY <2>1, <2>2, <2>3 DEF CheckpointsIInv, CheckpointsTypeOK, ChainIsTold, SnapIsKept
    <2>5. PathsAreKnown'
      BY <2>2 DEF CheckpointsIInv, CheckpointsTypeOK, PathsAreKnown, AsRead, Restored
    <2> QED BY <2>4, <2>5 DEF CheckpointsIInv
  <1>3. \A i \in 1..Len(refs) : refs[i].seq \in Nat
    <2>1. \A i \in 1..Len(refs) : refs[i] \in Checkpoint
      BY ElementOfSeq DEF CheckpointsIInv, CheckpointsTypeOK
    <2> QED BY <2>1 DEF Checkpoint
  <1> QED BY <1>1, <1>2, <1>3

\* The agent writes: the path is late from then on.
LEMMA WriteOK == ASSUME CheckpointsIInv, NEW p \in Paths, NEW c \in Contents \cup {Absent}, Write(p, c) PROVE CheckpointsIInv'
  <1>1. /\ tree' = [tree EXCEPT ![p] = c] /\ late' = late \cup {p}
        /\ writes' = writes + 1 /\ writes < MaxWrites
        /\ UNCHANGED <<present, row, refs, chain, at, snap, target, plan, opsAsked>>
    BY DEF Write, opVars
  <1>2. tree' \in Trees /\ late' \subseteq Paths /\ writes' \in 0..MaxWrites
    BY <1>1, CheckpointsAssumption DEF CheckpointsIInv, CheckpointsTypeOK, Trees
  <1>3. \A q \in Paths : q \in late' \/ (tree'[q] = tree[q] /\ q \notin late)
    BY <1>1 DEF CheckpointsIInv, CheckpointsTypeOK, Trees
  <1>4. CheckpointsTypeOK' /\ ChainIsTold' /\ SnapIsKept'
    BY <1>1, <1>2 DEF CheckpointsIInv, CheckpointsTypeOK, ChainIsTold, SnapIsKept
  <1>5. PathsAreKnown'
    BY <1>1, <1>3 DEF CheckpointsIInv, PathsAreKnown, AsRead, Restored
  <1> QED BY <1>4, <1>5 DEF CheckpointsIInv

\* The steps with which an operation ends, and the daemon's restart.
LEMMA OverOK ==
  ASSUME CheckpointsIInv, Fails \/ ForgetCheckpoints \/ RestoreEnds \/ RestartCheckpoints
  PROVE  CheckpointsIInv'
  <1>1. CASE Fails
    BY <1>1, EndsOK DEF Fails, CheckpointsIInv, CheckpointsTypeOK
  <1>2. CASE ForgetCheckpoints
    <2>1. <<>> \in Seq(Checkpoint)
      BY EmptySeq
    <2>2. refs' \in Seq(Checkpoint)
      BY <1>2, <2>1 DEF ForgetCheckpoints, CheckpointsIInv, CheckpointsTypeOK
    <2> QED BY <1>2, <2>2, EndsOK DEF ForgetCheckpoints, Running, CheckpointsIInv, CheckpointsTypeOK
  <1>3. CASE RestoreEnds
    BY <1>3, EndsOK DEF RestoreEnds, Applied, Running, CheckpointsIInv, CheckpointsTypeOK
  <1>4. CASE RestartCheckpoints
    <2>1. NoTree \in Trees /\ NoPlan \in [delete: SUBSET Paths, write: SUBSET Paths]
      BY DEF NoTree, Trees, NoPlan
    <2>2. <<>> \in Seq(Ops)
      BY EmptySeq
    <2>3. /\ chain' = <<>> /\ at' = "first" /\ snap' = NoTree /\ target' = NoTree /\ plan' = NoPlan
          /\ row' = (IF row = "going" THEN "there" ELSE row)
          /\ UNCHANGED <<tree, present, refs, late, writes, opsAsked>>
      BY <1>4 DEF RestartCheckpoints
    <2>4. CheckpointsTypeOK'
      BY <2>1, <2>2, <2>3 DEF CheckpointsIInv, CheckpointsTypeOK
    <2> QED BY <2>3, <2>4 DEF CheckpointsIInv, ChainIsTold, SnapIsKept, PathsAreKnown
  <1> QED BY <1>1, <1>2, <1>3, <1>4

\* gc takes the checkpoints of a session that has no row.
LEMMA OrphansOK == ASSUME CheckpointsIInv, PruneOrphans PROVE CheckpointsIInv'
  <1>1. /\ row = "gone" /\ refs' = <<>>
        /\ UNCHANGED <<tree, present, row, chain, at, snap, target, plan, late, writes, opsAsked>>
    BY DEF PruneOrphans, opVars
  <1>2. <<>> \in Seq(Checkpoint)
    BY EmptySeq
  <1>3. CheckpointsTypeOK' /\ ChainIsTold' /\ SnapIsKept'
    BY <1>1, <1>2 DEF CheckpointsIInv, CheckpointsTypeOK, ChainIsTold, SnapIsKept
  <1>4. PathsAreKnown'
    BY <1>1 DEF CheckpointsIInv, PathsAreKnown, AsRead, Restored
  <1> QED BY <1>3, <1>4 DEF CheckpointsIInv

\* The tree is read: nothing is late, and everything is as read.
LEMMA ReadOK == ASSUME CheckpointsIInv, TakeReads PROVE CheckpointsIInv'
  <1>1. /\ snap' = tree /\ late' = {} /\ at' = "commit" /\ chain # <<>>
        /\ Head(chain).kind \in TakeKinds \cup {"restore"}
        /\ UNCHANGED <<tree, present, row, refs, chain, target, plan, writes, opsAsked>>
    BY DEF TakeReads, ReadsTree, Running
  <1>2. CheckpointsTypeOK' /\ ChainIsTold' /\ SnapIsKept'
    BY <1>1 DEF CheckpointsIInv, CheckpointsTypeOK, ChainIsTold, SnapIsKept
  <1>3. PathsAreKnown'
    BY <1>1 DEF PathsAreKnown, AsRead
  <1> QED BY <1>2, <1>3 DEF CheckpointsIInv

\* After the checkpoint the operation prunes, goes on to the restore, or ends:
\* in each case the newest checkpoint has the tree that was read.
LEMMA GoesOK ==
  ASSUME CheckpointsIInv, NEW more \in BOOLEAN,
         at \in {"commit", "prune"}, chain # <<>>, Head(chain).kind \in TakeKinds \cup {"restore"},
         Goes(IF more THEN "prune" ELSE AfterSnapshot),
         refs' \in Seq(Checkpoint), row = "gone" \/ (refs' # <<>> /\ Head(refs').tree = snap),
         UNCHANGED <<tree, present, row, late, writes, opsAsked>>
  PROVE  CheckpointsIInv'
  <1>1. CASE Ends
    BY <1>1, EndsOK DEF CheckpointsIInv, CheckpointsTypeOK
  <1>2. CASE /\ at' \in {"prune", "replan"}
             /\ at' = "replan" => Head(chain).kind = "restore"
             /\ UNCHANGED <<chain, snap, target, plan>>
    <2>1. CheckpointsTypeOK'
      BY <1>2 DEF CheckpointsIInv, CheckpointsTypeOK
    <2>2. ChainIsTold' /\ SnapIsKept'
      BY <1>2 DEF ChainIsTold, SnapIsKept
    <2>3. PathsAreKnown'
      BY <1>2 DEF CheckpointsIInv, PathsAreKnown, AsRead
    <2> QED BY <2>1, <2>2, <2>3 DEF CheckpointsIInv
  <1> QED BY <1>1, <1>2 DEF Goes, AfterSnapshot

LEMMA CommitsOK == ASSUME CheckpointsIInv, Commits PROVE CheckpointsIInv'
  <1>1. /\ chain # <<>> /\ Head(chain).kind \in TakeKinds \cup {"restore"} /\ at = "commit"
        /\ refs' = (IF Unchanged THEN refs ELSE WithNew)
        /\ Goes(IF Len(refs') > Keep /\ ~Unchanged THEN "prune" ELSE AfterSnapshot)
        /\ UNCHANGED <<tree, present, row, late, writes, opsAsked>>
    BY DEF Commits, Running
  <1>2. refs' \in Seq(Checkpoint) /\ refs' # <<>> /\ Head(refs').tree = snap
    <2>1. CASE Unchanged
      BY <1>1, <2>1 DEF Unchanged, CheckpointsIInv, CheckpointsTypeOK
    <2>2. CASE ~Unchanged
      BY <1>1, <2>2, NewFacts DEF CheckpointsIInv, CheckpointsTypeOK
    <2> QED BY <2>1, <2>2
  <1> DEFINE more == Len(refs') > Keep /\ ~Unchanged
  <1>3. more \in BOOLEAN /\ Goes(IF more THEN "prune" ELSE AfterSnapshot)
    BY <1>1
  <1> HIDE DEF more
  <1> QED BY <1>1, <1>2, <1>3, GoesOK

LEMMA PrunesOK == ASSUME CheckpointsIInv, Prunes PROVE CheckpointsIInv'
  <1>1. /\ chain # <<>> /\ Head(chain).kind \in TakeKinds \cup {"restore"} /\ at = "prune"
        /\ Len(refs) > Keep /\ refs' = DropNext
        /\ Goes(IF Len(refs') > Keep THEN "prune" ELSE AfterSnapshot)
        /\ UNCHANGED <<tree, present, row, late, writes, opsAsked>>
    BY DEF Prunes, Running
  <1>2. refs' \in Seq(Checkpoint) /\ refs' # <<>> /\ Head(refs') = Head(refs)
    BY <1>1, DropFacts DEF CheckpointsIInv, CheckpointsTypeOK
  <1>3. row = "gone" \/ (refs' # <<>> /\ Head(refs').tree = snap)
    BY <1>1, <1>2 DEF CheckpointsIInv, SnapIsKept
  <1> DEFINE more == Len(refs') > Keep
  <1>4. more \in BOOLEAN /\ Goes(IF more THEN "prune" ELSE AfterSnapshot)
    BY <1>1
  <1> HIDE DEF more
  <1> QED BY <1>1, <1>2, <1>3, <1>4, GoesOK

\* The plan takes a path to where the target has it, or leaves it there.
LEMMA PlanFacts ==
  ASSUME NEW a \in Trees, NEW b \in Trees
  PROVE  /\ PlanOf(a, b) \in [delete: SUBSET Paths, write: SUBSET Paths]
         /\ \A p \in Paths : a[p] = b[p] \/ p \in PlanOf(a, b).delete \cup PlanOf(a, b).write
         /\ \A p \in PlanOf(a, b).delete : b[p] = Absent
  BY DEF PlanOf

\* A restore is planned, and planned again.
LEMMA PlannedOK == ASSUME CheckpointsIInv, RestoreFinds \/ Replans PROVE CheckpointsIInv'
  <1>1. CASE RestoreFinds
    <2>1. PICK i \in 1..Len(refs) :
            IF Head(chain).kind = "preview" THEN Ends
            ELSE /\ target' = refs[i].tree /\ plan' = PlanOf(tree, target')
                 /\ at' = "read" /\ UNCHANGED <<chain, snap>>
      BY <1>1 DEF RestoreFinds
    <2>2. /\ chain # <<>> /\ Head(chain).kind \in RestoreKinds
          /\ UNCHANGED <<tree, present, row, refs, late, writes, opsAsked>>
      BY <1>1 DEF RestoreFinds, Running
    <2>3. CASE Head(chain).kind = "preview"
      BY <2>1, <2>2, <2>3, EndsOK DEF CheckpointsIInv, CheckpointsTypeOK
    <2>4. CASE Head(chain).kind # "preview"
      <3>1. refs[i] \in Checkpoint
        BY <2>1, ElementOfSeq DEF CheckpointsIInv, CheckpointsTypeOK
      <3>2. target' \in Trees
        BY <2>1, <2>4, <3>1 DEF Checkpoint
      <3>3. plan' \in [delete: SUBSET Paths, write: SUBSET Paths]
        BY <2>1, <2>4, <3>2, PlanFacts DEF CheckpointsIInv, CheckpointsTypeOK
      <3>4. Head(chain).kind = "restore"
        BY <2>2, <2>4 DEF RestoreKinds
      <3> QED BY <2>1, <2>2, <2>4, <3>2, <3>3, <3>4
              DEF CheckpointsIInv, CheckpointsTypeOK, ChainIsTold, SnapIsKept, PathsAreKnown
    <2> QED BY <2>3, <2>4
  <1>2. CASE Replans
    <2>1. /\ Head(chain).kind = "restore" /\ chain # <<>> /\ at = "replan"
          /\ plan' = PlanOf(snap, target) /\ at' = "delete"
          /\ UNCHANGED <<tree, present, row, refs, chain, snap, target, late, writes, opsAsked>>
      BY <1>2 DEF Replans, Running, PlanAgain
    <2>2. /\ plan' \in [delete: SUBSET Paths, write: SUBSET Paths]
          /\ \A p \in Paths : snap[p] = target[p] \/ p \in plan'.delete \cup plan'.write
          /\ \A p \in plan'.delete : target[p] = Absent
      BY <2>1, PlanFacts DEF CheckpointsIInv, CheckpointsTypeOK
    <2>3. CheckpointsTypeOK' /\ ChainIsTold' /\ SnapIsKept'
      BY <2>1, <2>2 DEF CheckpointsIInv, CheckpointsTypeOK, ChainIsTold, SnapIsKept
    <2>4. PathsAreKnown'
      BY <2>1, <2>2 DEF CheckpointsIInv, PathsAreKnown, AsRead, Restored
    <2> QED BY <2>3, <2>4 DEF CheckpointsIInv
  <1> QED BY <1>1, <1>2

\* One path after the other is deleted, then written.
LEMMA AppliesOK ==
  ASSUME CheckpointsIInv, NEW p \in Paths, Deletes(p) \/ Writes(p)
  PROVE  CheckpointsIInv'
  <1>1. CASE Deletes(p)
    <2>1. /\ at = "delete" /\ chain # <<>> /\ p \in plan.delete
          /\ tree' = [tree EXCEPT ![p] = Absent] /\ plan' = [plan EXCEPT !.delete = @ \ {p}]
          /\ UNCHANGED <<present, row, refs, chain, at, snap, target, late, writes, opsAsked>>
      BY <1>1 DEF Deletes, Running
    <2>2. tree' \in Trees /\ tree'[p] = Absent /\ \A q \in Paths : q # p => tree'[q] = tree[q]
      BY <2>1 DEF CheckpointsIInv, CheckpointsTypeOK, Trees
    <2>3. /\ plan' \in [delete: SUBSET Paths, write: SUBSET Paths]
          /\ plan'.delete = plan.delete \ {p} /\ plan'.write = plan.write
      BY <2>1 DEF CheckpointsIInv, CheckpointsTypeOK
    <2>4. CheckpointsTypeOK' /\ ChainIsTold' /\ SnapIsKept'
      BY <2>1, <2>2, <2>3 DEF CheckpointsIInv, CheckpointsTypeOK, ChainIsTold, SnapIsKept
    <2>5. target[p] = Absent
      BY <2>1 DEF CheckpointsIInv, PathsAreKnown
    <2>6. PathsAreKnown'
      BY <2>1, <2>2, <2>3, <2>5 DEF CheckpointsIInv, PathsAreKnown, Restored
    <2> QED BY <2>4, <2>6 DEF CheckpointsIInv
  <1>2. CASE Writes(p)
    <2>1. /\ at = "write" /\ chain # <<>> /\ p \in plan.write
          /\ tree' = [tree EXCEPT ![p] = target[p]] /\ plan' = [plan EXCEPT !.write = @ \ {p}]
          /\ UNCHANGED <<present, row, refs, chain, at, snap, target, late, writes, opsAsked>>
      BY <1>2 DEF Writes, Running
    <2>2. tree' \in Trees /\ tree'[p] = target[p] /\ \A q \in Paths : q # p => tree'[q] = tree[q]
      BY <2>1 DEF CheckpointsIInv, CheckpointsTypeOK, Trees
    <2>3. /\ plan' \in [delete: SUBSET Paths, write: SUBSET Paths]
          /\ plan'.delete = plan.delete /\ plan'.write = plan.write \ {p}
      BY <2>1 DEF CheckpointsIInv, CheckpointsTypeOK
    <2>4. CheckpointsTypeOK' /\ ChainIsTold' /\ SnapIsKept'
      BY <2>1, <2>2, <2>3 DEF CheckpointsIInv, CheckpointsTypeOK, ChainIsTold, SnapIsKept
    <2>5. PathsAreKnown'
      BY <2>1, <2>2, <2>3 DEF CheckpointsIInv, PathsAreKnown, Restored
    <2> QED BY <2>4, <2>5 DEF CheckpointsIInv
  <1> QED BY <1>1, <1>2

LEMMA DeletesDoneOK == ASSUME CheckpointsIInv, DeletesDone PROVE CheckpointsIInv'
  <1>1. /\ at = "delete" /\ chain # <<>> /\ plan.delete = {} /\ at' = "write"
        /\ UNCHANGED <<tree, present, row, refs, chain, snap, target, plan, late, writes, opsAsked>>
    BY DEF DeletesDone, Running
  <1>2. CheckpointsTypeOK' /\ ChainIsTold' /\ SnapIsKept'
    BY <1>1 DEF CheckpointsIInv, CheckpointsTypeOK, ChainIsTold, SnapIsKept
  <1>3. PathsAreKnown'
    BY <1>1 DEF CheckpointsIInv, PathsAreKnown, Restored
  <1> QED BY <1>2, <1>3 DEF CheckpointsIInv

LEMMA CheckpointsStepOK == CheckpointsIInv /\ [CheckpointsNext]_checkpointsVars => CheckpointsIInv'
  <1> SUFFICES ASSUME CheckpointsIInv, [CheckpointsNext]_checkpointsVars PROVE CheckpointsIInv'
    OBVIOUS
  <1>1. CASE UNCHANGED checkpointsVars
    <2>1. UNCHANGED <<tree, present, row, refs, chain, at, snap, target, plan, late, writes, opsAsked>>
      BY <1>1 DEF checkpointsVars, opVars
    <2>2. CheckpointsTypeOK' /\ ChainIsTold' /\ SnapIsKept'
      BY <2>1 DEF CheckpointsIInv, CheckpointsTypeOK, ChainIsTold, SnapIsKept
    <2>3. PathsAreKnown'
      BY <2>1 DEF CheckpointsIInv, PathsAreKnown, AsRead, Restored
    <2> QED BY <2>2, <2>3 DEF CheckpointsIInv
  <1>3. CASE OpStep
    BY <1>3, ReadOK, CommitsOK, PrunesOK, OverOK, PlannedOK, DeletesDoneOK, AppliesOK DEF OpStep
  <1>4. CASE \E p \in Paths, c \in Contents \cup {Absent} : Write(p, c)
    BY <1>4, WriteOK
  <1>5. CASE PruneOrphans \/ RestartCheckpoints
    BY <1>5, OrphansOK, OverOK
  <1> QED BY <1>1, <1>3, <1>4, <1>5, AskedOK DEF CheckpointsNext

-----------------------------------------------------------------------------
(* The theorems.                                                            *)

\* Whatever the agent writes, and wherever an operation fails, a restore knows
\* of every path whether it holds what was read or what was asked for.
THEOREM CheckpointsHold == CheckpointsSpec => []CheckpointsIInv
  BY CheckpointsInitOK, CheckpointsStepOK, PTL DEF CheckpointsSpec

\* Types, for any set of paths and contents: whatever fails, the chain holds only
\* operations and the refs only trees (checkpoint.ts).
THEOREM CheckpointsTypeCorrect == CheckpointsSpec => []CheckpointsTypeOK
  <1>1. CheckpointsIInv => CheckpointsTypeOK
    BY DEF CheckpointsIInv
  <1> QED BY <1>1, CheckpointsHold, PTL

\* A restore that ends without an error has made every path what was asked for,
\* but for those the agent wrote meanwhile (restoreCheckpoint).
THEOREM AppliedIsRight == CheckpointsSpec => []AppliedIsTarget
  <1>1. CheckpointsIInv => AppliedIsTarget
    BY DEF CheckpointsIInv, PathsAreKnown, Restored, AppliedIsTarget, Applied, Running
  <1> QED BY <1>1, CheckpointsHold, PTL

\* What a restore deletes or overwrites is in the newest checkpoint, or was
\* written by the agent after that one was read (restoreCheckpoint, applyTree).
THEOREM NothingIsLost == CheckpointsSpec => RestoreIsUndoable
  <1> DEFINE Undoable ==
        \A p \in Paths : Touches(p) =>
          \/ p \in late \/ row = "gone"
          \/ refs # <<>> /\ Head(refs).tree[p] = tree[p]
  <1>1. ASSUME CheckpointsIInv, NEW p \in Paths, Touches(p)
        PROVE  \/ p \in late \/ row = "gone"
               \/ refs # <<>> /\ Head(refs).tree[p] = tree[p]
    <2>1. PICK q \in Paths : Deletes(q) \/ Writes(q)
      BY <1>1 DEF Touches
    <2>2. tree \in [Paths -> Contents \cup {Absent}] /\ tree'[p] # tree[p]
      BY <1>1 DEF Touches, CheckpointsIInv, CheckpointsTypeOK, Trees
    <2>3. CASE Deletes(q)
      <3>1. at = "delete" /\ present /\ q \in plan.delete /\ tree' = [tree EXCEPT ![q] = Absent]
        BY <2>3 DEF Deletes, Running
      <3>2. p = q /\ tree[p] # target[p]
        BY <1>1, <2>2, <3>1 DEF CheckpointsIInv, PathsAreKnown
      <3> QED BY <1>1, <3>1, <3>2 DEF CheckpointsIInv, SnapIsKept, PathsAreKnown, Restored
    <2>4. CASE Writes(q)
      <3>1. at = "write" /\ present /\ q \in plan.write /\ tree' = [tree EXCEPT ![q] = target[q]]
        BY <2>4 DEF Writes, Running
      <3>2. p = q /\ tree[p] # target[p]
        BY <2>2, <3>1
      <3> QED BY <1>1, <3>1, <3>2 DEF CheckpointsIInv, SnapIsKept, PathsAreKnown, Restored
    <2> QED BY <2>1, <2>3, <2>4
  <1>2. CheckpointsIInv => [Undoable]_checkpointsVars
    BY <1>1
  <1> QED BY <1>2, CheckpointsHold, PTL DEF CheckpointsSpec, RestoreIsUndoable

\* Only a take, a prune and a removal change the checkpoints.
LEMMA RefsChange ==
  ASSUME CheckpointsNext
  PROVE  \/ refs' = refs \/ refs' = <<>>
         \/ refs' = WithNew
         \/ refs' = DropNext /\ Len(refs) > Keep
  <1>1. CASE OpStep
    BY <1>1 DEF OpStep, TakeReads, Commits, Prunes, Fails, ForgetCheckpoints, RestoreFinds, Replans,
                DeletesDone, RestoreEnds, Deletes, Writes
  <1>2. CASE ~OpStep
    BY <1>2 DEF CheckpointsNext, Request, RemoveSession, Write, PruneOrphans, RestartCheckpoints
  <1> QED BY <1>1, <1>2

\* The numbers stay unique and descend, whatever is pruned between them, so
\* that a restore finds one checkpoint at most (nextSeq, update-ref).
THEOREM NumbersAreOrdered == CheckpointsSpec => []NumbersDescend
  <1>1. CheckpointsInit => NumbersDescend
    BY EmptySeq DEF CheckpointsInit, NumbersDescend
  <1>2. ASSUME CheckpointsIInv, NumbersDescend, [CheckpointsNext]_checkpointsVars PROVE NumbersDescend'
    <2>1. refs \in Seq(Checkpoint) /\ snap \in Trees
      BY <1>2 DEF CheckpointsIInv, CheckpointsTypeOK
    <2>2. Len(refs) \in Nat /\ \A i \in 1..Len(refs) : refs[i] \in Checkpoint /\ refs[i].seq \in Nat
      <3>1. Len(refs) \in Nat /\ \A i \in 1..Len(refs) : refs[i] \in Checkpoint
        BY <2>1, ElementOfSeq, LenProperties
      <3> QED BY <3>1 DEF Checkpoint
    <2>3. CASE refs' = refs
      BY <1>2, <2>3 DEF NumbersDescend
    <2>4. CASE refs' = <<>>
      BY <2>4, EmptySeq DEF NumbersDescend
    <2>5. CASE refs' = WithNew
      <3>1. /\ Len(refs') = Len(refs) + 1 /\ refs'[1].seq = NewestSeq + 1
            /\ \A i \in 1..Len(refs) : refs'[i + 1] = refs[i]
        BY <2>1, <2>5, NewFacts
      <3>2. \A i \in 1..Len(refs) : refs[i].seq <= NewestSeq
        <4>1. CASE refs = <<>>
          BY <4>1, EmptySeq
        <4>2. CASE refs # <<>>
          <5>1. NewestSeq = refs[1].seq
            BY <2>1, <4>2 DEF NewestSeq
          <5> QED BY <1>2, <2>2, <5>1 DEF NumbersDescend
        <4> QED BY <4>1, <4>2
      <3>3. NewestSeq \in Nat
        <4>1. CASE refs = <<>>
          BY <4>1 DEF NewestSeq
        <4>2. CASE refs # <<>>
          <5>1. NewestSeq = refs[1].seq /\ 1 \in 1..Len(refs)
            BY <2>1, <4>2, EmptySeq DEF NewestSeq
          <5> QED BY <2>2, <5>1
        <4> QED BY <4>1, <4>2
      <3>4. ASSUME NEW i \in 1..Len(refs'), NEW j \in 1..Len(refs'), i < j
            PROVE refs'[i].seq > refs'[j].seq
        <4>1. j - 1 \in 1..Len(refs) /\ refs'[j] = refs[j - 1]
          <5>1. j - 1 \in 1..Len(refs)
            BY <2>2, <3>1, <3>4
          <5> QED BY <3>1, <5>1
        <4>2. CASE i = 1
          BY <2>2, <3>1, <3>2, <3>3, <4>1, <4>2
        <4>3. CASE i # 1
          <5>1. i - 1 \in 1..Len(refs) /\ i - 1 < j - 1
            BY <2>2, <3>1, <3>4, <4>3
          <5>2. refs'[i] = refs[i - 1]
            BY <3>1, <5>1
          <5> QED BY <1>2, <4>1, <5>1, <5>2 DEF NumbersDescend
        <4> QED BY <4>2, <4>3
      <3> QED BY <3>4 DEF NumbersDescend
    <2>6. CASE refs' = DropNext /\ Len(refs) > Keep
      <3>1. /\ Len(refs') = Len(refs) - 1
            /\ \A i \in 1..(Len(refs) - 1) : refs'[i] = refs[IF i <= Keep THEN i ELSE i + 1]
        BY <2>1, <2>6, DropFacts
      <3>2. ASSUME NEW i \in 1..Len(refs'), NEW j \in 1..Len(refs'), i < j
            PROVE refs'[i].seq > refs'[j].seq
        <4> DEFINE m == IF i <= Keep THEN i ELSE i + 1
                   n == IF j <= Keep THEN j ELSE j + 1
        <4>1. m \in 1..Len(refs) /\ n \in 1..Len(refs) /\ m < n
          BY <2>2, <3>1, <3>2, CheckpointsAssumption
        <4>2. refs'[i] = refs[m] /\ refs'[j] = refs[n]
          BY <3>1
        <4> HIDE DEF m, n
        <4> QED BY <1>2, <4>1, <4>2 DEF NumbersDescend
      <3> QED BY <3>2 DEF NumbersDescend
    <2>7. refs' = refs \/ CheckpointsNext
      BY <1>2 DEF checkpointsVars
    <2> QED BY <2>3, <2>4, <2>5, <2>6, <2>7, RefsChange
  <1> QED BY <1>1, <1>2, CheckpointsHold, PTL DEF CheckpointsSpec
=============================================================================
