---------------------------- MODULE Panes_proofs ----------------------------
(* Proofs about two of the window's panes: the page that is open beside an agent,
   and what it may do to it (BrowserAgent), and copy mode over what a shell has
   printed (TerminalPanes). *)
EXTENDS BrowserAgent, TerminalPanes, TLAPS, FiniteSetTheorems, SequenceTheorems, WellFoundedInduction

(***************************************************************************)
(* A Browser pane an agent may drive.  What was done was allowed when it   *)
(* was done, and a dialog is open for no longer than its request's budget. *)
(***************************************************************************)
Asked(r) == r \in BrowserAsks /\ ask[r].state # "none"
Requests == [state: {"none", "waits", "done"}, cmd: {"none", "read", "act", "eval"},
             guest: 0..MaxGuests, site: Sites \cup {"none"}, at: Nat]
AsAgreed(a) ==
  /\ Asked(a.of) /\ Allows(a.level, ask[a.of].cmd)
  /\ NeedsYes(ask[a.of].cmd, a.site) => [of |-> a.of, site |-> a.site] \in allowedOnce
  /\ a.at \in Nat /\ a.at < ask[a.of].at + CallerWaits
AsksTyped == ask \in [BrowserAsks -> Requests] /\ ticks \in Nat /\ inLine \in Seq(BrowserAsks)
DialogsEnd ==
  /\ \A i \in DOMAIN inLine : Asked(inLine[i])
  /\ dialog # NoDialog =>
       /\ Asked(dialog.of) /\ dialog.until \in Nat
       /\ ticks <= dialog.until /\ dialog.until <= ask[dialog.of].at + AskBudget
AsksIInv == AsksTyped /\ DialogsEnd /\ \A a \in acted : AsAgreed(a)

\* The switch and main: what is under way between them.
GuestPages == [alive: BOOLEAN, site: Sites, taken: BOOLEAN]
Captures == [on: BOOLEAN, site: Sites \cup {"none"}, rows: SUBSET Sites]
ToMain == [guest: Guests, level: Levels]
ToView == [kind: {"ok", "refused", "detached"}, guest: Guests, level: Levels]
PaneTyped ==
  /\ pageOf \in [Guests -> GuestPages] /\ captureOf \in [Guests -> Captures] /\ access \in [Guests -> Levels]
  /\ mounted \in [guest: 0..MaxGuests, level: Levels, ready: BOOLEAN]
  /\ lastGuest \in 0..MaxGuests /\ paneGuest \in 0..MaxGuests
  /\ toMain \in Seq(ToMain) /\ toView \in Seq(ToView)

\* GuestPages are numbered as they are mounted, and the one on screen is the last.
PagesAreNumbered ==
  /\ mounted.guest # NoGuest => mounted.guest = lastGuest /\ pageOf[mounted.guest].alive
  /\ mounted.guest = NoGuest => mounted = NoPane
  /\ paneGuest <= lastGuest
  /\ \A i \in DOMAIN toMain : toMain[i].guest <= lastGuest
  /\ \A i \in DOMAIN toView : toView[i].guest <= lastGuest

\* A debugger is held by the pane main knows, and has logged for the page's site only.
CapturesHold ==
  \A g \in Guests :
    /\ captureOf[g].on => /\ g = paneGuest /\ access[g] # "off" /\ ~pageOf[g].taken
                          /\ captureOf[g].site = pageOf[g].site /\ captureOf[g].rows \subseteq {pageOf[g].site}
    /\ ~captureOf[g].on => captureOf[g].rows = {}

\* Once it is ready the pane is main's, only its own messages are under way, and the
\* last that is no refusal says what main has: or the switch says it, if there is none.
LastSaid ==
  /\ \A i \in DOMAIN toView :
       toView[i].kind # "refused" /\ (\A j \in DOMAIN toView : j > i => toView[j].kind = "refused")
         => (IF toView[i].kind = "detached" THEN "off" ELSE toView[i].level) = access[mounted.guest]
  /\ (\A j \in DOMAIN toView : toView[j].kind = "refused") => mounted.level = access[mounted.guest]
ReadyIsTold ==
  mounted.ready =>
    /\ paneGuest = mounted.guest
    /\ \A i \in DOMAIN toMain : toMain[i].guest = mounted.guest
    /\ \A i \in DOMAIN toView : toView[i].guest = mounted.guest
    /\ access[mounted.guest] # "off" => captureOf[mounted.guest].on
    /\ LastSaid

\* Before, it is off, and only its first call or the answer to it is under way, the last of all.
FirstCall ==
  mounted.guest # NoGuest /\ ~mounted.ready =>
    /\ mounted.level = "off" /\ ~captureOf[mounted.guest].on
    /\ \A i \in DOMAIN toMain : toMain[i].guest = mounted.guest =>
         /\ toMain[i].level = "off" /\ i = Len(toMain)
         /\ \A j \in DOMAIN toView : toView[j].guest # mounted.guest
    /\ \A i \in DOMAIN toView : toView[i].guest = mounted.guest =>
         /\ toView[i].kind = "ok" /\ toView[i].level = "off" /\ i = Len(toView)
         /\ toMain = <<>> /\ paneGuest = mounted.guest /\ access[mounted.guest] = "off"

PaneIInv == PaneTyped /\ PagesAreNumbered /\ CapturesHold
BrowserIInv == AsksIInv /\ PaneIInv /\ ReadyIsTold /\ FirstCall

LEMMA BrowserInitOK == BrowserInit => BrowserIInv
  <1> SUFFICES ASSUME BrowserInit PROVE BrowserIInv
    OBVIOUS
  <1> USE BrowserAssumption DEF BrowserInit
  <1>1. AsksIInv
    BY EmptySeq DEF AsksIInv, AsksTyped, Requests, NotAsked, DialogsEnd, NoGuest
  <1>2. PaneTyped
    BY EmptySeq DEF PaneTyped, GuestPages, Captures, Levels, Sites, NoPane, NoGuest, NoCapture, Guests
  <1>3. PagesAreNumbered /\ CapturesHold /\ ReadyIsTold /\ FirstCall
    BY EmptySeq DEF PagesAreNumbered, CapturesHold, ReadyIsTold, FirstCall, NoPane, NoGuest, NoCapture, Guests
  <1> QED BY <1>1, <1>2, <1>3 DEF BrowserIInv, PaneIInv

(* The commands *)

\* A request that was asked keeps what it asked for, when and where.
LEMMA AsAgreedKept ==
  ASSUME NEW a, AsAgreed(a), allowedOnce \subseteq allowedOnce', AsksTyped, AsksTyped',
         \A r \in BrowserAsks : ask[r].state # "none" =>
           ask'[r].state # "none" /\ ask'[r].cmd = ask[r].cmd /\ ask'[r].at = ask[r].at
  PROVE  AsAgreed(a)'
  BY DEF AsAgreed, Asked

\* A request that ends keeps what it asked for, when and where.
LEMMA EndsOne ==
  ASSUME NEW a \in [BrowserAsks -> Requests], NEW r \in BrowserAsks, NEW b, b = [a EXCEPT ![r].state = "done"]
  PROVE  /\ b \in [BrowserAsks -> Requests]
         /\ \A q \in BrowserAsks : a[q].state # "none" => b[q].state # "none" /\ b[q].cmd = a[q].cmd /\ b[q].at = a[q].at
  <1>1. b = [a EXCEPT ![r] = [a[r] EXCEPT !.state = "done"]] /\ a[r] \in Requests
    OBVIOUS
  <1> DEFINE c == [a[r] EXCEPT !.state = "done"]
  <1>2. c \in Requests /\ c.state = "done" /\ c.cmd = a[r].cmd /\ c.at = a[r].at
    BY <1>1 DEF Requests
  <1>3. b = [a EXCEPT ![r] = c]
    BY <1>1
  <1> HIDE DEF c
  <1>4. b \in [BrowserAsks -> Requests] /\ b[r] = c /\ \A q \in BrowserAsks \ {r} : b[q] = a[q]
    BY <1>2, <1>3
  <1> QED BY <1>2, <1>4

LEMMA HandleOK ==
  ASSUME AsksIInv, PaneTyped, NEW r \in BrowserAsks, NEW cmd \in {"read", "act", "eval"}, Handle(r, cmd)
  PROVE  AsksIInv'
  <1> DEFINE g == paneGuest
             row == [state |-> "done", cmd |-> cmd, guest |-> g, site |-> pageOf[g].site, at |-> ticks]
  <1>0. ask[r] = NotAsked /\ g \in Guests /\ pageOf[g].site \in Sites /\ ticks' = ticks /\ ticks \in Nat
        /\ dialog' = dialog /\ allowedOnce' = allowedOnce /\ access' = access /\ CallerWaits \in Nat /\ 0 < CallerWaits
    <2>1. ask[r] = NotAsked /\ g # NoGuest /\ ticks' = ticks /\ dialog' = dialog /\ allowedOnce' = allowedOnce /\ access' = access
      BY DEF Handle
    <2>2. g \in Guests
      BY <2>1, BrowserAssumption DEF PaneTyped, Guests, NoGuest
    <2>3. pageOf[g].site \in Sites
      BY <2>2 DEF PaneTyped, GuestPages
    <2>4. CallerWaits \in Nat /\ 0 < CallerWaits
      BY BrowserAssumption
    <2> QED BY <2>1, <2>2, <2>3, <2>4 DEF AsksIInv, AsksTyped
  <1>1. row \in Requests /\ [row EXCEPT !.state = "waits"] \in Requests
    BY <1>0 DEF Requests, Guests, PaneTyped
  <1>2. /\ ask' = [ask EXCEPT ![r] = row] \/ ask' = [ask EXCEPT ![r] = [row EXCEPT !.state = "waits"]]
        /\ (inLine' = inLine) \/ (inLine' = Append(inLine, r) /\ UNCHANGED acted)
    BY DEF Handle, Execute
  <1>3. ask' \in [BrowserAsks -> Requests] /\ ask'[r].state # "none" /\ ask'[r].cmd = cmd /\ ask'[r].at = ticks
        /\ \A q \in BrowserAsks \ {r} : ask'[q] = ask[q]
    BY <1>1, <1>2 DEF AsksIInv, AsksTyped
  <1>4. AsksTyped'
    BY <1>0, <1>2, <1>3, AppendProperties DEF AsksIInv, AsksTyped
  <1>5. \A q : Asked(q) => q # r /\ q \in BrowserAsks
    BY <1>0 DEF Asked, NotAsked
  <1>6. \A q : Asked(q) => ask'[q] = ask[q] /\ Asked(q)'
    BY <1>5, <1>3 DEF Asked
  <1>7. DialogsEnd'
    <2>1. dialog' # NoDialog => /\ Asked(dialog.of)' /\ dialog.until \in Nat
                                /\ ticks <= dialog.until /\ dialog.until <= ask'[dialog.of].at + AskBudget
      BY <1>0, <1>6 DEF AsksIInv, DialogsEnd
    <2>2. ASSUME NEW i \in DOMAIN inLine' PROVE inLine'[i] \in BrowserAsks /\ ask'[inLine'[i]].state # "none"
      <3>1. CASE inLine' = inLine
        BY <3>1, <2>2, <1>6 DEF AsksIInv, DialogsEnd, Asked
      <3>2. CASE inLine' = Append(inLine, r)
        <4>1. (i \in DOMAIN inLine /\ inLine'[i] = inLine[i]) \/ inLine'[i] = r
          BY <3>2, <2>2, AppendProperties, LenProperties DEF AsksIInv, AsksTyped
        <4> QED BY <4>1, <1>3, <1>6 DEF AsksIInv, DialogsEnd, Asked
      <3> QED BY <3>1, <3>2, <1>2
    <2> QED BY <2>1, <2>2, <1>0 DEF DialogsEnd, Asked
  <1>8. ASSUME NEW a \in acted PROVE AsAgreed(a)'
    BY <1>0, <1>6, <1>4 DEF AsksIInv, AsAgreed
  <1>9. \/ acted' = acted
        \/ /\ Allows(access[g], cmd) /\ ~NeedsYes(cmd, pageOf[g].site)
           /\ acted' = acted \cup {[of |-> r, level |-> access[g], site |-> pageOf[g].site, at |-> ticks]}
    BY DEF Handle, Execute
  <1>10. ASSUME NEW a, a = [of |-> r, level |-> access[g], site |-> pageOf[g].site, at |-> ticks],
                Allows(access[g], cmd), ~NeedsYes(cmd, pageOf[g].site)
         PROVE  AsAgreed(a)'
    <2>1. a.of = r /\ a.level = access[g] /\ a.site = pageOf[g].site /\ a.at = ticks
      BY <1>10
    <2>2. Allows(a.level, cmd) /\ ~NeedsYes(cmd, a.site)
      BY <2>1, <1>10
    <2>3. ticks < ticks + CallerWaits
      BY <1>0
    <2> QED BY <2>1, <2>2, <2>3, <1>0, <1>3 DEF AsAgreed, Asked
  <1> QED BY <1>4, <1>7, <1>8, <1>9, <1>10 DEF AsksIInv

LEMMA DialogOpensOK == ASSUME AsksIInv, DialogOpens PROVE AsksIInv'
  <1> DEFINE r == Head(inLine)
  <1>0. r \in BrowserAsks /\ Asked(r) /\ inLine # <<>> /\ inLine' = Tail(inLine) /\ ticks' = ticks /\ ticks \in Nat
        /\ allowedOnce' = allowedOnce /\ acted' = acted /\ ask[r].at \in Nat /\ {ConfirmTime, AskBudget, MinAnswer} \subseteq Nat
        /\ dialog = NoDialog
    <2>1. inLine # <<>> /\ inLine \in Seq(BrowserAsks)
      BY DEF DialogOpens, AsksIInv, AsksTyped
    <2>2. r \in BrowserAsks /\ r = inLine[1] /\ 1 \in DOMAIN inLine
      BY <2>1, HeadTailProperties, EmptySeq, LenProperties
    <2> QED BY <2>1, <2>2, BrowserAssumption DEF DialogOpens, AsksIInv, AsksTyped, DialogsEnd, Requests
  <1>1. \/ ask' = [ask EXCEPT ![r].state = "done"] /\ dialog' = dialog
        \/ /\ ~(ask[r].at + AskBudget < ticks + MinAnswer) /\ ask' = ask
           /\ dialog' = [of |-> r, until |-> ticks + Smaller(ConfirmTime, ask[r].at + AskBudget - ticks)]
    BY DEF DialogOpens
  <1>2. ask' \in [BrowserAsks -> Requests]
        /\ \A q \in BrowserAsks : ask[q].state # "none" =>
             ask'[q].state # "none" /\ ask'[q].cmd = ask[q].cmd /\ ask'[q].at = ask[q].at
    <2>1. ask \in [BrowserAsks -> Requests] /\ (ask' = ask \/ ask' = [ask EXCEPT ![r].state = "done"])
      BY <1>1 DEF AsksIInv, AsksTyped
    <2>2. CASE ask' = ask
      BY <2>1, <2>2
    <2>3. CASE ask' = [ask EXCEPT ![r].state = "done"]
      BY <2>1, <2>3, <1>0, EndsOne
    <2> QED BY <2>1, <2>2, <2>3
  <1>3. inLine' \in Seq(BrowserAsks) /\ \A i \in DOMAIN inLine' : i + 1 \in DOMAIN inLine /\ inLine'[i] = inLine[i + 1]
    BY <1>0, HeadTailProperties, LenProperties DEF AsksIInv, AsksTyped
  <1>4. AsksTyped'
    BY <1>0, <1>2, <1>3 DEF AsksTyped
  <1>5. \A q : Asked(q) => Asked(q)'
    BY <1>2 DEF Asked
  <1>6. DialogsEnd'
    <2>1. CASE dialog' = dialog
      BY <2>1, <1>0, <1>3, <1>5 DEF AsksIInv, DialogsEnd
    <2>2. CASE ~(dialog' = dialog)
      <3>1. dialog'.of = r /\ dialog'.until = ticks + Smaller(ConfirmTime, ask[r].at + AskBudget - ticks)
            /\ ~(ask[r].at + AskBudget < ticks + MinAnswer) /\ ask' = ask
        BY <2>2, <1>1
      <3>2. dialog'.until \in Nat /\ ticks <= dialog'.until /\ dialog'.until <= ask[r].at + AskBudget
        <4> DEFINE left == ask[r].at + AskBudget - ticks
        <4>0. left = ask[r].at + AskBudget - ticks
          OBVIOUS
        <4>1. left \in Nat /\ ticks + left = ask[r].at + AskBudget
          <5> HIDE DEF left
          <5>1. ask[r].at \in Nat /\ AskBudget \in Nat /\ ticks \in Nat /\ MinAnswer \in Nat
            BY <1>0
          <5>2. ask[r].at + AskBudget >= ticks
            BY <3>1, <5>1
          <5> QED BY <4>0, <5>1, <5>2
        <4>2. Smaller(ConfirmTime, left) \in {ConfirmTime, left} /\ Smaller(ConfirmTime, left) \in Nat
              /\ Smaller(ConfirmTime, left) <= left
          BY <4>1, <1>0 DEF Smaller
        <4> HIDE DEF left
        <4>3. dialog'.until = ticks + Smaller(ConfirmTime, left)
          BY <3>1 DEF left
        <4> QED BY <4>1, <4>2, <4>3, <1>0
      <3> QED BY <3>1, <3>2, <1>0, <1>3, <1>5 DEF AsksIInv, DialogsEnd
    <2> QED BY <2>1, <2>2
  <1>7. \A a \in acted' : AsAgreed(a)'
    BY <1>0, <1>2, <1>4, AsAgreedKept DEF AsksIInv
  <1> QED BY <1>4, <1>6, <1>7 DEF AsksIInv

LEMMA AnswersOK == ASSUME AsksIInv, NEW yes \in BOOLEAN, PersonAnswers(yes) PROVE AsksIInv'
  <1>r. PICK r : r = dialog.of
    OBVIOUS
  <1>g. PICK g : g = ask[r].guest
    OBVIOUS
  <1>0. Asked(r) /\ r \in BrowserAsks /\ dialog' = NoDialog /\ ticks' = ticks /\ ticks \in Nat /\ inLine' = inLine
        /\ ticks <= ask[r].at + AskBudget /\ ask[r].at \in Nat /\ AskBudget \in Nat /\ CallerWaits \in Nat /\ AskBudget < CallerWaits
    <2>1. dialog # NoDialog /\ dialog' = NoDialog /\ ticks' = ticks /\ inLine' = inLine
      BY DEF PersonAnswers
    <2>2. Asked(r) /\ r \in BrowserAsks /\ dialog.until \in Nat /\ ticks <= dialog.until /\ dialog.until <= ask[r].at + AskBudget
      BY <2>1, <1>r DEF AsksIInv, DialogsEnd, Asked
    <2>3. ask[r].at \in Nat /\ ticks \in Nat /\ AskBudget \in Nat /\ CallerWaits \in Nat /\ AskBudget < CallerWaits
      BY <2>2, BrowserAssumption DEF AsksIInv, AsksTyped, Requests
    <2> QED BY <2>1, <2>2, <2>3
  <1>1. ask' = [ask EXCEPT ![r].state = "done"]
    BY <1>r DEF PersonAnswers
  <1>2. ask' \in [BrowserAsks -> Requests]
        /\ \A q \in BrowserAsks : ask[q].state # "none" =>
             ask'[q].state # "none" /\ ask'[q].cmd = ask[q].cmd /\ ask'[q].at = ask[q].at
    BY <1>0, <1>1, EndsOne DEF AsksIInv, AsksTyped
  <1>4. AsksTyped'
    BY <1>0, <1>2 DEF AsksIInv, AsksTyped
  <1>5. \A q : Asked(q) => Asked(q)'
    BY <1>2 DEF Asked
  <1>6. DialogsEnd'
    BY <1>0, <1>5 DEF AsksIInv, DialogsEnd
  <1>7. allowedOnce \subseteq allowedOnce'
    BY DEF PersonAnswers
  <1>8. \A a \in acted : AsAgreed(a)'
    BY <1>2, <1>4, <1>7, AsAgreedKept DEF AsksIInv
  <1>9. \/ acted' = acted
        \/ /\ acted' = acted \cup {[of |-> r, level |-> access[g], site |-> pageOf[g].site, at |-> ticks]}
           /\ [of |-> r, site |-> ask[r].site] \in allowedOnce' /\ StillTrue(r)
    BY <1>r, <1>g DEF PersonAnswers, Execute
  <1>10. ASSUME NEW a, a = [of |-> r, level |-> access[g], site |-> pageOf[g].site, at |-> ticks],
                [of |-> r, site |-> ask[r].site] \in allowedOnce', StillTrue(r)
         PROVE  AsAgreed(a)'
    <2>1. a.of = r /\ a.level = "control" /\ a.site = ask[r].site /\ a.at = ticks
      BY <1>10, <1>g DEF StillTrue
    <2>2. Allows(a.level, ask'[r].cmd)
      BY <2>1 DEF Allows
    <2>3. Asked(r)' /\ ask'[r].at = ask[r].at
      BY <1>0, <1>2, <1>5 DEF Asked
    <2>4. ticks < ask[r].at + CallerWaits
      BY <1>0
    <2>5. [of |-> a.of, site |-> a.site] \in allowedOnce'
      BY <2>1, <1>10
    <2> QED BY <2>1, <2>2, <2>3, <2>4, <2>5, <1>0 DEF AsAgreed
  <1> QED BY <1>4, <1>6, <1>8, <1>9, <1>10 DEF AsksIInv

LEMMA NobodyOK == ASSUME AsksIInv, NobodyAnswers PROVE AsksIInv'
  <1> DEFINE r == dialog.of
  <1>0. dialog # NoDialog /\ dialog' = NoDialog /\ ask' = [ask EXCEPT ![r].state = "done"] /\ inLine' = inLine
        /\ allowedOnce' = allowedOnce /\ acted' = acted /\ ticks' = ticks
    BY DEF NobodyAnswers
  <1>1. r \in BrowserAsks
    BY <1>0 DEF AsksIInv, DialogsEnd, Asked
  <1>2. ask' \in [BrowserAsks -> Requests]
        /\ \A q \in BrowserAsks : ask[q].state # "none" =>
             ask'[q].state # "none" /\ ask'[q].cmd = ask[q].cmd /\ ask'[q].at = ask[q].at
    BY <1>0, <1>1, EndsOne DEF AsksIInv, AsksTyped
  <1>4. AsksTyped'
    BY <1>0, <1>2 DEF AsksIInv, AsksTyped
  <1>5. \A q : Asked(q) => Asked(q)'
    BY <1>2 DEF Asked
  <1>6. DialogsEnd'
    BY <1>0, <1>5 DEF AsksIInv, DialogsEnd
  <1>7. \A a \in acted' : AsAgreed(a)'
    BY <1>0, <1>2, <1>4, AsAgreedKept DEF AsksIInv
  <1> QED BY <1>4, <1>6, <1>7 DEF AsksIInv

LEMMA AsksKept == ASSUME AsksIInv, UNCHANGED askVars PROVE AsksIInv'
  BY DEF askVars, AsksIInv, AsksTyped, DialogsEnd, AsAgreed, Asked

LEMMA TickOK == ASSUME AsksIInv, BrowserTick PROVE AsksIInv'
  <1>1. UNCHANGED <<ask, inLine, dialog, allowedOnce, acted>> /\ ticks' = ticks + 1 /\ ticks \in Nat
        /\ (dialog # NoDialog => ticks < dialog.until)
    BY DEF BrowserTick, AsksIInv, AsksTyped
  <1>2. DialogsEnd'
    BY <1>1 DEF AsksIInv, DialogsEnd, Asked
  <1>3. \A a \in acted' : AsAgreed(a)'
    BY <1>1 DEF AsksIInv, AsAgreed, Asked
  <1> QED BY <1>1, <1>2, <1>3 DEF AsksIInv, AsksTyped

LEMMA AsksStep == ASSUME AsksIInv, PaneTyped, [BrowserNext]_browserVars PROVE AsksIInv'
  <1>1. CASE UNCHANGED askVars
    BY <1>1, AsksKept
  <1>2. CASE ~ UNCHANGED askVars
    <2>1. \/ \E r \in BrowserAsks, c \in {"read", "act", "eval"} : Handle(r, c)
          \/ DialogOpens \/ NobodyAnswers \/ BrowserTick
          \/ \E yes \in BOOLEAN : PersonAnswers(yes)
      BY <1>2 DEF BrowserNext, browserVars, askVars, Mount, Unmount, DomReady, ViewHears, SetAccess, Choose,
         GuestDestroyed, DebuggerLost, DebuggerFree, PageLogs, PageMoves
    <2> QED BY <2>1, HandleOK, DialogOpensOK, NobodyOK, TickOK, AnswersOK
  <1> QED BY <1>1, <1>2

(* The pane *)

stageVars == <<pageOf, mounted, lastGuest, paneGuest, access, captureOf, toMain, toView>>

\* A queue with one more, and without its first.
LEMMA QueueAdds ==
  ASSUME NEW S, NEW q \in Seq(S), NEW x \in S
  PROVE  /\ Append(q, x) \in Seq(S) /\ Len(q) \in Nat /\ Len(Append(q, x)) = Len(q) + 1
         /\ DOMAIN q = 1..Len(q) /\ DOMAIN Append(q, x) = 1..(Len(q) + 1)
         /\ Append(q, x)[Len(q) + 1] = x /\ \A i \in 1..Len(q) : Append(q, x)[i] = q[i]
  BY AppendProperties, LenProperties
LEMMA QueueMoves ==
  ASSUME NEW S, NEW q \in Seq(S), q # <<>>
  PROVE  /\ Head(q) \in S /\ Head(q) = q[1] /\ Tail(q) \in Seq(S) /\ Len(q) \in Nat \ {0}
         /\ DOMAIN q = 1..Len(q) /\ DOMAIN Tail(q) = 1..(Len(q) - 1) /\ Len(Tail(q)) = Len(q) - 1
         /\ \A i \in 1..(Len(q) - 1) : Tail(q)[i] = q[i + 1]
  BY HeadTailProperties, LenProperties, EmptySeq

\* The messages under way are of pages by number.
LEMMA GuestsAreNumbers ==
  ASSUME PaneTyped
  PROVE  /\ \A i \in DOMAIN toMain : toMain[i] \in ToMain /\ toMain[i].guest \in Nat
         /\ \A i \in DOMAIN toView : toView[i] \in ToView /\ toView[i].guest \in Nat
  <1>1. toMain \in Seq(ToMain) /\ toView \in Seq(ToView) /\ DOMAIN toMain = 1..Len(toMain) /\ DOMAIN toView = 1..Len(toView)
    BY LenProperties DEF PaneTyped
  <1>2. (\A i \in DOMAIN toMain : toMain[i] \in ToMain) /\ \A i \in DOMAIN toView : toView[i] \in ToView
    BY <1>1, ElementOfSeq
  <1> QED BY <1>2, BrowserAssumption DEF ToMain, ToView, Guests

LEMMA MountOK == ASSUME PaneIInv, Mount PROVE PaneIInv' /\ ReadyIsTold' /\ FirstCall'
  <1> DEFINE g == lastGuest + 1
  <1>1. PICK site \in Sites :
          /\ mounted = NoPane /\ lastGuest < MaxGuests /\ lastGuest' = g /\ mounted' = [NoPane EXCEPT !.guest = g]
          /\ pageOf' = [pageOf EXCEPT ![g] = [alive |-> TRUE, site |-> site, taken |-> FALSE]]
          /\ UNCHANGED <<paneGuest, access, captureOf, toMain, toView>>
    BY DEF Mount, Sites
  <1>2. g \in Guests /\ g \in 0..MaxGuests /\ g # NoGuest /\ lastGuest < g /\ paneGuest \in Nat /\ lastGuest \in Nat
    BY <1>1, BrowserAssumption DEF PaneIInv, PaneTyped, Guests, NoGuest
  <1>3. mounted'.guest = g /\ mounted'.level = "off" /\ mounted'.ready = FALSE
        /\ mounted' \in [guest: 0..MaxGuests, level: Levels, ready: BOOLEAN]
    BY <1>1, <1>2 DEF NoPane, Levels
  <1>4. pageOf' \in [Guests -> GuestPages] /\ pageOf'[g].alive /\ ~pageOf'[g].taken
        /\ \A h \in Guests \ {g} : pageOf'[h] = pageOf[h]
    BY <1>1, <1>2 DEF PaneIInv, PaneTyped, GuestPages
  <1>5. ~captureOf[g].on
    BY <1>2 DEF PaneIInv, PagesAreNumbered, CapturesHold
  <1>6. PaneTyped'
    BY <1>1, <1>2, <1>3, <1>4 DEF PaneIInv, PaneTyped
  <1>7. (\A i \in DOMAIN toMain : toMain[i].guest < g) /\ \A i \in DOMAIN toView : toView[i].guest < g
    BY GuestsAreNumbers, <1>2 DEF PaneIInv, PagesAreNumbered
  <1>8. PagesAreNumbered'
    <2>1. (\A i \in DOMAIN toMain : toMain[i].guest <= g) /\ \A i \in DOMAIN toView : toView[i].guest <= g
      BY GuestsAreNumbers, <1>2, <1>7 DEF PaneIInv
    <2> QED BY <1>1, <1>2, <1>3, <1>4, <2>1 DEF PaneIInv, PagesAreNumbered
  <1>9. CapturesHold'
    BY <1>1, <1>4, <1>5 DEF PaneIInv, CapturesHold
  <1>10. FirstCall'
    BY <1>1, <1>2, <1>3, <1>5, <1>7 DEF FirstCall
  <1> QED BY <1>3, <1>6, <1>8, <1>9, <1>10 DEF PaneIInv, ReadyIsTold

LEMMA UnmountOK == ASSUME PaneIInv, Unmount PROVE PaneIInv' /\ ReadyIsTold' /\ FirstCall'
  <1>1. mounted' = NoPane /\ UNCHANGED <<pageOf, lastGuest, paneGuest, access, captureOf, toMain, toView>>
    BY DEF Unmount
  <1>2. mounted'.guest = NoGuest /\ mounted'.ready = FALSE
        /\ mounted' \in [guest: 0..MaxGuests, level: Levels, ready: BOOLEAN]
    BY <1>1, BrowserAssumption DEF NoPane, NoGuest, Levels
  <1> QED BY <1>1, <1>2 DEF PaneIInv, PaneTyped, PagesAreNumbered, CapturesHold, ReadyIsTold, FirstCall

\* A call of the page on screen: its first when it is not ready, and of nobody else then.
LEMMA CallOK ==
  ASSUME PaneIInv, ReadyIsTold, FirstCall, NEW level \in Levels, Calls(level), mounted # NoPane,
         UNCHANGED <<pageOf, mounted, lastGuest, paneGuest, access, captureOf, toView>>,
         ~mounted.ready => /\ level = "off"
                           /\ \A i \in DOMAIN toMain : toMain[i].guest # mounted.guest
                           /\ \A i \in DOMAIN toView : toView[i].guest # mounted.guest
  PROVE  PaneIInv' /\ ReadyIsTold' /\ FirstCall'
  <1> DEFINE x == [guest |-> mounted.guest, level |-> level]
             n == Len(toMain)
  <1>1. mounted.guest \in Guests /\ mounted.guest # NoGuest /\ mounted.guest = lastGuest
    BY BrowserAssumption DEF PaneIInv, PaneTyped, PagesAreNumbered, Guests, NoGuest
  <1>2. x \in ToMain /\ toMain \in Seq(ToMain) /\ toMain' = Append(toMain, x)
    BY <1>1 DEF Calls, ToMain, PaneIInv, PaneTyped
  <1> HIDE DEF x
  <1>3. /\ toMain' \in Seq(ToMain) /\ n \in Nat /\ Len(toMain') = n + 1 /\ DOMAIN toMain = 1..n
        /\ DOMAIN toMain' = 1..(n + 1) /\ toMain'[n + 1] = x /\ \A i \in 1..n : toMain'[i] = toMain[i]
    BY <1>2, QueueAdds
  <1>4. x.guest = mounted.guest /\ x.level = level
    BY DEF x
  <1>5. \A i \in DOMAIN toMain' : (i \in DOMAIN toMain /\ toMain'[i] = toMain[i]) \/ (i = n + 1 /\ toMain'[i] = x)
    BY <1>3
  <1>6. PaneTyped'
    BY <1>3 DEF PaneIInv, PaneTyped
  <1>7. lastGuest <= lastGuest
    BY DEF PaneIInv, PaneTyped
  <1>8. PagesAreNumbered'
    BY <1>1, <1>4, <1>5, <1>7 DEF PaneIInv, PagesAreNumbered
  <1>9. CapturesHold'
    BY DEF PaneIInv, CapturesHold
  <1>10. ReadyIsTold'
    BY <1>4, <1>5 DEF ReadyIsTold, LastSaid
  <1>11. FirstCall'
    BY <1>3, <1>4, <1>5 DEF FirstCall
  <1> QED BY <1>6, <1>8, <1>9, <1>10, <1>11 DEF PaneIInv

LEMMA CallsOK ==
  ASSUME PaneIInv, ReadyIsTold, FirstCall, DomReady \/ \E l \in Levels : Choose(l)
  PROVE  PaneIInv' /\ ReadyIsTold' /\ FirstCall'
  <1>1. CASE DomReady
    BY <1>1, CallOK DEF DomReady, Levels
  <1>2. ASSUME NEW l \in Levels, Choose(l) PROVE PaneIInv' /\ ReadyIsTold' /\ FirstCall'
    <2>1. mounted # NoPane
      BY <1>2 DEF Choose, NoPane
    <2> QED BY <1>2, <2>1, CallOK DEF Choose
  <1> QED BY <1>1, <1>2

\* What the page does, and DevTools, while no message comes or goes.
LEMMA PageOK ==
  ASSUME PaneIInv, ReadyIsTold, FirstCall, NEW g \in Guests,
         DebuggerFree(g) \/ PageLogs(g) \/ (\E s \in Sites : PageMoves(g, s))
  PROVE  PaneIInv' /\ ReadyIsTold' /\ FirstCall'
  <1>1. UNCHANGED <<mounted, lastGuest, paneGuest, access, toMain, toView>>
    BY DEF DebuggerFree, PageLogs, PageMoves, switchVars
  <1> DEFINE Kept ==
        /\ pageOf' \in [Guests -> GuestPages] /\ captureOf' \in [Guests -> Captures]
        /\ \A h \in Guests : pageOf'[h].alive = pageOf[h].alive /\ captureOf'[h].on = captureOf[h].on
                             /\ (~pageOf[h].taken => ~pageOf'[h].taken)
        /\ \A h \in Guests \ {g} : pageOf'[h] = pageOf[h] /\ captureOf'[h] = captureOf[h]
        /\ captureOf[g].on => captureOf'[g].site = pageOf'[g].site /\ captureOf'[g].rows \subseteq {pageOf'[g].site}
        /\ ~captureOf[g].on => captureOf'[g].rows = {}
  <1>2. Kept
    <2>0. pageOf \in [Guests -> GuestPages] /\ captureOf \in [Guests -> Captures] /\ pageOf[g].site \in Sites
          /\ (captureOf[g].on => captureOf[g].site = pageOf[g].site /\ captureOf[g].rows \subseteq {pageOf[g].site})
          /\ (~captureOf[g].on => captureOf[g].rows = {})
      BY DEF PaneIInv, PaneTyped, CapturesHold, GuestPages
    <2>1. CASE DebuggerFree(g)
      BY <2>0, <2>1 DEF DebuggerFree, GuestPages
    <2>2. CASE PageLogs(g)
      BY <2>0, <2>2 DEF PageLogs, GuestPages, Captures
    <2>3. ASSUME NEW s \in Sites, PageMoves(g, s) PROVE Kept
      <3>1. pageOf' = [pageOf EXCEPT ![g].site = s] /\ pageOf[g].site # s
        BY <2>3 DEF PageMoves
      <3>2. captureOf' = IF captureOf[g].on THEN [captureOf EXCEPT ![g] = [on |-> TRUE, site |-> s, rows |-> {}]] ELSE captureOf
        BY <2>0, <2>3, <3>1 DEF PageMoves
      <3>3. pageOf' \in [Guests -> GuestPages] /\ pageOf'[g].site = s
            /\ (\A h \in Guests : pageOf'[h].alive = pageOf[h].alive /\ pageOf'[h].taken = pageOf[h].taken)
            /\ \A h \in Guests \ {g} : pageOf'[h] = pageOf[h]
        BY <2>0, <3>1 DEF GuestPages
      <3>4. CASE captureOf[g].on
        BY <2>0, <3>2, <3>3, <3>4 DEF Captures
      <3>5. CASE ~captureOf[g].on
        BY <2>0, <3>2, <3>3, <3>5
      <3> QED BY <3>4, <3>5
    <2> QED BY <2>1, <2>2, <2>3
  <1>3. PaneIInv'
    BY <1>1, <1>2 DEF PaneIInv, PaneTyped, PagesAreNumbered, CapturesHold, Guests, NoGuest
  <1>4. mounted.guest # NoGuest => mounted.guest \in Guests
    BY BrowserAssumption DEF PaneIInv, PaneTyped, Guests, NoGuest
  <1>5. mounted.ready => mounted.guest # NoGuest
    BY DEF PaneIInv, PagesAreNumbered, NoPane
  <1>6. ReadyIsTold' /\ FirstCall'
    BY <1>1, <1>2, <1>4, <1>5 DEF ReadyIsTold, LastSaid, FirstCall
  <1> QED BY <1>3, <1>6

LEMMA DestroyedOK ==
  ASSUME PaneIInv, ReadyIsTold, FirstCall, NEW g \in Guests, GuestDestroyed(g)
  PROVE  PaneIInv' /\ ReadyIsTold' /\ FirstCall'
  <1>1. /\ mounted.guest # g /\ pageOf' = [pageOf EXCEPT ![g].alive = FALSE]
        /\ UNCHANGED <<mounted, lastGuest, toMain, access, toView>>
        /\ \/ paneGuest = g /\ paneGuest' = NoGuest /\ captureOf' = [captureOf EXCEPT ![g] = NoCapture]
           \/ paneGuest # g /\ paneGuest' = paneGuest /\ captureOf' = captureOf
    BY DEF GuestDestroyed, switchVars, WithoutCapture
  <1>2. pageOf \in [Guests -> GuestPages] /\ captureOf \in [Guests -> Captures] /\ lastGuest \in Nat
        /\ NoCapture \in Captures /\ NoCapture.on = FALSE /\ NoCapture.rows = {} /\ NoGuest = 0 /\ MaxGuests \in Nat
    BY BrowserAssumption DEF PaneIInv, PaneTyped, NoCapture, Captures, NoGuest
  <1>3. /\ pageOf' \in [Guests -> GuestPages]
        /\ \A h \in Guests : pageOf'[h].taken = pageOf[h].taken /\ pageOf'[h].site = pageOf[h].site
        /\ \A h \in Guests \ {g} : pageOf'[h] = pageOf[h]
    BY <1>1, <1>2 DEF GuestPages
  <1>4. /\ captureOf' \in [Guests -> Captures]
        /\ \A h \in Guests \ {g} : captureOf'[h] = captureOf[h]
        /\ captureOf'[g] = captureOf[g] \/ captureOf'[g] = NoCapture
        /\ paneGuest = g => captureOf'[g] = NoCapture
    BY <1>1, <1>2
  <1>5. mounted.guest # NoGuest => mounted.guest \in Guests \ {g}
    BY <1>1, <1>2 DEF PaneIInv, PaneTyped, Guests
  <1>6. mounted.ready => mounted.guest # NoGuest
    BY DEF PaneIInv, PagesAreNumbered, NoPane
  <1>7. PaneTyped'
    BY <1>1, <1>2, <1>3, <1>4 DEF PaneIInv, PaneTyped
  <1>8. PagesAreNumbered'
    <2>1. paneGuest' <= lastGuest
      BY <1>1, <1>2 DEF PaneIInv, PagesAreNumbered
    <2> QED BY <1>1, <1>3, <1>5, <2>1 DEF PaneIInv, PagesAreNumbered
  <1>9. CapturesHold'
    <2> SUFFICES ASSUME NEW h \in Guests
                 PROVE  /\ captureOf'[h].on => /\ h = paneGuest' /\ access[h] # "off" /\ ~pageOf'[h].taken
                                               /\ captureOf'[h].site = pageOf'[h].site
                                               /\ captureOf'[h].rows \subseteq {pageOf'[h].site}
                        /\ ~captureOf'[h].on => captureOf'[h].rows = {}
      BY <1>1 DEF CapturesHold
    <2>1. CASE captureOf'[h] = NoCapture
      BY <2>1, <1>2
    <2>2. CASE captureOf'[h] # NoCapture
      <3>1. captureOf'[h] = captureOf[h] /\ (h = g => paneGuest # g)
        BY <2>2, <1>4
      <3>2. captureOf[h].on => h = paneGuest
        BY DEF PaneIInv, CapturesHold
      <3>3. captureOf[h].on => paneGuest # g
        BY <3>1, <3>2
      <3> QED BY <3>1, <3>2, <3>3, <1>1, <1>3 DEF PaneIInv, CapturesHold
    <2> QED BY <2>1, <2>2
  <1>10. ReadyIsTold' /\ FirstCall'
    BY <1>1, <1>4, <1>5, <1>6 DEF ReadyIsTold, LastSaid, FirstCall
  <1> QED BY <1>7, <1>8, <1>9, <1>10 DEF PaneIInv

\* DevTools takes the page: if main held it, the pane is told that it is off.
LEMMA LostOK ==
  ASSUME PaneIInv, ReadyIsTold, FirstCall, NEW g \in Guests, DebuggerLost(g)
  PROVE  PaneIInv' /\ ReadyIsTold' /\ FirstCall'
  <1> DEFINE x == [kind |-> "detached", guest |-> g, level |-> "off"]
             n == Len(toView)
  <1>0. /\ pageOf' = [pageOf EXCEPT ![g].taken = TRUE] /\ UNCHANGED <<mounted, lastGuest, toMain, paneGuest>>
        /\ \/ /\ captureOf[g].on /\ captureOf' = [captureOf EXCEPT ![g] = NoCapture]
              /\ access' = [access EXCEPT ![g] = "off"] /\ toView' = Append(toView, x)
           \/ ~captureOf[g].on /\ UNCHANGED <<captureOf, access, toView>>
    BY DEF DebuggerLost, switchVars, WithoutCapture, Tells
  <1>1. /\ pageOf \in [Guests -> GuestPages] /\ captureOf \in [Guests -> Captures] /\ access \in [Guests -> Levels]
        /\ NoCapture \in Captures /\ NoCapture.on = FALSE /\ NoCapture.rows = {} /\ "off" \in Levels
        /\ x \in ToView /\ x.kind = "detached" /\ x.guest = g /\ x.level = "off" /\ toView \in Seq(ToView)
    BY DEF PaneIInv, PaneTyped, NoCapture, Captures, Levels, ToView
  <1> HIDE DEF x
  <1>2. /\ pageOf' \in [Guests -> GuestPages]
        /\ \A h \in Guests : pageOf'[h].alive = pageOf[h].alive /\ pageOf'[h].site = pageOf[h].site
        /\ \A h \in Guests \ {g} : pageOf'[h] = pageOf[h]
    <2> DEFINE page == [pageOf[g] EXCEPT !.taken = TRUE]
    <2>1. pageOf[g] \in GuestPages /\ pageOf' = [pageOf EXCEPT ![g] = page]
      BY <1>0, <1>1
    <2>2. page \in GuestPages /\ page.alive = pageOf[g].alive /\ page.site = pageOf[g].site
      BY <2>1 DEF GuestPages
    <2> HIDE DEF page
    <2> QED BY <2>1, <2>2, <1>1
  <1>3. mounted.guest # NoGuest => mounted.guest \in Guests
    BY BrowserAssumption DEF PaneIInv, PaneTyped, Guests, NoGuest
  <1>4. mounted.ready => mounted.guest # NoGuest
    BY DEF PaneIInv, PagesAreNumbered, NoPane
  <1>5. CASE ~captureOf[g].on
    <2>1. UNCHANGED <<captureOf, access, toView>>
      BY <1>0, <1>5
    <2>2. PaneIInv'
      BY <1>0, <1>1, <1>2, <1>3, <1>5, <2>1 DEF PaneIInv, PaneTyped, PagesAreNumbered, CapturesHold
    <2>3. ReadyIsTold' /\ FirstCall'
      BY <1>0, <2>1 DEF ReadyIsTold, LastSaid, FirstCall
    <2> QED BY <2>2, <2>3
  <1>6. CASE captureOf[g].on
    <2>1. captureOf' = [captureOf EXCEPT ![g] = NoCapture] /\ access' = [access EXCEPT ![g] = "off"]
          /\ toView' = Append(toView, x) /\ g = paneGuest
      BY <1>0, <1>6 DEF PaneIInv, CapturesHold
    <2>2. /\ captureOf' \in [Guests -> Captures] /\ captureOf'[g] = NoCapture
          /\ access' \in [Guests -> Levels] /\ access'[g] = "off"
          /\ \A h \in Guests \ {g} : captureOf'[h] = captureOf[h] /\ access'[h] = access[h]
      BY <2>1, <1>1
    <2>3. /\ toView' \in Seq(ToView) /\ n \in Nat /\ Len(toView') = n + 1 /\ DOMAIN toView = 1..n
          /\ DOMAIN toView' = 1..(n + 1) /\ toView'[n + 1] = x /\ \A i \in 1..n : toView'[i] = toView[i]
      BY <2>1, <1>1, QueueAdds
    <2>4. \A i \in DOMAIN toView' : (i \in DOMAIN toView /\ toView'[i] = toView[i]) \/ (i = n + 1 /\ toView'[i] = x)
      BY <2>3
    <2>5. PaneTyped'
      BY <1>0, <1>2, <2>2, <2>3 DEF PaneIInv, PaneTyped
    <2>6. PagesAreNumbered'
      BY <1>0, <1>1, <1>2, <1>3, <2>1, <2>4 DEF PaneIInv, PagesAreNumbered
    <2>7. CapturesHold'
      <3>1. \A h \in Guests \ {g} : captureOf[h].on => h = paneGuest
        BY DEF PaneIInv, CapturesHold
      <3>2. \A h \in Guests \ {g} : ~captureOf'[h].on /\ captureOf'[h].rows = {}
        BY <3>1, <2>1, <2>2 DEF PaneIInv, CapturesHold
      <3> QED BY <3>2, <2>2, <1>1 DEF CapturesHold
    <2>8. ReadyIsTold'
      <3> SUFFICES ASSUME mounted.ready PROVE ReadyIsTold'
        BY <1>0 DEF ReadyIsTold
      <3>1. paneGuest = mounted.guest /\ mounted.guest = g
        BY <2>1 DEF ReadyIsTold
      <3>2. \A i \in DOMAIN toView' : toView'[i].guest = g
        BY <2>4, <1>1, <3>1 DEF ReadyIsTold
      <3>3. n + 1 \in DOMAIN toView' /\ toView'[n + 1].kind = "detached" /\ \A i \in DOMAIN toView' : i # n + 1 => i < n + 1
        BY <2>3, <1>1
      <3>4. LastSaid'
        <4>1. ASSUME NEW i \in DOMAIN toView', \A j \in DOMAIN toView' : j > i => toView'[j].kind = "refused"
              PROVE  i = n + 1
          BY <4>1, <3>3, <2>3
        <4>2. ~(\A j \in DOMAIN toView' : toView'[j].kind = "refused")
          BY <3>3
        <4> QED BY <4>1, <4>2, <3>1, <3>3, <2>2, <1>0 DEF LastSaid
      <3> QED BY <3>1, <3>2, <3>4, <2>2, <1>0 DEF ReadyIsTold
    <2>9. FirstCall'
      <3> SUFFICES ASSUME mounted.guest # NoGuest, ~mounted.ready PROVE FirstCall'
        BY <1>0 DEF FirstCall
      <3>1. mounted.guest # g /\ mounted.guest \in Guests
        BY <1>6, <1>3 DEF FirstCall
      <3>2. \A i \in DOMAIN toView : toView[i].guest # mounted.guest
        BY <3>1, <2>1 DEF FirstCall
      <3>3. \A i \in DOMAIN toView' : toView'[i].guest # mounted.guest
        BY <3>1, <3>2, <2>4, <1>1
      <3> QED BY <3>1, <3>2, <3>3, <2>2, <1>0 DEF FirstCall
    <2> QED BY <2>5, <2>6, <2>7, <2>8, <2>9 DEF PaneIInv
  <1> QED BY <1>5, <1>6

LEMMA HearsOK ==
  ASSUME PaneIInv, ReadyIsTold, FirstCall, ViewHears
  PROVE  PaneIInv' /\ ReadyIsTold' /\ FirstCall'
  <1> DEFINE m == Head(toView)
             n == Len(toView)
             mine == mounted # NoPane /\ (m.kind = "detached" \/ m.guest = mounted.guest)
  <1>0. /\ toView # <<>> /\ toView' = Tail(toView)
        /\ UNCHANGED <<pageOf, lastGuest, paneGuest, access, captureOf, toMain>>
        /\ mounted' = IF ~mine \/ m.kind = "refused" THEN mounted
                      ELSE IF m.kind = "detached" THEN [mounted EXCEPT !.level = "off"]
                      ELSE [mounted EXCEPT !.level = m.level, !.ready = TRUE]
    BY DEF ViewHears
  <1>1. mounted \in [guest: 0..MaxGuests, level: Levels, ready: BOOLEAN] /\ toView \in Seq(ToView) /\ "off" \in Levels
    BY DEF PaneIInv, PaneTyped, Levels
  <1>2. /\ m \in ToView /\ m = toView[1] /\ toView' \in Seq(ToView) /\ n \in Nat \ {0}
        /\ DOMAIN toView = 1..n /\ DOMAIN toView' = 1..(n - 1) /\ Len(toView') = n - 1
        /\ \A i \in 1..(n - 1) : toView'[i] = toView[i + 1]
    BY <1>0, <1>1, QueueMoves
  <1> HIDE DEF m
  <1>3. \A i \in DOMAIN toView' : i + 1 \in DOMAIN toView /\ toView'[i] = toView[i + 1]
    BY <1>2
  <1>4. \A j \in DOMAIN toView : j = 1 \/ (j - 1 \in DOMAIN toView' /\ toView'[j - 1] = toView[j])
    BY <1>2
  <1>5. mounted.guest # NoGuest <=> mounted # NoPane
    BY DEF PaneIInv, PagesAreNumbered, NoPane
  <1>6. mounted' \in [guest: 0..MaxGuests, level: Levels, ready: BOOLEAN] /\ mounted'.guest = mounted.guest
        /\ (mounted = NoPane => mounted' = NoPane)
    BY <1>0, <1>1, <1>2 DEF ToView
  <1>7. PaneIInv'
    BY <1>0, <1>2, <1>3, <1>6 DEF PaneIInv, PaneTyped, PagesAreNumbered, CapturesHold
  <1>8. CASE mounted.ready
    <2>1. mounted # NoPane /\ m.guest = mounted.guest /\ mine
      BY <1>2, <1>8 DEF ReadyIsTold, NoPane
    <2>2. mounted'.ready = TRUE
          /\ (m.kind = "refused" => mounted'.level = mounted.level)
          /\ (m.kind # "refused" => mounted'.level = IF m.kind = "detached" THEN "off" ELSE m.level)
      BY <2>1, <1>0, <1>1, <1>8
    <2>3. \A i \in DOMAIN toView' : toView'[i].guest = mounted.guest
      BY <1>3, <1>8 DEF ReadyIsTold
    <2>4. ASSUME NEW i \in DOMAIN toView', toView'[i].kind # "refused",
                 \A j \in DOMAIN toView' : j > i => toView'[j].kind = "refused"
          PROVE  (IF toView'[i].kind = "detached" THEN "off" ELSE toView'[i].level) = access[mounted.guest]
      <3>1. i + 1 \in DOMAIN toView /\ toView'[i] = toView[i + 1] /\ i \in Nat
        BY <1>2, <1>3
      <3>2. ASSUME NEW j \in DOMAIN toView, j > i + 1 PROVE toView[j].kind = "refused"
        <4>1. j - 1 \in DOMAIN toView' /\ toView'[j - 1] = toView[j] /\ j - 1 > i
          BY <3>1, <3>2, <1>2
        <4> QED BY <4>1, <2>4
      <3> QED BY <3>1, <3>2, <2>4, <1>8 DEF ReadyIsTold, LastSaid
    <2>5. ASSUME \A j \in DOMAIN toView' : toView'[j].kind = "refused" PROVE mounted'.level = access[mounted.guest]
      <3>1. \A j \in DOMAIN toView : j = 1 \/ toView[j].kind = "refused"
        BY <2>5, <1>4
      <3>2. CASE m.kind = "refused"
        BY <3>1, <3>2, <2>2, <1>2, <1>8 DEF ReadyIsTold, LastSaid
      <3>3. CASE m.kind # "refused"
        <4>1. 1 \in DOMAIN toView /\ \A j \in DOMAIN toView : j > 1 => toView[j].kind = "refused"
          BY <3>1, <1>2
        <4> QED BY <4>1, <3>3, <2>2, <1>2, <1>8 DEF ReadyIsTold, LastSaid
      <3> QED BY <3>2, <3>3
    <2>6. LastSaid'
      BY <2>4, <2>5, <1>0, <1>6 DEF LastSaid
    <2>7. ReadyIsTold'
      BY <2>3, <2>6, <1>0, <1>6, <1>8 DEF ReadyIsTold
    <2> QED BY <2>2, <2>7, <1>7 DEF FirstCall
  <1>9. CASE ~mounted.ready
    <2>1. CASE mounted = NoPane
      <3>1. mounted' = NoPane /\ mounted'.guest = NoGuest /\ ~mounted'.ready
        BY <2>1, <1>6 DEF NoPane
      <3> QED BY <3>1, <1>7 DEF FirstCall, ReadyIsTold
    <2>2. CASE mounted # NoPane /\ m.guest = mounted.guest
      <3>1. m.kind = "ok" /\ m.level = "off" /\ n = 1 /\ toMain = <<>> /\ paneGuest = mounted.guest
            /\ access[mounted.guest] = "off"
        BY <2>2, <1>2, <1>5, <1>9 DEF FirstCall
      <3>2. mounted'.ready = TRUE /\ mounted'.level = "off"
        BY <3>1, <2>2, <1>0, <1>1
      <3>3. DOMAIN toView' = {} /\ DOMAIN toMain' = {}
        BY <3>1, <1>0, <1>2
      <3>4. LastSaid'
        BY <3>1, <3>2, <3>3, <1>0, <1>6 DEF LastSaid
      <3> QED BY <3>1, <3>2, <3>3, <3>4, <1>0, <1>6, <1>7 DEF ReadyIsTold, FirstCall
    <2>3. CASE mounted # NoPane /\ m.guest # mounted.guest
      <3>1. mounted.guest # NoGuest /\ mounted.level = "off"
        BY <2>3, <1>5, <1>9 DEF FirstCall
      <3>2. mounted'.level = "off" /\ ~mounted'.ready
        BY <2>3, <3>1, <1>0, <1>1, <1>9
      <3>3. \A i \in DOMAIN toView' : i + 1 \in DOMAIN toView /\ toView'[i] = toView[i + 1]
              /\ (i + 1 = n => i = Len(toView'))
        BY <1>2
      <3>4. FirstCall'
        BY <3>1, <3>2, <3>3, <1>0, <1>6, <1>9 DEF FirstCall
      <3> QED BY <3>2, <3>4, <1>7 DEF ReadyIsTold
    <2> QED BY <2>1, <2>2, <2>3
  <1> QED BY <1>8, <1>9

\* main answers a call; the answer is the last of what is under way to the pane.
LEMMA SetAccessOK ==
  ASSUME PaneIInv, ReadyIsTold, FirstCall, SetAccess
  PROVE  PaneIInv' /\ ReadyIsTold' /\ FirstCall'
  <1>p. PICK g : g = Head(toMain).guest
    OBVIOUS
  <1>l. PICK level : level = Head(toMain).level
    OBVIOUS
  <1> DEFINE starts == level # "off" /\ ~captureOf[g].on
             n == Len(toView)
             k == Len(toMain)
             fresh == [on |-> TRUE, site |-> pageOf[g].site, rows |-> {}]
  <1>0. toMain # <<>> /\ toMain' = Tail(toMain) /\ UNCHANGED <<pageOf, mounted, lastGuest>>
    BY DEF SetAccess
  <1>1. /\ toMain \in Seq(ToMain) /\ toView \in Seq(ToView) /\ access \in [Guests -> Levels]
        /\ pageOf \in [Guests -> GuestPages] /\ captureOf \in [Guests -> Captures] /\ lastGuest \in Nat /\ paneGuest \in 0..MaxGuests
        /\ NoCapture \in Captures /\ NoCapture.on = FALSE /\ NoCapture.rows = {} /\ Guests \subseteq 0..MaxGuests
        /\ NoGuest \notin Guests
    BY BrowserAssumption DEF PaneIInv, PaneTyped, NoCapture, Captures, Guests, NoGuest
  <1>2. /\ Head(toMain) \in ToMain /\ Head(toMain) = toMain[1] /\ toMain' \in Seq(ToMain) /\ k \in Nat \ {0}
        /\ DOMAIN toMain = 1..k /\ DOMAIN toMain' = 1..(k - 1) /\ Len(toMain') = k - 1
        /\ \A i \in 1..(k - 1) : toMain'[i] = toMain[i + 1]
    BY <1>0, <1>1, QueueMoves
  <1>3. g \in Guests /\ level \in Levels /\ g <= lastGuest /\ 1 \in DOMAIN toMain /\ toMain[1].guest = g /\ toMain[1].level = level
    BY <1>2, <1>p, <1>l DEF ToMain, PaneIInv, PagesAreNumbered
  <1>4. fresh \in Captures /\ fresh.on = TRUE /\ fresh.site = pageOf[g].site /\ fresh.rows = {}
    BY <1>1, <1>3 DEF Captures, GuestPages
  <1> HIDE DEF fresh
  <1>5. PICK kind \in {"ok", "refused"} :
          /\ toView' = Append(toView, [kind |-> kind, guest |-> g, level |-> level])
          /\ kind = "refused" => access' = access
          /\ kind = "ok" => access' = [access EXCEPT ![g] = level] /\ paneGuest' = g
          /\ pageOf[g].alive => paneGuest' = g /\ (kind = "refused" => starts)
          /\ \/ paneGuest' = paneGuest /\ captureOf' = captureOf /\ kind = "refused" /\ ~pageOf[g].alive
             \/ /\ paneGuest' = g
                /\ \/ kind = "refused" /\ starts /\ captureOf' = Forgotten(g)
                   \/ kind = "ok" /\ starts /\ ~pageOf[g].taken /\ captureOf' = [Forgotten(g) EXCEPT ![g] = fresh]
                   \/ kind = "ok" /\ level = "off" /\ captureOf' = [Forgotten(g) EXCEPT ![g] = NoCapture]
                   \/ kind = "ok" /\ level # "off" /\ ~starts /\ captureOf' = Forgotten(g)
    <2>1. CASE ~pageOf[g].alive
      BY <2>1, <1>p, <1>l DEF SetAccess, Tells
    <2>2. CASE pageOf[g].alive /\ starts /\ pageOf[g].taken
      BY <2>2, <1>p, <1>l DEF SetAccess, Tells
    <2>3. CASE pageOf[g].alive /\ starts /\ ~pageOf[g].taken
      BY <2>3, <1>p, <1>l DEF SetAccess, Tells, fresh
    <2>4. CASE pageOf[g].alive /\ level = "off"
      BY <2>4, <1>p, <1>l DEF SetAccess, Tells
    <2>5. CASE pageOf[g].alive /\ level # "off" /\ ~starts
      BY <2>5, <1>p, <1>l DEF SetAccess, Tells
    <2> QED BY <2>1, <2>2, <2>3, <2>4, <2>5
  <1> DEFINE x == [kind |-> kind, guest |-> g, level |-> level]
  <1>6. x \in ToView /\ x.kind = kind /\ x.guest = g /\ x.level = level
    BY <1>3 DEF ToView
  <1> HIDE DEF x
  <1>7. toView' = Append(toView, x)
    BY <1>5 DEF x
  <1>8. /\ toView' \in Seq(ToView) /\ n \in Nat /\ Len(toView') = n + 1 /\ DOMAIN toView = 1..n
        /\ DOMAIN toView' = 1..(n + 1) /\ toView'[n + 1] = x /\ \A i \in 1..n : toView'[i] = toView[i]
    BY <1>1, <1>6, <1>7, QueueAdds
  <1>9. \A i \in DOMAIN toView' : (i \in DOMAIN toView /\ toView'[i] = toView[i]) \/ (i = n + 1 /\ toView'[i] = x)
    BY <1>8
  <1>10. \A i \in DOMAIN toMain' : i + 1 \in DOMAIN toMain /\ toMain'[i] = toMain[i + 1] /\ (i + 1 = k => i = Len(toMain'))
    BY <1>2
  <1>11. access' \in [Guests -> Levels] /\ (\A h \in Guests \ {g} : access'[h] = access[h])
         /\ (kind = "ok" => access'[g] = level) /\ (kind = "refused" => access'[g] = access[g])
    BY <1>1, <1>3, <1>5
  \* only the pane main knew held a debugger, and forgetting it leaves none but g's
  <1>12. /\ Forgotten(g) \in [Guests -> Captures]
         /\ \A h \in Guests \ {g} : ~Forgotten(g)[h].on /\ Forgotten(g)[h].rows = {}
         /\ Forgotten(g)[g] = captureOf[g]
    <2>1. \A h \in Guests : (captureOf[h].on => h = paneGuest) /\ (~captureOf[h].on => captureOf[h].rows = {})
      BY DEF PaneIInv, CapturesHold
    <2>2. CASE paneGuest \in {NoGuest, g}
      BY <2>1, <2>2, <1>1 DEF Forgotten
    <2>3. CASE paneGuest \notin {NoGuest, g}
      <3>1. paneGuest \in Guests /\ Forgotten(g) = [captureOf EXCEPT ![paneGuest] = NoCapture]
        BY <2>3, <1>1, BrowserAssumption DEF Forgotten, WithoutCapture, Guests, NoGuest
      <3> QED BY <2>1, <2>3, <3>1, <1>1, <1>3
    <2> QED BY <2>2, <2>3
  <1>13. PaneTyped'
    <2>1. captureOf' \in [Guests -> Captures]
      BY <1>1, <1>3, <1>4, <1>5, <1>12
    <2>2. paneGuest' \in 0..MaxGuests
      BY <1>1, <1>3, <1>5
    <2> QED BY <2>1, <2>2, <1>0, <1>2, <1>8, <1>11 DEF PaneIInv, PaneTyped
  <1>14. PagesAreNumbered'
    <2>1. paneGuest' <= lastGuest
      BY <1>3, <1>5 DEF PaneIInv, PagesAreNumbered
    <2> QED BY <2>1, <1>0, <1>3, <1>6, <1>9, <1>10 DEF PaneIInv, PagesAreNumbered
  <1>15. CASE paneGuest' = paneGuest /\ captureOf' = captureOf /\ kind = "refused" /\ ~pageOf[g].alive
    <2>1. access' = access /\ mounted.guest # g
      BY <1>5, <1>15, <1>3 DEF PaneIInv, PagesAreNumbered, NoGuest, Guests
    <2>2. CapturesHold'
      BY <2>1, <1>0, <1>15 DEF PaneIInv, CapturesHold
    <2>3. ~mounted.ready
      BY <2>1, <1>3 DEF ReadyIsTold
    <2>4. FirstCall'
      BY <2>1, <2>3, <1>0, <1>2, <1>3, <1>6, <1>9, <1>10, <1>15 DEF FirstCall
    <2> QED BY <2>2, <2>3, <2>4, <1>0, <1>13, <1>14 DEF PaneIInv, ReadyIsTold
  <1>16. CASE ~(paneGuest' = paneGuest /\ captureOf' = captureOf /\ kind = "refused" /\ ~pageOf[g].alive)
    <2>1. /\ paneGuest' = g
          /\ \/ kind = "refused" /\ starts /\ captureOf' = Forgotten(g)
             \/ kind = "ok" /\ starts /\ ~pageOf[g].taken /\ captureOf' = [Forgotten(g) EXCEPT ![g] = fresh]
             \/ kind = "ok" /\ level = "off" /\ captureOf' = [Forgotten(g) EXCEPT ![g] = NoCapture]
             \/ kind = "ok" /\ level # "off" /\ ~starts /\ captureOf' = Forgotten(g)
      BY <1>5, <1>16
    <2>2. \A h \in Guests \ {g} : ~captureOf'[h].on /\ captureOf'[h].rows = {}
      BY <2>1, <1>12
    <2>3. \/ kind = "refused" /\ level # "off" /\ ~captureOf[g].on /\ captureOf'[g] = captureOf[g]
          \/ kind = "ok" /\ level # "off" /\ ~pageOf[g].taken /\ captureOf'[g] = fresh
          \/ kind = "ok" /\ level = "off" /\ captureOf'[g] = NoCapture
          \/ kind = "ok" /\ level # "off" /\ captureOf[g].on /\ captureOf'[g] = captureOf[g]
      BY <2>1, <1>3, <1>12
    <2>4. CapturesHold'
      <3>1. captureOf'[g].on => /\ access'[g] # "off" /\ ~pageOf[g].taken
                                /\ captureOf'[g].site = pageOf[g].site /\ captureOf'[g].rows \subseteq {pageOf[g].site}
        BY <2>3, <1>1, <1>3, <1>4, <1>11 DEF PaneIInv, CapturesHold
      <3>2. ~captureOf'[g].on => captureOf'[g].rows = {}
        BY <2>3, <1>1, <1>3, <1>4 DEF PaneIInv, CapturesHold
      <3> QED BY <3>1, <3>2, <2>1, <2>2, <1>0 DEF CapturesHold
    <2>5. (kind = "ok" /\ level # "off" => captureOf'[g].on) /\ (level = "off" => kind = "ok" /\ ~captureOf'[g].on)
      BY <2>3, <1>1, <1>4
    <2>6. ReadyIsTold'
      <3> SUFFICES ASSUME mounted.ready PROVE ReadyIsTold'
        BY <1>0 DEF ReadyIsTold
      <3>1. mounted.guest = g /\ paneGuest = g
        BY <1>3 DEF ReadyIsTold
      <3>2. \A i \in DOMAIN toMain' : toMain'[i].guest = g
        BY <3>1, <1>10 DEF ReadyIsTold
      <3>3. \A i \in DOMAIN toView' : toView'[i].guest = g
        BY <3>1, <1>6, <1>9 DEF ReadyIsTold
      <3>4. CASE kind = "ok"
        <4>1. n + 1 \in DOMAIN toView' /\ toView'[n + 1].kind = "ok" /\ toView'[n + 1].level = access'[g]
              /\ \A i \in DOMAIN toView' : i # n + 1 => n + 1 > i
          BY <3>4, <1>6, <1>8, <1>11
        <4>2. ASSUME NEW i \in DOMAIN toView', \A j \in DOMAIN toView' : j > i => toView'[j].kind = "refused"
              PROVE  i = n + 1
          BY <4>1, <4>2
        <4>3. LastSaid'
          BY <4>1, <4>2, <3>1, <1>0 DEF LastSaid
        <4>4. access'[g] # "off" => captureOf'[g].on
          BY <3>4, <2>5, <1>11
        <4> QED BY <4>3, <4>4, <3>1, <3>2, <3>3, <2>1, <1>0 DEF ReadyIsTold
      <3>5. CASE kind = "refused"
        <4>1. access'[g] = access[g] /\ captureOf'[g] = captureOf[g]
          BY <3>5, <2>3, <1>11
        <4>2. n + 1 \in DOMAIN toView' /\ toView'[n + 1].kind = "refused" /\ n + 1 \notin DOMAIN toView
              /\ \A i \in DOMAIN toView : i \in DOMAIN toView' /\ toView'[i] = toView[i]
          BY <3>5, <1>6, <1>8
        <4>3. LastSaid'
          <5>1. ASSUME NEW i \in DOMAIN toView', toView'[i].kind # "refused",
                       \A j \in DOMAIN toView' : j > i => toView'[j].kind = "refused"
                PROVE  (IF toView'[i].kind = "detached" THEN "off" ELSE toView'[i].level) = access[g]
            <6>1. i \in DOMAIN toView /\ toView'[i] = toView[i]
              BY <5>1, <4>2, <1>9
            <6>2. \A j \in DOMAIN toView : j > i => toView[j].kind = "refused"
              BY <5>1, <4>2
            <6> QED BY <6>1, <6>2, <5>1, <3>1 DEF ReadyIsTold, LastSaid
          <5>2. ASSUME \A j \in DOMAIN toView' : toView'[j].kind = "refused" PROVE mounted.level = access[g]
            <6>1. \A j \in DOMAIN toView : toView[j].kind = "refused"
              BY <5>2, <4>2
            <6> QED BY <6>1, <3>1 DEF ReadyIsTold, LastSaid
          <5> QED BY <5>1, <5>2, <4>1, <3>1, <1>0 DEF LastSaid
        <4>4. access'[g] # "off" => captureOf'[g].on
          BY <4>1, <3>1 DEF ReadyIsTold
        <4> QED BY <4>3, <4>4, <3>1, <3>2, <3>3, <2>1, <1>0 DEF ReadyIsTold
      <3> QED BY <3>4, <3>5
    <2>7. FirstCall'
      <3> SUFFICES ASSUME mounted.guest # NoGuest, ~mounted.ready PROVE FirstCall'
        BY <1>0 DEF FirstCall
      <3>1. \A i \in DOMAIN toView : toView[i].guest # mounted.guest
        BY <1>0 DEF FirstCall
      <3>2. CASE mounted.guest = g
        <4>1. level = "off" /\ k = 1
          BY <3>2, <1>3 DEF FirstCall
        <4>2. toMain' = <<>> /\ DOMAIN toMain' = {}
          BY <4>1, <1>2, EmptySeq
        <4>3. kind = "ok" /\ ~captureOf'[g].on /\ access'[g] = "off"
          BY <4>1, <2>5, <1>11
        <4>4. \A i \in DOMAIN toView' : toView'[i].guest = g => i = Len(toView') /\ toView'[i] = x
          BY <3>1, <3>2, <1>8, <1>9
        <4> QED BY <3>2, <4>1, <4>2, <4>3, <4>4, <2>1, <1>0, <1>6 DEF FirstCall
      <3>3. CASE mounted.guest # g
        <4>1. \A i \in DOMAIN toView' : toView'[i].guest # mounted.guest
          BY <3>1, <3>3, <1>6, <1>9
        <4>2. mounted.guest \in Guests \ {g}
          BY <3>3, <1>1, BrowserAssumption DEF PaneIInv, PaneTyped, Guests, NoGuest
        <4>3. ~captureOf'[mounted.guest].on
          BY <4>2, <2>2
        <4>4. \A i \in DOMAIN toMain' : toMain'[i].guest = mounted.guest => toMain'[i].level = "off" /\ i = Len(toMain')
          BY <1>2, <1>10 DEF FirstCall
        <4> QED BY <4>1, <4>3, <4>4, <1>0 DEF FirstCall
      <3> QED BY <3>2, <3>3
    <2> QED BY <2>4, <2>6, <2>7, <1>13, <1>14 DEF PaneIInv
  <1> QED BY <1>15, <1>16

LEMMA PaneKept == ASSUME PaneIInv, ReadyIsTold, FirstCall, UNCHANGED stageVars PROVE PaneIInv' /\ ReadyIsTold' /\ FirstCall'
  BY DEF stageVars, PaneIInv, PaneTyped, PagesAreNumbered, CapturesHold, ReadyIsTold, LastSaid, FirstCall

LEMMA PaneStep ==
  ASSUME PaneIInv, ReadyIsTold, FirstCall, [BrowserNext]_browserVars
  PROVE  PaneIInv' /\ ReadyIsTold' /\ FirstCall'
  <1>1. CASE UNCHANGED stageVars
    BY <1>1, PaneKept
  <1>2. CASE ~ UNCHANGED stageVars
    <2>1. \/ Mount \/ Unmount \/ DomReady \/ ViewHears \/ SetAccess
          \/ \E l \in Levels : Choose(l)
          \/ \E g \in Guests : GuestDestroyed(g) \/ DebuggerLost(g) \/ DebuggerFree(g) \/ PageLogs(g)
          \/ \E g \in Guests, s \in Sites : PageMoves(g, s)
      BY <1>2 DEF BrowserNext, browserVars, stageVars, switchVars, Handle, DialogOpens, PersonAnswers, NobodyAnswers, BrowserTick
    <2> QED BY <2>1, MountOK, UnmountOK, CallsOK, HearsOK, SetAccessOK, DestroyedOK, LostOK, PageOK
  <1> QED BY <1>1, <1>2

\* What the switch shows and what main has are brought together by what is under way between
\* them, in its order: the inductive invariant of the pane (BrowserPane.tsx, browser-agent.ts).
THEOREM BrowserHolds == BrowserSpec => []BrowserIInv
  <1>1. BrowserIInv /\ [BrowserNext]_browserVars => BrowserIInv'
    BY AsksStep, PaneStep DEF BrowserIInv, PaneIInv
  <1> QED BY <1>1, BrowserInitOK, PTL DEF BrowserSpec

\* What an agent does to a page is allowed and agreed to when it is done, and before `cw browser`
\* gave up; the switch tells main's level, and no site's log is shown to the next: for every number
\* of pages, requests, moves and ticks, however calls, answers, dialogs and DevTools interleave.
THEOREM BrowserKept == BrowserSpec => []BrowserIsKept
  <1>1. BrowserIInv => BrowserIsKept
    <2> SUFFICES ASSUME BrowserIInv PROVE BrowserIsKept
      OBVIOUS
    <2>1. AgentDoesAsAgreed
      BY DEF BrowserIInv, AsksIInv, AsAgreed, AgentDoesAsAgreed
    <2>2. LogsAreOfTheSite
      BY DEF BrowserIInv, PaneIInv, CapturesHold, LogsAreOfTheSite
    <2>3. ASSUME toMain = <<>>, toView = <<>>, mounted.ready
          PROVE  paneGuest = mounted.guest /\ access[paneGuest] = mounted.level
                   /\ (mounted.level # "off" => captureOf[paneGuest].on)
      <3>1. ~(\E j \in DOMAIN toView : TRUE)
        BY <2>3, EmptySeq
      <3> QED BY <3>1, <2>3 DEF BrowserIInv, ReadyIsTold, LastSaid
    <2>4. SwitchIsTrue
      BY <2>3 DEF BrowserIInv, PaneIInv, CapturesHold, SwitchIsTrue
    <2> QED BY <2>1, <2>2, <2>4 DEF BrowserIsKept
  <1> QED BY <1>1, BrowserHolds, PTL

-----------------------------------------------------------------------------
(***************************************************************************)
(* Copy mode (TerminalPanes).  A cursor once put somewhere stays a pair of *)
(* numbers though the text under it changes (CopyIInv); a key leaves it    *)
(* where it is or puts it on the text of that moment (Goes).  A search is  *)
(* a walk once round the lines: every occurrence is met on one step of it, *)
(* the nearest on the first (SearchIs).                                    *)
(***************************************************************************)
\* The least and the greatest of some numbers.
LEMMA LeastNat ==
  ASSUME NEW S \in SUBSET Nat, S # {}
  PROVE  \E m \in S : \A k \in S : m <= k
  <1> DEFINE R == {o \in Nat \X Nat : o[1] < o[2]}
  <1>1. IsWellFoundedOn(R, Nat)
    BY NatLessThanWellFounded DEF OpToRel
  <1>2. \E m \in S : \A k \in S : ~ (<<k, m>> \in R)
    <2> HIDE DEF R
    <2> QED BY <1>1, WFMin
  <1>3. PICK m \in S : \A k \in S : ~ (<<k, m>> \in R)
    BY <1>2
  <1>4. ASSUME NEW k \in S PROVE m <= k
    <2>1. <<k, m>> \in Nat \X Nat /\ <<k, m>>[1] = k /\ <<k, m>>[2] = m
      OBVIOUS
    <2>2. ~ (k < m)
      BY <1>3, <2>1
    <2> QED BY <2>1, <2>2
  <1> QED BY <1>4

LEMMA MinIs ==
  ASSUME NEW S \in SUBSET Nat, S # {}
  PROVE  Min(S) \in S /\ \A y \in S : Min(S) <= y
  BY LeastNat DEF Min

LEMMA MaxIs ==
  ASSUME NEW n \in Nat, NEW S \in SUBSET (0..n), S # {}
  PROVE  Max(S) \in S /\ \A y \in S : Max(S) >= y
  <1> DEFINE R == {n - x : x \in S}
  <1>1. R \in SUBSET Nat /\ R # {}
    <2>1. \A x \in S : n - x \in Nat
      OBVIOUS
    <2>2. PICK x \in S : TRUE
      OBVIOUS
    <2>3. n - x \in R
      BY <2>2
    <2> QED BY <2>1, <2>3
  <1>2. PICK m \in R : \A k \in R : m <= k
    <2> HIDE DEF R
    <2> QED BY <1>1, LeastNat
  <1>3. n - m \in S /\ \A y \in S : n - m >= y
    BY <1>2
  <1> QED BY <1>3 DEF Max

\* The lines of the text.
LEMMA TextFacts ==
  ASSUME text \in Texts
  PROVE  /\ text \in Seq(Seq(Chars)) /\ Len(text) \in Nat /\ Len(text) > 0 /\ LastRow = Len(text) - 1 /\ LastRow \in Nat
         /\ \A r : LineAt(r) \in Seq(Chars) /\ Len(LineAt(r)) \in Nat
  <1>1. text \in Seq(Seq(Chars)) /\ Len(text) > 0
    BY CopyModeAssumption
  <1>2. ASSUME NEW r PROVE LineAt(r) \in Seq(Chars)
    <2>1. CASE r \in 0..LastRow
      <3>1. r + 1 \in 1..Len(text)
        BY <1>1, <2>1 DEF LastRow
      <3> QED BY <1>1, <2>1, <3>1 DEF LineAt
    <2>2. CASE r \notin 0..LastRow
      BY <2>2, EmptySeq DEF LineAt
    <2> QED BY <2>1, <2>2
  <1> QED BY <1>1, <1>2, LenProperties DEF LastRow

\* Where there is text.
OnText(p) == /\ p = Place(p.row, p.col) /\ p.row \in 0..LastRow
             /\ p.col \in Nat /\ (p.col = 0 \/ p.col < Len(LineAt(p.row)))

LEMMA ClampOK ==
  ASSUME text \in Texts, NEW r \in Int, NEW c \in Int
  PROVE  OnText(ClampPos(r, c))
  <1> DEFINE row == AtLeast(0, AtMost(LastRow, r))
  <1>1. row \in 0..LastRow
    BY TextFacts DEF AtLeast, AtMost
  <1> DEFINE col == AtLeast(0, AtMost(AtLeast(0, Len(LineAt(row)) - 1), c))
  <1>2. col \in Nat /\ (col = 0 \/ col < Len(LineAt(row)))
    <2> HIDE DEF row
    <2> QED BY TextFacts DEF AtLeast, AtMost
  <1>3. ClampPos(r, c) = Place(row, col)
    BY DEF ClampPos
  <1> HIDE DEF row, col
  <1> QED BY <1>1, <1>2, <1>3 DEF OnText, Place

LEMMA OnTextIn ==
  ASSUME text \in Texts, NEW p, OnText(p)
  PROVE  InText(p)
  <1>1. AtLeast(0, AtMost(LastRow, p.row)) = p.row
    BY TextFacts DEF OnText, AtLeast, AtMost
  <1>2. AtLeast(0, AtMost(AtLeast(0, Len(LineAt(p.row)) - 1), p.col)) = p.col
    BY TextFacts DEF OnText, AtLeast, AtMost
  <1> QED BY <1>1, <1>2 DEF InText, ClampPos, OnText

LEMMA InTextOn ==
  ASSUME text \in Texts, NEW p, p.row \in Int, p.col \in Int, InText(p)
  PROVE  OnText(p)
  BY ClampOK DEF InText

-----------------------------------------------------------------------------
CopyStates ==
  [row : Nat, col : Nat, want : Int, visual : {"none", "char", "line"}, anchor : [row : Int, col : Int],
   pending : BOOLEAN, search : [typing : BOOLEAN, dir : {1, -1}, query : Seq(Chars)],
   last : [query : Seq(Chars), dir : {1, -1}], notice : BOOLEAN]
\* A query is there while it is typed, an anchor while something is selected.
CopyOK(s) ==
  /\ s \in CopyStates
  /\ ~s.search.typing => s.search.query = <<>>
  /\ s.anchor # NoAnchor => s.anchor.row \in Nat /\ s.anchor.col \in Nat
  /\ s.visual # "none" => s.anchor # NoAnchor
CopyIInv == text \in Texts /\ (copy # NotCopying => CopyOK(copy))

\* The cursor stayed, or is on the text.
Goes(s, t) == /\ CopyOK(t)
              /\ (t.row = s.row /\ t.col = s.col) \/ OnText(Place(t.row, t.col))

LEMMA CopyIsOn ==
  ASSUME NEW s, CopyOK(s)
  PROVE  s # NotCopying
  <1>1. DOMAIN NotCopying = {"row"}
    BY DEF NotCopying
  <1>2. "col" \in DOMAIN s
    BY DEF CopyOK, CopyStates
  <1> QED BY <1>1, <1>2

LEMMA PutOK ==
  ASSUME NEW s, CopyOK(s), NEW p, OnText(p), NEW want \in Int
  PROVE  /\ CopyOK(PutAt(s, p, want)) /\ PutAt(s, p, want).row = p.row /\ PutAt(s, p, want).col = p.col
         /\ Goes(s, PutAt(s, p, want))
         /\ PutAt(s, p, want).last = s.last
  <1> DEFINE t == PutAt(s, p, want)
  <1>1. p.row \in Nat /\ p.col \in Nat
    BY DEF OnText, LastRow
  <1>2. t \in CopyStates /\ t.row = p.row /\ t.col = p.col /\ t.search = s.search /\ t.anchor = s.anchor
        /\ t.visual = s.visual /\ t.last = s.last
    BY <1>1 DEF PutAt, CopyOK, CopyStates
  <1>3. CopyOK(t)
    BY <1>2 DEF CopyOK
  <1>4. Place(t.row, t.col) = p
    BY <1>2 DEF OnText
  <1> QED BY <1>2, <1>3, <1>4 DEF Goes

LEMMA MoveOK ==
  ASSUME text \in Texts, NEW s, CopyOK(s), NEW r \in Int, NEW c \in Int
  PROVE  /\ CopyOK(MoveTo(s, r, c)) /\ Goes(s, MoveTo(s, r, c)) /\ MoveTo(s, r, c).last = s.last
         /\ Place(MoveTo(s, r, c).row, MoveTo(s, r, c).col) = ClampPos(r, c)
  <1>1. OnText(ClampPos(r, c))
    BY ClampOK
  <1>2. ClampPos(r, c).col \in Int /\ Place(ClampPos(r, c).row, ClampPos(r, c).col) = ClampPos(r, c)
    BY <1>1 DEF OnText
  <1>3. MoveTo(s, r, c) = PutAt(s, ClampPos(r, c), ClampPos(r, c).col)
    BY DEF MoveTo
  <1> QED BY <1>1, <1>2, <1>3, PutOK

LEMMA VerticalOK ==
  ASSUME text \in Texts, NEW s, CopyOK(s), NEW d \in Int
  PROVE  CopyOK(Vertical(s, d)) /\ Goes(s, Vertical(s, d))
  <1>1. s.row \in Int /\ s.want \in Int
    BY DEF CopyOK, CopyStates
  <1>2. AtLeast(0, AtMost(LastRow, s.row + d)) \in Int
    BY <1>1, TextFacts DEF AtLeast, AtMost
  <1>3. OnText(ClampPos(AtLeast(0, AtMost(LastRow, s.row + d)), s.want))
    BY <1>1, <1>2, ClampOK
  <1> QED BY <1>1, <1>3, PutOK DEF Vertical
-----------------------------------------------------------------------------
\* A place on a line, of which there may be fewer than there were.
Spot(p) == /\ p = Place(p.row, p.col) /\ p.row \in Nat /\ p.col \in Nat
           /\ (p.col = 0 \/ p.col < Len(LineAt(p.row)))

LEMMA SpotOn ==
  ASSUME text \in Texts, NEW p
  PROVE  OnText(p) <=> Spot(p) /\ p.row <= LastRow
  BY TextFacts DEF OnText, Spot

LEMMA ForemostIs ==
  ASSUME NEW S, S # {}, \A q \in S : Spot(q)
  PROVE  Foremost(S) \in S /\ \A q \in S \ {Foremost(S)} : Before(Foremost(S), q)
  <1> DEFINE rows == {q.row : q \in S}
  <1>1. rows \in SUBSET Nat /\ rows # {}
    BY DEF Spot
  <1>2. PICK r \in rows : \A x \in rows : r <= x
    <2> HIDE DEF rows
    <2> QED BY <1>1, LeastNat
  <1> DEFINE cols == {q.col : q \in {x \in S : x.row = r}}
  <1>3. cols \in SUBSET Nat /\ cols # {}
    BY <1>2 DEF Spot
  <1>4. PICK c \in cols : \A x \in cols : c <= x
    <2> HIDE DEF cols
    <2> QED BY <1>3, LeastNat
  <1>5. PICK p \in S : p.row = r /\ p.col = c
    BY <1>4
  <1>6. ASSUME NEW q \in S \ {p} PROVE Before(p, q)
    <2>1. r <= q.row /\ (q.row = r => c <= q.col)
      BY <1>2, <1>4
    <2>2. Spot(p) /\ Spot(q)
      OBVIOUS
    <2>3. ~(q.row = r /\ q.col = c)
      BY <1>5, <2>2 DEF Spot
    <2> QED BY <1>5, <2>1, <2>2, <2>3 DEF Before, Spot
  <1> QED BY <1>6 DEF Foremost

LEMMA HindmostIs ==
  ASSUME text \in Texts, NEW n \in Nat, NEW S, S # {}, \A q \in S : Spot(q) /\ q.row <= n
  PROVE  Hindmost(S) \in S /\ \A q \in S \ {Hindmost(S)} : Before(q, Hindmost(S))
  <1> DEFINE rows == {q.row : q \in S}
  <1>1. rows \in SUBSET (0..n) /\ rows # {}
    BY DEF Spot
  <1>2. Max(rows) \in rows /\ \A x \in rows : Max(rows) >= x
    <2> HIDE DEF rows
    <2> QED BY <1>1, MaxIs
  <1> DEFINE r == Max(rows)
             cols == {q.col : q \in {x \in S : x.row = r}}
  <1>3. Len(LineAt(r)) \in Nat
    BY TextFacts
  <1>4. cols \in SUBSET (0..Len(LineAt(r))) /\ cols # {}
    <2>1. \A q \in S : q.row = r => q.col \in 0..Len(LineAt(r))
      BY <1>3 DEF Spot
    <2>2. \E q \in S : q.row = r
      BY <1>2
    <2> QED BY <2>1, <2>2
  <1>5. Max(cols) \in cols /\ \A x \in cols : Max(cols) >= x
    <2> HIDE DEF cols, r
    <2> QED BY <1>3, <1>4, MaxIs
  <1>6. PICK p \in S : p.row = r /\ p.col = Max(cols)
    BY <1>5
  <1>7. ASSUME NEW q \in S \ {p} PROVE Before(q, p)
    <2>1. q.row <= r /\ (q.row = r => q.col <= Max(cols))
      <3>1. q.row \in rows /\ (q.row = r => q.col \in cols)
        OBVIOUS
      <3>2. Spot(q) /\ Spot(p)
        OBVIOUS
      <3> HIDE DEF rows, cols
      <3> QED BY <1>2, <1>5, <1>6, <3>1, <3>2 DEF Spot
    <2>2. Spot(p) /\ Spot(q)
      OBVIOUS
    <2> HIDE DEF r, rows, cols
    <2>3. ~(q.row = r /\ q.col = Max(cols))
      BY <1>6, <2>2 DEF Spot
    <2> QED BY <1>6, <2>1, <2>2, <2>3 DEF Before, Spot
  <1> QED BY <1>7 DEF Hindmost

LEMMA CellsOn ==
  ASSUME text \in Texts, NEW p \in Cells
  PROVE  OnText(p)
  <1>1. PICK r \in 0..LastRow : p \in {Place(r, c) : c \in 0..(Len(LineAt(r)) - 1)}
    BY DEF Cells
  <1>2. PICK c \in 0..(Len(LineAt(r)) - 1) : p = Place(r, c)
    BY <1>1
  <1>3. p.row = r /\ p.col = c
    BY <1>2 DEF Place
  <1>4. Len(LineAt(r)) \in Nat
    BY TextFacts
  <1> QED BY <1>1, <1>2, <1>3, <1>4 DEF OnText

LEMMA WordsOn ==
  ASSUME text \in Texts
  PROVE  /\ \A p \in WordStarts \cup WordEnds : OnText(p)
         /\ \A last \in Int : \A p \in EmptyUpTo(last) : Spot(p) /\ p.row <= last
  <1>1. \A p \in WordStarts \cup WordEnds : OnText(p)
    BY CellsOn DEF WordStarts, WordEnds
  <1>2. ASSUME NEW last \in Int, NEW p \in EmptyUpTo(last) PROVE Spot(p) /\ p.row <= last
    <2>1. PICK r \in 0..last : p = Place(r, 0)
      BY DEF EmptyUpTo
    <2>2. p.row = r /\ p.col = 0
      BY <2>1 DEF Place
    <2> QED BY <2>1, <2>2 DEF Spot
  <1> QED BY <1>1, <1>2

LEMMA EndsOn ==
  ASSUME text \in Texts
  PROVE  OnText(EndOfText) /\ OnText(Place(0, 0))
  <1>1. LastRow \in Int /\ Len(LineAt(LastRow)) \in Int /\ 0 \in 0..LastRow
    BY TextFacts
  <1>2. OnText(EndOfText)
    BY <1>1, ClampOK DEF EndOfText
  <1> QED BY <1>1, <1>2 DEF OnText, Place

LEMMA NextWordOK ==
  ASSUME text \in Texts, NEW p
  PROVE  /\ NextWordStart(p) = EndOfText \/ Before(p, NextWordStart(p))
         /\ WordEnd(p) = EndOfText \/ Before(p, WordEnd(p))
         /\ OnText(NextWordStart(p)) /\ OnText(WordEnd(p))
  <1>1. ASSUME NEW S, \A q \in S : OnText(q) /\ Before(p, q)
        PROVE  S # {} => OnText(Foremost(S)) /\ Before(p, Foremost(S))
    <2>1. \A q \in S : Spot(q)
      BY <1>1, SpotOn
    <2> QED BY <1>1, <2>1, ForemostIs
  <1>2. LastRow \in Int /\ \A q \in EmptyUpTo(LastRow) : OnText(q)
    BY WordsOn, SpotOn, TextFacts
  <1> DEFINE S == {q \in WordStarts \cup EmptyUpTo(LastRow) : Before(p, q)}
             T == {q \in WordEnds : Before(p, q)}
  <1>3. S # {} => OnText(Foremost(S)) /\ Before(p, Foremost(S))
    <2>1. \A q \in S : OnText(q) /\ Before(p, q)
      BY <1>2, WordsOn
    <2> QED BY <1>1, <2>1
  <1>4. T # {} => OnText(Foremost(T)) /\ Before(p, Foremost(T))
    <2>1. \A q \in T : OnText(q) /\ Before(p, q)
      BY WordsOn
    <2> QED BY <1>1, <2>1
  <1>5. NextWordStart(p) = IF S = {} THEN EndOfText ELSE Foremost(S)
    BY DEF NextWordStart
  <1>6. WordEnd(p) = IF T = {} THEN EndOfText ELSE Foremost(T)
    BY DEF WordEnd
  <1> HIDE DEF S, T
  <1> QED BY <1>3, <1>4, <1>5, <1>6, EndsOn

LEMMA PrevWordOK ==
  ASSUME text \in Texts, NEW p, p.row \in Nat
  PROVE  /\ PrevWordStart(p) = Place(0, 0) \/ Before(PrevWordStart(p), p)
         /\ PrevWordStart(p).row \in Nat /\ PrevWordStart(p).col \in Nat
         /\ p.row <= LastRow => OnText(PrevWordStart(p))
  <1> DEFINE S == {q \in WordStarts \cup EmptyUpTo(p.row - 1) : Before(q, p)}
             n == AtLeast(LastRow, p.row)
  <1>1. PrevWordStart(p) = IF S = {} THEN Place(0, 0) ELSE Hindmost(S)
    BY DEF PrevWordStart
  <1>2. \A q \in S : Before(q, p) /\ Spot(q) /\ (q.row <= LastRow \/ q.row <= p.row - 1)
    <2>1. \A q \in WordStarts : Spot(q) /\ q.row <= LastRow
      BY WordsOn, SpotOn
    <2>2. \A q \in EmptyUpTo(p.row - 1) : Spot(q) /\ q.row <= p.row - 1
      BY WordsOn
    <2> QED BY <2>1, <2>2
  <1>3. n \in Nat /\ \A q \in S : Spot(q) /\ q.row <= n
    <2> HIDE DEF S
    <2> QED BY <1>2, TextFacts DEF AtLeast, Spot
  <1>4. Place(0, 0).row \in Nat /\ Place(0, 0).col \in Nat
    BY DEF Place
  <1> HIDE DEF S, n
  <1>5. S # {} => Hindmost(S) \in S
    BY <1>3, HindmostIs
  <1>6. S # {} => Spot(Hindmost(S)) /\ Before(Hindmost(S), p)
                  /\ (p.row <= LastRow => OnText(Hindmost(S)))
    <2>1. ASSUME NEW q \in S PROVE Spot(q) /\ Before(q, p) /\ (p.row <= LastRow => OnText(q))
      <3>1. Spot(q) /\ Before(q, p) /\ (q.row <= LastRow \/ q.row <= p.row - 1)
        BY <1>2
      <3>2. q.row \in Nat /\ LastRow \in Nat
        BY <3>1, TextFacts DEF Spot
      <3>3. p.row <= LastRow => q.row <= LastRow
        BY <3>1, <3>2
      <3> QED BY <3>1, <3>3, SpotOn
    <2> QED BY <1>5, <2>1
  <1> QED BY <1>1, <1>4, <1>6, EndsOn DEF Spot

-----------------------------------------------------------------------------
\* Where a query is found on a line.
LEMMA MatchesAre ==
  ASSUME text \in Texts, NEW q \in Seq(Chars), NEW row
  PROVE  /\ Matches(row, q) \in SUBSET (0..Len(LineAt(row)))
         /\ q # <<>> => \A c \in Matches(row, q) : c < Len(LineAt(row))
  <1>1. Len(LineAt(row)) \in Nat /\ Len(q) \in Nat /\ (q # <<>> => Len(q) > 0)
    BY TextFacts, EmptySeq, LenProperties
  <1> QED BY <1>1 DEF Matches

\* A search goes round the text.
LEMMA RowAfterIs ==
  ASSUME text \in Texts, NEW r \in 0..LastRow, NEW i \in 0..Len(text)
  PROVE  /\ RowAfter(r, 1, i) = IF r + i <= LastRow THEN r + i ELSE r + i - Len(text)
         /\ RowAfter(r, -1, i) = IF i <= r THEN r - i ELSE r - i + Len(text)
  <1>1. ASSUME NEW n \in Nat, n > 0, NEW a \in 0..(n - 1)
        PROVE  a % n = a /\ (a + n) % n = a /\ (a - n) % n = a
    OBVIOUS
  <1>2. /\ Len(text) \in Nat /\ Len(text) > 0 /\ LastRow = Len(text) - 1
        /\ 1 * i = i /\ -1 * i = -i
    BY TextFacts
  <1>3. r + i <= LastRow => (r + i) % Len(text) = r + i
    BY <1>1, <1>2
  <1>4. r + i > LastRow => (r + i) % Len(text) = r + i - Len(text)
    <2>1. r + i > LastRow => r + i - Len(text) \in 0..(Len(text) - 1)
      BY <1>2
    <2> QED BY <1>1, <1>2, <2>1
  <1>5. i <= r => (r - i) % Len(text) = r - i
    BY <1>1, <1>2
  <1>6. i > r => (r - i) % Len(text) = r - i + Len(text)
    <2>1. i > r => r - i + Len(text) \in 0..(Len(text) - 1)
      BY <1>2
    <2> QED BY <1>1, <1>2, <2>1
  <1>7. RowAfter(r, 1, i) = (r + i) % Len(text) /\ RowAfter(r, -1, i) = (r - i) % Len(text)
    <2>1. r + 1 * i = r + i /\ r + (-1) * i = r - i
      BY <1>2
    <2> QED BY <2>1 DEF RowAfter
  <1>8. r + i <= LastRow \/ r + i > LastRow
    BY <1>2
  <1>9. i <= r \/ i > r
    BY <1>2
  <1>10. RowAfter(r, 1, i) = IF r + i <= LastRow THEN r + i ELSE r + i - Len(text)
    BY <1>3, <1>4, <1>7, <1>8
  <1>11. RowAfter(r, -1, i) = IF i <= r THEN r - i ELSE r - i + Len(text)
    BY <1>5, <1>6, <1>7, <1>9
  <1> QED BY <1>10, <1>11

LEMMA ModIn ==
  ASSUME NEW a \in Int, NEW n \in Int, n > 0
  PROVE  a % n \in 0..(n - 1)
  OBVIOUS

LEMMA RowIn ==
  ASSUME text \in Texts, NEW r \in Nat, NEW dir \in {1, -1}, NEW i \in Nat
  PROVE  RowAfter(r, dir, i) \in 0..LastRow
  <1>1. r + dir * i \in Int /\ Len(text) \in Nat /\ Len(text) > 0 /\ LastRow = Len(text) - 1
    BY TextFacts
  <1>2. (r + dir * i) % Len(text) \in 0..(Len(text) - 1)
    BY <1>1, ModIn
  <1> QED BY <1>1, <1>2 DEF RowAfter

\* What one step of a search may land on.
MayHit(p, dir, i, c) ==
  /\ i = 0 => IF dir = 1 THEN c > p.col ELSE c < p.col
  /\ i = Len(text) => IF dir = 1 THEN c <= p.col ELSE c >= p.col

LEMMA StepIs ==
  ASSUME text \in Texts, NEW q \in Seq(Chars), NEW p, p.row \in Nat, p.col \in Nat,
         NEW dir \in {1, -1}, NEW i \in 0..Len(text)
  PROVE  LET row == RowAfter(p.row, dir, i)
             S == MatchOnStep(p, q, dir, i) IN
         /\ S # {} =>
              \E c \in Matches(row, q) :
                 /\ S = {Place(row, c)} /\ MayHit(p, dir, i, c)
                 /\ \A d \in Matches(row, q) : MayHit(p, dir, i, d) => IF dir = 1 THEN c <= d ELSE c >= d
         /\ S = {} => \A c \in Matches(row, q) : ~MayHit(p, dir, i, c)
  <1> DEFINE row == RowAfter(p.row, dir, i)
             m == Matches(row, q)
             ahead == IF i > 0 THEN m ELSE {c \in m : IF dir = 1 THEN c > p.col ELSE c < p.col}
             found == IF ahead = {} THEN -1 ELSE IF dir = 1 THEN Min(ahead) ELSE Max(ahead)
             S == MatchOnStep(p, q, dir, i)
  <1>1. m \in SUBSET (0..Len(LineAt(row))) /\ Len(LineAt(row)) \in Nat /\ Len(text) \in Nat /\ Len(text) > 0
    BY MatchesAre, TextFacts
  <1>2. S = IF found >= 0 /\ (i < Len(text) \/ (IF dir = 1 THEN found <= p.col ELSE found >= p.col))
            THEN {Place(row, found)} ELSE {}
    BY DEF MatchOnStep
  <1>3. ahead \in SUBSET m /\ (i # 0 => ahead = m)
        /\ (i = 0 => ahead = {c \in m : IF dir = 1 THEN c > p.col ELSE c < p.col})
    BY <1>1
  <1>4. ahead # {} => found \in ahead /\ \A d \in ahead : IF dir = 1 THEN found <= d ELSE found >= d
    <2> HIDE DEF m
    <2> HIDE DEF ahead
    <2>0. m \in SUBSET Nat
      BY <1>1
    <2>1. ahead \in SUBSET Nat /\ ahead \in SUBSET (0..Len(LineAt(row)))
      BY <1>1, <1>3, <2>0
    <2>2. CASE ahead = {}
      BY <2>2
    <2>3. CASE ahead # {} /\ dir = 1
      BY <2>1, <2>3, MinIs
    <2>4. CASE ahead # {} /\ dir = -1
      <3>1. Max(ahead) \in ahead /\ \A d \in ahead : Max(ahead) >= d
        <4>1. ASSUME NEW n \in Nat, NEW Z \in SUBSET (0..n), Z # {}
              PROVE  Max(Z) \in Z /\ \A d \in Z : Max(Z) >= d
          BY <4>1, MaxIs
        <4>2. Len(LineAt(row)) \in Nat
          BY <1>1
        <4> HIDE DEF row
        <4> QED BY <2>1, <2>4, <4>1, <4>2
      <3> QED BY <2>4, <3>1
    <2> QED BY <2>2, <2>3, <2>4
  <1>5. ahead = {} => found = -1
    OBVIOUS
  <1>6. \A c \in m : MayHit(p, dir, i, c) => c \in ahead
    BY <1>3 DEF MayHit
  <1> HIDE DEF row, m, ahead, found, S
  <1>7. CASE ahead = {}
    BY <1>2, <1>5, <1>6, <1>7 DEF row, S, m
  <1>8. CASE ahead # {}
    <2>0. m \in SUBSET Nat
      BY <1>1
    <2>00. found \in ahead
      BY <1>4, <1>8
    <2>01. found \in m
      BY <1>3, <2>00
    <2>1. found \in m /\ found \in Nat /\ found >= 0 /\ m \in SUBSET Nat
      BY <2>0, <2>01
    <2>2. CASE S # {}
      <3>1. i < Len(text) \/ (IF dir = 1 THEN found <= p.col ELSE found >= p.col)
        BY <1>2, <2>2
      <3>2. S = {Place(row, found)}
        BY <1>2, <2>1, <3>1
      <3>3. MayHit(p, dir, i, found)
        BY <1>1, <1>3, <1>4, <1>8, <3>1 DEF MayHit
      <3>4. \A d \in m : MayHit(p, dir, i, d) => IF dir = 1 THEN found <= d ELSE found >= d
        BY <1>4, <1>6, <1>8
      <3> QED BY <2>1, <2>2, <3>2, <3>3, <3>4 DEF S, m, row
    <2>3. CASE S = {}
      <3>0. S # {Place(row, found)}
        BY <2>3
      <3>1. i = Len(text) /\ ~(IF dir = 1 THEN found <= p.col ELSE found >= p.col)
        <4>1. Len(text) \in Nat /\ i \in 0..Len(text)
          BY <1>1
        <4> QED BY <1>2, <2>1, <3>0, <4>1
      <3>2. ASSUME NEW c \in m, MayHit(p, dir, i, c) PROVE FALSE
        <4>1. c \in ahead /\ c \in Nat
          BY <1>6, <2>1, <3>2
        <4>2. IF dir = 1 THEN found <= c /\ c <= p.col ELSE found >= c /\ c >= p.col
          BY <1>4, <1>8, <3>1, <3>2, <4>1 DEF MayHit
        <4> QED BY <2>1, <3>1, <4>1, <4>2
      <3> QED BY <2>3, <3>2 DEF S, m, row
    <2> QED BY <2>2, <2>3
  <1> QED BY <1>7, <1>8

LEMMA FoundIs ==
  ASSUME text \in Texts, NEW q \in Seq(Chars), NEW p, p.row \in Nat, p.col \in Nat,
         NEW dir \in {1, -1}
  PROVE  LET S == FindMatch(p, q, dir) IN
         /\ S # {} => \E h \in Occurrences(q), i \in 0..Len(text) :
              /\ S = {h} /\ h.row = RowAfter(p.row, dir, i) /\ MayHit(p, dir, i, h.col)
              /\ \A j \in 0..Len(text) : \A d \in Matches(RowAfter(p.row, dir, j), q) :
                    MayHit(p, dir, j, d) =>
                       i <= j /\ (i = j => IF dir = 1 THEN h.col <= d ELSE h.col >= d)
         /\ S = {} /\ q # <<>> =>
              \A j \in 0..Len(text) : \A d \in Matches(RowAfter(p.row, dir, j), q) : ~MayHit(p, dir, j, d)
  <1> DEFINE steps == {i \in 0..Len(text) : MatchOnStep(p, q, dir, i) # {}}
             S == FindMatch(p, q, dir)
  <1>1. S = IF q = <<>> \/ steps = {} THEN {} ELSE MatchOnStep(p, q, dir, Min(steps))
    BY DEF FindMatch
  <1>2. \A i : i \in steps <=> i \in 0..Len(text) /\ MatchOnStep(p, q, dir, i) # {}
    OBVIOUS
  <1>3. Len(text) \in Nat
    BY TextFacts
  <1> HIDE DEF steps
  <1>4. CASE S # {}
    <2>1. steps # {} /\ S = MatchOnStep(p, q, dir, Min(steps))
      BY <1>1, <1>4
    <2>2. steps \in SUBSET Nat
      BY <1>2, <1>3
    <2>3. Min(steps) \in steps /\ \A j \in steps : Min(steps) <= j
      BY <2>1, <2>2, MinIs
    <2>4. PICK i \in 0..Len(text) : i = Min(steps) /\ i \in steps /\ \A j \in steps : i <= j
      BY <1>2, <2>3
    <2>5. PICK c \in Matches(RowAfter(p.row, dir, i), q) :
             /\ S = {Place(RowAfter(p.row, dir, i), c)} /\ MayHit(p, dir, i, c)
             /\ \A d \in Matches(RowAfter(p.row, dir, i), q) :
                   MayHit(p, dir, i, d) => IF dir = 1 THEN c <= d ELSE c >= d
      BY <1>4, <2>1, <2>4, StepIs
    <2> DEFINE h == Place(RowAfter(p.row, dir, i), c)
    <2>6. h.row = RowAfter(p.row, dir, i) /\ h.col = c
      BY DEF Place
    <2>7. i \in Nat /\ RowAfter(p.row, dir, i) \in 0..LastRow
      <3>1. i \in Nat
        BY <1>3
      <3> QED BY <3>1, RowIn
    <2>8. h \in Occurrences(q)
      BY <2>5, <2>7 DEF Occurrences
    <2>9. ASSUME NEW j \in 0..Len(text), NEW d \in Matches(RowAfter(p.row, dir, j), q), MayHit(p, dir, j, d)
          PROVE  i <= j /\ (i = j => IF dir = 1 THEN c <= d ELSE c >= d)
      <3>1. MatchOnStep(p, q, dir, j) # {}
        BY <2>9, StepIs
      <3>2. i <= j
        BY <1>2, <2>4, <3>1
      <3>3. i = j => IF dir = 1 THEN c <= d ELSE c >= d
        BY <2>5, <2>9
      <3> QED BY <3>2, <3>3
    <2> HIDE DEF h
    <2>10. S = {h} /\ MayHit(p, dir, i, h.col)
      BY <2>5, <2>6 DEF h
    <2>11. \A j \in 0..Len(text) : \A d \in Matches(RowAfter(p.row, dir, j), q) :
              MayHit(p, dir, j, d) =>
                 i <= j /\ (i = j => IF dir = 1 THEN h.col <= d ELSE h.col >= d)
      BY <2>6, <2>9
    <2> QED BY <1>4, <2>6, <2>8, <2>10, <2>11
  <1>5. CASE S = {}
    <2>1. ASSUME q # <<>>, NEW j \in 0..Len(text), NEW d \in Matches(RowAfter(p.row, dir, j), q), MayHit(p, dir, j, d)
          PROVE  FALSE
      <3>1. MatchOnStep(p, q, dir, j) # {}
        BY <2>1, StepIs
      <3>2. j \in steps
        BY <1>2, <3>1
      <3>3. steps \in SUBSET Nat
        BY <1>2, <1>3
      <3>4. Min(steps) \in steps
        BY <3>2, <3>3, MinIs
      <3>5. MatchOnStep(p, q, dir, Min(steps)) # {}
        BY <1>2, <3>4
      <3> QED BY <1>1, <1>5, <2>1, <3>2, <3>5
    <2> QED BY <1>5, <2>1
  <1> QED BY <1>4, <1>5

\* One place before, or behind, every other.
LEMMA OneForemost ==
  ASSUME text \in Texts, NEW S, \A q \in S : OnText(q), NEW h \in S
  PROVE  /\ (\A q \in S \ {h} : Before(h, q)) => Foremost(S) = h
         /\ (\A q \in S \ {h} : Before(q, h)) => Hindmost(S) = h
  <1>1. \A q \in S : Spot(q) /\ q.row <= LastRow
    BY SpotOn
  <1>2. LastRow \in Nat
    BY TextFacts
  <1>3. \A p, q \in S : ~(Before(p, q) /\ Before(q, p))
    BY <1>1 DEF Before, Spot
  <1>4. Foremost(S) \in S /\ \A q \in S \ {Foremost(S)} : Before(Foremost(S), q)
    BY <1>1, ForemostIs
  <1>5. Hindmost(S) \in S /\ \A q \in S \ {Hindmost(S)} : Before(q, Hindmost(S))
    BY <1>1, <1>2, HindmostIs
  <1> QED BY <1>3, <1>4, <1>5

LEMMA OccurrencesOn ==
  ASSUME text \in Texts, NEW q \in Seq(Chars), q # <<>>
  PROVE  \A o \in Occurrences(q) : OnText(o) /\ o.row \in 0..LastRow /\ o.col \in Matches(o.row, q)
  <1>1. ASSUME NEW o \in Occurrences(q)
        PROVE  OnText(o) /\ o.row \in 0..LastRow /\ o.col \in Matches(o.row, q)
    <2>1. PICK r \in 0..LastRow : o \in {Place(r, c) : c \in Matches(r, q)}
      BY DEF Occurrences
    <2>2. PICK c \in Matches(r, q) : o = Place(r, c)
      BY <2>1
    <2>3. o.row = r /\ o.col = c
      BY <2>2 DEF Place
    <2>4. c \in Nat /\ c < Len(LineAt(r))
      BY MatchesAre, TextFacts
    <2> QED BY <2>2, <2>3, <2>4 DEF OnText
  <1> QED BY <1>1

\* One turn round n lines, forward or back: how far it is to a place.
LEMMA OneTurnOn ==
  ASSUME NEW n \in Nat, NEW i \in 0..n, NEW p, NEW h, p.row \in 0..(n - 1), h.row \in 0..(n - 1),
         p.col \in Nat, h.col \in Nat,
         h.row = IF p.row + i <= n - 1 THEN p.row + i ELSE p.row + i - n,
         i = 0 => h.col > p.col, i = n => h.col <= p.col
  PROVE  i = h.row - p.row + (IF p.row < h.row \/ (p.row = h.row /\ p.col < h.col) THEN 0 ELSE n)
  <1> DEFINE pr == p.row
             pc == p.col
             hr == h.row
             hc == h.col
  <1>1. /\ pr \in 0..(n - 1) /\ hr \in 0..(n - 1) /\ pc \in Nat /\ hc \in Nat
        /\ hr = IF pr + i <= n - 1 THEN pr + i ELSE pr + i - n
        /\ (i = 0 => hc > pc) /\ (i = n => hc <= pc)
    OBVIOUS
  <1>2. i = hr - pr + (IF pr < hr \/ (pr = hr /\ pc < hc) THEN 0 ELSE n)
    <2> HIDE DEF pr, pc, hr, hc
    <2> QED BY <1>1
  <1> QED BY <1>2

LEMMA OneTurnBack ==
  ASSUME NEW n \in Nat, NEW i \in 0..n, NEW p, NEW h, p.row \in 0..(n - 1), h.row \in 0..(n - 1),
         p.col \in Nat, h.col \in Nat,
         h.row = IF i <= p.row THEN p.row - i ELSE p.row - i + n,
         i = 0 => h.col < p.col, i = n => h.col >= p.col
  PROVE  i = p.row - h.row + (IF h.row < p.row \/ (h.row = p.row /\ h.col < p.col) THEN 0 ELSE n)
  <1> DEFINE pr == p.row
             pc == p.col
             hr == h.row
             hc == h.col
  <1>1. /\ pr \in 0..(n - 1) /\ hr \in 0..(n - 1) /\ pc \in Nat /\ hc \in Nat
        /\ hr = IF i <= pr THEN pr - i ELSE pr - i + n
        /\ (i = 0 => hc < pc) /\ (i = n => hc >= pc)
    OBVIOUS
  <1>2. i = pr - hr + (IF hr < pr \/ (hr = pr /\ hc < pc) THEN 0 ELSE n)
    <2> HIDE DEF pr, pc, hr, hc
    <2> QED BY <1>1
  <1> QED BY <1>2

\* A search finds the next place, counted round the text.
LEMMA SearchIs ==
  ASSUME text \in Texts, NEW q \in Seq(Chars), q # <<>>, NEW p, OnText(p), NEW dir \in {1, -1}
  PROVE  FindMatch(p, q, dir) =
            IF Occurrences(q) = {} THEN {} ELSE {Nearest(p, Occurrences(q), dir)}
  <1> DEFINE A == Occurrences(q)
             N == Len(text)
             S == FindMatch(p, q, dir)
             gone(o) == IF dir = 1 THEN Before(p, o) ELSE Before(o, p)
             at(o) == (IF dir = 1 THEN o.row - p.row ELSE p.row - o.row) + (IF gone(o) THEN 0 ELSE N)
  <1>1. /\ p.row \in 0..LastRow /\ p.row \in Nat /\ p.col \in Nat
        /\ N \in Nat /\ N > 0 /\ LastRow = N - 1
    BY TextFacts DEF OnText
  <1>2. \A o \in A : /\ OnText(o) /\ o.row \in 0..LastRow /\ o.row \in Nat /\ o.col \in Nat
                     /\ o.col \in Matches(o.row, q)
    BY OccurrencesOn, TextFacts DEF OnText
  <1> HIDE DEF A
  \* Every occurrence is met on one step, those further on first.
  <1>3. ASSUME NEW o \in A
        PROVE  at(o) \in 0..N /\ RowAfter(p.row, dir, at(o)) = o.row /\ MayHit(p, dir, at(o), o.col)
    <2>1. o.row \in 0..(N - 1) /\ o.col \in Nat
      BY <1>1, <1>2
    <2>2. at(o) \in 0..N
      BY <1>1, <2>1 DEF Before
    <2>3. RowAfter(p.row, dir, at(o)) = o.row
      <3>1. CASE dir = 1
        <4>1. RowAfter(p.row, 1, at(o)) = IF p.row + at(o) <= LastRow THEN p.row + at(o) ELSE p.row + at(o) - N
          BY <1>1, <2>2, RowAfterIs
        <4> QED BY <1>1, <2>1, <3>1, <4>1 DEF Before
      <3>2. CASE dir = -1
        <4>1. RowAfter(p.row, -1, at(o)) = IF at(o) <= p.row THEN p.row - at(o) ELSE p.row - at(o) + N
          BY <1>1, <2>2, RowAfterIs
        <4> QED BY <1>1, <2>1, <3>2, <4>1 DEF Before
      <3> QED BY <3>1, <3>2
    <2>4. MayHit(p, dir, at(o), o.col)
      BY <1>1, <2>1 DEF Before, MayHit
    <2> QED BY <2>2, <2>3, <2>4
  <1>4. CASE S = {}
    <2>1. ASSUME NEW o \in A PROVE FALSE
      BY <1>2, <1>3, <1>1, <1>4, FoundIs
    <2> QED BY <1>4, <2>1 DEF A
  <1>5. CASE S # {}
    <2>1. PICK h \in A, i \in 0..N :
              /\ S = {h} /\ h.row = RowAfter(p.row, dir, i) /\ MayHit(p, dir, i, h.col)
              /\ \A j \in 0..N : \A d \in Matches(RowAfter(p.row, dir, j), q) :
                    MayHit(p, dir, j, d) =>
                       i <= j /\ (i = j => IF dir = 1 THEN h.col <= d ELSE h.col >= d)
      BY <1>1, <1>5, FoundIs DEF A
    <2>2. i = at(h)
      <3>1. h.row \in 0..(N - 1) /\ h.col \in Nat /\ i \in Nat /\ i <= N
        BY <1>1, <1>2, <2>1
      <3>4. MayHit(p, dir, i, h.col)
        BY <2>1
      <3>2. CASE dir = 1
        <4>1. h.row = IF p.row + i <= LastRow THEN p.row + i ELSE p.row + i - N
          BY <1>1, <2>1, <3>2, RowAfterIs
        <4>2. (i = 0 => h.col > p.col) /\ (i = N => h.col <= p.col)
          BY <3>2, <3>4 DEF MayHit
        <4>3. i = h.row - p.row + (IF p.row < h.row \/ (p.row = h.row /\ p.col < h.col) THEN 0 ELSE N)
          <5>1. /\ p.row \in 0..(N - 1) /\ p.col \in Nat /\ N \in Nat /\ i \in 0..N
                /\ h.row \in 0..(N - 1) /\ h.col \in Nat
            BY <1>1, <3>1
          <5>2. h.row = IF p.row + i <= N - 1 THEN p.row + i ELSE p.row + i - N
            BY <1>1, <4>1
          <5> HIDE DEF N
          <5> QED BY <4>2, <5>1, <5>2, OneTurnOn
        <4> QED BY <3>2, <4>3 DEF Before
      <3>3. CASE dir = -1
        <4>1. h.row = IF i <= p.row THEN p.row - i ELSE p.row - i + N
          BY <1>1, <2>1, <3>3, RowAfterIs
        <4>2. (i = 0 => h.col < p.col) /\ (i = N => h.col >= p.col)
          BY <3>3, <3>4 DEF MayHit
        <4>3. i = p.row - h.row + (IF h.row < p.row \/ (h.row = p.row /\ h.col < p.col) THEN 0 ELSE N)
          <5>1. /\ p.row \in 0..(N - 1) /\ p.col \in Nat /\ N \in Nat /\ i \in 0..N
                /\ h.row \in 0..(N - 1) /\ h.col \in Nat
            BY <1>1, <3>1
          <5> HIDE DEF N
          <5> QED BY <4>1, <4>2, <5>1, OneTurnBack
        <4> QED BY <3>3, <4>3 DEF Before
      <3> QED BY <3>2, <3>3
    <2>3. \A o \in A : at(h) <= at(o) /\ (at(h) = at(o) => IF dir = 1 THEN h.col <= o.col ELSE h.col >= o.col)
      BY <1>2, <1>3, <2>1, <2>2
    <2> DEFINE ahead == {o \in A : gone(o)}
               from == IF ahead = {} THEN A ELSE ahead
    <2>4. ASSUME NEW o \in A, ~gone(h) PROVE ~gone(o)
      <3>1. {h.row, o.row} \subseteq 0..(N - 1) /\ at(h) <= at(o)
        BY <1>1, <1>2, <2>1, <2>3
      <3>2. SUFFICES ASSUME gone(o) PROVE FALSE
        OBVIOUS
      <3>3. CASE dir = 1
        <4>1. h.row - p.row + N <= o.row - p.row + 0
          BY <2>4, <3>1, <3>2, <3>3
        <4> QED BY <1>1, <3>1, <3>2, <3>3, <4>1 DEF Before
      <3>4. CASE dir = -1
        <4>1. p.row - h.row + N <= p.row - o.row + 0
          BY <2>4, <3>1, <3>2, <3>4
        <4> QED BY <1>1, <3>1, <3>2, <3>4, <4>1 DEF Before
      <3> QED BY <3>3, <3>4
    <2>5. h \in from
      BY <2>1, <2>4
    <2>6. ASSUME NEW o \in from, o # h
          PROVE  IF dir = 1 THEN Before(h, o) ELSE Before(o, h)
      <3>1. o \in A /\ (gone(h) <=> gone(o))
        BY <2>4, <2>5, <2>6
      <3>2. h.row # o.row \/ h.col # o.col
        BY <1>2, <2>1, <2>6, <3>1 DEF OnText
      <3>3. at(h) <= at(o) /\ (at(h) = at(o) => IF dir = 1 THEN h.col <= o.col ELSE h.col >= o.col)
        BY <2>3, <3>1
      <3>4. {h.row, o.row, h.col, o.col} \subseteq Nat
        BY <1>2, <2>1, <3>1
      <3> HIDE DEF from, ahead
      <3>5. CASE dir = 1
        <4>1. /\ h.row - p.row + (IF gone(h) THEN 0 ELSE N) <= o.row - p.row + (IF gone(h) THEN 0 ELSE N)
              /\ h.row - p.row + (IF gone(h) THEN 0 ELSE N) = o.row - p.row + (IF gone(h) THEN 0 ELSE N) => h.col <= o.col
          BY <3>1, <3>3, <3>5
        <4> HIDE DEF N, gone
        <4>2. (IF gone(h) THEN 0 ELSE N) \in Nat
          BY <1>1
        <4>3. h.row <= o.row /\ (h.row = o.row => h.col <= o.col)
          BY <1>1, <3>4, <4>1, <4>2
        <4> QED BY <3>2, <3>4, <3>5, <4>3 DEF Before
      <3>6. CASE dir = -1
        <4>1. /\ p.row - h.row + (IF gone(h) THEN 0 ELSE N) <= p.row - o.row + (IF gone(h) THEN 0 ELSE N)
              /\ p.row - h.row + (IF gone(h) THEN 0 ELSE N) = p.row - o.row + (IF gone(h) THEN 0 ELSE N) => h.col >= o.col
          BY <3>1, <3>3, <3>6
        <4> HIDE DEF N, gone
        <4>2. (IF gone(h) THEN 0 ELSE N) \in Nat
          BY <1>1
        <4>3. o.row <= h.row /\ (h.row = o.row => h.col >= o.col)
          BY <1>1, <3>4, <4>1, <4>2
        <4> QED BY <3>2, <3>4, <3>6, <4>3 DEF Before
      <3> QED BY <3>5, <3>6
    <2>7. Nearest(p, A, dir) = IF dir = 1 THEN Foremost(from) ELSE Hindmost(from)
      BY DEF Nearest
    <2>8. \A o \in from : OnText(o)
      BY <1>2
    <2> HIDE DEF from
    <2>9. Nearest(p, A, dir) = h
      BY <2>5, <2>6, <2>7, <2>8, OneForemost
    <2> QED BY <1>5, <2>1, <2>9 DEF A
  <1> QED BY <1>4, <1>5

-----------------------------------------------------------------------------
LEMMA RunSearchOK ==
  ASSUME text \in Texts, CopyOK(copy), NEW s, CopyOK(s), s.row = copy.row, s.col = copy.col,
         NEW q \in Seq(Chars), q # <<>>, NEW dir \in {1, -1}
  PROVE  LET t == RunSearch(s, q, dir) IN
         /\ Goes(copy, t)
         /\ t.last = [query |-> q, dir |-> dir]
         /\ InText(Cursor) => IF Occurrences(q) = {} THEN t.notice
                              ELSE Place(t.row, t.col) = Nearest(Cursor, Occurrences(q), dir)
  <1> DEFINE t == RunSearch(s, q, dir)
             hit == FindMatch(Cursor, q, dir)
             next == [s EXCEPT !.search = NoSearch, !.last = [query |-> q, dir |-> dir]]
             lost == [next EXCEPT !.notice = TRUE]
  <1>1. /\ next \in CopyStates /\ next.search = NoSearch /\ next.last = [query |-> q, dir |-> dir]
        /\ next.row = s.row /\ next.col = s.col /\ next.anchor = s.anchor /\ next.visual = s.visual
    BY EmptySeq DEF CopyOK, CopyStates, NoSearch
  <1>2. CopyOK(next)
    BY <1>1 DEF CopyOK, NoSearch
  <1>3. /\ lost \in CopyStates /\ lost.search = next.search /\ lost.last = next.last
        /\ lost.row = next.row /\ lost.col = next.col /\ lost.anchor = next.anchor
        /\ lost.visual = next.visual /\ lost.notice = TRUE
    <2> HIDE DEF next
    <2> QED BY <1>1 DEF CopyStates
  <1>4. CopyOK(lost)
    BY <1>2, <1>3 DEF CopyOK
  <1>5. Cursor.row = copy.row /\ Cursor.col = copy.col /\ Cursor.row \in Nat /\ Cursor.col \in Nat
    BY DEF Cursor, Place, CopyOK, CopyStates
  <1>6. InText(Cursor) => hit = IF Occurrences(q) = {} THEN {} ELSE {Nearest(Cursor, Occurrences(q), dir)}
    <2>1. InText(Cursor) => OnText(Cursor)
      BY <1>5, InTextOn
    <2> QED BY <2>1, SearchIs
  <1>7. CASE hit = {}
    <2>1. t = lost
      BY <1>7 DEF RunSearch
    <2>2. InText(Cursor) => Occurrences(q) = {}
      BY <1>6, <1>7
    <2> HIDE DEF t, lost, next
    <2>3. Goes(copy, t)
      BY <1>1, <1>3, <1>4, <2>1 DEF Goes
    <2> QED BY <1>1, <1>3, <2>1, <2>2, <2>3 DEF t
  <1>8. CASE hit # {}
    <2>1. PICK h \in Occurrences(q) : hit = {h}
      BY <1>5, <1>8, FoundIs
    <2>2. OnText(h) /\ h.row \in Int /\ h.col \in Int
      BY <2>1, OccurrencesOn DEF OnText
    <2>3. (CHOOSE p \in hit : TRUE) = h
      BY <2>1
    <2>4. t = MoveTo(next, h.row, h.col)
      BY <1>8, <2>3 DEF RunSearch
    <2> HIDE DEF t, next
    <2>5. /\ CopyOK(t) /\ Goes(next, t) /\ t.last = next.last
          /\ Place(t.row, t.col) = ClampPos(h.row, h.col)
      BY <1>2, <2>2, <2>4, MoveOK
    <2>6. Place(t.row, t.col) = h
      BY <2>2, <2>5, OnTextIn DEF InText
    <2>7. InText(Cursor) => Occurrences(q) # {} /\ h = Nearest(Cursor, Occurrences(q), dir)
      BY <1>6, <2>1
    <2>8. Goes(copy, t)
      BY <1>1, <2>5 DEF Goes
    <2> QED BY <1>1, <2>5, <2>6, <2>7, <2>8 DEF t
  <1> QED BY <1>7, <1>8

LEMMA ParagraphsOK ==
  ASSUME text \in Texts, NEW r \in Nat
  PROVE  ParagraphDown(r) \in Int /\ ParagraphUp(r) \in Int
  <1> DEFINE D == {x \in (r + 1)..LastRow : IsBlank(x)} \cup {AtLeast(r + 1, LastRow)}
             U == {x \in 0..(r - 1) : IsBlank(x)} \cup {0}
  <1>1. D \in SUBSET Nat /\ D # {} /\ LastRow \in Nat
    <2>1. LastRow \in Nat /\ AtLeast(r + 1, LastRow) \in Nat
      BY TextFacts DEF AtLeast
    <2> QED BY <2>1
  <1>2. U \in SUBSET (0..r) /\ U # {} /\ \A x \in U : x \in Nat
    <2>1. U # {}
      OBVIOUS
    <2>2. \A x \in U : x \in 0..r
      OBVIOUS
    <2> HIDE DEF U
    <2> QED BY <2>1, <2>2
  <1> HIDE DEF D, U
  <1>3. Min(D) \in Nat
    BY <1>1, MinIs
  <1>4. Max(U) \in Nat
    <2>1. Max(U) \in U
      BY <1>2, MaxIs
    <2> QED BY <1>2, <2>1
  <1>5. ParagraphDown(r) = AtMost(LastRow, Min(D))
    BY DEF ParagraphDown, D
  <1>6. ParagraphUp(r) = Max(U)
    BY DEF ParagraphUp, U
  <1> QED BY <1>1, <1>3, <1>4, <1>5, <1>6 DEF AtMost

\* Where w, b and e go.
LEMMA WordMoves ==
  ASSUME text \in Texts, NEW s, CopyOK(s), NEW p, OnText(p)
  PROVE  /\ Goes(s, MoveTo(s, p.row, p.col))
         /\ Place(MoveTo(s, p.row, p.col).row, MoveTo(s, p.row, p.col).col) = p
  <1>1. p.row \in Int /\ p.col \in Int /\ ClampPos(p.row, p.col) = p
    BY OnTextIn DEF OnText, InText
  <1> QED BY <1>1, MoveOK

LEMMA MovedOK ==
  ASSUME text \in Texts, CopyOK(copy), NEW s, CopyOK(s), s.row = copy.row, s.col = copy.col, NEW k \in Motions
  PROVE  Goes(s, Moved(s, k))
  <1>1. s.row \in Nat /\ s.col \in Nat /\ LastRow \in Int /\ Len(LineAt(s.row)) \in Int
    BY TextFacts DEF CopyOK, CopyStates
  <1>2. Cursor.row \in Nat /\ Cursor.col \in Nat
    BY <1>1 DEF Cursor, Place
  <1>3. \A r, c \in Int : Goes(s, MoveTo(s, r, c))
    BY MoveOK
  <1>4. \A d \in Int : Goes(s, Vertical(s, d))
    BY VerticalOK
  <1>5. k = "h" => Goes(s, Moved(s, k))
    BY <1>1, <1>3 DEF Moved
  <1>6. k = "l" => Goes(s, Moved(s, k))
    BY <1>1, <1>3 DEF Moved
  <1>7. k \in {"j", "k"} => Goes(s, Moved(s, k))
    <2>1. Goes(s, Vertical(s, 1)) /\ Goes(s, Vertical(s, -1))
      BY <1>4
    <2> QED BY <2>1 DEF Moved
  <1>8. k = "0" => Goes(s, Moved(s, k))
    BY <1>1, <1>3 DEF Moved
  <1>9. k = "$" => Goes(s, Moved(s, k))
    BY <1>1, <1>3 DEF Moved
  <1>10. k = "G" => Goes(s, Moved(s, k))
    BY <1>1, <1>3 DEF Moved
  <1>11. k = "w" => Goes(s, Moved(s, k))
    <2>1. NextWordStart(Cursor).row \in Int /\ NextWordStart(Cursor).col \in Int
      BY NextWordOK DEF OnText
    <2> QED BY <1>3, <2>1 DEF Moved
  <1>12. k = "e" => Goes(s, Moved(s, k))
    <2>1. WordEnd(Cursor).row \in Int /\ WordEnd(Cursor).col \in Int
      BY NextWordOK DEF OnText
    <2> QED BY <1>3, <2>1 DEF Moved
  <1>13. k = "b" => Goes(s, Moved(s, k))
    <2>1. PrevWordStart(Cursor).row \in Int /\ PrevWordStart(Cursor).col \in Int
      BY <1>2, PrevWordOK
    <2> QED BY <1>3, <2>1 DEF Moved
  <1>14. k \in {"}", "{"} => Goes(s, Moved(s, k))
    <2>1. ParagraphDown(s.row) \in Int /\ ParagraphUp(s.row) \in Int /\ 0 \in Int
      BY <1>1, ParagraphsOK
    <2>2. Goes(s, MoveTo(s, ParagraphDown(s.row), 0)) /\ Goes(s, MoveTo(s, ParagraphUp(s.row), 0))
      BY <1>3, <2>1
    <2> QED BY <2>2 DEF Moved
  <1> QED BY <1>5, <1>6, <1>7, <1>8, <1>9, <1>10, <1>11, <1>12, <1>13, <1>14 DEF Motions

LEMMA SelectingOK ==
  ASSUME CopyOK(copy), NEW s, CopyOK(s), s.row = copy.row, s.col = copy.col, NEW v \in {"char", "line"}
  PROVE  Goes(s, Selecting(s, v))
  <1> DEFINE off == [s EXCEPT !.visual = "none", !.anchor = NoAnchor]
             on == [s EXCEPT !.visual = v, !.anchor = IF @ = NoAnchor THEN Cursor ELSE @]
  <1>1. /\ NoAnchor \in [row : Int, col : Int] /\ Cursor \in [row : Int, col : Int]
        /\ Cursor.row \in Nat /\ Cursor.col \in Nat /\ Cursor # NoAnchor
    BY DEF NoAnchor, Cursor, Place, CopyOK, CopyStates
  <1>2. Goes(s, off)
    <2>1. /\ off \in CopyStates /\ off.search = s.search /\ off.anchor = NoAnchor /\ off.visual = "none"
          /\ off.row = s.row /\ off.col = s.col
      BY <1>1 DEF CopyOK, CopyStates
    <2> HIDE DEF off
    <2> QED BY <2>1 DEF Goes, CopyOK
  <1>3. Goes(s, on)
    <2>1. /\ on \in CopyStates /\ on.search = s.search /\ on.visual = v
          /\ on.anchor = IF s.anchor = NoAnchor THEN Cursor ELSE s.anchor
          /\ on.row = s.row /\ on.col = s.col
      BY <1>1 DEF CopyOK, CopyStates
    <2> HIDE DEF on
    <2> QED BY <1>1, <2>1 DEF Goes, CopyOK
  <1> QED BY <1>2, <1>3 DEF Selecting

\* A query is typed, and a search asked for.
LEMMA TypingOK ==
  ASSUME text \in Texts, CopyOK(copy), NEW s, CopyOK(s), s.row = copy.row, s.col = copy.col, s.search.typing,
         NEW k
  PROVE  Goes(s, Typing(s, k))
  <1>1. /\ s \in CopyStates /\ s.search \in [typing : BOOLEAN, dir : {1, -1}, query : Seq(Chars)]
        /\ s.search.query \in Seq(Chars) /\ s.search.dir \in {1, -1}
    BY DEF CopyOK, CopyStates
  <1>2. ASSUME NEW t, t \in CopyStates, t.row = s.row, t.col = s.col, t.anchor = s.anchor, t.visual = s.visual,
               ~t.search.typing => t.search.query = <<>>
        PROVE  Goes(s, t)
    BY <1>2 DEF Goes, CopyOK
  <1>3. Goes(s, [s EXCEPT !.search = NoSearch])
    <2> DEFINE t == [s EXCEPT !.search = NoSearch]
    <2>1. NoSearch \in [typing : BOOLEAN, dir : {1, -1}, query : Seq(Chars)] /\ NoSearch.query = <<>>
      BY EmptySeq DEF NoSearch
    <2>2. t \in CopyStates /\ t.row = s.row /\ t.col = s.col /\ t.anchor = s.anchor /\ t.visual = s.visual
          /\ t.search = NoSearch
      BY <1>1, <2>1 DEF CopyStates
    <2> HIDE DEF t
    <2>3. Goes(s, t)
      BY <1>2, <2>1, <2>2
    <2> QED BY <2>3 DEF t
  <1>4. ASSUME NEW q \in Seq(Chars) PROVE Goes(s, [s EXCEPT !.search.query = q])
    <2> DEFINE t == [s EXCEPT !.search.query = q]
    <2>1. t \in CopyStates /\ t.row = s.row /\ t.col = s.col /\ t.anchor = s.anchor /\ t.visual = s.visual
          /\ t.search.typing = s.search.typing
      BY <1>1 DEF CopyStates
    <2> HIDE DEF t
    <2>2. Goes(s, t)
      BY <1>2, <2>1
    <2> QED BY <2>2 DEF t
  <1>5. CASE k = "Enter"
    <2>1. CASE s.search.query = <<>>
      BY <1>3, <1>5, <2>1 DEF Typing
    <2>2. CASE s.search.query # <<>>
      <3>1. Typing(s, k) = RunSearch(s, s.search.query, s.search.dir)
        BY <1>5, <2>2 DEF Typing
      <3>2. Goes(copy, RunSearch(s, s.search.query, s.search.dir))
        BY <1>1, <2>2, RunSearchOK
      <3> QED BY <3>1, <3>2 DEF Goes
    <2> QED BY <2>1, <2>2
  <1>6. CASE k = "Escape"
    BY <1>3, <1>6 DEF Typing
  <1>7. CASE k = "Backspace"
    <2> DEFINE q == IF s.search.query = <<>> THEN s.search.query ELSE Front(s.search.query)
    <2>1. q \in Seq(Chars)
      <3>1. CASE s.search.query # <<>>
        <4>1. Front(s.search.query) = SubSeq(s.search.query, 1, Len(s.search.query) - 1)
          BY DEF Front
        <4>2. Len(s.search.query) \in Nat /\ \A i \in 1..(Len(s.search.query) - 1) : s.search.query[i] \in Chars
          BY <1>1
        <4>3. SubSeq(s.search.query, 1, Len(s.search.query) - 1) \in Seq(Chars)
          BY <4>2, SubSeqProperties
        <4> QED BY <3>1, <4>1, <4>3
      <3> QED BY <1>1, <3>1
    <2>2. Typing(s, k) = [s EXCEPT !.search.query = q]
      BY <1>1, <1>7 DEF Typing, CopyStates
    <2> HIDE DEF q
    <2> QED BY <1>4, <2>1, <2>2
  <1>8. CASE k \in {"b", "."}
    <2>1. Append(s.search.query, k) \in Seq(Chars)
      <3>1. k \in Chars
        BY <1>8 DEF Chars
      <3> QED BY <1>1, <3>1, AppendProperties
    <2>2. Typing(s, k) = [s EXCEPT !.search.query = Append(s.search.query, k)]
      BY <1>1, <1>8 DEF Typing, CopyStates
    <2> QED BY <1>4, <2>1, <2>2
  <1>9. CASE k \notin {"Enter", "Escape", "Backspace", "b", "."}
    <2>1. Typing(s, k) = s
      BY <1>9 DEF Typing
    <2> QED BY <2>1 DEF Goes
  <1> QED BY <1>5, <1>6, <1>7, <1>8, <1>9

LEMMA CommandOK ==
  ASSUME text \in Texts, CopyOK(copy), NEW s, CopyOK(s), s.row = copy.row, s.col = copy.col, ~s.search.typing,
         NEW k \in CopyKeys
  PROVE  Command(s, k) = NotCopying \/ Goes(s, Command(s, k))
  <1>1. s \in CopyStates /\ s.last.query \in Seq(Chars) /\ s.last.dir \in {1, -1}
    BY DEF CopyOK, CopyStates
  <1>2. CASE k \in Motions
    <2>1. Command(s, k) = Moved(s, k)
      BY <1>2 DEF Command, Motions
    <2> QED BY <1>2, <2>1, MovedOK
  <1>3. CASE k = "g"
    <2> DEFINE t == [s EXCEPT !.pending = TRUE]
    <2>1. t \in CopyStates /\ t.row = s.row /\ t.col = s.col /\ t.anchor = s.anchor /\ t.visual = s.visual
          /\ t.search = s.search
      BY <1>1 DEF CopyStates
    <2>2. Command(s, k) = t
      BY <1>3 DEF Command, Motions
    <2> HIDE DEF t
    <2> QED BY <2>1, <2>2 DEF Goes, CopyOK
  <1>4. CASE k \in {"/", "?"}
    <2>1. ASSUME NEW dir \in {1, -1} PROVE Goes(s, Asks(s, dir))
      <3> DEFINE t == Asks(s, dir)
      <3>1. [typing |-> TRUE, dir |-> dir, query |-> <<>>] \in [typing : BOOLEAN, dir : {1, -1}, query : Seq(Chars)]
        BY EmptySeq
      <3>2. t \in CopyStates /\ t.row = s.row /\ t.col = s.col /\ t.anchor = s.anchor /\ t.visual = s.visual
            /\ t.search.typing
        BY <1>1, <3>1 DEF CopyStates, Asks
      <3> HIDE DEF t
      <3>3. Goes(s, t)
        BY <3>2 DEF Goes, CopyOK
      <3> QED BY <3>3 DEF t
    <2>2. Goes(s, Asks(s, 1)) /\ Goes(s, Asks(s, -1))
      BY <2>1
    <2> QED BY <1>4, <2>2 DEF Command, Motions
  <1>5. CASE k \in {"n", "N"}
    <2>1. ASSUME NEW flip \in {1, -1} PROVE Goes(s, Again(s, flip))
      <3>1. CASE s.last.query = <<>>
        BY <3>1 DEF Again, Goes
      <3>2. CASE s.last.query # <<>>
        <4>1. s.last.dir * flip \in {1, -1}
          BY <1>1
        <4>2. Goes(copy, RunSearch(s, s.last.query, s.last.dir * flip))
          BY <1>1, <3>2, <4>1, RunSearchOK
        <4> QED BY <3>2, <4>2 DEF Again, Goes
      <3> QED BY <3>1, <3>2
    <2>2. Goes(s, Again(s, 1)) /\ Goes(s, Again(s, -1))
      BY <2>1
    <2> QED BY <1>5, <2>2 DEF Command, Motions
  <1>6. CASE k \in {"v", "V"}
    <2>1. Goes(s, Selecting(s, "char")) /\ Goes(s, Selecting(s, "line"))
      BY SelectingOK
    <2> QED BY <1>6, <2>1 DEF Command, Motions
  <1>7. CASE k \in {"y", "Y", "q"}
    BY <1>7 DEF Command, Motions, Goes
  <1>8. CASE k = "Escape"
    <2> DEFINE t == [s EXCEPT !.visual = "none", !.anchor = NoAnchor]
    <2>0. NoAnchor \in [row : Int, col : Int]
      BY DEF NoAnchor
    <2>1. t \in CopyStates /\ t.row = s.row /\ t.col = s.col /\ t.anchor = NoAnchor /\ t.visual = "none"
          /\ t.search = s.search
      BY <1>1, <2>0 DEF CopyStates
    <2>2. Command(s, k) \in {NotCopying, t}
      BY <1>8 DEF Command, Motions
    <2> HIDE DEF t
    <2> QED BY <2>1, <2>2 DEF Goes, CopyOK
  <1>9. CASE k \in Pages \cup {"Enter", "Backspace", "."}
    <2>1. Command(s, k) = s
      BY <1>9 DEF Command, Motions, Pages
    <2> QED BY <2>1 DEF Goes
  <1> QED BY <1>2, <1>3, <1>4, <1>5, <1>6, <1>7, <1>8, <1>9 DEF CopyKeys

\* One key: out of copy mode, or the cursor stays or comes onto the text.
LEMMA CopyKeyOK ==
  ASSUME text \in Texts, CopyOK(copy), NEW k \in CopyKeys
  PROVE  CopyModeStep(copy, k) = NotCopying \/ Goes(copy, CopyModeStep(copy, k))
  <1> DEFINE s == [copy EXCEPT !.notice = FALSE]
             cleared == [s EXCEPT !.pending = FALSE]
  <1>1. /\ s \in CopyStates /\ s.row = copy.row /\ s.col = copy.col /\ s.anchor = copy.anchor
        /\ s.visual = copy.visual /\ s.search = copy.search
    BY DEF CopyOK, CopyStates
  <1>2. CopyOK(s)
    BY <1>1 DEF CopyOK
  <1>3. /\ cleared \in CopyStates /\ cleared.row = s.row /\ cleared.col = s.col /\ cleared.anchor = s.anchor
        /\ cleared.visual = s.visual /\ cleared.search = s.search
    <2> HIDE DEF s
    <2> QED BY <1>1 DEF CopyStates
  <1>4. CopyOK(cleared)
    BY <1>2, <1>3 DEF CopyOK
  <1>5. CopyModeStep(copy, k) =
           CASE s.search.typing -> Typing(s, k)
             [] ~s.search.typing /\ k \in Pages -> Paged(cleared, k)
             [] ~s.search.typing /\ k \notin Pages /\ s.pending /\ k = "g" -> MoveTo(cleared, 0, 0)
             [] OTHER -> Command(cleared, k)
    BY DEF CopyModeStep
  <1> HIDE DEF s, cleared
  <1>6. CASE s.search.typing
    <2>1. Goes(s, Typing(s, k))
      BY <1>1, <1>2, <1>6, TypingOK
    <2> QED BY <1>1, <1>5, <1>6, <2>1 DEF Goes
  <1>7. CASE ~s.search.typing /\ k \in Pages
    <2>1. HalfPage \in Int /\ PaneRows \in Int /\ -HalfPage \in Int /\ -PaneRows \in Int
      <3>1. PaneRows \div 2 \in Int
        BY CopyModeAssumption
      <3> QED BY <3>1, CopyModeAssumption DEF HalfPage, AtLeast
    <2>2. Goes(cleared, Paged(cleared, k))
      <3>1. /\ Goes(cleared, Vertical(cleared, HalfPage)) /\ Goes(cleared, Vertical(cleared, -HalfPage))
            /\ Goes(cleared, Vertical(cleared, PaneRows)) /\ Goes(cleared, Vertical(cleared, -PaneRows))
        BY <1>4, <2>1, VerticalOK
      <3> QED BY <1>7, <3>1 DEF Paged, Pages
    <2>3. CopyModeStep(copy, k) = Paged(cleared, k)
      BY <1>5, <1>7
    <2> QED BY <1>1, <1>3, <2>2, <2>3 DEF Goes
  <1>8. CASE ~s.search.typing /\ k \notin Pages /\ s.pending /\ k = "g"
    <2>1. Goes(cleared, MoveTo(cleared, 0, 0))
      BY <1>4, MoveOK
    <2>2. CopyModeStep(copy, k) = MoveTo(cleared, 0, 0)
      BY <1>5, <1>8
    <2> QED BY <1>1, <1>3, <2>1, <2>2 DEF Goes
  <1>9. CASE ~s.search.typing /\ k \notin Pages /\ ~(s.pending /\ k = "g")
    <2>1. CopyModeStep(copy, k) = Command(cleared, k)
      BY <1>5, <1>9
    <2>2. Command(cleared, k) = NotCopying \/ Goes(cleared, Command(cleared, k))
      BY <1>1, <1>3, <1>4, <1>9, CommandOK
    <2> QED BY <1>1, <1>3, <2>1, <2>2 DEF Goes
  <1> QED BY <1>6, <1>7, <1>8, <1>9

-----------------------------------------------------------------------------
(* Whatever is typed, and whatever the shell writes meanwhile, the copy state stays well
   formed: a query only while one is typed, an anchor wherever something is selected
   (core/layout/copy-mode.ts).                                                       *)
THEOREM CopyModeHolds == CopySpec => []CopyIInv
  <1>1. CopyInit => CopyIInv
    BY DEF CopyInit, CopyIInv
  <1>2. CopyIInv /\ [CopyNext]_copyVars => CopyIInv'
    <2> SUFFICES ASSUME CopyIInv, [CopyNext]_copyVars
                 PROVE  CopyIInv'
      OBVIOUS
    <2>1. CASE EnterCopy
      <3>1. /\ text' = text /\ EndOfText.row \in Nat /\ EndOfText.col \in Nat
        BY <2>1, EndsOn, TextFacts DEF EnterCopy, CopyIInv, OnText
      <3>2. NoSearch \in [typing : BOOLEAN, dir : {1, -1}, query : Seq(Chars)]
            /\ [query |-> <<>>, dir |-> 1] \in [query : Seq(Chars), dir : {1, -1}]
            /\ NoAnchor \in [row : Int, col : Int]
        BY EmptySeq DEF NoSearch, NoAnchor
      <3>3. copy' \in CopyStates /\ copy'.search = NoSearch /\ copy'.anchor = NoAnchor /\ copy'.visual = "none"
        BY <2>1, <3>1, <3>2 DEF EnterCopy, CopyStates
      <3> QED BY <3>1, <3>3 DEF CopyIInv, CopyOK, NoSearch
    <2>2. CASE Output
      BY <2>2 DEF Output, CopyIInv
    <2>3. ASSUME NEW k \in CopyKeys, CopyKey(k)
          PROVE  CopyIInv'
      <3>1. text \in Texts /\ CopyOK(copy) /\ text' = text /\ copy' = CopyModeStep(copy, k)
        BY <2>3 DEF CopyKey, CopyIInv
      <3>2. copy' # NotCopying => CopyOK(copy')
        BY <3>1, CopyKeyOK DEF Goes
      <3> QED BY <3>1, <3>2 DEF CopyIInv
    <2>4. CASE UNCHANGED copyVars
      BY <2>4 DEF copyVars, CopyIInv
    <2> QED BY <2>1, <2>2, <2>3, <2>4 DEF CopyNext
  <1> QED BY <1>1, <1>2, PTL DEF CopySpec

\* What a key is taken for, outside a query and in one.
LEMMA KeyIs ==
  ASSUME CopyOK(copy), NEW k
  PROVE  /\ ~copy.search.typing /\ k \notin Pages \cup {"g"} =>
              \E s : /\ CopyOK(s) /\ s.row = copy.row /\ s.col = copy.col /\ s.last = copy.last
                    /\ s.visual = copy.visual /\ s.search = copy.search
                    /\ CopyModeStep(copy, k) = Command(s, k)
         /\ copy.search.typing =>
              \E s : /\ CopyOK(s) /\ s.row = copy.row /\ s.col = copy.col /\ s.search = copy.search
                    /\ CopyModeStep(copy, k) = Typing(s, k)
  <1> DEFINE s == [copy EXCEPT !.notice = FALSE]
             cleared == [s EXCEPT !.pending = FALSE]
  <1>1. /\ s \in CopyStates /\ s.row = copy.row /\ s.col = copy.col /\ s.anchor = copy.anchor
        /\ s.visual = copy.visual /\ s.search = copy.search /\ s.last = copy.last
    BY DEF CopyOK, CopyStates
  <1>2. CopyOK(s)
    BY <1>1 DEF CopyOK
  <1>3. /\ cleared \in CopyStates /\ cleared.row = s.row /\ cleared.col = s.col /\ cleared.anchor = s.anchor
        /\ cleared.visual = s.visual /\ cleared.search = s.search /\ cleared.last = s.last
    <2> HIDE DEF s
    <2> QED BY <1>1 DEF CopyStates
  <1>4. CopyOK(cleared)
    BY <1>2, <1>3 DEF CopyOK
  <1>5. CopyModeStep(copy, k) =
           CASE s.search.typing -> Typing(s, k)
             [] ~s.search.typing /\ k \in Pages -> Paged(cleared, k)
             [] ~s.search.typing /\ k \notin Pages /\ s.pending /\ k = "g" -> MoveTo(cleared, 0, 0)
             [] OTHER -> Command(cleared, k)
    BY DEF CopyModeStep
  <1> HIDE DEF s, cleared
  <1>6. ~copy.search.typing /\ k \notin Pages \cup {"g"} => CopyModeStep(copy, k) = Command(cleared, k)
    BY <1>1, <1>5
  <1>7. copy.search.typing => CopyModeStep(copy, k) = Typing(s, k)
    BY <1>1, <1>5
  <1> QED BY <1>1, <1>2, <1>3, <1>4, <1>6, <1>7

LEMMA MovesStay ==
  ASSUME CopyIInv, [CopyNext]_copyVars, copy' # NotCopying, copy # NotCopying, Cursor' # Cursor
  PROVE  InText(Cursor)'
  <1>1. PICK k \in CopyKeys : CopyKey(k)
    BY DEF CopyNext, EnterCopy, Output, copyVars, Cursor
  <1>2. text \in Texts /\ CopyOK(copy) /\ text' = text /\ copy' = CopyModeStep(copy, k)
    BY <1>1 DEF CopyKey, CopyIInv
  <1>3. Goes(copy, copy')
    BY <1>2, CopyKeyOK
  <1>4. OnText(Cursor')
    BY <1>3 DEF Goes, Cursor
  <1>5. InText(Cursor')
    BY <1>2, <1>4, OnTextIn
  <1> QED BY <1>2, <1>5 DEF InText, ClampPos, LastRow, LineAt

LEMMA WordsGo ==
  ASSUME CopyIInv, copy # NotCopying, NEW k \in {"w", "e", "b"}, CopyKey(k), ~copy.search.typing, InText(Cursor)
  PROVE  /\ k = "w" => Cursor' = NextWordStart(Cursor)
         /\ k = "e" => Cursor' = WordEnd(Cursor)
         /\ k = "b" => Cursor' = PrevWordStart(Cursor)
         /\ OnText(Cursor)
  <1>1. text \in Texts /\ CopyOK(copy) /\ copy' = CopyModeStep(copy, k)
    BY DEF CopyKey, CopyIInv
  <1>2. Cursor.row \in Nat /\ Cursor.col \in Nat
    BY <1>1 DEF Cursor, Place, CopyOK, CopyStates
  <1>3. OnText(Cursor)
    BY <1>1, <1>2, InTextOn
  <1>4. k \notin Pages \cup {"g"}
    BY DEF Pages
  <1>5. PICK s : CopyOK(s) /\ CopyModeStep(copy, k) = Command(s, k)
    BY <1>1, <1>4, KeyIs
  <1>6. Command(s, k) = Moved(s, k)
    BY DEF Command, Motions
  <1>7. Cursor' = Place(Moved(s, k).row, Moved(s, k).col)
    BY <1>1, <1>5, <1>6 DEF Cursor
  <1>8. ASSUME NEW p, OnText(p), Moved(s, k) = MoveTo(s, p.row, p.col)
        PROVE  Cursor' = p
    BY <1>1, <1>5, <1>7, <1>8, WordMoves
  <1>9. k = "w" => Cursor' = NextWordStart(Cursor)
    <2>1. OnText(NextWordStart(Cursor))
      BY <1>1, NextWordOK
    <2>2. k = "w" => Moved(s, k) = MoveTo(s, NextWordStart(Cursor).row, NextWordStart(Cursor).col)
      BY DEF Moved
    <2> QED BY <1>8, <2>1, <2>2
  <1>10. k = "e" => Cursor' = WordEnd(Cursor)
    <2>1. OnText(WordEnd(Cursor))
      BY <1>1, NextWordOK
    <2>2. k = "e" => Moved(s, k) = MoveTo(s, WordEnd(Cursor).row, WordEnd(Cursor).col)
      BY DEF Moved
    <2> QED BY <1>8, <2>1, <2>2
  <1>11. k = "b" => Cursor' = PrevWordStart(Cursor)
    <2>1. OnText(PrevWordStart(Cursor))
      BY <1>1, <1>2, <1>3, PrevWordOK DEF OnText
    <2>2. k = "b" => Moved(s, k) = MoveTo(s, PrevWordStart(Cursor).row, PrevWordStart(Cursor).col)
      BY DEF Moved
    <2> QED BY <1>8, <2>1, <2>2
  <1> QED BY <1>3, <1>9, <1>10, <1>11

LEMMA SearchGoes ==
  ASSUME CopyIInv, copy # NotCopying, copy' # NotCopying, InText(Cursor),
         \/ CopyKey("Enter") /\ copy.search.query # <<>>
         \/ \E k \in {"n", "N"} : CopyKey(k) /\ ~copy.search.typing /\ copy'.last.query # <<>>
  PROVE  IF Occurrences(copy'.last.query) = {} THEN copy'.notice
         ELSE Cursor' = Nearest(Cursor, Occurrences(copy'.last.query), copy'.last.dir)
  <1>1. text \in Texts /\ CopyOK(copy) /\ Cursor' = Place(copy'.row, copy'.col)
    BY DEF CopyIInv, Cursor
  <1>2. ASSUME NEW s, CopyOK(s), s.row = copy.row, s.col = copy.col, NEW q \in Seq(Chars), q # <<>>,
               NEW dir \in {1, -1}, copy' = RunSearch(s, q, dir)
        PROVE  IF Occurrences(copy'.last.query) = {} THEN copy'.notice
               ELSE Cursor' = Nearest(Cursor, Occurrences(copy'.last.query), copy'.last.dir)
    <2>1. /\ copy'.last = [query |-> q, dir |-> dir]
          /\ IF Occurrences(q) = {} THEN copy'.notice
             ELSE Place(copy'.row, copy'.col) = Nearest(Cursor, Occurrences(q), dir)
      BY <1>1, <1>2, RunSearchOK
    <2>2. copy'.last.query = q /\ copy'.last.dir = dir
      BY <2>1
    <2> QED BY <1>1, <2>1, <2>2
  <1>3. CASE CopyKey("Enter") /\ copy.search.query # <<>>
    <2>1. copy.search.typing /\ copy.search.query \in Seq(Chars) /\ copy.search.dir \in {1, -1}
      BY <1>1, <1>3 DEF CopyOK, CopyStates
    <2>2. PICK s : /\ CopyOK(s) /\ s.row = copy.row /\ s.col = copy.col /\ s.search = copy.search
                   /\ CopyModeStep(copy, "Enter") = Typing(s, "Enter")
      BY <1>1, <2>1, KeyIs
    <2>3. Typing(s, "Enter") = RunSearch(s, copy.search.query, copy.search.dir)
      BY <1>3, <2>2 DEF Typing
    <2>4. copy' = CopyModeStep(copy, "Enter")
      BY <1>3 DEF CopyKey
    <2> QED BY <1>2, <1>3, <2>1, <2>2, <2>3, <2>4
  <1>4. ASSUME NEW k \in {"n", "N"}, CopyKey(k), ~copy.search.typing, copy'.last.query # <<>>
        PROVE  IF Occurrences(copy'.last.query) = {} THEN copy'.notice
               ELSE Cursor' = Nearest(Cursor, Occurrences(copy'.last.query), copy'.last.dir)
    <2>1. k \notin Pages \cup {"g"}
      BY DEF Pages
    <2>2. PICK s : /\ CopyOK(s) /\ s.row = copy.row /\ s.col = copy.col /\ s.last = copy.last
                   /\ CopyModeStep(copy, k) = Command(s, k)
      BY <1>1, <1>4, <2>1, KeyIs
    <2>3. copy' = CopyModeStep(copy, k)
      BY <1>4 DEF CopyKey
    <2>4. PICK flip \in {1, -1} : Command(s, k) = Again(s, flip)
      BY DEF Command, Motions
    <2>5. copy' = Again(s, flip)
      BY <2>2, <2>3, <2>4
    <2>6. s.last.query # <<>>
      BY <1>4, <2>5 DEF Again
    <2>7. copy' = RunSearch(s, s.last.query, s.last.dir * flip)
      BY <2>5, <2>6 DEF Again
    <2>8. s.last.query \in Seq(Chars) /\ s.last.dir \in {1, -1}
      BY <2>2 DEF CopyOK, CopyStates
    <2>9. s.last.dir * flip \in {1, -1}
      BY <2>8
    <2> QED BY <1>2, <2>2, <2>6, <2>7, <2>8, <2>9
  <1> QED BY <1>3, <1>4

\* What is left of a stretch of a line without the blanks at its end is a
\* stretch of that line.
LEMMA TrimIs ==
  ASSUME NEW l \in Seq(Chars), NEW a \in Nat \ {0}, NEW b \in 0..Len(l)
  PROVE  \E x \in 1..(Len(l) + 1), y \in 0..Len(l) : TrimEnd(SubSeq(l, a, b)) = SubSeq(l, x, y)
  <1> DEFINE part == SubSeq(l, a, b)
             kept == {0} \cup {i \in DOMAIN part : part[i] # " "}
             m == Max(kept)
  <1>1. Len(l) \in Nat /\ \A i \in 1..Len(l) : l[i] \in Chars
    OBVIOUS
  <1>2. /\ part \in Seq(Chars) /\ Len(part) = (IF a <= b THEN b - a + 1 ELSE 0)
        /\ \A i \in 1..(b - a + 1) : part[i] = l[a + i - 1]
    <2>1. a \in Int /\ b \in Int /\ \A i \in a..b : l[i] \in Chars
      BY <1>1
    <2> QED BY <2>1, SubSeqProperties
  <1>3. Len(part) \in Nat /\ DOMAIN part = 1..Len(part)
    <2> HIDE DEF part
    <2> QED BY <1>2
  <1>4. kept \in SUBSET (0..Len(part)) /\ kept # {}
    <2>1. kept # {}
      OBVIOUS
    <2>2. ASSUME NEW x \in kept PROVE x = 0 \/ x \in 1..Len(part)
      <3>1. x = 0 \/ x \in DOMAIN part
        <4> HIDE DEF part
        <4> QED OBVIOUS
      <3> HIDE DEF part
      <3> QED BY <1>3, <3>1
    <2>3. ASSUME NEW x \in kept PROVE x \in 0..Len(part)
      <3>1. x = 0 \/ x \in 1..Len(part)
        BY <2>2
      <3> HIDE DEF part, kept
      <3> QED BY <1>3, <3>1
    <2> HIDE DEF kept, part
    <2> QED BY <2>1, <2>3
  <1>5. m \in 0..Len(part)
    <2>1. m \in kept
      <3> HIDE DEF kept, part
      <3> QED BY <1>3, <1>4, MaxIs
    <2> HIDE DEF kept, part, m
    <2> QED BY <1>4, <2>1
  <1>6. TrimEnd(part) = SubSeq(part, 1, m)
    BY DEF TrimEnd
  <1> HIDE DEF part, kept, m
  <1>7. CASE m = 0
    <2>1. SubSeq(part, 1, 0) = <<>> /\ SubSeq(l, 1, 0) = <<>>
      BY SubSeqEmpty
    <2> QED BY <1>1, <1>6, <1>7, <2>1 DEF part
  <1>8. CASE m > 0
    <2>1. /\ m \in Nat /\ a <= b /\ m <= b - a + 1 /\ m <= Len(part) /\ a + m - 1 \in 0..Len(l) /\ a \in 1..(Len(l) + 1)
      BY <1>1, <1>2, <1>5, <1>8
    <2> DEFINE s == SubSeq(part, 1, m)
               t == SubSeq(l, a, a + m - 1)
    <2>2. s \in Seq(Chars) /\ Len(s) = m /\ \A i \in 1..m : s[i] = part[i]
      <3>1. \A i \in 1..m : part[i] \in Chars
        BY <1>2, <1>3, <2>1
      <3>2. m - 1 + 1 = m /\ \A i \in 1..m : 1 + i - 1 = i
        BY <2>1
      <3> QED BY <2>1, <3>1, <3>2, SubSeqProperties
    <2>3. t \in Seq(Chars) /\ Len(t) = m /\ \A i \in 1..m : t[i] = l[a + i - 1]
      <3>1. \A i \in a..(a + m - 1) : l[i] \in Chars
        BY <1>1, <2>1
      <3>2. (a + m - 1) - a + 1 = m /\ a <= a + m - 1 /\ a + m - 1 \in Int /\ a \in Int
        BY <1>8, <2>1
      <3> HIDE DEF t
      <3>3. /\ t \in Seq(Chars) /\ Len(t) = (IF a <= a + m - 1 THEN (a + m - 1) - a + 1 ELSE 0)
            /\ \A i \in 1..((a + m - 1) - a + 1) : t[i] = l[a + i - 1]
        BY <3>1, <3>2, SubSeqProperties DEF t
      <3> QED BY <3>2, <3>3
    <2>4. ASSUME NEW i \in 1..m PROVE s[i] = t[i]
      <3> HIDE DEF s, t
      <3>1. i \in 1..(b - a + 1)
        BY <2>1
      <3>2. part[i] = l[a + i - 1]
        BY <1>2, <3>1
      <3> QED BY <2>2, <2>3, <3>2
    <2> HIDE DEF s, t
    <2>5. s = t
      BY <2>2, <2>3, <2>4, SeqEqual
    <2> QED BY <1>6, <2>1, <2>5 DEF s, t, part
  <1> QED BY <1>5, <1>7, <1>8

LEMMA LineYanked ==
  ASSUME text \in Texts, NEW r, NEW a \in Nat \ {0}, NEW b \in 0..Len(LineAt(r))
  PROVE  \E x \in 0..LastRow : \E y \in 1..(Len(LineAt(x)) + 1), z \in 0..Len(LineAt(x)) :
            TrimEnd(SubSeq(LineAt(r), a, b)) = SubSeq(LineAt(x), y, z)
  <1>1. LineAt(r) \in Seq(Chars) /\ LastRow \in Nat
    BY TextFacts
  <1>2. PICK y \in 1..(Len(LineAt(r)) + 1), z \in 0..Len(LineAt(r)) :
           TrimEnd(SubSeq(LineAt(r), a, b)) = SubSeq(LineAt(r), y, z)
    BY <1>1, TrimIs
  <1>3. CASE r \in 0..LastRow
    BY <1>2, <1>3
  <1>4. CASE r \notin 0..LastRow
    <2>1. LineAt(r) = <<>> /\ Len(LineAt(r)) = 0
      BY <1>4 DEF LineAt
    <2>2. SubSeq(LineAt(r), y, z) = <<>>
      <3>1. y \in Int /\ z \in Int /\ z < y
        BY <2>1
      <3> QED BY <3>1, SubSeqEmpty
    <2>3. SubSeq(LineAt(0), 1, 0) = <<>>
      BY SubSeqEmpty
    <2>4. 0 \in 0..LastRow /\ 1 \in 1..(Len(LineAt(0)) + 1) /\ 0 \in 0..Len(LineAt(0))
      BY <1>1, TextFacts
    <2> QED BY <1>2, <2>2, <2>3, <2>4
  <1> QED BY <1>3, <1>4

LEMMA YankGoes ==
  ASSUME CopyIInv, [CopyNext]_copyVars, yanked' # NoYank, yanked' # yanked
  PROVE  /\ copy' = NotCopying
         /\ \A i \in DOMAIN yanked' : \E r \in 0..LastRow : \E a \in 1..(Len(LineAt(r)) + 1), b \in 0..Len(LineAt(r)) :
               yanked'[i] = SubSeq(LineAt(r), a, b)
  <1>1. PICK k \in CopyKeys : CopyKey(k)
    BY DEF CopyNext, EnterCopy, Output, copyVars
  <1>2. /\ text \in Texts /\ CopyOK(copy) /\ copy' = CopyModeStep(copy, k) /\ yanked' = Yank(copy, k)
        /\ yanked' # NoYank
    BY <1>1 DEF CopyKey, CopyIInv
  <1>3. ~copy.search.typing /\ (k = "Y" \/ (k = "y" /\ copy.visual # "none"))
    BY <1>2 DEF Yank
  <1>4. PICK s : s.visual = copy.visual /\ CopyModeStep(copy, k) = Command(s, k)
    <2>1. k \notin Pages \cup {"g"}
      BY <1>3 DEF Pages
    <2> QED BY <1>2, <1>3, <2>1, KeyIs
  <1>5. copy' = NotCopying
    BY <1>2, <1>3, <1>4 DEF Command, Motions
  <1>6. \A r : LineAt(r) \in Seq(Chars) /\ Len(LineAt(r)) \in Nat
    BY <1>2, TextFacts
  <1>7. CASE k = "Y"
    <2> DEFINE l == LineAt(copy.row)
    <2>1. yanked' = <<TrimEnd(l)>>
      BY <1>2, <1>3, <1>7 DEF Yank
    <2>2. l = SubSeq(l, 1, Len(l))
      <3>1. \A i \in 1..Len(l) : l[i] \in Chars
        BY <1>6
      <3>2. l \in Seq(Chars) /\ Len(l) \in Nat
        BY <1>6
      <3> HIDE DEF l
      <3>3. /\ SubSeq(l, 1, Len(l)) \in Seq(Chars) /\ Len(SubSeq(l, 1, Len(l))) = Len(l)
            /\ \A i \in 1..Len(l) : SubSeq(l, 1, Len(l))[i] = l[i]
        <4>1. /\ SubSeq(l, 1, Len(l)) \in Seq(Chars)
              /\ Len(SubSeq(l, 1, Len(l))) = (IF 1 <= Len(l) THEN Len(l) - 1 + 1 ELSE 0)
              /\ \A i \in 1..(Len(l) - 1 + 1) : SubSeq(l, 1, Len(l))[i] = l[1 + i - 1]
          BY <3>1, <3>2, SubSeqProperties
        <4>2. Len(l) - 1 + 1 = Len(l) /\ \A i \in 1..Len(l) : 1 + i - 1 = i
          BY <3>2
        <4> QED BY <3>2, <4>1, <4>2
      <3> QED BY <3>2, <3>3, SeqEqual
    <2>3. 1 \in Nat \ {0} /\ Len(l) \in 0..Len(l)
      BY <1>6
    <2>4. \E x \in 0..LastRow : \E y \in 1..(Len(LineAt(x)) + 1), z \in 0..Len(LineAt(x)) :
             TrimEnd(SubSeq(l, 1, Len(l))) = SubSeq(LineAt(x), y, z)
      BY <1>2, <2>3, LineYanked
    <2>5. \A i \in DOMAIN yanked' : yanked'[i] = TrimEnd(SubSeq(l, 1, Len(l)))
      <3> DEFINE w == TrimEnd(SubSeq(l, 1, Len(l)))
      <3>1. TrimEnd(l) = w
        BY <2>2
      <3> HIDE DEF w, l
      <3>2. yanked' = <<w>>
        BY <2>1, <3>1
      <3>3. \A i \in DOMAIN yanked' : yanked'[i] = w
        BY <3>2
      <3> QED BY <3>3 DEF w
    <2> QED BY <1>5, <2>4, <2>5
  <1>8. CASE k = "y" /\ copy.visual # "none"
    <2> DEFINE sel == Selection(copy)
               low(r) == IF r = sel.from.row THEN sel.from.col + 1 ELSE 1
               high(r) == IF r = sel.to.row THEN AtMost(sel.to.col + 1, Len(LineAt(r))) ELSE Len(LineAt(r))
    <2>1. yanked' = SelectedText(copy)
      BY <1>2, <1>3, <1>8 DEF Yank
    <2>2. sel.from.col \in Nat /\ sel.to.col \in Nat
      <3>1. copy.anchor.row \in Nat /\ copy.anchor.col \in Nat /\ copy.row \in Nat /\ copy.col \in Nat
        BY <1>2, <1>8 DEF CopyOK, CopyStates
      <3>2. \A r : AtLeast(0, Len(LineAt(r)) - 1) \in Nat
        BY <1>6 DEF AtLeast
      <3> QED BY <3>1, <3>2 DEF Selection, Place
    <2>3. SelectedText(copy) = [i \in 1..(sel.to.row - sel.from.row + 1) |->
             TrimEnd(SubSeq(LineAt(sel.from.row + i - 1), low(sel.from.row + i - 1), high(sel.from.row + i - 1)))]
      BY DEF SelectedText
    <2>4. \A r : low(r) \in Nat \ {0} /\ high(r) \in 0..Len(LineAt(r))
      <3> HIDE DEF sel
      <3> QED BY <1>6, <2>2 DEF AtMost
    <2> HIDE DEF sel, low, high
    <2>5. ASSUME NEW i \in DOMAIN yanked'
          PROVE  \E r \in 0..LastRow : \E a \in 1..(Len(LineAt(r)) + 1), b \in 0..Len(LineAt(r)) :
                    yanked'[i] = SubSeq(LineAt(r), a, b)
      <3> DEFINE r == sel.from.row + i - 1
      <3>1. yanked'[i] = TrimEnd(SubSeq(LineAt(r), low(r), high(r)))
        BY <2>1, <2>3
      <3> HIDE DEF r
      <3> DEFINE a == low(r)
                 b == high(r)
      <3>2. a \in Nat \ {0} /\ b \in 0..Len(LineAt(r)) /\ yanked'[i] = TrimEnd(SubSeq(LineAt(r), a, b))
        BY <2>4, <3>1
      <3> HIDE DEF a, b
      <3>3. \E x \in 0..LastRow : \E y \in 1..(Len(LineAt(x)) + 1), z \in 0..Len(LineAt(x)) :
               TrimEnd(SubSeq(LineAt(r), a, b)) = SubSeq(LineAt(x), y, z)
        BY <1>2, <3>2, LineYanked
      <3> QED BY <3>2, <3>3
    <2> QED BY <1>5, <2>5
  <1> QED BY <1>3, <1>7, <1>8

(* The cursor goes where its keys say in the text of that moment, a search finds the
   nearest occurrence round the text or says that there is none, and what is yanked
   is of the text (core/layout/copy-mode.ts).                                       *)
THEOREM CopyModeExact == CopySpec => CopyModeIsExact
  <1>1. CopyIInv /\ [CopyNext]_copyVars =>
          (copy' # NotCopying /\ copy # NotCopying /\ Cursor' # Cursor => InText(Cursor)')
    BY MovesStay
  <1>2. CopyIInv /\ [CopyNext]_copyVars =>
          ((copy # NotCopying /\ copy' # NotCopying) =>
             LET goes(k) == CopyKey(k) /\ ~copy.search.typing /\ InText(Cursor) IN
             /\ goes("w") \/ goes("e") => Before(Cursor, Cursor') \/ Cursor' = EndOfText
             /\ goes("b") => Before(Cursor', Cursor) \/ Cursor' = Place(0, 0))
    <2> SUFFICES ASSUME CopyIInv, copy # NotCopying, NEW k \in {"w", "e", "b"}, CopyKey(k), ~copy.search.typing, InText(Cursor)
                 PROVE  /\ k \in {"w", "e"} => Before(Cursor, Cursor') \/ Cursor' = EndOfText
                        /\ k = "b" => Before(Cursor', Cursor) \/ Cursor' = Place(0, 0)
      OBVIOUS
    <2>1. text \in Texts /\ OnText(Cursor) /\ Cursor.row \in Nat
      BY WordsGo DEF CopyIInv, OnText
    <2>2. k = "w" => Cursor' = NextWordStart(Cursor)
      BY WordsGo
    <2>3. k = "e" => Cursor' = WordEnd(Cursor)
      BY WordsGo
    <2>4. k = "b" => Cursor' = PrevWordStart(Cursor)
      BY WordsGo
    <2> QED BY <2>1, <2>2, <2>3, <2>4, NextWordOK, PrevWordOK
  <1>3. CopyIInv /\ [CopyNext]_copyVars =>
          ((copy # NotCopying /\ copy' # NotCopying) =>
             LET q == copy'.last.query
                 searched == \/ CopyKey("Enter") /\ copy.search.query # <<>>
                             \/ \E k \in {"n", "N"} : CopyKey(k) /\ ~copy.search.typing /\ q # <<>>
                 all == Occurrences(q) IN
             searched /\ InText(Cursor) =>
                IF all = {} THEN copy'.notice ELSE Cursor' = Nearest(Cursor, all, copy'.last.dir))
    BY SearchGoes
  <1>4. CopyIInv /\ [CopyNext]_copyVars =>
          (yanked' # NoYank /\ yanked' # yanked =>
             /\ copy' = NotCopying
             /\ \A i \in DOMAIN yanked' : \E r \in 0..LastRow : \E a \in 1..(Len(LineAt(r)) + 1), b \in 0..Len(LineAt(r)) :
                   yanked'[i] = SubSeq(LineAt(r), a, b))
    BY YankGoes
  <1>5. CopySpec => MovesStayInText
    BY <1>1, CopyModeHolds, PTL DEF CopySpec, MovesStayInText
  <1>6. CopySpec => WordsGetOn
    BY <1>2, CopyModeHolds, PTL DEF CopySpec, WordsGetOn
  <1>7. CopySpec => SearchFindsNearest
    BY <1>3, CopyModeHolds, PTL DEF CopySpec, SearchFindsNearest
  <1>8. CopySpec => YankIsText
    BY <1>4, CopyModeHolds, PTL DEF CopySpec, YankIsText
  <1> QED BY <1>5, <1>6, <1>7, <1>8 DEF CopyModeIsExact
=============================================================================
