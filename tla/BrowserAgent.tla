---------------------------- MODULE BrowserAgent ----------------------------
(***************************************************************************)
(* A Browser pane that the session's agent may read and drive              *)
(* (electron/browser-agent.ts, ui/BrowserPane.tsx): the switch in the pane *)
(* and the level main keeps for it, the debugger that is attached while it *)
(* is not off, and the commands, some of which ask the person first, one   *)
(* dialog at a time.  One pane; its page (guest) is another each time the  *)
(* pane is mounted.                                                        *)
(***************************************************************************)
EXTENDS Naturals, FiniteSets, Sequences

CONSTANTS
    MaxGuests,      \* bound: times the pane is mounted
    BrowserAsks,    \* commands an agent sends
    AskBudget,         \* budgetMs
    ConfirmTime,    \* confirmTimeoutMs
    MinAnswer,      \* minAnswerMs
    CallerWaits,        \* BROWSER_CONTROL_TIMEOUT_MS, of `cw browser`
    MaxPageMoves,   \* bound: navigations
    MaxSwitches,    \* bound: clicks on the switch
    MaxTicks        \* bound: the clock

ASSUME BrowserAssumption ==
    /\ {MaxGuests, AskBudget, ConfirmTime, MinAnswer, CallerWaits, MaxPageMoves, MaxSwitches, MaxTicks} \subseteq Nat
    /\ ConfirmTime <= AskBudget /\ AskBudget < CallerWaits

Guests == 1..MaxGuests
NoGuest == 0
Levels == {"off", "read", "control"}
Sites == {"local", "far"}

VARIABLES
    pageOf,     \* guest -> [alive, site, taken]: taken by another debugger
    mounted,    \* the pane on screen: [guest, level, ready]
    lastGuest,
    paneGuest,  \* main: the guest of the registered pane, or NoGuest
    access,     \* main: guest -> the level of its pane
    captureOf,  \* main: guest -> [on, site, rows]: what was logged, by site
    toMain,     \* calls of setAccess under way
    toView,     \* answers and activity under way
    ask,        \* request -> [state, cmd, guest, site, at]
    inLine,     \* the promise queue of dialogs
    dialog,     \* the open one: [of, until], or none
    allowedOnce, \* what the person said yes to: [of, site]
    acted,      \* what was done: [of, level, site, at]
    ticks, pageMoves, switches

browserVars == <<pageOf, mounted, lastGuest, paneGuest, access, captureOf, toMain, toView,
                 ask, inLine, dialog, allowedOnce, acted, ticks, pageMoves, switches>>
switchVars == <<mounted, lastGuest, toMain, switches>>
askVars == <<ask, inLine, dialog, allowedOnce, acted, ticks>>

NoPane == [guest |-> NoGuest, level |-> "off", ready |-> FALSE]
NoCapture == [on |-> FALSE, site |-> "none", rows |-> {}]
NoDialog == [of |-> "none", until |-> 0]
NotAsked == [state |-> "none", cmd |-> "none", guest |-> NoGuest, site |-> "none", at |-> 0]

BrowserInit ==
    /\ pageOf = [g \in Guests |-> [alive |-> FALSE, site |-> "local", taken |-> FALSE]]
    /\ mounted = NoPane /\ lastGuest = 0 /\ paneGuest = NoGuest
    /\ access = [g \in Guests |-> "off"] /\ captureOf = [g \in Guests |-> NoCapture]
    /\ toMain = <<>> /\ toView = <<>>
    /\ ask = [r \in BrowserAsks |-> NotAsked] /\ inLine = <<>> /\ dialog = NoDialog
    /\ allowedOnce = {} /\ acted = {} /\ ticks = 0 /\ pageMoves = 0 /\ switches = 0

-----------------------------------------------------------------------------
(* The pane                                                                *)

Mount == \E site \in {"local", "far"} :
    /\ mounted = NoPane /\ lastGuest < MaxGuests
    /\ lastGuest' = lastGuest + 1 /\ mounted' = [NoPane EXCEPT !.guest = lastGuest']
    /\ pageOf' = [pageOf EXCEPT ![lastGuest'] = [alive |-> TRUE, site |-> site, taken |-> FALSE]]
    /\ UNCHANGED <<paneGuest, access, captureOf, toMain, toView, askVars, pageMoves, switches>>

Unmount ==
    /\ mounted # NoPane /\ mounted' = NoPane
    /\ UNCHANGED <<pageOf, lastGuest, paneGuest, access, captureOf, toMain, toView, askVars, pageMoves, switches>>

Calls(level) == toMain' = Append(toMain, [guest |-> mounted.guest, level |-> level])

DomReady ==
    /\ mounted # NoPane /\ ~mounted.ready
    /\ \A i \in DOMAIN toMain : toMain[i].guest # mounted.guest
    /\ \A i \in DOMAIN toView : toView[i].guest # mounted.guest
    /\ Calls("off")
    /\ UNCHANGED <<pageOf, mounted, lastGuest, paneGuest, access, captureOf, toView, askVars, pageMoves, switches>>

Choose(level) ==
    /\ mounted.ready /\ switches < MaxSwitches /\ switches' = switches + 1
    /\ Calls(level)
    /\ UNCHANGED <<pageOf, mounted, lastGuest, paneGuest, access, captureOf, toView, askVars, pageMoves>>

(* An answer reaches the component that asked, a `detached` whichever shows the
   pane; the first answer makes it ready.                                   *)
ViewHears ==
    /\ toView # <<>> /\ toView' = Tail(toView)
    /\ LET m == Head(toView)
           mine == mounted # NoPane /\ (m.kind = "detached" \/ m.guest = mounted.guest)
       IN  mounted' = IF ~mine \/ m.kind = "refused" THEN mounted
                      ELSE IF m.kind = "detached" THEN [mounted EXCEPT !.level = "off"]
                      ELSE [mounted EXCEPT !.level = m.level, !.ready = TRUE]
    /\ UNCHANGED <<pageOf, lastGuest, paneGuest, access, captureOf, toMain, askVars, pageMoves, switches>>

-----------------------------------------------------------------------------
(* Main: the level                                                         *)

Tells(kind, g, level) == toView' = Append(toView, [kind |-> kind, guest |-> g, level |-> level])

(* stop: the old pane's object keeps the level it had. *)
WithoutCapture(g) == [captureOf EXCEPT ![g] = NoCapture]

Forgotten(g) == IF paneGuest \notin {NoGuest, g} THEN WithoutCapture(paneGuest) ELSE captureOf

SetAccess ==
    /\ toMain # <<>> /\ toMain' = Tail(toMain)
    /\ LET g == Head(toMain).guest  level == Head(toMain).level
           starts == level # "off" /\ ~captureOf[g].on
       IN  IF ~pageOf[g].alive
           THEN Tells("refused", g, level) /\ UNCHANGED <<paneGuest, access, captureOf>>
           ELSE /\ paneGuest' = g
                /\ IF starts /\ pageOf[g].taken    \* BROWSER_DEBUGGER_BUSY
                   THEN Tells("refused", g, level) /\ captureOf' = Forgotten(g) /\ UNCHANGED access
                   ELSE /\ Tells("ok", g, level)
                        /\ access' = [access EXCEPT ![g] = level]
                        /\ captureOf' =
                              IF starts THEN [Forgotten(g) EXCEPT ![g] = [on |-> TRUE, site |-> pageOf[g].site, rows |-> {}]]
                              ELSE IF level = "off" THEN [Forgotten(g) EXCEPT ![g] = NoCapture]
                              ELSE Forgotten(g)
    /\ UNCHANGED <<pageOf, mounted, lastGuest, askVars, pageMoves, switches>>

(* An unmounted page goes when Electron gets to it. *)
GuestDestroyed(g) ==
    /\ pageOf[g].alive /\ mounted.guest # g
    /\ pageOf' = [pageOf EXCEPT ![g].alive = FALSE]
    /\ IF paneGuest = g THEN paneGuest' = NoGuest /\ captureOf' = WithoutCapture(g)
                        ELSE UNCHANGED <<paneGuest, captureOf>>
    /\ UNCHANGED <<switchVars, access, toView, askVars, pageMoves>>

(* DevTools takes the page, or gives it back. *)
DebuggerLost(g) ==
    /\ pageOf[g].alive /\ ~pageOf[g].taken /\ pageOf' = [pageOf EXCEPT ![g].taken = TRUE]
    /\ IF captureOf[g].on
       THEN /\ captureOf' = WithoutCapture(g) /\ access' = [access EXCEPT ![g] = "off"]
            /\ Tells("detached", g, "off")
       ELSE UNCHANGED <<captureOf, access, toView>>
    /\ pageMoves < MaxPageMoves /\ pageMoves' = pageMoves + 1
    /\ UNCHANGED <<switchVars, paneGuest, askVars>>

DebuggerFree(g) ==
    /\ pageOf[g].taken /\ pageOf' = [pageOf EXCEPT ![g].taken = FALSE]
    /\ UNCHANGED <<switchVars, paneGuest, access, captureOf, toView, askVars, pageMoves>>

(* The page goes to another site, by itself or by the person; what one site
   logged is not the next one's.                                            *)
PageMoves(g, site) ==
    /\ pageOf[g].alive /\ pageOf[g].site # site
    /\ pageMoves < MaxPageMoves /\ pageMoves' = pageMoves + 1
    /\ pageOf' = [pageOf EXCEPT ![g].site = site]
    /\ captureOf' = IF captureOf[g].on /\ captureOf[g].site # site
                    THEN [captureOf EXCEPT ![g] = [on |-> TRUE, site |-> site, rows |-> {}]] ELSE captureOf
    /\ UNCHANGED <<switchVars, paneGuest, access, toView, askVars>>

PageLogs(g) ==
    /\ captureOf[g].on /\ pageOf[g].site \notin captureOf[g].rows
    /\ captureOf' = [captureOf EXCEPT ![g].rows = @ \cup {pageOf[g].site}]
    /\ UNCHANGED <<pageOf, switchVars, paneGuest, access, toView, askVars, pageMoves>>

-----------------------------------------------------------------------------
(* Main: the commands                                                      *)

NeedsYes(cmd, site) == cmd = "eval" \/ (cmd = "act" /\ site # "local")
Allows(level, cmd) == level = "control" \/ (level = "read" /\ cmd = "read")

(* The command goes to the page if the debugger is still there to take it. *)
Execute(r, g) ==
    acted' = IF captureOf[g].on
             THEN acted \cup {[of |-> r, level |-> access[g], site |-> pageOf[g].site, at |-> ticks]} ELSE acted

Handle(r, cmd) ==
    /\ ask[r] = NotAsked /\ paneGuest # NoGuest
    /\ LET g == paneGuest  site == pageOf[g].site
           row == [state |-> "done", cmd |-> cmd, guest |-> g, site |-> site, at |-> ticks]
       IN  IF ~Allows(access[g], cmd)
           THEN ask' = [ask EXCEPT ![r] = row] /\ UNCHANGED <<inLine, acted>>
           ELSE IF NeedsYes(cmd, site)
           THEN ask' = [ask EXCEPT ![r] = [row EXCEPT !.state = "waits"]] /\ inLine' = Append(inLine, r) /\ UNCHANGED acted
           ELSE ask' = [ask EXCEPT ![r] = row] /\ Execute(r, g) /\ UNCHANGED inLine
    /\ UNCHANGED <<pageOf, switchVars, paneGuest, access, captureOf, toView, dialog, allowedOnce, ticks, pageMoves>>

Smaller(a, b) == IF a < b THEN a ELSE b

(* confirmOnce: the next in line, once the dialog before it has ended. *)
DialogOpens ==
    /\ dialog = NoDialog /\ inLine # <<>> /\ inLine' = Tail(inLine)
    /\ LET r == Head(inLine)  remaining == ask[r].at + AskBudget - ticks
       IN  IF ask[r].at + AskBudget < ticks + MinAnswer
           THEN ask' = [ask EXCEPT ![r].state = "done"] /\ UNCHANGED dialog
           ELSE dialog' = [of |-> r, until |-> ticks + Smaller(ConfirmTime, remaining)] /\ UNCHANGED ask
    /\ UNCHANGED <<pageOf, switchVars, paneGuest, access, captureOf, toView, allowedOnce, acted, ticks, pageMoves>>

(* Allowed once, on the page the dialog named, if nothing has moved since. *)
StillTrue(r) ==
    LET g == ask[r].guest
    IN  pageOf[g].alive /\ pageOf[g].site = ask[r].site /\ access[g] = "control"

PersonAnswers(yes) ==
    /\ dialog # NoDialog /\ dialog' = NoDialog
    /\ LET r == dialog.of
       IN  /\ ask' = [ask EXCEPT ![r].state = "done"]
           /\ allowedOnce' = IF yes THEN allowedOnce \cup {[of |-> r, site |-> ask[r].site]} ELSE allowedOnce
           /\ IF yes /\ StillTrue(r) THEN Execute(r, ask[r].guest) ELSE UNCHANGED acted
    /\ UNCHANGED <<pageOf, switchVars, paneGuest, access, captureOf, toView, inLine, ticks, pageMoves>>

NobodyAnswers ==
    /\ dialog # NoDialog /\ ticks = dialog.until /\ dialog' = NoDialog
    /\ ask' = [ask EXCEPT ![dialog.of].state = "done"]
    /\ UNCHANGED <<pageOf, switchVars, paneGuest, access, captureOf, toView, inLine, allowedOnce, acted, ticks, pageMoves>>

(* Timers fire on time. *)
BrowserTick ==
    /\ ticks < MaxTicks /\ ticks' = ticks + 1
    /\ dialog # NoDialog => ticks < dialog.until
    /\ dialog = NoDialog => inLine = <<>>
    /\ UNCHANGED <<pageOf, switchVars, paneGuest, access, captureOf, toView, ask, inLine, dialog, allowedOnce, acted, pageMoves>>

BrowserNext ==
    \/ Mount \/ Unmount \/ DomReady \/ ViewHears \/ SetAccess
    \/ \E l \in Levels : Choose(l)
    \/ \E g \in Guests : GuestDestroyed(g) \/ DebuggerLost(g) \/ DebuggerFree(g) \/ PageLogs(g)
    \/ \E g \in Guests, s \in Sites : PageMoves(g, s)
    \/ \E r \in BrowserAsks, c \in {"read", "act", "eval"} : Handle(r, c)
    \/ DialogOpens \/ NobodyAnswers \/ BrowserTick
    \/ \E yes \in BOOLEAN : PersonAnswers(yes)

BrowserSpec == BrowserInit /\ [][BrowserNext]_browserVars

-----------------------------------------------------------------------------
(* What an agent does to a page, the pane's level allows at that moment; what has
   to be asked was agreed to, for the site the page is at then; and it begins
   before `cw browser` has given up (browser-agent.ts, confirmOnce and run).  *)
AgentDoesAsAgreed ==
    \A a \in acted :
        LET q == ask[a.of]
        IN  /\ Allows(a.level, q.cmd)
            /\ NeedsYes(q.cmd, a.site) => [of |-> a.of, site |-> a.site] \in allowedOnce
            /\ a.at < q.at + CallerWaits

(* With nothing under way the switch shows main's level, and a debugger is held
   by that pane only, while it is not off (BrowserPane.tsx; watch and apply). *)
SwitchIsTrue ==
    /\ \A g \in Guests : captureOf[g].on => g = paneGuest /\ access[g] # "off" /\ ~pageOf[g].taken
    /\ toMain = <<>> /\ toView = <<>> /\ mounted.ready =>
          paneGuest = mounted.guest /\ access[paneGuest] = mounted.level
            /\ (mounted.level # "off" => captureOf[paneGuest].on)

(* No line is shown that another site logged (capture.ts). *)
LogsAreOfTheSite == \A g \in Guests : captureOf[g].rows \subseteq {pageOf[g].site}

BrowserIsKept == AgentDoesAsAgreed /\ SwitchIsTrue /\ LogsAreOfTheSite

BrowserTypeOK ==
    /\ mounted.guest \in 0..MaxGuests /\ mounted.level \in Levels /\ paneGuest \in 0..MaxGuests
    /\ access \in [Guests -> Levels] /\ ticks \in 0..MaxTicks
    /\ dialog.of \in BrowserAsks \cup {"none"}
=============================================================================
