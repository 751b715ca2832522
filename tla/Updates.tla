------------------------------ MODULE Updates -------------------------------
(***************************************************************************)
(* How a newer release is told of and put in: install.sh, which moves four *)
(* pieces into place or puts the previous ones back; and the one           *)
(* ~/.crossweave/config.json that every `cw`, the cockpit and the          *)
(* installer read and write, each in a process of its own and with no lock *)
(* (update/checker.ts, global-config.ts, update-notice.ts).                *)
(*                                                                         *)
(* A release is a number, 0 for null; the one running at first is 1.       *)
(***************************************************************************)
EXTENDS Integers, FiniteSets, Sequences

CONSTANTS
    UpdateProcs,        \* processes that use the file at a time
    MaxReleases,        \* bound: the newest release
    MaxConfigUses,      \* bound: runs of a command, clicks and looks
    MaxStale            \* bound: times the caches age

ASSUME UpdatesAssumption == {MaxReleases, MaxConfigUses, MaxStale} \subseteq Nat

VARIABLES
    installer,      \* [step, ships, how]: how it ended, "" while it runs
    target,         \* what is at each destination
    aside,          \* what of the previous install is in the temporary directory
    putIn,          \* the destinations flagged as installed
    before,         \* what was at each destination at first
    torn,           \* a move was left half done, or a signal came before its flag
    globalConfig,   \* the file: [on, fresh, known, notified, dismissed]
    writing,        \* the processes that have emptied it and not written it yet
    configWrites,   \* times it was written
    proc,           \* what each process does: [kind, step, cfg, tag, runs, base]
    released,       \* the newest release
    running,        \* the release installed
    announced,      \* how often each was announced by `cw`
    notice,         \* the cockpit's lookup: [latest, checked, looks]
    cornerVersion,  \* the release its corner notice names, or 0
    uses,           \* runs, clicks, looks so far; times the caches aged
    wished,         \* [on, dismissed] as the person last set them
    overtaken,      \* somebody wrote or spoke from a reading older than another's write
    lateLook        \* the notice shown was looked up before the last click

installVars == <<installer, target, aside, putIn, before, torn>>
configVars == <<globalConfig, writing, configWrites, proc, released, running, announced, notice,
                cornerVersion, uses, wished, overtaken, lateLook>>
updateVars == <<installVars, configVars>>

-----------------------------------------------------------------------------
(* The installer                                                           *)

Pieces == <<"cw", "cwd", "cockpit", "config">>
PieceNames == {Pieces[i] : i \in 1..4}

InstallInit ==
    /\ installer \in [step : {1}, ships : BOOLEAN, how : {""}]
    /\ target \in [PieceNames -> {"none", "old"}] /\ before = target
    /\ aside = [p \in PieceNames |-> "none"] /\ putIn = {} /\ torn = FALSE

(* Steps 1 to 4 set the previous pieces aside, 5 to 8 put the new ones in. *)
PieceAt(n) == Pieces[IF n > 4 THEN n - 4 ELSE n]
Skips(p) == (p = "cockpit" /\ ~installer.ships) \/ (installer.step <= 4 /\ target[p] = "none")
Steps == installer' = [installer EXCEPT !.step = @ + 1]
GivesUpInstall == installer' = [installer EXCEPT !.step = 10]

SetAside ==
    /\ installer.how = "" /\ installer.step <= 4
    /\ LET p == PieceAt(installer.step)
       IN \/ Skips(p) /\ Steps /\ UNCHANGED <<target, aside, torn>>
          \/ /\ ~Skips(p) /\ Steps
             /\ target' = [target EXCEPT ![p] = "none"] /\ aside' = [aside EXCEPT ![p] = "old"]
             /\ UNCHANGED torn
          \/ /\ ~Skips(p) /\ GivesUpInstall
             /\ \E half \in BOOLEAN : /\ torn' = half
                                      /\ aside' = [aside EXCEPT ![p] = IF half THEN "part" ELSE "none"]
             /\ UNCHANGED target
    /\ UNCHANGED <<putIn, before, configVars>>

PutsIn ==
    /\ installer.how = "" /\ installer.step \in 5..8
    /\ LET p == PieceAt(installer.step)
       IN \/ Skips(p) /\ Steps /\ UNCHANGED <<target, putIn, torn>>
          \/ /\ ~Skips(p) /\ Steps /\ UNCHANGED torn
             /\ target' = [target EXCEPT ![p] = "new"] /\ putIn' = putIn \cup {p}
          \/ /\ ~Skips(p) /\ GivesUpInstall /\ UNCHANGED putIn
             /\ \E left \in {"none", "part", "new"} :
                   target' = [target EXCEPT ![p] = left] /\ torn' = (left # "none")
    /\ UNCHANGED <<aside, before, configVars>>

CommitsInstall ==
    /\ installer.how = "" /\ installer.step = 9
    /\ installer' = [installer EXCEPT !.how = "installed"]
    /\ UNCHANGED <<target, aside, putIn, before, torn, configVars>>

(* rollback_install: every piece flagged is taken away, then every piece set aside
   moved back; a directory moved onto one that is there ends up inside it.  The
   moves of `away` and `back` fail.                                         *)
TakenAway(p, away) == IF p \in putIn \ away THEN "none" ELSE target[p]
MovedBack(p, away, back) ==
    IF aside[p] = "none" \/ p \in back THEN TakenAway(p, away)
    ELSE IF p = "cockpit" /\ TakenAway(p, away) # "none" THEN "nested" ELSE aside[p]
RollsBack ==
    /\ installer.how = "" /\ installer.step = 10
    /\ \E away \in SUBSET putIn, back \in SUBSET {p \in PieceNames : aside[p] # "none"} :
          /\ target' = [p \in PieceNames |-> MovedBack(p, away, back)]
          /\ aside' = [p \in PieceNames |-> IF p \in back THEN aside[p] ELSE "none"]
          /\ installer' = [installer EXCEPT !.how = IF away \cup back = {} THEN "restored" ELSE "incomplete"]
    /\ UNCHANGED <<putIn, before, torn, configVars>>

(* No trap runs: nothing more is moved, nothing is taken away. *)
IsKilled ==
    /\ installer.how = "" /\ installer' = [installer EXCEPT !.how = "killed"]
    /\ UNCHANGED <<target, aside, putIn, before, torn, configVars>>

InstallNext == SetAside \/ PutsIn \/ CommitsInstall \/ RollsBack \/ IsKilled

-----------------------------------------------------------------------------
(* The file everybody shares                                               *)

DEFAULT_GLOBAL_CONFIG == [on |-> TRUE, fresh |-> FALSE, known |-> 0, notified |-> 0, dismissed |-> 0]
NotUsing == [kind |-> "none", step |-> "none", cfg |-> DEFAULT_GLOBAL_CONFIG, tag |-> 0, runs |-> 0, base |-> 0]

UpdatesInit ==
    /\ InstallInit
    /\ globalConfig = DEFAULT_GLOBAL_CONFIG /\ writing = {} /\ configWrites = 0
    /\ proc = [p \in UpdateProcs |-> NotUsing] /\ released = 1 /\ running = 1
    /\ announced = [v \in 1..MaxReleases |-> 0]
    /\ notice = [latest |-> 0, checked |-> "no", looks |-> <<>>] /\ cornerVersion = 0
    /\ uses = [run |-> 0, aged |-> 0] /\ wished = [on |-> TRUE, dismissed |-> 0]
    /\ overtaken = FALSE /\ lateLook = FALSE

(* A file somebody is writing reads as empty, and an empty one as the defaults. *)
loadGlobalConfig == IF writing = {} THEN globalConfig ELSE DEFAULT_GLOBAL_CONFIG

Uses == uses.run < MaxConfigUses /\ uses' = [uses EXCEPT !.run = @ + 1]

TakesConfig(p, kind, step, cfg, tag) ==
    /\ proc[p] = NotUsing /\ Uses
    /\ proc' = [proc EXCEPT ![p] = [kind |-> kind, step |-> step, cfg |-> cfg, tag |-> tag,
                                    runs |-> running, base |-> configWrites]]
    /\ overtaken' = (overtaken \/ writing # {})

(* `cw config update-check on | off`; the same switch in the cockpit's settings, and
   "Later", which its one main process does before anything else it is asked. *)
CockpitBusy == \E p \in UpdateProcs : proc[p].kind \in {"enable", "later"}
SetsSwitch(p, on) ==
    /\ \E kind \in {"switch", "enable"} :
          /\ kind = "enable" => ~CockpitBusy
          /\ TakesConfig(p, kind, "saves", [loadGlobalConfig EXCEPT !.on = on], 0)
          /\ notice' = IF on /\ kind = "enable" THEN [notice EXCEPT !.checked = "no"] ELSE notice
    /\ UNCHANGED <<globalConfig, writing, configWrites, released, running, announced, cornerVersion,
                   wished, lateLook, installVars>>
Later(p) ==
    /\ cornerVersion # 0 /\ ~CockpitBusy
    /\ TakesConfig(p, "later", "saves", [loadGlobalConfig EXCEPT !.dismissed = cornerVersion], 0)
    /\ cornerVersion' = 0 /\ lateLook' = FALSE
    /\ UNCHANGED <<globalConfig, writing, configWrites, released, running, announced, notice,
                   wished, installVars>>

(* checkForUpdate, after any `cw` command. *)
ChecksForUpdate(p) ==
    /\ loadGlobalConfig.on
    /\ TakesConfig(p, "check", IF loadGlobalConfig.fresh THEN "knows" ELSE "asks", loadGlobalConfig, loadGlobalConfig.known)
    /\ UNCHANGED <<globalConfig, writing, configWrites, released, running, announced, notice,
                   cornerVersion, wished, lateLook, installVars>>

resolveLatestTag(p) ==
    /\ proc[p].step = "asks"
    /\ \/ proc' = [proc EXCEPT ![p] = [@ EXCEPT !.step = "saves", !.tag = released,
                                       !.cfg = [proc[p].cfg EXCEPT !.fresh = TRUE, !.known = released]]]
       \/ proc' = [proc EXCEPT ![p] = NotUsing]
    /\ UNCHANGED <<globalConfig, writing, configWrites, released, running, announced, notice,
                   cornerVersion, uses, wished, overtaken, lateLook, installVars>>

(* What it announces was not announced before, by the reading it began with. *)
WorthTelling(tag, cfg, runs) == tag > runs /\ cfg.notified # tag
Announces(p) ==
    /\ proc[p].step = "knows"
    /\ IF WorthTelling(proc[p].tag, proc[p].cfg, proc[p].runs)
       THEN /\ proc' = [proc EXCEPT ![p] = [@ EXCEPT !.step = "tells", !.base = configWrites,
                             !.cfg = [loadGlobalConfig EXCEPT !.known = proc[p].tag, !.notified = proc[p].tag]]]
            /\ overtaken' = (overtaken \/ writing # {} \/ proc[p].base # configWrites)
       ELSE proc' = [proc EXCEPT ![p] = NotUsing] /\ UNCHANGED overtaken
    /\ UNCHANGED <<globalConfig, writing, configWrites, released, running, announced, notice,
                   cornerVersion, uses, wished, lateLook, installVars>>

(* writeFileSync empties the file and then fills it; or it throws, and is let be. *)
EmptiesConfig(p) ==
    /\ proc[p].step \in {"saves", "tells"} /\ p \notin writing
    /\ \/ writing' = writing \cup {p} /\ UNCHANGED proc
       \/ proc' = [proc EXCEPT ![p] = NotUsing] /\ UNCHANGED writing
    /\ UNCHANGED <<globalConfig, configWrites, released, running, announced, notice, cornerVersion,
                   uses, wished, overtaken, lateLook, installVars>>
AfterSave(p) ==
    IF proc[p].kind = "check" /\ proc[p].step = "saves" THEN [proc[p] EXCEPT !.step = "knows", !.base = configWrites'] ELSE NotUsing
saveGlobalConfig(p) ==
    /\ p \in writing /\ writing' = writing \ {p}
    /\ globalConfig' = proc[p].cfg /\ configWrites' = configWrites + 1
    /\ overtaken' = (overtaken \/ proc[p].base # configWrites)
    /\ proc' = [proc EXCEPT ![p] = AfterSave(p)]
    /\ announced' = IF proc[p].step = "tells" THEN [announced EXCEPT ![proc[p].tag] = @ + 1] ELSE announced
    /\ wished' = CASE proc[p].kind \in {"switch", "enable"} -> [wished EXCEPT !.on = proc[p].cfg.on]
                   [] proc[p].kind = "later" -> [wished EXCEPT !.dismissed = proc[p].cfg.dismissed]
                   [] OTHER -> wished
    /\ UNCHANGED <<released, running, notice, cornerVersion, uses, lateLook, installVars>>

(* `cw update`: the release it last heard of, or else the newest; what it installs
   rewrites the file, keeping the switch alone.                             *)
ChosenRelease == IF loadGlobalConfig.known # 0 THEN loadGlobalConfig.known ELSE released
InstalledConfig == [DEFAULT_GLOBAL_CONFIG EXCEPT !.on = loadGlobalConfig.on]
CwUpdate ==
    /\ Uses /\ running' = ChosenRelease
    /\ globalConfig' = InstalledConfig
    /\ configWrites' = configWrites + 1 /\ wished' = [wished EXCEPT !.dismissed = 0]
    /\ overtaken' = (overtaken \/ writing # {})
    /\ UNCHANGED <<writing, proc, released, announced, notice, cornerVersion, lateLook, installVars>>

-----------------------------------------------------------------------------
(* The cockpit, which is of release 1 until it is started again.  A look reads
   the file, then waits for the answer if none is fresh.                    *)

UpdateStatus ==
    /\ ~CockpitBusy /\ Uses /\ Len(notice.looks) < 2
    /\ notice' = [notice EXCEPT !.looks = Append(@, [cfg |-> loadGlobalConfig, at |-> configWrites,
                      asks |-> loadGlobalConfig.on /\ notice.checked = "no"])]
    /\ overtaken' = (overtaken \/ writing # {})
    /\ UNCHANGED <<globalConfig, writing, configWrites, proc, released, running, announced,
                   cornerVersion, wished, lateLook, installVars>>

TagArrives(i) ==
    /\ i \in DOMAIN notice.looks /\ notice.looks[i].asks /\ ~CockpitBusy
    /\ \E ok \in BOOLEAN :
          notice' = [notice EXCEPT !.looks[i].asks = FALSE, !.latest = IF ok THEN released ELSE @,
                                   !.checked = IF ok THEN "fresh" ELSE "failed"]
    /\ UNCHANGED <<globalConfig, writing, configWrites, proc, released, running, announced,
                   cornerVersion, uses, wished, overtaken, lateLook, installVars>>

Available(look) ==
    IF look.cfg.on /\ notice.latest > 1 /\ look.cfg.dismissed # notice.latest THEN notice.latest ELSE 0
LookAnswers(i) ==
    /\ i \in DOMAIN notice.looks /\ ~notice.looks[i].asks
    /\ cornerVersion' = Available(notice.looks[i])
    /\ lateLook' = (CockpitBusy \/ notice.looks[i].at # configWrites)
    /\ notice' = [notice EXCEPT !.looks = [j \in 1..(Len(@) - 1) |-> @[IF j < i THEN j ELSE j + 1]]]
    /\ UNCHANGED <<globalConfig, writing, configWrites, proc, released, running, announced,
                   uses, wished, overtaken, installVars>>

CachesAge ==
    /\ uses.aged < MaxStale /\ uses' = [uses EXCEPT !.aged = @ + 1]
    /\ globalConfig' = [globalConfig EXCEPT !.fresh = FALSE] /\ notice' = [notice EXCEPT !.checked = "no"]
    /\ writing = {} /\ \A p \in UpdateProcs : proc[p] = NotUsing
    /\ UNCHANGED <<writing, configWrites, proc, released, running, announced, cornerVersion, wished,
                   overtaken, lateLook, installVars>>
IsReleased ==
    /\ released < MaxReleases /\ released' = released + 1
    /\ UNCHANGED <<globalConfig, writing, configWrites, proc, running, announced, notice, cornerVersion,
                   uses, wished, overtaken, lateLook, installVars>>

ConfigNext ==
    \/ \E p \in UpdateProcs : \/ \E on \in BOOLEAN : SetsSwitch(p, on)
                              \/ Later(p) \/ ChecksForUpdate(p) \/ resolveLatestTag(p) \/ Announces(p)
                              \/ EmptiesConfig(p) \/ saveGlobalConfig(p)
    \/ CwUpdate \/ UpdateStatus \/ CachesAge \/ IsReleased
    \/ \E i \in 1..2 : TagArrives(i) \/ LookAnswers(i)

UpdatesNext == InstallNext \/ ConfigNext
UpdatesSpec == UpdatesInit /\ [][UpdatesNext]_updateVars

-----------------------------------------------------------------------------
UpdatesTypeOK ==
    /\ installer.step \in 1..10 /\ installer.how \in {"", "installed", "restored", "incomplete", "killed"}
    /\ target \in [PieceNames -> {"none", "old", "new", "part", "nested"}]
    /\ aside \in [PieceNames -> {"none", "old", "part"}] /\ putIn \subseteq PieceNames
    /\ globalConfig \in [on : BOOLEAN, fresh : BOOLEAN, known : 0..MaxReleases,
                         notified : 0..MaxReleases, dismissed : 0..MaxReleases]
    /\ writing \subseteq UpdateProcs /\ running \in 1..MaxReleases /\ cornerVersion \in 0..MaxReleases

(* An installer whose moves are whole ends with everything new or, "previous install
   restored", with exactly what was there; and however it ends, killed or with a
   rollback that failed, what it moved away is still there or in the directory it
   keeps (install.sh, the transaction and rollback_install).                *)
InstallsWhole ==
    /\ installer.how = "installed" =>
          \A p \in PieceNames : target[p] = IF p = "cockpit" /\ ~installer.ships THEN before[p] ELSE "new"
    /\ installer.how = "restored" /\ ~torn => target = before
    /\ installer.how # "installed" /\ ~torn =>
          \A p \in PieceNames : before[p] = "old" => "old" \in {target[p], aside[p]} \/ target[p] = "nested"

(* As long as nobody writes from a reading that another has overtaken, what the
   person switched and put off stays so over every check and update, a release is
   announced once, and no update goes back to an older release (checker.ts
   checkForUpdate, update-notice.ts, commands/update.ts).                   *)
ConfigIsKept ==
    ~overtaken =>
        /\ writing = {} => globalConfig.on = wished.on /\ globalConfig.dismissed = wished.dismissed
        /\ \A v \in 1..MaxReleases : announced[v] <= 1
        /\ globalConfig.known # 0 => globalConfig.known >= running

(* The corner notice names a release newer than the cockpit and not one the
   person put off, but for an answer looked up before the click (UpdateNotice.tsx). *)
NoticeIsDue ==
    /\ cornerVersion # 0 => cornerVersion \in 2..released
    /\ cornerVersion # 0 /\ ~lateLook /\ ~overtaken => cornerVersion # wished.dismissed \/ writing # {}
=============================================================================
