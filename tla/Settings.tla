------------------------------ MODULE Settings ------------------------------
(***************************************************************************)
(* The user's settings: one file (src/core/settings.ts), every writer of   *)
(* which writes the whole of it.  The settings page commits each change    *)
(* after a pause (SettingsPage.tsx, lib/settings-commit.ts); a project's   *)
(* view saves a layout by reading everything and writing it back; and the  *)
(* main process mends what a daemon older than the app leaves out          *)
(* (electron/settings-guard.ts).                                           *)
(***************************************************************************)
EXTENDS Integers, SequencesExt

CONSTANTS
    MaxDrafts,      \* bound: changes made on the page
    MaxLayouts,     \* bound: layouts saved
    HandFiles       \* files as a person may have left them: see LoadSettings

ASSUME SettingsAssumption == {MaxDrafts, MaxLayouts} \subseteq Nat

VARIABLES
    file,       \* what is on disk
    olderDaemon,\* the daemon predates the guarded blocks
    page,       \* the settings page: [open, draft, valid, refused]
    commit,     \* its committer: [pending, timer, flights, closing]
    imported,   \* the draft an import in flight was started with, or NoDraft
    layoutSave, \* a layout being saved: [value, at]
    changed,    \* changes made on the page
    mixed,      \* a layout was being saved while the page was open
    handFile    \* the file as a person may have left it: see LoadSettings

settingsVars == <<file, olderDaemon, page, commit, imported, layoutSave, changed, mixed, handFile>>

(* Of the settings: which changes they hold, whether a guarded block is set,
   and how many layouts; `ver` orders the drafts. *)
NoDraft == [ver |-> -1, has |-> {}, guarded |-> FALSE, layouts |-> 0]
Nobodys == [value |-> NoDraft, at |-> "none"]
Resting == [pending |-> NoDraft, timer |-> FALSE, flights |-> {}, closing |-> FALSE]
Shut == [open |-> FALSE, draft |-> NoDraft, valid |-> TRUE, refused |-> FALSE]

PlainFile == [fields |-> <<>>, presets |-> <<>>, launchers |-> <<>>, editor |-> "vscode"]

SettingsInit ==
    /\ file \in {[ver |-> 0, has |-> {}, guarded |-> g, layouts |-> 0] : g \in BOOLEAN}
    /\ olderDaemon \in BOOLEAN
    /\ page = Shut /\ commit = Resting /\ imported = NoDraft /\ layoutSave = Nobodys
    /\ changed = 0 /\ mixed = FALSE /\ handFile = PlainFile

-----------------------------------------------------------------------------
(* The page *)

(* Read through a daemon; what an older one leaves out comes from the file. *)
OpenSettings ==
    /\ ~page.open
    /\ page' = [open |-> TRUE, draft |-> file, valid |-> TRUE, refused |-> FALSE]
    /\ mixed' = (mixed \/ layoutSave # Nobodys)
    /\ UNCHANGED <<file, olderDaemon, commit, imported, layoutSave, changed, handFile>>

(* A draft with two commands on one shortcut, or an environment that does not
   parse, is not sent: what was pending before stays so.                     *)
Drafted(d, ok) ==
    /\ page' = [page EXCEPT !.draft = d, !.valid = ok]
    /\ commit' = IF ok THEN [commit EXCEPT !.pending = d, !.timer = TRUE] ELSE commit
    /\ changed' = changed + 1

Changes ==
    /\ page.open /\ changed < MaxDrafts
    /\ \E g, ok \in BOOLEAN :
          Drafted([page.draft EXCEPT !.ver = changed + 1, !.has = @ \cup {changed + 1}, !.guarded = g], ok)
    /\ UNCHANGED <<file, olderDaemon, imported, layoutSave, mixed, handFile>>

ImportBegins ==
    /\ page.open /\ imported = NoDraft /\ imported' = page.draft
    /\ UNCHANGED <<file, olderDaemon, page, commit, layoutSave, changed, mixed, handFile>>

(* The import's answer is laid over the draft of the click. *)
ImportEnds ==
    /\ imported # NoDraft /\ imported' = NoDraft
    /\ IF page.open /\ changed < MaxDrafts
       THEN Drafted([imported EXCEPT !.ver = changed + 1, !.has = @ \cup {changed + 1}], page.valid)
       ELSE UNCHANGED <<page, commit, changed>>
    /\ UNCHANGED <<file, olderDaemon, layoutSave, mixed, handFile>>

-----------------------------------------------------------------------------
(* The committer: one save at a time, the latest wins. *)

Next2Send(c) ==
    IF c.flights = {} /\ c.pending # NoDraft
    THEN [c EXCEPT !.flights = {[value |-> c.pending, at |-> "sent"]}, !.pending = NoDraft] ELSE c

Answered(c, f) == Next2Send([c EXCEPT !.flights = @ \ {f}])

TimerFires ==
    /\ commit.timer /\ commit' = Next2Send([commit EXCEPT !.timer = FALSE])
    /\ UNCHANGED <<file, olderDaemon, page, imported, layoutSave, changed, mixed, handFile>>

Written(d) == IF olderDaemon THEN [d EXCEPT !.guarded = FALSE] ELSE d

(* The whole object, as sent; or the daemon refuses it, and the page says why. *)
DaemonSaves ==
    /\ \E f \in commit.flights :
          /\ f.at = "sent"
          /\ \/ /\ file' = Written(f.value) /\ UNCHANGED page
                /\ commit' = [commit EXCEPT !.flights = (@ \ {f}) \cup {[f EXCEPT !.at = "written"]}]
             \/ /\ page' = [page EXCEPT !.refused = TRUE] /\ UNCHANGED file
                /\ commit' = Answered(commit, f)
    /\ UNCHANGED <<olderDaemon, imported, layoutSave, changed, mixed, handFile>>

(* What the request carried and the file lost is written back. *)
\* Mutant: what an older daemon dropped stays dropped.
MendsNothing(sent) == file' = file
RestoreGuarded(sent) == file' = [file EXCEPT !.guarded = @ \/ sent.guarded]

MainMends ==
    /\ \E f \in commit.flights :
          /\ f.at = "written" /\ RestoreGuarded(f.value) /\ commit' = Answered(commit, f)
    /\ page' = [page EXCEPT !.refused = FALSE]
    /\ UNCHANGED <<olderDaemon, imported, layoutSave, changed, mixed, handFile>>

(* Back, or Escape: what is pending is saved now and waited for; an
   import that answers after that finds no page.                            *)
Closes ==
    /\ page.open /\ ~commit.closing
    /\ commit' = Next2Send([commit EXCEPT !.closing = TRUE, !.timer = FALSE])
    /\ UNCHANGED <<file, olderDaemon, page, imported, layoutSave, changed, mixed, handFile>>

Closed ==
    /\ commit.closing /\ commit.flights = {} /\ commit.pending = NoDraft
    /\ page' = [page EXCEPT !.open = FALSE] /\ commit' = Resting /\ imported' = NoDraft
    /\ UNCHANGED <<file, olderDaemon, layoutSave, changed, mixed, handFile>>

(* The app quits with a save in flight or pending. *)
AppQuits ==
    /\ page.open /\ page' = Shut /\ commit' = Resting /\ imported' = NoDraft
    /\ UNCHANGED <<file, olderDaemon, layoutSave, changed, mixed, handFile>>

-----------------------------------------------------------------------------
(* A project's view saves a layout: read all, write all. *)

LayoutReads ==
    /\ layoutSave = Nobodys /\ file.layouts < MaxLayouts
    /\ layoutSave' = [value |-> [file EXCEPT !.layouts = @ + 1], at |-> "sent"]
    /\ mixed' = (mixed \/ page.open)
    /\ UNCHANGED <<file, olderDaemon, page, commit, imported, changed, handFile>>

LayoutWrites ==
    /\ layoutSave.at = "sent" /\ file' = Written(layoutSave.value)
    /\ layoutSave' = [layoutSave EXCEPT !.at = "written"]
    /\ UNCHANGED <<olderDaemon, page, commit, imported, changed, mixed, handFile>>

LayoutMends ==
    /\ layoutSave.at = "written" /\ RestoreGuarded(layoutSave.value)
    /\ layoutSave' = Nobodys
    /\ UNCHANGED <<olderDaemon, page, commit, imported, changed, mixed, handFile>>

SettingsNext ==
    \/ OpenSettings \/ Changes \/ ImportBegins \/ ImportEnds
    \/ TimerFires \/ DaemonSaves \/ MainMends \/ Closes \/ Closed \/ AppQuits
    \/ LayoutReads \/ LayoutWrites \/ LayoutMends

-----------------------------------------------------------------------------
(* Loading and saving.  Of a block is told, for each field it has, whether it
   is "ok" or "bad"; of a preset its name and whether the rest is valid; of a
   launcher its id ("odd" is none), command and label, or that it is `Null`.
   "long" text is such as a person may write and the page's check refuses.   *)

MAXPRESETS == 2     \* bound: MAX_PRESETS
Builtin == "claude"
Null == [id |-> "null", command |-> "blank", label |-> "blank"]

CleanFields(raw) == [f \in {g \in DOMAIN raw : raw[g] = "ok"} |-> "ok"]

(* A preset is dropped for a bad field, and for a name a kept one has. *)
KeptPreset(kept, p) ==
    IF p.ok /\ ~\E i \in DOMAIN kept : kept[i].name = p.name THEN Append(kept, p) ELSE kept
CleanPresets(raw) ==
    FoldLeft(KeptPreset, <<>>, SubSeq(raw, 1, Min({Len(raw), MAXPRESETS})))

(* A saved launcher with a built-in's id overrides it, the last of them;
   the others follow, those with an id and a command to type.              *)
Overriding(saved) ==
    LET ours == SelectSeq(saved, LAMBDA l : l.id = Builtin) IN
    IF ours = <<>> THEN [id |-> Builtin, command |-> "ok", label |-> "ok"] ELSE Last(ours)
Filled(l) == [l EXCEPT !.label = IF @ = "blank" THEN "ok" ELSE @,
                       !.command = IF @ = "blank" THEN "ok" ELSE @]
MergeLaunchers(saved) ==
    <<Filled(Overriding(saved))>> \o
    [i \in DOMAIN SelectSeq(saved, LAMBDA l : l.id = "mine" /\ l.command # "blank") |->
        Filled(SelectSeq(saved, LAMBDA l : l.id = "mine" /\ l.command # "blank")[i])]

(* An entry that is not an object at all makes the load itself fail. *)
LoadFails(raw) == \E i \in DOMAIN raw.launchers : raw.launchers[i] = Null

EDITORS == {"vscode", "custom", "custom without command"}
LoadSettings(raw) ==
    [fields |-> CleanFields(raw.fields), presets |-> CleanPresets(raw.presets),
     launchers |-> MergeLaunchers(raw.launchers),
     editor |-> IF raw.editor \in EDITORS THEN raw.editor ELSE "vscode"]

ValidLaunchers(list) ==
    /\ \A i \in DOMAIN list : list[i].command = "ok" /\ list[i].label = "ok"
    /\ \A i, j \in DOMAIN list : list[i].id = list[j].id => i = j

(* What `validate` takes. *)
Takes(s) ==
    /\ ValidLaunchers(s.launchers) /\ s.editor \in EDITORS \ {"custom without command"}
    /\ \A f \in DOMAIN s.fields : s.fields[f] = "ok"
    /\ CleanPresets(s.presets) = s.presets

(* What `saveSettings` writes of what it takes. *)
Normalized(s) ==
    [s EXCEPT !.fields = CleanFields(s.fields), !.presets = CleanPresets(s.presets)]

(* A person edits the file by hand. *)
HandEdit ==
    /\ handFile = PlainFile /\ handFile' \in HandFiles
    /\ UNCHANGED <<file, olderDaemon, page, commit, imported, layoutSave, changed, mixed>>

SettingsSpec == SettingsInit /\ [][SettingsNext \/ HandEdit]_settingsVars

-----------------------------------------------------------------------------
(* Properties *)

(* While the page is the only writer, an older draft is never written over a
   newer one and no saved layout goes: createCommitter's "latest wins", and
   the whole-object save it must never run twice at once.                  *)
SavesInOrder ==
    [][~mixed => file'.ver >= file.ver /\ file'.layouts >= file.layouts]_settingsVars

(* With nothing left to save, and after the page has closed, the file holds
   its last draft, also what the daemon is too old to know (restoreGuarded),
   unless that was refused or never fit to send.                            *)
NothingIsLost ==
    /\ ~mixed /\ page.draft # NoDraft /\ page.valid /\ ~page.refused
    /\ commit.pending = NoDraft /\ commit.flights = {} /\ layoutSave = Nobodys
    => file.has = page.draft.has /\ file.guarded = page.draft.guarded

(* What a person may have done to the file by hand: the names of what load
   keeps and save refuses.  Every later save is refused until it is mended. *)
BlocksSaving(raw) ==
    \/ \E i \in DOMAIN raw.launchers :
          LET l == raw.launchers[i] IN
          /\ l.id \in {Builtin, "mine"}
          /\ l.label = "long" \/ l.command = "long"
    \/ Cardinality({i \in DOMAIN raw.launchers : raw.launchers[i].id = "mine"}) > 1
    \/ raw.editor = "custom without command"

(* Any other file loads into settings that save takes, and that loading what
   was saved gives back, presets by name: a bad value costs itself only
   (loadSettings: "a bad file must not break unrelated commands").         *)
LoadedIsSavable ==
    ~LoadFails(handFile) /\ ~BlocksSaving(handFile) =>
        LET s == LoadSettings(handFile) IN
        /\ Takes(s) /\ LoadSettings(Normalized(s)) = s
        /\ \A i, j \in DOMAIN s.presets : s.presets[i].name = s.presets[j].name => i = j

SettingsTypeOK ==
    /\ {olderDaemon, mixed, page.open, page.valid, page.refused, commit.timer, commit.closing} \subseteq BOOLEAN
    /\ changed \in 0..MaxDrafts
    /\ \A d \in {file, page.draft, imported, layoutSave.value, commit.pending}
          \cup {f.value : f \in commit.flights} :
          d.ver \in -1..MaxDrafts /\ d.has \subseteq 1..MaxDrafts /\ d.layouts \in 0..MaxLayouts
=============================================================================
