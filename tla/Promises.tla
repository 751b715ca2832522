------------------------------ MODULE Promises ------------------------------
(***************************************************************************)
(* What the console, the settings, the composer, the dashboard and the     *)
(* installer promise whoever works with them, where it takes several of    *)
(* them to keep it.  They share no state: a step of one leaves the others  *)
(* as they were.                                                           *)
(***************************************************************************)
EXTENDS Tui, Settings, Composer, Updates, Dashboard

(* Each goes its own way. *)
PromisesSpec == TuiSpec /\ SettingsSpec /\ ComposerSpec /\ UpdatesSpec /\ DashSpec

(* Whatever the console is asked, prompts and lends its terminal to, its keys come
   back, and however it ends the shell has its terminal (cli/commands/tui.ts).   *)
ConsoleIsSound == KeysComeBack /\ TerminalIsRestored

(* What a person writes or chooses is what is on disk, what arrives and what the next
   start finds: the settings (SettingsPage.tsx, settings-guard.ts), a prompt and its
   draft (PromptComposer.tsx), what a deletion on the dashboard takes (dashboard.ts),
   an install (install.sh) and the shared config.json (update/).                  *)
SavedIsKept ==
    /\ NothingIsLost
    /\ PromptsAreSafe /\ DraftsAreKept /\ RefinesAreOwned
    /\ SuggestionsAreSafe /\ LossesAreTold /\ MeasuringIsFollowed
    /\ InstallsWhole /\ ConfigIsKept /\ NoticeIsDue

(* What cannot be undone is done to nothing but what the person said yes to (tui.ts),
   and nothing older is put over what is newer: neither a draft of the settings
   (SettingsPage.tsx) nor the dashboard's figures (Dashboard.tsx).                *)
NothingUnasked == DestroysOnlyTheNamed /\ SavesInOrder /\ FiguresOnlyNewer
=============================================================================
