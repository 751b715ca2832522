------------------------------- MODULE Hooks -------------------------------
(***************************************************************************)
(* The commands a repository asks to have run, and what a person agreed to *)
(* (convergence/trust.ts): the hooks of a session's life - setup, typed    *)
(* into its shell at its first start and heard of through a mark in the    *)
(* shell's output (domain/session-setup.ts, daemon/setup-exit-watcher.ts); *)
(* teardown, spawned before its worktree goes - and the test command.      *)
(***************************************************************************)
EXTENDS Integers, SequencesExt

CONSTANTS
    HookSessions,
    HookLines,          \* what crossweave.config.json may name as a command
    MaxConfigs,     \* bound: edits of that file
    MaxTyped        \* bound: lines typed in all

ASSUME HooksAssumption == {MaxConfigs, MaxTyped} \subseteq Nat

NotSet == "not set"
NotHeard == -1

VARIABLES
    configFile,     \* the file: [hooks, test]; `hooks` is both hooks
    config,         \* as this daemon read it
    configs,        \* edits of the file so far
    trust,          \* the workspace's row: [test, hooks], hashes
    setupOf,        \* session_setup: [marked, code]
    shellOf,        \* a session's shell: [on, setups: those typed and not over]
    place,          \* where a session works: in a tree of its "own", or the
                    \* folder all "share"; or it is "gone"
    agreed,         \* what the person said yes to since the last untrust
    askedAgain,     \* times a person asked for a session's setup again
    typed,          \* setups typed into a session's shells, in all
    lastCode,       \* what the last setup to end in a session ended with
    lost,           \* sessions the end of the last setup was not heard from
    uninvited       \* sessions that a hook was typed into without a yes to it

hooksVars == <<configFile, config, configs, trust, setupOf, shellOf, place,
               agreed, askedAgain, typed, lastCode, lost, uninvited>>

Config == [hooks : HookLines \cup {NotSet}, test : HookLines \cup {NotSet}]
NotMarked == [marked |-> FALSE, code |-> NotHeard]
NoShellOpen == [on |-> FALSE, setups |-> 0]
Nothing == [test |-> NotSet, hooks |-> NotSet]

HooksInit ==
    /\ configFile \in Config /\ config = configFile /\ configs = 0
    /\ trust = Nothing /\ agreed = {}
    /\ setupOf = [s \in HookSessions |-> NotMarked]
    /\ shellOf = [s \in HookSessions |-> NoShellOpen]
    /\ lost = {} /\ uninvited = {}
    /\ place \in [HookSessions -> {"own", "share"}]
    /\ askedAgain = [s \in HookSessions |-> 0] /\ typed = askedAgain
    /\ lastCode = [s \in HookSessions |-> NotHeard]

-----------------------------------------------------------------------------
(* Trust is of a command's hash, the hooks' apart from the test command's. *)

HooksTrusted == config.hooks # NotSet /\ trust.hooks = config.hooks
TestTrusted == config.test # NotSet /\ trust.test = config.test

TrustHooks ==
    /\ config.hooks # NotSet
    /\ trust' = [trust EXCEPT !.hooks = config.hooks]
    /\ agreed' = agreed \cup {<<"hooks", config.hooks>>}
    /\ UNCHANGED <<configFile, config, configs, setupOf, shellOf, place, askedAgain, typed, lastCode, lost, uninvited>>

TrustTestCommand ==
    /\ config.test # NotSet
    /\ trust' = [trust EXCEPT !.test = config.test]
    /\ agreed' = agreed \cup {<<"test", config.test>>}
    /\ UNCHANGED <<configFile, config, configs, setupOf, shellOf, place, askedAgain, typed, lastCode, lost, uninvited>>

Untrust ==
    /\ trust' = Nothing /\ agreed' = {}
    /\ UNCHANGED <<configFile, config, configs, setupOf, shellOf, place, askedAgain, typed, lastCode, lost, uninvited>>

(* The file is the repository's; the daemon reads it as it starts, when every
   shell of the one before is gone. *)
EditConfig ==
    /\ configs < MaxConfigs /\ configs' = configs + 1
    /\ configFile' \in Config \ {configFile}
    /\ UNCHANGED <<config, trust, setupOf, shellOf, place, agreed, askedAgain, typed, lastCode, lost, uninvited>>

RestartWithConfig ==
    /\ config # configFile /\ config' = configFile
    /\ shellOf' = [s \in HookSessions |-> NoShellOpen]
    /\ UNCHANGED <<configFile, configs, trust, setupOf, place, agreed, askedAgain, typed, lastCode, lost, uninvited>>

-----------------------------------------------------------------------------
(* A session's shell *)

\* Mutant: a hook once trusted stays trusted.
DecidesByRow(s) == config.hooks # NotSet /\ place[s] = "own" /\ ~setupOf[s].marked /\ trust.hooks # NotSet

(* What a start types before the launcher, chained to it by `&&`. *)
Decides(s) == config.hooks # NotSet /\ place[s] = "own" /\ ~setupOf[s].marked /\ HooksTrusted

Types(s) ==
    /\ setupOf' = [setupOf EXCEPT ![s] = [marked |-> TRUE, code |-> NotHeard]]
    /\ shellOf' = [shellOf EXCEPT ![s] = [on |-> TRUE, setups |-> @.setups + 1]]
    /\ typed' = [typed EXCEPT ![s] = @ + 1]
    /\ lastCode' = [lastCode EXCEPT ![s] = NotHeard] /\ lost' = lost \ {s}
    /\ uninvited' = IF <<"hooks", config.hooks>> \in agreed THEN uninvited ELSE uninvited \cup {s}

StartTypes(s) ==
    /\ ~shellOf[s].on /\ place[s] # "gone" /\ typed[s] < MaxTyped
    /\ IF Decides(s) THEN Types(s)
       ELSE /\ shellOf' = [shellOf EXCEPT ![s].on = TRUE]
            /\ UNCHANGED <<setupOf, typed, lastCode, lost, uninvited>>
    /\ UNCHANGED <<configFile, config, configs, trust, place, agreed, askedAgain>>

(* `session.setup`: again, by hand; now if there is a shell, else at the next start. *)
SetupAgain(s) ==
    /\ place[s] = "own" /\ HooksTrusted /\ typed[s] < MaxTyped /\ askedAgain[s] < MaxTyped
    /\ askedAgain' = [askedAgain EXCEPT ![s] = @ + 1]
    /\ IF shellOf[s].on THEN Types(s)
       ELSE /\ setupOf' = [setupOf EXCEPT ![s] = NotMarked]
            /\ UNCHANGED <<shellOf, typed, lastCode, lost, uninvited>>
    /\ UNCHANGED <<configFile, config, configs, trust, place, agreed>>

RecordExitCode(s, code) ==
    setupOf' = IF setupOf[s].marked THEN [setupOf EXCEPT ![s].code = code] ELSE setupOf

(* A setup ends and writes its code into the output.  The mark is lost when as much output as is kept follows it in its chunk.   *)
SetupEnds(s) ==
    /\ shellOf[s].setups > 0
    /\ \E code \in {0, 1}, swamped \in BOOLEAN :
          /\ IF swamped THEN UNCHANGED setupOf ELSE RecordExitCode(s, code)
          /\ lost' = IF swamped THEN lost \cup {s} ELSE lost \ {s}
          /\ lastCode' = [lastCode EXCEPT ![s] = code]
    /\ shellOf' = [shellOf EXCEPT ![s].setups = @ - 1]
    /\ UNCHANGED <<configFile, config, configs, trust, place, agreed, askedAgain, typed, uninvited>>

(* The shell ends, with what it had still to run. *)
HookShellEnds(s) ==
    /\ shellOf[s].on
    /\ shellOf' = [shellOf EXCEPT ![s] = NoShellOpen]
    /\ UNCHANGED <<configFile, config, configs, trust, setupOf, place, agreed, askedAgain, typed, lastCode, lost, uninvited>>

(* rm, gc and land run the teardown in the worktree, if it is trusted, and
   take it away whatever came of that; the row takes its mark with it.     *)
TearsDown(s) ==
    /\ place[s] = "own" /\ ~shellOf[s].on
    /\ place' = [place EXCEPT ![s] = "gone"]
    /\ setupOf' = [setupOf EXCEPT ![s] = NotMarked]
    /\ UNCHANGED <<configFile, config, configs, trust, shellOf, agreed, askedAgain, typed, lastCode, lost, uninvited>>

HooksNext ==
    \/ TrustHooks \/ TrustTestCommand \/ Untrust \/ EditConfig \/ RestartWithConfig
    \/ \E s \in HookSessions :
          StartTypes(s) \/ SetupAgain(s) \/ SetupEnds(s) \/ HookShellEnds(s) \/ TearsDown(s)

HooksSpec == HooksInit /\ [][HooksNext]_hooksVars

-----------------------------------------------------------------------------
(* What a list says of a session. *)
SetupPending(s) == HooksTrusted /\ place[s] = "own" /\ ~setupOf[s].marked
SetupFailed(s) ==
    HooksTrusted /\ place[s] = "own" /\ setupOf[s].marked /\ setupOf[s].code \notin {0, NotHeard}

(* Properties *)

(* What may run is what the person said yes to, word for word, since they last
   took it back, and as what it was shown to be (trust.ts: "Editing the
   string, including by cloning a repo that changed it, drops trust again"). *)
TrustIsAgreed ==
    /\ TestTrusted => <<"test", config.test>> \in agreed
    /\ HooksTrusted => <<"hooks", config.hooks>> \in agreed
    /\ uninvited = {}

(* A session is set up once, however often it is started and the daemon with
   it, and once more for each time a person asked again.                          *)
SetUpOnce == \A s \in HookSessions : typed[s] <= 1 + askedAgain[s]

(* With its shell idle, what a list says of a setup is what the last one ended
   with, if that was heard; nothing is said of one that its shell cut short. *)
FailureIsShown ==
    \A s \in HookSessions \ lost :
        shellOf[s].setups = 0 /\ setupOf[s].marked => setupOf[s].code = lastCode[s]

HooksAreAgreed == TrustIsAgreed /\ SetUpOnce /\ FailureIsShown

HooksTypeOK ==
    /\ {configFile, config} \subseteq Config /\ configs \in 0..MaxConfigs
    /\ \A s \in HookSessions :
          /\ setupOf[s].marked \in BOOLEAN /\ setupOf[s].code \in {NotHeard, 0, 1}
          /\ typed[s] \in 0..MaxTyped /\ shellOf[s].setups \in 0..MaxTyped
    /\ lost \cup uninvited \subseteq HookSessions
=============================================================================
