------------------------------- MODULE Prebuild -------------------------------
(***************************************************************************)
(* How build.sh and scripts/build-darwin-prebuild.sh replace a prebuild:   *)
(* the candidate is generated in a staging directory, the prior prebuild   *)
(* moves to a backup, the candidate takes its place, and whatever fails or *)
(* interrupts before the commit is undone by the exit trap.                *)
(*                                                                         *)
(* Every command may fail, before or after its effect, the commands of the *)
(* cleanup included; signals arrive between commands, and the machine may  *)
(* stop at any time.  A script runs on one platform at a time.             *)
(***************************************************************************)
EXTENDS Integers, FiniteSets

CONSTANT LateFailures   \* platforms whose restoring mv may fail after renaming

Platforms == {"linux", "darwin"}

ASSUME LateFailuresAssumption == LateFailures \subseteq Platforms

VARIABLES
    files,     \* per platform: target, staging and backup directories
    litter,    \* a run that was stopped or failed left files behind
    platform,  \* whose script runs, or ran last
    at,        \* the next command of the script
    shell,     \* its variables
    before     \* the prebuild it found

prebuildVars == <<files, litter, platform, at, shell, before>>

\* Contents are named as seen by the script: what it finds, what it generates.  A
\* directory is empty if there is no file in it, whatever directories it holds.
Artifacts == {"none", "empty", "prior", "candidate", "damaged"}
Staged == {"none", "empty", "candidate", "bad"}

Commands ==
    {"stage", "generate", "validate", "mktemp", "backup", "arm", "install", "test", "commit"}
Cleanup == {"rmStage", "rmInstalled", "putBack", "rmRoot", "rmUncommitted", "done"}

Directories == [target: Artifacts, stage: Staged, backup: Artifacts, root: BOOLEAN]
ShellVariables ==
    [stage: BOOLEAN, root: BOOLEAN, committed: BOOLEAN, undo: BOOLEAN,
     preserve: BOOLEAN, unclean: BOOLEAN, exiting: BOOLEAN]

f == files[platform]

PrebuildTypeOK ==
    /\ files \in [Platforms -> Directories]
    /\ litter \in BOOLEAN
    /\ platform \in Platforms
    /\ at \in Commands \cup Cleanup \cup {"idle", "exit", "built", "failed", "dead"}
    /\ shell \in ShellVariables
    /\ before \in Artifacts

NoFiles == [target |-> "none", stage |-> "none", backup |-> "none", root |-> FALSE]

Unset == [stage |-> FALSE, root |-> FALSE, committed |-> FALSE, undo |-> FALSE,
          preserve |-> FALSE, unclean |-> FALSE, exiting |-> FALSE]

PrebuildInit ==
    /\ files \in [Platforms -> {NoFiles, [NoFiles EXCEPT !.target = "prior"]}]
    /\ litter \in BOOLEAN
    /\ platform = "linux" /\ at = "idle" /\ shell = Unset
    /\ before = "none"

Exists(content) == content # "none"
HoldsFiles(content) == content \notin {"none", "empty"}
Stopped == at \in {"idle", "built", "failed", "dead"}

-----------------------------------------------------------------------------
(* Commands.                                                               *)

\* A command succeeds, or fails with or without its effect.
Command(here, effect, next) ==
    /\ at = here
    /\ \/ files' = [files EXCEPT ![platform] = effect] /\ at' = next
       \/ /\ files' \in {files, [files EXCEPT ![platform] = effect]}
          /\ at' = "exit"
    /\ UNCHANGED <<litter, platform, before>>

Assign(here, sh, next) ==
    /\ at = here
    /\ shell' = sh
    /\ at' = next
    /\ UNCHANGED <<files, litter, platform, before>>

\* A new run: the files it finds are the prior prebuild.  What stopped runs left is in
\* directories of other names, which no run looks at again: litter, if it has files.
\* build.sh undoes an installation where it found nothing, and the other script one it
\* has begun: "undo".
StartScript(p) ==
    LET found == IF HoldsFiles(files[p].target) THEN "prior" ELSE files[p].target IN
    /\ Stopped
    /\ platform' = p
    /\ files' = [q \in Platforms |->
                    [NoFiles EXCEPT !.target = IF q = p THEN found ELSE files[q].target]]
    /\ litter' = (litter \/ \E q \in Platforms : HoldsFiles(files[q].stage)
                                                 \/ HoldsFiles(files[q].backup))
    /\ before' = found
    /\ shell' = [Unset EXCEPT !.undo = p = "linux" /\ found = "none"]
    /\ at' = "stage"

\* STAGE_DIR, OUT_DIR: assigned what mktemp prints.
Stage ==
    /\ Command("stage", [f EXCEPT !.stage = "empty"], "generate")
    /\ shell' = [shell EXCEPT !.stage = files'[platform].stage = "empty"]

Generate ==
    /\ \E result \in {"empty", "candidate", "bad"} :
          Command("generate", [f EXCEPT !.stage = result], "validate")
    /\ UNCHANGED shell

\* Seeded fault: whatever was generated is taken.
AnythingGenerated == f.stage # "none"

\* The staging directory holds exactly the one file expected.
IsCandidate == f.stage = "candidate"

Validate ==
    Assign("validate", shell,
           IF ~IsCandidate THEN "exit"
           ELSE IF Exists(f.target) THEN "mktemp" ELSE "arm")

MakeBackupRoot ==
    /\ Command("mktemp", [f EXCEPT !.root = TRUE], "backup")
    /\ shell' = [shell EXCEPT !.root = files'[platform].root]

Backup ==
    /\ Command("backup", [f EXCEPT !.backup = f.target, !.target = "none"], "arm")
    /\ UNCHANGED shell

\* INSTALLED=1; build.sh has nothing to do here.
Arm == Assign("arm", [shell EXCEPT !.undo = @ \/ platform = "darwin"], "install")

\* build.sh moves its staging directory, the other script a directory in it.
Install ==
    /\ Command("install",
               [f EXCEPT !.target = f.stage,
                         !.stage = IF platform = "linux" THEN "none" ELSE "empty"],
               IF platform = "linux" THEN "commit" ELSE "test")
    /\ UNCHANGED shell

\* npm run test:prebuild.
TestPrebuild == Command("test", f, "commit") /\ UNCHANGED shell

FirstCleanup == IF platform = "linux" THEN "rmStage" ELSE "rmInstalled"

Commit ==
    Assign("commit", [shell EXCEPT !.committed = TRUE,
                                   !.stage = @ /\ platform = "darwin"], FirstCleanup)

-----------------------------------------------------------------------------
(* cleanup_resources, called once the prebuild is committed and by the     *)
(* exit trap, which restores the default action of signals first.          *)

OnExit ==
    Assign("exit", [shell EXCEPT !.exiting = TRUE, !.preserve = FALSE, !.unclean = FALSE],
           FirstCleanup)

\* What an rm -rf that fails may leave: all, nothing, some files or directories alone.
Remains(content, part) == {"none", content} \cup {c \in {"empty", part} : HoldsFiles(content)}
RuinedTarget == {[f EXCEPT !.target = c] : c \in Remains(f.target, "damaged")}
RuinedStage == {[f EXCEPT !.stage = c] : c \in Remains(f.stage, "bad")}
RuinedBackup == {[f EXCEPT !.backup = c] : c \in Remains(f.backup, "damaged")}

\* A command of the cleanup: ok and failed are the shell variables after it; its
\* failure may leave any of the contents in ruins.
CleanupCommand(effect, ruins, ok, failed, next) ==
    \/ files' = [files EXCEPT ![platform] = effect] /\ shell' = ok /\ at' = next
    \/ /\ \E g \in ruins : files' = [files EXCEPT ![platform] = g]
       /\ shell' = failed /\ at' = next

Skip(next) == at' = next /\ UNCHANGED <<files, shell>>

Unclean == [shell EXCEPT !.unclean = TRUE]

RemoveStage ==
    LET next == IF platform = "linux" THEN "rmInstalled" ELSE "done"
        gone == [f EXCEPT !.stage = "none"]
    IN  /\ at = "rmStage"
        /\ IF shell.stage
             THEN CleanupCommand(gone, RuinedStage, [shell EXCEPT !.stage = FALSE],
                                 Unclean, next)
             ELSE Skip(next)

Restores == shell.root /\ Exists(f.backup) /\ ~shell.committed

\* rm -rf of what was installed, before the backup takes its place again.
RemoveInstalled ==
    LET gone == [f EXCEPT !.target = "none"] IN
    /\ at = "rmInstalled"
    /\ IF Restores /\ Exists(f.target)
         THEN \/ files' = [files EXCEPT ![platform] = gone] /\ at' = "putBack"
                    /\ UNCHANGED shell
              \/ /\ \E g \in RuinedTarget : files' = [files EXCEPT ![platform] = g]
                 /\ shell' = [shell EXCEPT !.preserve = TRUE]
                 /\ at' = "rmRoot"
         ELSE Skip(IF Restores THEN "putBack" ELSE "rmRoot")

\* Seeded fault: INSTALLED keeps its value although the prior prebuild is back.
StillArmed(sh) == sh

\* INSTALLED=0.
Disarmed(sh) == IF platform = "darwin" THEN [sh EXCEPT !.undo = FALSE] ELSE sh

PutBack ==
    LET back == [f EXCEPT !.target = f.backup, !.backup = "none"] IN
    /\ at = "putBack"
    /\ CleanupCommand(back, {f} \cup (IF platform \in LateFailures THEN {back} ELSE {}),
                      Disarmed(shell), [shell EXCEPT !.preserve = TRUE], "rmRoot")

\* Seeded fault: the backup is removed even if it could not be put back.
RemovesAnyRoot == shell.root

RemovesRoot == shell.root /\ ~shell.preserve

RemoveBackupRoot ==
    LET next == "rmUncommitted"
        gone == [f EXCEPT !.root = FALSE, !.backup = "none"]
    IN  /\ at = "rmRoot"
        /\ IF RemovesRoot
             THEN CleanupCommand(gone, RuinedBackup \cup {gone}, [shell EXCEPT !.root = FALSE],
                                 Unclean, next)
             ELSE /\ shell' = [shell EXCEPT !.unclean = @ \/ shell.preserve]
                  /\ at' = next
                  /\ UNCHANGED files

RemoveUncommitted ==
    LET next == IF platform = "linux" THEN "done" ELSE "rmStage"
        gone == [f EXCEPT !.target = "none"]
    IN  /\ at = "rmUncommitted"
        /\ IF ~shell.committed /\ shell.undo /\ Exists(f.target)
             THEN CleanupCommand(gone, RuinedTarget, shell, Unclean, next)
             ELSE Skip(next)

\* Seeded fault: the status of the cleanup is ignored.
CleanupIgnored == FALSE

CleanupFailed == shell.unclean

\* The script exits with status 0 only past a clean cleanup of a committed prebuild.
Finish ==
    /\ at = "done"
    /\ at' = IF shell.exiting \/ CleanupFailed THEN "failed" ELSE "built"
    /\ UNCHANGED <<files, shell>>

CleanupStep ==
    /\ \/ RemoveStage \/ RemoveInstalled \/ PutBack \/ RemoveBackupRoot
       \/ RemoveUncommitted \/ Finish
    /\ UNCHANGED <<litter, platform, before>>

\* SIGINT or SIGTERM: the trap exits, unless the exit trap is already running.
Signal ==
    /\ at \in Commands \cup Cleanup
    /\ at' = IF shell.exiting THEN "dead" ELSE "exit"
    /\ UNCHANGED <<files, litter, platform, shell, before>>

\* SIGKILL, or the machine stops.
Kill ==
    /\ ~Stopped
    /\ at' = "dead"
    /\ UNCHANGED <<files, litter, platform, shell, before>>

ScriptStep ==
    \/ Stage \/ Generate \/ Validate \/ MakeBackupRoot \/ Backup \/ Arm \/ Install
    \/ TestPrebuild \/ Commit \/ OnExit \/ CleanupStep \/ Signal \/ Kill

-----------------------------------------------------------------------------
(* Safety.                                                                 *)

\* Until a prebuild is committed, the one it replaces is in its place or in the
\* backup, whichever commands fail, even those that put it back, and wherever the
\* script is stopped.
PriorSurvives ==
    at # "idle" /\ ~shell.committed /\ before = "prior" =>
        f.target = "prior" \/ f.backup = "prior"

\* "Both platform builds stage their candidate and restore the prior artifact if
\* generation, validation, or installation fails": unless its cleanup fails too, a
\* failed script leaves the directory as it found it, and nothing else.
FailureRestores ==
    at = "failed" /\ ~shell.committed /\ ~shell.unclean =>
        f = [NoFiles EXCEPT !.target = before]

\* A script succeeds only with the validated candidate in place and nothing left.
SuccessInstalls == at = "built" => f = [NoFiles EXCEPT !.target = "candidate"]
=============================================================================
