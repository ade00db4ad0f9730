---------------------------- MODULE ReleaseProofs ----------------------------
(***************************************************************************)
(* Theorems about the build scripts and releases, for any versions.        *)
(***************************************************************************)
EXTENDS Release, TLAPS

USE DEF Platforms

-----------------------------------------------------------------------------
(* Types.                                                                  *)

\* Assigning a field keeps a record in its set.
LEMMA DirectoryEdits ==
    ASSUME NEW d \in Directories, NEW a \in Artifacts, NEW s \in Staged, NEW b \in BOOLEAN
    PROVE  /\ d.target \in Artifacts /\ d.stage \in Staged /\ d.backup \in Artifacts
           /\ d.root \in BOOLEAN
           /\ [d EXCEPT !.target = a] \in Directories
           /\ [d EXCEPT !.stage = s] \in Directories
           /\ [d EXCEPT !.root = b] \in Directories
           /\ [d EXCEPT !.target = a, !.stage = s] \in Directories
           /\ [d EXCEPT !.root = b, !.backup = a] \in Directories
           /\ \A t \in Artifacts : [d EXCEPT !.target = t, !.backup = a] \in Directories
           /\ \A t \in Artifacts : [d EXCEPT !.backup = t, !.target = a] \in Directories
BY DEF Directories

\* What is left of a directory is a state of it, without it or with less in it.
LEMMA RuinTypes ==
    ASSUME f \in Directories
    PROVE  RuinedTarget \cup RuinedStage \cup RuinedBackup \subseteq Directories
BY DEF Directories, Artifacts, Staged, RuinedTarget, RuinedStage, RuinedBackup, Remains,
       HoldsFiles

LEMMA RuinFields ==
    ASSUME f \in Directories, NEW g
    PROVE  /\ g \in RuinedTarget =>
                 g.stage = f.stage /\ g.backup = f.backup /\ g.root = f.root
           /\ g \in RuinedStage =>
                 /\ g.target = f.target /\ g.backup = f.backup /\ g.root = f.root
                 /\ f.stage = "none" => g.stage = "none"
           /\ g \in RuinedBackup =>
                 /\ g.target = f.target /\ g.stage = f.stage /\ g.root = f.root
                 /\ f.backup = "none" => g.backup = "none"
BY DEF Directories, RuinedTarget, RuinedStage, RuinedBackup, Remains, HoldsFiles

LEMMA ShellEdits ==
    ASSUME NEW sh \in ShellVariables, NEW b \in BOOLEAN
    PROVE  /\ sh.stage \in BOOLEAN /\ sh.root \in BOOLEAN /\ sh.committed \in BOOLEAN
           /\ sh.undo \in BOOLEAN /\ sh.preserve \in BOOLEAN /\ sh.unclean \in BOOLEAN
           /\ sh.exiting \in BOOLEAN
           /\ [sh EXCEPT !.stage = b] \in ShellVariables
           /\ [sh EXCEPT !.root = b] \in ShellVariables
           /\ [sh EXCEPT !.undo = b] \in ShellVariables
           /\ [sh EXCEPT !.preserve = b] \in ShellVariables
           /\ [sh EXCEPT !.unclean = b] \in ShellVariables
           /\ \A c \in BOOLEAN : [sh EXCEPT !.committed = b, !.stage = c] \in ShellVariables
           /\ \A c, d \in BOOLEAN :
                 [sh EXCEPT !.exiting = b, !.preserve = c, !.unclean = d] \in ShellVariables
BY DEF ShellVariables

\* Whatever a command does to the directories of its platform, it is typed.
LEMMA CommandType ==
    ASSUME TypeOK, NEW here, NEW effect \in Directories,
           NEW next \in Commands \cup Cleanup, Command(here, effect, next)
    PROVE  /\ files' \in [Platforms -> Directories]
           /\ at' \in Commands \cup Cleanup \cup {"idle", "exit", "built", "failed", "dead"}
           /\ UNCHANGED <<litter, platform, before>>
BY DEF Command, TypeOK, PrebuildTypeOK

LEMMA CleanupCommandType ==
    ASSUME TypeOK, NEW effect \in Directories, NEW ruins \in SUBSET Directories,
           NEW ok \in ShellVariables, NEW failed \in ShellVariables,
           NEW next \in Cleanup,
           CleanupCommand(effect, ruins, ok, failed, next)
    PROVE  /\ files' \in [Platforms -> Directories]
           /\ shell' \in ShellVariables
           /\ at' \in Commands \cup Cleanup \cup {"idle", "exit", "built", "failed", "dead"}
BY DEF CleanupCommand, TypeOK, PrebuildTypeOK

\* What was generated is installed only once it is validated: without this the
\* target could hold anything the staging directory may.
Checked == at \in {"mktemp", "backup", "arm", "install"} => f.stage = "candidate"

LEMMA ScriptKeepsChecked ==
    ASSUME TypeOK, Checked, ScriptStep \/ \E p \in Platforms : StartScript(p)
    PROVE  Checked'
<1>f. f \in Directories /\ f = files[platform] /\ files \in [Platforms -> Directories]
      /\ platform \in Platforms
  BY DEF f, TypeOK, PrebuildTypeOK
<1>1. CASE \E p \in Platforms : StartScript(p)
  BY <1>1 DEF StartScript, Checked
<1>2. CASE Validate
  BY <1>2 DEF Validate, Assign, IsCandidate, Checked, f
<1>3. CASE MakeBackupRoot
  BY <1>3, <1>f DEF MakeBackupRoot, Command, Checked, f, Directories
<1>4. CASE Backup
  BY <1>4, <1>f DEF Backup, Command, Checked, f, Directories
<1>5. CASE Arm
  BY <1>5 DEF Arm, Assign, Checked, f
<1>6. CASE Stage \/ Generate \/ Install \/ TestPrebuild
  BY <1>6 DEF Stage, Generate, Install, TestPrebuild, Command, Checked
<1>7. CASE Commit \/ OnExit
  BY <1>7 DEF Commit, OnExit, Assign, FirstCleanup, Checked
<1>8. CASE CleanupStep
  BY <1>8 DEF CleanupStep, RemoveStage, RemoveInstalled, PutBack, RemoveBackupRoot,
              RemoveUncommitted, Finish, CleanupCommand, Skip, Checked
<1>9. CASE Signal \/ Kill
  BY <1>9 DEF Signal, Kill, Checked
<1> QED
  BY <1>1, <1>2, <1>3, <1>4, <1>5, <1>6, <1>7, <1>8, <1>9 DEF ScriptStep

\* A step of a script, or its start, keeps the types of its state.
LEMMA ScriptTypes ==
    ASSUME TypeOK, Checked, ScriptStep \/ \E p \in Platforms : StartScript(p)
    PROVE  PrebuildTypeOK'
<1>f. f \in Directories /\ shell \in ShellVariables
  BY DEF f, TypeOK, PrebuildTypeOK
<1>g. /\ f.target \in Artifacts /\ f.stage \in Staged /\ f.backup \in Artifacts
      /\ {"none", "empty", "damaged"} \subseteq Artifacts
      /\ {"none", "empty", "candidate", "bad"} = Staged
  BY <1>f, DirectoryEdits DEF Artifacts, Staged
<1>1. CASE \E p \in Platforms : StartScript(p)
  <2>1. PICK p \in Platforms : StartScript(p)
    BY <1>1
  <2>2. /\ files' \in [Platforms -> Directories] /\ before' \in Artifacts
    BY <2>1 DEF StartScript, NoFiles, HoldsFiles, TypeOK, PrebuildTypeOK, Directories, Artifacts,
                 Staged
  <2>3. shell' \in ShellVariables
    BY <2>1 DEF StartScript, Unset, ShellVariables
  <2> QED
    BY <2>1, <2>2, <2>3 DEF StartScript, TypeOK, PrebuildTypeOK, Commands
<1>2. CASE Stage
  <2>1. [f EXCEPT !.stage = "empty"] \in Directories
    BY <1>f, <1>g, DirectoryEdits
  <2>2. shell' \in ShellVariables
    BY <1>2, <1>f, ShellEdits DEF Stage
  <2> QED
    BY <1>2, <2>1, <2>2, CommandType DEF Stage, TypeOK, PrebuildTypeOK, Commands
<1>3. CASE Generate
  <2>1. PICK result \in {"empty", "candidate", "bad"} :
            Command("generate", [f EXCEPT !.stage = result], "validate")
    BY <1>3 DEF Generate
  <2>2. [f EXCEPT !.stage = result] \in Directories
    BY <1>f, <1>g, DirectoryEdits
  <2> QED
    BY <1>3, <2>1, <2>2, CommandType DEF Generate, TypeOK, PrebuildTypeOK, Commands
<1>4. CASE Validate
  BY <1>4 DEF Validate, Assign, TypeOK, PrebuildTypeOK, Commands
<1>5. CASE MakeBackupRoot
  <2>1. [f EXCEPT !.root = TRUE] \in Directories
    BY <1>f, <1>g, DirectoryEdits
  <2>2. files' \in [Platforms -> Directories]
    BY <1>5, <2>1, CommandType DEF MakeBackupRoot, Commands
  <2>3. platform' = platform /\ platform \in Platforms
    BY <1>5 DEF MakeBackupRoot, Command, TypeOK, PrebuildTypeOK
  <2>4. shell' \in ShellVariables
    BY <1>5, <1>f, <2>2, <2>3, ShellEdits DEF MakeBackupRoot, Directories
  <2> QED
    BY <1>5, <2>1, <2>4, CommandType DEF MakeBackupRoot, TypeOK, PrebuildTypeOK, Commands
<1>6. CASE Backup
  <2>1. [f EXCEPT !.backup = f.target, !.target = "none"] \in Directories
    BY <1>f, <1>g, DirectoryEdits
  <2> QED
    BY <1>6, <2>1, CommandType DEF Backup, TypeOK, PrebuildTypeOK, Commands
<1>7. CASE Arm
  <2>1. shell' \in ShellVariables
    BY <1>7, <1>f, ShellEdits DEF Arm, Assign
  <2> QED
    BY <1>7, <2>1 DEF Arm, Assign, TypeOK, PrebuildTypeOK, Commands
<1>8. CASE Install
  <2> DEFINE left == IF platform = "linux" THEN "none" ELSE "empty"
  <2>1. f.stage = "candidate" /\ left \in Staged
    BY <1>8, <1>g DEF Install, Command, Checked
  <2>2. [f EXCEPT !.target = f.stage, !.stage = left] \in Directories
    BY <1>f, <1>g, <2>1, DirectoryEdits DEF Artifacts
  <2> QED
    BY <1>8, <2>2, CommandType DEF Install, TypeOK, PrebuildTypeOK, Commands
<1>9. CASE TestPrebuild
  BY <1>9, <1>f, CommandType DEF TestPrebuild, TypeOK, PrebuildTypeOK, Commands
<1>10. CASE Commit
  <2>1. shell' \in ShellVariables
    BY <1>10, <1>f, ShellEdits DEF Commit, Assign
  <2> QED
    BY <1>10, <2>1 DEF Commit, Assign, FirstCleanup, TypeOK, PrebuildTypeOK, Cleanup
<1>11. CASE OnExit
  <2>1. shell' \in ShellVariables
    BY <1>11, <1>f, ShellEdits DEF OnExit, Assign
  <2> QED
    BY <1>11, <2>1 DEF OnExit, Assign, FirstCleanup, TypeOK, PrebuildTypeOK, Cleanup
<1>12. CASE CleanupStep
  <2>s. /\ [shell EXCEPT !.stage = FALSE] \in ShellVariables
        /\ [shell EXCEPT !.root = FALSE] \in ShellVariables
        /\ [shell EXCEPT !.preserve = TRUE] \in ShellVariables
        /\ [shell EXCEPT !.unclean = shell.unclean \/ shell.preserve] \in ShellVariables
        /\ Unclean \in ShellVariables /\ Disarmed(shell) \in ShellVariables
    BY <1>f, ShellEdits DEF Unclean, Disarmed
  <2>d. /\ [f EXCEPT !.stage = "none"] \in Directories
        /\ [f EXCEPT !.target = "none"] \in Directories
        /\ [f EXCEPT !.target = f.backup, !.backup = "none"] \in Directories
        /\ RuinedTarget \cup RuinedStage \cup RuinedBackup \subseteq Directories
        /\ [f EXCEPT !.root = FALSE, !.backup = "none"] \in Directories
    BY <1>f, <1>g, DirectoryEdits, RuinTypes
  <2>e. /\ UNCHANGED <<litter, platform, before>>
        /\ {"rmStage", "rmInstalled", "putBack", "rmRoot", "rmUncommitted", "done"} = Cleanup
    BY <1>12 DEF CleanupStep, Cleanup
  <2> DEFINE Typed == /\ files' \in [Platforms -> Directories]
                      /\ shell' \in ShellVariables
                      /\ at' \in Commands \cup Cleanup
                                  \cup {"idle", "exit", "built", "failed", "dead"}
  <2>1. ASSUME RemoveStage PROVE Typed
    BY <2>1, <1>f, <2>s, <2>d, <2>e, CleanupCommandType
       DEF RemoveStage, Skip, TypeOK, PrebuildTypeOK
  <2>2. ASSUME RemoveInstalled PROVE Typed
    BY <2>2, <1>f, <2>s, <2>d, <2>e DEF RemoveInstalled, Skip, TypeOK, PrebuildTypeOK
  <2>3. ASSUME PutBack PROVE Typed
    BY <2>3, <1>f, <2>s, <2>d, <2>e, CleanupCommandType DEF PutBack
  <2>4. ASSUME RemoveBackupRoot PROVE Typed
    BY <2>4, <1>f, <2>s, <2>d, <2>e, CleanupCommandType
       DEF RemoveBackupRoot, TypeOK, PrebuildTypeOK
  <2>5. ASSUME RemoveUncommitted PROVE Typed
    BY <2>5, <1>f, <2>s, <2>d, <2>e, CleanupCommandType
       DEF RemoveUncommitted, Skip, TypeOK, PrebuildTypeOK
  <2>6. ASSUME Finish PROVE Typed
    BY <2>6, <1>f DEF Finish, TypeOK, PrebuildTypeOK
  <2>7. Typed
    BY <1>12, <2>1, <2>2, <2>3, <2>4, <2>5, <2>6 DEF CleanupStep
  <2> QED
    BY <2>7, <2>e DEF TypeOK, PrebuildTypeOK
<1>13. CASE Signal
  BY <1>13 DEF Signal, TypeOK, PrebuildTypeOK
<1>14. CASE Kill
  BY <1>14 DEF Kill, TypeOK, PrebuildTypeOK
<1> QED
  BY <1>1, <1>2, <1>3, <1>4, <1>5, <1>6, <1>7, <1>8, <1>9, <1>10, <1>11, <1>12, <1>13, <1>14
     DEF ScriptStep

-----------------------------------------------------------------------------
(* The type invariant.                                                     *)

\* The steps of a release that run no script leave its state alone.
LEMMA ReleaseSteps ==
    ASSUME TypeOK, [Next]_vars
    PROVE  \/ (ScriptStep \/ \E p \in Platforms : StartScript(p)) /\ UNCHANGED gitVars
           \/ UNCHANGED <<files, platform, at, shell, before>> /\ litter' \in BOOLEAN
<1>1. ASSUME UNCHANGED prebuildVars
      PROVE  UNCHANGED <<files, platform, at, shell, before>> /\ litter' \in BOOLEAN
  BY <1>1 DEF prebuildVars, TypeOK, PrebuildTypeOK
<1>2. CASE \E p \in Platforms : RunScript(p)
  BY <1>2 DEF RunScript
<1>3. CASE ContinueScript
  BY <1>3 DEF ContinueScript
<1>4. CASE StartRelease \/ BuildDarwin
  BY <1>4 DEF StartRelease, BuildDarwin
<1>5. CASE VerifyPrebuilds \/ (\E v \in Versions : NpmVersion(v)) \/ CheckTag \/ NpmPublish
           \/ GitPush \/ AbortRelease \/ OthersPush \/ UNCHANGED vars
  BY <1>1, <1>5 DEF VerifyPrebuilds, NpmVersion, CheckTag, NpmPublish, GitPush, AbortRelease,
                    OthersPush, vars
<1>6. CASE TidyUp
  BY <1>6 DEF TidyUp
<1> QED
  BY <1>2, <1>3, <1>4, <1>5, <1>6 DEF Next

-----------------------------------------------------------------------------
(* Versions and tags.                                                      *)

\* TagsAndVersionsAgree holds because a release publishes only a version it has
\* tagged, and pushes only one it has published.
Released ==
    /\ step \in {"publish", "push"} => version \in tags
    /\ step = "push" => version \in published
    /\ originTags \subseteq published /\ published \subseteq tags

LEMMA ReleasedInductive ==
    ASSUME Released, [Next]_vars
    PROVE  Released'
<1>1. CASE (\E p \in Platforms : RunScript(p)) \/ ContinueScript \/ UNCHANGED vars
  BY <1>1 DEF RunScript, ContinueScript, gitVars, vars, Released
<1>2. CASE StartRelease \/ BuildDarwin \/ VerifyPrebuilds \/ AbortRelease
  BY <1>2 DEF StartRelease, BuildDarwin, VerifyPrebuilds, AbortRelease, gitVars, Released
<1>3. CASE \E v \in Versions : NpmVersion(v)
  BY <1>3 DEF NpmVersion, Released
<1>4. CASE CheckTag
  BY <1>4 DEF CheckTag, TagIsHead, gitVars, Released
<1>5. CASE NpmPublish
  BY <1>5 DEF NpmPublish, AfterFailedPublish, Released
<1>6. CASE GitPush
  BY <1>6 DEF GitPush, Released
<1>7. CASE OthersPush \/ TidyUp
  BY <1>7 DEF OthersPush, TidyUp, Released
<1> QED
  BY <1>1, <1>2, <1>3, <1>4, <1>5, <1>6, <1>7 DEF Next

LEMMA ReleaseTypes ==
    ASSUME TypeOK, Released, [Next]_vars
    PROVE  /\ step' \in {"idle", "linux", "darwin", "version", "checkTag", "publish", "push"}
           /\ version' \in Versions \cup {None}
           /\ dirty' \in BOOLEAN /\ moved' \in BOOLEAN
           /\ tags' \subseteq Versions
<1>1. CASE (\E p \in Platforms : RunScript(p)) \/ ContinueScript \/ UNCHANGED vars
  BY <1>1 DEF RunScript, ContinueScript, gitVars, vars, TypeOK
<1>2. CASE StartRelease \/ BuildDarwin \/ VerifyPrebuilds \/ CheckTag \/ AbortRelease
  BY <1>2 DEF StartRelease, BuildDarwin, VerifyPrebuilds, CheckTag, AbortRelease, gitVars,
              TypeOK
<1>3. CASE \E v \in Versions : NpmVersion(v)
  BY <1>3 DEF NpmVersion, TypeOK
<1>4. CASE NpmPublish
  BY <1>4 DEF NpmPublish, AfterFailedPublish, TypeOK
<1>5. CASE GitPush
  BY <1>5 DEF GitPush, TypeOK
<1>6. CASE OthersPush \/ TidyUp
  BY <1>6 DEF OthersPush, TidyUp, TypeOK
<1> QED
  BY <1>1, <1>2, <1>3, <1>4, <1>5, <1>6 DEF Next

\* What TypeOK needs to be inductive.
Typed == TypeOK /\ Checked /\ Released

LEMMA TypedInductive == Typed /\ [Next]_vars => Typed'
<1> SUFFICES ASSUME TypeOK, Checked, Released, [Next]_vars
             PROVE  Typed'
  BY DEF Typed
<1>1. Checked'
  BY ReleaseSteps, ScriptKeepsChecked DEF Checked, f
<1>2. PrebuildTypeOK'
  BY ReleaseSteps, ScriptTypes DEF TypeOK, PrebuildTypeOK
<1>3. Released'
  BY ReleasedInductive
<1> QED
  BY <1>1, <1>2, <1>3, ReleaseTypes DEF Typed, TypeOK, Released

LEMMA InitTyped == Init => Typed
<1> SUFFICES ASSUME Init
             PROVE  Typed
  OBVIOUS
<1>1. NoFiles \in Directories /\ [NoFiles EXCEPT !.target = "prior"] \in Directories
      /\ Unset \in ShellVariables
  BY DEF NoFiles, Unset, Directories, ShellVariables, Artifacts, Staged
<1>2. PrebuildTypeOK
  BY <1>1 DEF Init, PrebuildInit, PrebuildTypeOK, Artifacts
<1> QED
  BY <1>2 DEF Init, PrebuildInit, Typed, TypeOK, Checked, Released, None

LEMMA AlwaysTyped == Spec => []Typed
<1> QED
  BY InitTyped, TypedInductive, PTL DEF Spec

\* TypeOK (Release): what is installed comes from a validated staging directory, and
\* only versions that exist are tagged, published or pushed.
THEOREM TypeCorrect == Spec => []TypeOK
<1>1. Typed => TypeOK
  BY DEF Typed
<1> QED
  BY <1>1, AlwaysTyped, PTL

\* TagsAndVersionsAgree (Release): origin has no tag whose version the registry lacks,
\* the registry no version that was not tagged, whatever fails between the two.
THEOREM TagsAgree == Spec => []TagsAndVersionsAgree
<1>1. Typed => TagsAndVersionsAgree
  BY DEF Typed, Released, TagsAndVersionsAgree
<1> QED
  BY <1>1, AlwaysTyped, PTL

-----------------------------------------------------------------------------
(* What the scripts keep.                                                  *)

\* The script's own variables tell what it made: mktemp prints the name of a directory
\* it created, and the directories are removed before their names are forgotten.
Tracked ==
    /\ f.stage # "none" => shell.stage
    /\ f.backup # "none" => f.root
    /\ f.root => shell.root
    /\ at = "stage" => f.stage = "none"
    /\ at \in Commands \ {"stage", "test", "commit"} => shell.stage

\* The prior prebuild is in its place and nothing will take it away, or it is in the
\* backup, whose root the script knows.
Intact == f.target = before /\ f.backup = "none" /\ ~shell.undo
Kept == f.backup = before /\ shell.root

\* Until the commit, by what was found.
Uncommitted ==
    /\ before \in {"none", "empty", "prior"}
    /\ at \in {"stage", "generate", "validate"} => f.target = before /\ f.backup = "none"
    /\ at \in {"test", "commit"} => f.target = "candidate"
    /\ at = "test" => platform = "darwin"
    /\ at = "commit" /\ platform = "linux" => f.stage = "none"
    /\ at \in Commands => ~shell.exiting /\ ~shell.preserve /\ ~shell.unclean
    /\ at \in Cleanup => shell.exiting

FoundNone ==
    /\ f.backup = "none"
    /\ f.target = "none" \/ shell.undo
    /\ at \notin {"mktemp", "backup", "putBack"}
    /\ platform = "linux" \/ at = "install" => shell.undo

FoundPrior ==
    /\ platform = "linux" => ~shell.undo
    /\ Intact \/ Kept
    /\ at \in {"stage", "generate", "validate", "mktemp", "backup"} => Intact
    /\ at = "backup" => f.root /\ shell.root
    /\ at \in {"arm", "install", "test", "commit", "putBack"} => Kept
    /\ at = "rmRoot" => Intact \/ shell.preserve

\* A mv that renamed the backup into place and failed all the same leaves the prior
\* prebuild to the rm that undoes an installation: only build-darwin-prebuild.sh runs
\* both, and its status says so.
Exposed ==
    /\ ~(LateFailures \subseteq {"linux"}) /\ platform = "darwin"
    /\ \/ at = "rmRoot" /\ shell.preserve
       \/ at \in {"rmUncommitted", "rmStage", "done", "failed"} /\ shell.unclean
       \/ at = "dead"

\* After the commit no step of the cleanup touches the target.
Committed ==
    /\ f.target = "candidate"
    /\ ~shell.preserve
    /\ at \notin Commands \cup {"putBack"}

\* What a cleanup has done so far, unless one of its commands failed.
AfterStage == {"done", "built", "failed"} \cup
    IF platform = "linux" THEN {"rmInstalled", "putBack", "rmRoot", "rmUncommitted"} ELSE {}
AfterRoot == {"rmUncommitted", "done", "built", "failed"} \cup
    IF platform = "linux" THEN {} ELSE {"rmStage"}
AfterUncommitted == AfterRoot \ {"rmUncommitted"}

Cleaned ==
    ~shell.unclean =>
        /\ at \in AfterStage => f.stage = "none"
        /\ at \in AfterRoot => f.backup = "none" /\ ~f.root
        /\ at \in AfterRoot /\ ~shell.committed /\ before # "none" => Intact
        /\ at \in AfterUncommitted /\ ~shell.committed => f.target = before

ScriptInv ==
    at # "idle" =>
        /\ Tracked /\ Cleaned
        /\ ~shell.committed =>
              /\ Uncommitted
              /\ before = "none" => FoundNone
              /\ before # "none" => FoundPrior \/ Exposed
        /\ shell.committed => Committed
        /\ at = "built" => shell.committed /\ ~shell.unclean


LEMMA CommandEffect ==
    ASSUME TypeOK, NEW here, NEW effect, NEW next, Command(here, effect, next)
    PROVE  /\ at = here /\ UNCHANGED <<platform, before>>
           /\ \/ f' = effect /\ at' = next
              \/ f' \in {f, effect} /\ at' = "exit"
BY DEF Command, f, TypeOK, PrebuildTypeOK

LEMMA CleanupCommandEffect ==
    ASSUME TypeOK, NEW effect, NEW ruins, NEW ok, NEW failed, NEW next,
           CleanupCommand(effect, ruins, ok, failed, next), UNCHANGED platform
    PROVE  /\ at' = next
           /\ \/ f' = effect /\ shell' = ok
              \/ f' \in ruins /\ shell' = failed
BY DEF CleanupCommand, f, TypeOK, PrebuildTypeOK

\* Steps other than those of the cleanup.
LEMMA CommandsKeep ==
    ASSUME TypeOK, Checked, ScriptInv,
           \/ \E p \in Platforms : StartScript(p)
           \/ Stage \/ Generate \/ Validate \/ MakeBackupRoot \/ Backup \/ Arm \/ Install
           \/ TestPrebuild \/ Commit \/ OnExit \/ Signal \/ Kill
    PROVE  ScriptInv'
<1> USE DEF ScriptInv, Tracked, Cleaned, Uncommitted, FoundNone, FoundPrior,
           Exposed, Intact, Kept, Committed, AfterStage, AfterRoot, AfterUncommitted,
           Commands, Cleanup
<1>t. /\ f \in Directories /\ shell \in ShellVariables /\ platform \in Platforms
      /\ files \in [Platforms -> Directories]
  BY DEF f, TypeOK, PrebuildTypeOK
<1>f. /\ \A s : /\ [f EXCEPT !.stage = s].stage = s
              /\ [f EXCEPT !.stage = s].target = f.target
              /\ [f EXCEPT !.stage = s].backup = f.backup
              /\ [f EXCEPT !.stage = s].root = f.root
      /\ \A s : [f EXCEPT !.root = s] = [target |-> f.target, stage |-> f.stage,
                                         backup |-> f.backup, root |-> s]
  BY <1>t DEF Directories
<1>s. \A b : /\ [shell EXCEPT !.stage = b] =
                 [stage |-> b, root |-> shell.root, committed |-> shell.committed,
                  undo |-> shell.undo, preserve |-> shell.preserve,
                  unclean |-> shell.unclean, exiting |-> shell.exiting]
             /\ [shell EXCEPT !.root = b] =
                 [stage |-> shell.stage, root |-> b, committed |-> shell.committed,
                  undo |-> shell.undo, preserve |-> shell.preserve,
                  unclean |-> shell.unclean, exiting |-> shell.exiting]
  BY <1>t DEF ShellVariables
<1>1. CASE \E p \in Platforms : StartScript(p)
  <2>1. PICK p \in Platforms : StartScript(p)
    BY <1>1
  <2>2. f' = [NoFiles EXCEPT !.target = before'] /\ before' \in {"none", "empty", "prior"}
    BY <2>1, <1>t DEF StartScript, HoldsFiles, f
  <2>3. /\ f'.target = before' /\ f'.stage = "none" /\ f'.backup = "none" /\ ~f'.root
        /\ shell' = [Unset EXCEPT !.undo = p = "linux" /\ before' = "none"]
        /\ at' = "stage" /\ platform' = p
    BY <2>1, <2>2 DEF StartScript, NoFiles
  <2> QED
    BY <2>2, <2>3 DEF Unset
<1>2. CASE Stage
  <2>1. /\ at = "stage" /\ UNCHANGED <<platform, before>>
        /\ \/ f' = [f EXCEPT !.stage = "empty"] /\ at' = "generate"
           \/ f' \in {f, [f EXCEPT !.stage = "empty"]} /\ at' = "exit"
    BY <1>2, CommandEffect DEF Stage
  <2>2. shell' = [shell EXCEPT !.stage = f'.stage = "empty"]
    BY <1>2, <2>1 DEF Stage, f
  <2>3. /\ shell'.root = shell.root /\ shell'.committed = shell.committed
        /\ shell'.undo = shell.undo /\ shell'.preserve = shell.preserve
        /\ shell'.unclean = shell.unclean /\ shell'.exiting = shell.exiting
        /\ shell'.stage = (f'.stage = "empty")
    BY <2>2, <1>s
  <2>4. /\ f'.target = f.target /\ f'.backup = f.backup /\ f'.root = f.root
        /\ f'.stage \in {"none", "empty"}
        /\ at' = "generate" => f'.stage = "empty"
        /\ f.stage = "none"
    BY <2>1, <1>f
  <2> QED
    BY <2>1, <2>3, <2>4
<1>3. CASE Generate
  <2>1. PICK result \in {"empty", "candidate", "bad"} :
            Command("generate", [f EXCEPT !.stage = result], "validate")
    BY <1>3 DEF Generate
  <2>2. /\ at = "generate" /\ UNCHANGED <<platform, before, shell>>
        /\ \/ f' = [f EXCEPT !.stage = result] /\ at' = "validate"
           \/ f' \in {f, [f EXCEPT !.stage = result]} /\ at' = "exit"
    BY <1>3, <2>1, CommandEffect DEF Generate
  <2> QED
    BY <2>2, <1>f
<1>4. CASE Validate
  BY <1>4 DEF Validate, Assign, IsCandidate, Exists, f
<1>5. CASE MakeBackupRoot
  <2>1. /\ at = "mktemp" /\ UNCHANGED <<platform, before>>
        /\ \/ f' = [f EXCEPT !.root = TRUE] /\ at' = "backup"
           \/ f' \in {f, [f EXCEPT !.root = TRUE]} /\ at' = "exit"
    BY <1>5, CommandEffect DEF MakeBackupRoot
  <2>2. shell' = [shell EXCEPT !.root = f'.root]
    BY <1>5, <2>1 DEF MakeBackupRoot, f
  <2>3. /\ f'.target = f.target /\ f'.stage = f.stage /\ f'.backup = f.backup
        /\ f'.root = f.root \/ f'.root
    BY <2>1, <1>f
  <2>4. /\ shell'.root = f'.root /\ shell'.stage = shell.stage
        /\ shell'.committed = shell.committed /\ shell'.undo = shell.undo
        /\ shell'.preserve = shell.preserve /\ shell'.unclean = shell.unclean
        /\ shell'.exiting = shell.exiting
    BY <2>2, <1>s
  <2>5. at' = "backup" => f'.root
    BY <2>1, <1>f
  <2> QED
    BY <2>1, <2>3, <2>4, <2>5
<1>6. CASE Backup
  <2> DEFINE gone == [f EXCEPT !.backup = f.target, !.target = "none"]
  <2>1. /\ at = "backup" /\ UNCHANGED <<platform, before, shell>>
        /\ \/ f' = gone /\ at' = "arm"
           \/ f' \in {f, gone} /\ at' = "exit"
    BY <1>6, CommandEffect DEF Backup
  <2>2. /\ gone.target = "none" /\ gone.backup = f.target /\ gone.stage = f.stage
        /\ gone.root = f.root
    BY <1>t DEF Directories
  <2> HIDE DEF gone
  <2>3. /\ ~shell.committed /\ before # "none" /\ Intact /\ f.root /\ shell.root
        /\ shell.stage
    BY <2>1
  <2>4. CASE f' = f /\ at' = "exit"
    BY <2>1, <2>3, <2>4
  <2>5. CASE f' = gone
    <3>1. Kept' /\ Tracked'
      BY <2>1, <2>2, <2>3, <2>5
    <3>2. Uncommitted' /\ FoundPrior' /\ Cleaned'
      BY <2>1, <2>2, <2>3, <2>5, <3>1
    <3> QED
      BY <2>1, <2>3, <3>1, <3>2
  <2>6. f' = gone \/ (f' = f /\ at' = "exit")
    BY <2>1
  <2> HIDE DEF ScriptInv
  <2> QED
    BY <2>4, <2>5, <2>6
<1>7. CASE Arm
  <2>1. shell' = [stage |-> shell.stage, root |-> shell.root, committed |-> shell.committed,
                  undo |-> shell.undo \/ platform = "darwin", preserve |-> shell.preserve,
                  unclean |-> shell.unclean, exiting |-> shell.exiting]
    BY <1>7, <1>t DEF Arm, Assign, ShellVariables
  <2> QED
    BY <1>7, <2>1, <1>t DEF Arm, Assign, f
<1>8. CASE Install
  <2> DEFINE left == IF platform = "linux" THEN "none" ELSE "empty"
             next == IF platform = "linux" THEN "commit" ELSE "test"
             effect == [f EXCEPT !.target = f.stage, !.stage = left]
  <2>1. /\ at = "install" /\ UNCHANGED <<platform, before, shell>>
        /\ \/ f' = effect /\ at' = next
           \/ f' \in {f, effect} /\ at' = "exit"
    BY <1>8, CommandEffect DEF Install
  <2>2. /\ effect.target = f.stage /\ effect.stage = left /\ effect.backup = f.backup
        /\ effect.root = f.root
    BY <1>t DEF Directories
  <2>3. f.stage = "candidate"
    BY <2>1 DEF Checked
  <2> HIDE DEF effect
  <2>4. /\ ~shell.committed /\ shell.stage
        /\ before = "none" => shell.undo /\ f.backup = "none"
        /\ before # "none" => Kept
    BY <2>1
  <2>5. CASE f' = f /\ at' = "exit"
    BY <2>1, <2>4, <2>5, <1>t
  <2>6. CASE f' = effect
    <3>1. Tracked' /\ Cleaned'
      BY <2>1, <2>2, <2>4, <2>6, <1>t
    <3>2. Uncommitted'
      <4>0. f'.target = effect.target /\ f'.stage = effect.stage
        BY <2>6
      <4>1. /\ f'.target = "candidate" /\ f'.stage = left
            /\ before' = before /\ shell' = shell /\ platform' = platform
            /\ at' \in {next, "exit"}
        BY <4>0, <2>1, <2>2, <2>3
      <4>2. /\ before \in {"none", "empty", "prior"}
            /\ ~shell.exiting /\ ~shell.preserve /\ ~shell.unclean
        BY <2>1, <2>4
      <4> QED
        BY <4>1, <4>2, <1>t
    <3>3. before' = "none" => FoundNone'
      BY <2>1, <2>2, <2>4, <2>6, <1>t
    <3>4. before' # "none" => FoundPrior'
      BY <2>1, <2>2, <2>4, <2>6, <1>t
    <3> QED
      BY <2>1, <2>4, <3>1, <3>2, <3>3, <3>4
  <2> QED
    BY <2>1, <2>5, <2>6
<1>9. CASE TestPrebuild
  <2>1. /\ at = "test" /\ UNCHANGED <<platform, before, shell>>
        /\ f' = f /\ at' \in {"commit", "exit"}
    BY <1>9, CommandEffect DEF TestPrebuild
  <2> QED
    BY <2>1
<1>10. CASE Commit
  <2>1. shell' = [stage |-> shell.stage /\ platform = "darwin", root |-> shell.root,
                  committed |-> TRUE, undo |-> shell.undo, preserve |-> shell.preserve,
                  unclean |-> shell.unclean, exiting |-> shell.exiting]
    BY <1>10, <1>t DEF Commit, Assign, ShellVariables
  <2> QED
    BY <1>10, <2>1, <1>t DEF Commit, Assign, FirstCleanup, f
<1>11. CASE OnExit
  <2>1. shell' = [stage |-> shell.stage, root |-> shell.root,
                  committed |-> shell.committed, undo |-> shell.undo, preserve |-> FALSE,
                  unclean |-> FALSE, exiting |-> TRUE]
    BY <1>11, <1>t DEF OnExit, Assign, ShellVariables
  <2> QED
    BY <1>11, <2>1, <1>t DEF OnExit, Assign, FirstCleanup, f
<1>12. CASE Signal
  BY <1>12 DEF Signal, f
<1>13. CASE Kill
  BY <1>13 DEF Kill, Stopped, f
<1> QED
  BY <1>1, <1>2, <1>3, <1>4, <1>5, <1>6, <1>7, <1>8, <1>9, <1>10, <1>11, <1>12, <1>13

\* Steps of the cleanup.
LEMMA CleanupKeeps ==
    ASSUME TypeOK, ScriptInv, CleanupStep
    PROVE  ScriptInv'
<1> USE DEF ScriptInv, Tracked, Cleaned, Uncommitted, FoundNone, FoundPrior,
           Exposed, Intact, Kept, Committed, AfterStage, AfterRoot, AfterUncommitted,
           Commands, Cleanup
<1>t. /\ f \in Directories /\ shell \in ShellVariables /\ platform \in Platforms
      /\ UNCHANGED <<platform, before>>
      /\ f.root \in BOOLEAN
  BY DEF f, TypeOK, PrebuildTypeOK, CleanupStep, Directories
<1> DEFINE SameShell(sh) ==
             /\ sh.root = shell.root /\ sh.committed = shell.committed
             /\ sh.undo = shell.undo /\ sh.exiting = shell.exiting
<1>u. SameShell(Unclean) /\ Unclean.unclean /\ Unclean.stage = shell.stage
      /\ Unclean.preserve = shell.preserve
  BY <1>t DEF Unclean, ShellVariables
<1>k. ASSUME UNCHANGED <<files, shell>>
      PROVE  f' = f /\ UNCHANGED <<shell, platform, before>>
  BY <1>k, <1>t DEF f
<1>1. CASE RemoveStage
  <2> DEFINE next == IF platform = "linux" THEN "rmInstalled" ELSE "done"
             gone == [f EXCEPT !.stage = "none"]
             named == [shell EXCEPT !.stage = FALSE]
  <2>1. /\ at = "rmStage" /\ at' = next
        /\ \/ f' = gone /\ shell' = named
           \/ f' \in RuinedStage /\ shell' = Unclean
           \/ f' = f /\ shell' = shell /\ ~shell.stage
    BY <1>1, <1>t, <1>k, CleanupCommandEffect DEF RemoveStage, Skip
  <2>2. /\ gone.stage = "none" /\ gone.target = f.target /\ gone.backup = f.backup
        /\ gone.root = f.root
        /\ SameShell(named) /\ ~named.stage /\ named.preserve = shell.preserve
        /\ named.unclean = shell.unclean
    BY <1>t DEF Directories, ShellVariables
  <2> HIDE DEF gone, named
  <2>3. CASE f' = gone /\ shell' = named
    BY <2>1, <2>2, <2>3, <1>t
  <2>4. CASE f' \in RuinedStage /\ shell' = Unclean
    BY <2>1, <2>4, <1>t, <1>u, RuinFields
  <2>5. CASE f' = f /\ shell' = shell /\ ~shell.stage
    BY <2>1, <2>5, <1>t
  <2> HIDE DEF ScriptInv
  <2> QED
    BY <2>1, <2>3, <2>4, <2>5
<1>2. CASE RemoveInstalled
  <2> DEFINE gone == [f EXCEPT !.target = "none"]
             kept == [shell EXCEPT !.preserve = TRUE]
  <2>1. /\ at = "rmInstalled"
        /\ \/ Restores /\ f' = gone /\ at' = "putBack" /\ shell' = shell
           \/ Restores /\ f' \in RuinedTarget /\ at' = "rmRoot" /\ shell' = kept
           \/ /\ f' = f /\ shell' = shell
              /\ at' = IF Restores THEN "putBack" ELSE "rmRoot"
    BY <1>2, <1>t, <1>k DEF RemoveInstalled, Skip, f, TypeOK, PrebuildTypeOK
  <2>2. /\ gone.stage = f.stage /\ gone.backup = f.backup /\ gone.root = f.root
        /\ gone.target = "none"
        /\ SameShell(kept) /\ kept.preserve /\ kept.stage = shell.stage
        /\ kept.unclean = shell.unclean
    BY <1>t DEF Directories, ShellVariables
  <2>3. /\ Restores => ~shell.committed /\ before # "none" /\ Kept
        /\ ~shell.committed /\ before # "none" /\ ~Restores => Intact
    BY <2>1 DEF Restores, Exists
  <2> HIDE DEF gone, kept
  <2>4. CASE Restores /\ f' = gone /\ at' = "putBack" /\ shell' = shell
    BY <2>1, <2>2, <2>3, <2>4, <1>t
  <2>5. CASE Restores /\ f' \in RuinedTarget /\ at' = "rmRoot" /\ shell' = kept
    BY <2>1, <2>2, <2>3, <2>5, <1>t, RuinFields
  <2>6. CASE f' = f /\ shell' = shell /\ at' = IF Restores THEN "putBack" ELSE "rmRoot"
    BY <2>1, <2>3, <2>6, <1>t
  <2> HIDE DEF ScriptInv
  <2> QED
    BY <2>1, <2>4, <2>5, <2>6
<1>3. CASE PutBack
  <2> DEFINE back == [f EXCEPT !.target = f.backup, !.backup = "none"]
             kept == [shell EXCEPT !.preserve = TRUE]
  <2>1. /\ at = "putBack" /\ at' = "rmRoot"
        /\ \/ f' = back /\ shell' = Disarmed(shell)
           \/ f' = f /\ shell' = kept
           \/ platform \in LateFailures /\ f' = back /\ shell' = kept
    <3> DEFINE ruins == {f} \cup (IF platform \in LateFailures THEN {back} ELSE {})
    <3>1. \A g \in ruins : g = f \/ (platform \in LateFailures /\ g = back)
      OBVIOUS
    <3>2. at = "putBack" /\ CleanupCommand(back, ruins, Disarmed(shell), kept, "rmRoot")
      BY <1>3 DEF PutBack
    <3> HIDE DEF ruins, back, kept
    <3> QED
      BY <1>t, <3>1, <3>2, CleanupCommandEffect
  <2>2. /\ back.target = f.backup /\ back.backup = "none" /\ back.stage = f.stage
        /\ back.root = f.root
        /\ SameShell(kept) /\ kept.preserve /\ kept.stage = shell.stage
        /\ kept.unclean = shell.unclean
    BY <1>t DEF Directories, ShellVariables
  <2>3. LET sh == Disarmed(shell) IN
        /\ sh.stage = shell.stage /\ sh.root = shell.root /\ sh.committed = shell.committed
        /\ sh.preserve = shell.preserve /\ sh.unclean = shell.unclean
        /\ sh.exiting = shell.exiting
        /\ sh.undo = (platform = "linux" /\ shell.undo)
    BY <1>t DEF Disarmed, ShellVariables
  <2>4. /\ ~shell.committed /\ before # "none" /\ Kept
        /\ platform = "linux" => ~shell.undo
    BY <2>1
  <2>5. platform \in LateFailures => platform = "linux" \/ ~(LateFailures \subseteq {"linux"})
    BY <1>t
  <2> HIDE DEF back, kept
  <2>6. CASE f' = back /\ shell' = Disarmed(shell)
    BY <2>1, <2>2, <2>3, <2>4, <2>6, <1>t
  <2>7. CASE f' = f /\ shell' = kept
    BY <2>1, <2>2, <2>4, <2>7, <1>t
  <2>8. CASE platform \in LateFailures /\ f' = back /\ shell' = kept
    BY <2>1, <2>2, <2>4, <2>5, <2>8, <1>t
  <2> HIDE DEF ScriptInv
  <2> QED
    BY <2>1, <2>6, <2>7, <2>8
<1>4. CASE RemoveBackupRoot
  <2> DEFINE gone == [f EXCEPT !.root = FALSE, !.backup = "none"]
             named == [shell EXCEPT !.root = FALSE]
             told == [shell EXCEPT !.unclean = shell.unclean \/ shell.preserve]
  <2>1. /\ at = "rmRoot" /\ at' = "rmUncommitted"
        /\ \/ RemovesRoot /\ f' = gone /\ shell' = named
           \/ RemovesRoot /\ f' \in RuinedBackup \cup {gone} /\ shell' = Unclean
           \/ ~RemovesRoot /\ f' = f /\ shell' = told
    <3>1. CASE RemovesRoot
      <4>1. at = "rmRoot" /\ CleanupCommand(gone, RuinedBackup \cup {gone}, named, Unclean,
                                             "rmUncommitted")
        BY <1>4, <3>1 DEF RemoveBackupRoot
      <4> HIDE DEF gone, named, told
      <4> QED
        BY <3>1, <4>1, <1>t, CleanupCommandEffect
    <3>2. CASE ~RemovesRoot
      <4>1. UNCHANGED files
        BY <1>4, <3>2 DEF RemoveBackupRoot
      <4>2. f' = f
        BY <4>1, <1>t DEF f
      <4> QED
        BY <1>4, <3>2, <4>2 DEF RemoveBackupRoot
    <3> QED
      BY <3>1, <3>2
  <2>2. /\ gone.target = f.target /\ gone.stage = f.stage /\ gone.backup = "none"
        /\ ~gone.root
        /\ named.stage = shell.stage /\ ~named.root /\ named.undo = shell.undo
        /\ named.committed = shell.committed /\ named.preserve = shell.preserve
        /\ named.unclean = shell.unclean /\ named.exiting = shell.exiting
        /\ SameShell(told) /\ told.stage = shell.stage /\ told.preserve = shell.preserve
        /\ told.unclean = (shell.unclean \/ shell.preserve)
    BY <1>t DEF Directories, ShellVariables
  <2>3. RemovesRoot = (shell.root /\ ~shell.preserve)
    BY DEF RemovesRoot
  <2> HIDE DEF gone, named, told
  <2>4. CASE RemovesRoot /\ f' = gone /\ shell' = named
    BY <2>1, <2>2, <2>3, <2>4, <1>t
  <2>5. CASE RemovesRoot /\ f' \in RuinedBackup \cup {gone} /\ shell' = Unclean
    BY <2>1, <2>2, <2>3, <2>5, <1>t, <1>u, RuinFields
  <2>6. CASE ~RemovesRoot /\ f' = f /\ shell' = told
    BY <2>1, <2>2, <2>3, <2>6, <1>t
  <2> HIDE DEF ScriptInv
  <2> QED
    BY <2>1, <2>4, <2>5, <2>6
<1>5. CASE RemoveUncommitted
  <2> DEFINE next == IF platform = "linux" THEN "done" ELSE "rmStage"
             gone == [f EXCEPT !.target = "none"]
             removes == ~shell.committed /\ shell.undo /\ f.target # "none"
  <2>1. /\ at = "rmUncommitted" /\ at' = next
        /\ \/ removes /\ f' = gone /\ shell' = shell
           \/ removes /\ f' \in RuinedTarget /\ shell' = Unclean
           \/ ~removes /\ f' = f /\ shell' = shell
    BY <1>5, <1>t, <1>k, CleanupCommandEffect DEF RemoveUncommitted, Skip, Exists
  <2>2. /\ gone.stage = f.stage /\ gone.backup = f.backup /\ gone.root = f.root
        /\ gone.target = "none"
    BY <1>t DEF Directories
  <2>3. removes = (~shell.committed /\ shell.undo /\ f.target # "none")
    OBVIOUS
  <2> HIDE DEF gone, removes
  <2>4. CASE removes /\ f' = gone /\ shell' = shell
    BY <2>1, <2>2, <2>3, <2>4, <1>t
  <2>5. CASE removes /\ f' \in RuinedTarget /\ shell' = Unclean
    <3>1. /\ f'.stage = f.stage /\ f'.backup = f.backup /\ f'.root = f.root
          /\ SameShell(shell') /\ shell'.unclean /\ shell'.stage = shell.stage
          /\ shell'.preserve = shell.preserve
      BY <2>5, <1>t, <1>u, RuinFields
    <3>2. Tracked' /\ Cleaned' /\ (shell'.committed <=> shell.committed)
      BY <2>1, <3>1, <1>t
    <3>3. Uncommitted' /\ (before' = "none" => FoundNone')
      BY <2>1, <2>3, <2>5, <3>1, <1>t
    <3>4. before' # "none" => FoundPrior' \/ Exposed'
      BY <2>1, <2>3, <2>5, <3>1, <1>t
    <3> QED
      BY <2>1, <2>3, <2>5, <3>2, <3>3, <3>4
  <2>6. CASE ~removes /\ f' = f /\ shell' = shell
    BY <2>1, <2>3, <2>6, <1>t
  <2> HIDE DEF ScriptInv
  <2> QED
    BY <2>1, <2>4, <2>5, <2>6
<1>6. CASE Finish
  BY <1>6, <1>t, <1>k DEF Finish, CleanupFailed
<1> QED
  BY <1>1, <1>2, <1>3, <1>4, <1>5, <1>6 DEF CleanupStep

LEMMA ScriptInvInductive ==
    ASSUME Typed, ScriptInv, [Next]_vars
    PROVE  ScriptInv'
<1>1. CASE ScriptStep \/ \E p \in Platforms : StartScript(p)
  BY <1>1, CommandsKeep, CleanupKeeps DEF Typed, ScriptStep
<1>2. CASE UNCHANGED <<files, platform, at, shell, before>>
  BY <1>2 DEF ScriptInv, Tracked, Cleaned, Uncommitted, FoundNone, FoundPrior, Exposed,
              Intact, Kept, Committed, AfterStage, AfterRoot, AfterUncommitted, f
<1> QED
  BY <1>1, <1>2, ReleaseSteps DEF Typed

LEMMA AlwaysScriptInv == Spec => []ScriptInv
<1>1. Init => ScriptInv
  BY DEF Init, PrebuildInit, ScriptInv
<1>2. Typed /\ ScriptInv /\ [Next]_vars => ScriptInv'
  BY ScriptInvInductive
<1> QED
  BY <1>1, <1>2, AlwaysTyped, PTL DEF Spec

\* PriorSurvives (Prebuild): if the mv of build-darwin-prebuild.sh never fails once it has
\* renamed, no failure of any other command, no signal and no crash of either script
\* loses the prebuild it found.
THEOREM PriorAlwaysSurvives ==
    ASSUME LateFailures \subseteq {"linux"}
    PROVE  Spec => []PriorSurvives
<1>1. ScriptInv => PriorSurvives
  BY DEF ScriptInv, FoundPrior, Exposed, Intact, Kept, PriorSurvives
<1> QED
  BY <1>1, AlwaysScriptInv, PTL

\* A typed record is its fields.
LEMMA DirectoryIs ==
    ASSUME NEW d \in Directories, NEW t, d.target = t, d.stage = "none", d.backup = "none",
           ~d.root
    PROVE  d = [NoFiles EXCEPT !.target = t]
<1> DEFINE e == [NoFiles EXCEPT !.target = t]
<1>0. NoFiles \in Directories /\ t \in Artifacts
  BY DEF NoFiles, Directories, Artifacts, Staged
<1>1. \A r \in Directories :
          r = [target |-> r.target, stage |-> r.stage, backup |-> r.backup, root |-> r.root]
  BY DEF Directories
<1>2. d.root = FALSE
  BY DEF Directories
<1>3. e \in Directories
  BY <1>0 DEF Directories
<1>4. e.target = t /\ e.stage = "none" /\ e.backup = "none" /\ e.root = FALSE
  BY DEF NoFiles
<1> HIDE DEF e
<1> QED
  BY <1>1, <1>2, <1>3, <1>4 DEF e

\* FailureRestores (Prebuild): a script that fails before its commit, and whose cleanup
\* does not, leaves exactly what it found.
THEOREM FailuresRestore == Spec => []FailureRestores
<1>1. Typed /\ ScriptInv => FailureRestores
  <2> SUFFICES ASSUME TypeOK, ScriptInv, at = "failed", ~shell.committed, ~shell.unclean
               PROVE  f = [NoFiles EXCEPT !.target = before]
    BY DEF Typed, FailureRestores
  <2>1. f \in Directories
    BY DEF f, TypeOK, PrebuildTypeOK
  <2>2. f.target = before /\ f.stage = "none" /\ f.backup = "none" /\ ~f.root
    BY DEF ScriptInv, Cleaned, AfterStage, AfterRoot, AfterUncommitted
  <2> QED
    BY <2>1, <2>2, DirectoryIs
<1> QED
  BY <1>1, AlwaysScriptInv, AlwaysTyped, PTL

LEMMA BuiltInstalls ==
    ASSUME TypeOK, ScriptInv
    PROVE  SuccessInstalls
<1>1. f \in Directories
  BY DEF f, TypeOK, PrebuildTypeOK
<1>2. at = "built" =>
          f.target = "candidate" /\ f.stage = "none" /\ f.backup = "none" /\ ~f.root
  BY DEF ScriptInv, Committed, Cleaned, AfterStage, AfterRoot
<1> QED
  BY <1>1, <1>2, DirectoryIs DEF SuccessInstalls

\* SuccessInstalls (Prebuild): a script that exits with status 0 has installed what it
\* generated and validated, and removed everything else.
THEOREM SuccessesInstall == Spec => []SuccessInstalls
<1>1. Typed /\ ScriptInv => SuccessInstalls
  BY BuiltInstalls DEF Typed
<1> QED
  BY <1>1, AlwaysScriptInv, AlwaysTyped, PTL

-----------------------------------------------------------------------------
(* What is published.                                                      *)

\* The release's steps say which scripts have succeeded.
Built ==
    /\ step = "linux" => platform = "linux"
    /\ step \in {"darwin", "version", "checkTag", "publish"} =>
          platform = "darwin" /\ files["linux"] = [NoFiles EXCEPT !.target = "candidate"]
    /\ step \in {"version", "checkTag", "publish"} => at = "built" /\ ~litter

\* A script touches the directories of its own platform, and nothing once it ended.
LEMMA ScriptsApart ==
    ASSUME TypeOK, ScriptStep
    PROVE  /\ at \notin {"idle", "built", "failed", "dead"}
           /\ platform' = platform
           /\ platform = "darwin" => files'["linux"] = files["linux"]
<1>1. CASE Stage \/ Generate \/ MakeBackupRoot \/ Backup \/ Install \/ TestPrebuild
  BY <1>1 DEF Stage, Generate, MakeBackupRoot, Backup, Install, TestPrebuild, Command,
              TypeOK, PrebuildTypeOK
<1>2. CASE Validate \/ Arm \/ Commit \/ OnExit
  BY <1>2 DEF Validate, Arm, Commit, OnExit, Assign
<1>3. CASE CleanupStep
  BY <1>3 DEF CleanupStep, RemoveStage, RemoveInstalled, PutBack, RemoveBackupRoot,
              RemoveUncommitted, Finish, CleanupCommand, Skip, TypeOK, PrebuildTypeOK
<1>4. CASE Signal \/ Kill
  BY <1>4 DEF Signal, Kill, Stopped, Commands, Cleanup
<1> QED
  BY <1>1, <1>2, <1>3, <1>4 DEF ScriptStep

LEMMA BuiltInductive ==
    ASSUME TypeOK, ScriptInv, Built, [Next]_vars
    PROVE  Built'
<1>1. CASE \E p \in Platforms : RunScript(p)
  BY <1>1 DEF RunScript, Built
<1>2. CASE ContinueScript
  BY <1>2, ScriptsApart DEF ContinueScript, Built
<1>3. CASE StartRelease
  BY <1>3 DEF StartRelease, StartScript, Built
<1>4. CASE BuildDarwin
  <2>1. files["linux"] = [NoFiles EXCEPT !.target = "candidate"]
    BY <1>4, BuiltInstalls DEF BuildDarwin, BuiltPrebuild, Built, SuccessInstalls, f
  <2>2. /\ files'["linux"] = [NoFiles EXCEPT !.target = files["linux"].target]
        /\ platform' = "darwin" /\ step' = "darwin"
    BY <1>4 DEF BuildDarwin, StartScript
  <2>3. files["linux"].target = "candidate"
    BY <2>1 DEF NoFiles
  <2> QED
    BY <2>2, <2>3 DEF Built
<1>5. CASE VerifyPrebuilds
  BY <1>5 DEF VerifyPrebuilds, BuiltPrebuild, ManifestIsExact, prebuildVars, Built
<1>6. CASE (\E v \in Versions : NpmVersion(v)) \/ CheckTag \/ NpmPublish \/ GitPush
  BY <1>6 DEF NpmVersion, CheckTag, NpmPublish, AfterFailedPublish, GitPush, prebuildVars,
              Built
<1>7. CASE AbortRelease \/ OthersPush \/ TidyUp \/ UNCHANGED vars
  BY <1>7 DEF AbortRelease, OthersPush, TidyUp, prebuildVars, vars, Built
<1> QED
  BY <1>1, <1>2, <1>3, <1>4, <1>5, <1>6, <1>7 DEF Next

\* PublishesWhatItBuilt (Release): whatever ran or failed before, a version is committed,
\* tagged and published only with both prebuilds as the release's own scripts left them.
THEOREM AlwaysPublishesWhatItBuilt == Spec => []PublishesWhatItBuilt
<1>1. Init => Built
  BY DEF Init, Built
<1>2. Typed /\ ScriptInv /\ Built /\ [Next]_vars => Built'
  BY BuiltInductive DEF Typed
<1>3. Typed /\ ScriptInv /\ Built => PublishesWhatItBuilt
  BY BuiltInstalls DEF Typed, Built, SuccessInstalls, f, PublishesWhatItBuilt
<1> QED
  BY <1>1, <1>2, <1>3, AlwaysScriptInv, AlwaysTyped, PTL DEF Spec
=============================================================================
