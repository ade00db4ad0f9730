------------------------------- MODULE Release -------------------------------
(***************************************************************************)
(* release.sh: both prebuilds are rebuilt, the package is checked, and a   *)
(* version is committed, tagged, published and pushed, in that order.  Any *)
(* command may fail with or without its effect and ends the release; a     *)
(* later release starts over.  The build scripts may also be run alone,    *)
(* and other people push to origin.                                        *)
(***************************************************************************)
EXTENDS Prebuild

CONSTANT Versions   \* bound: version numbers that may be released

ASSUME VersionsAssumption == Versions \subseteq Nat \ {0}

VARIABLES
    step,        \* the command of release.sh about to run
    version,     \* VERSION, of the commit at HEAD
    dirty,       \* the working tree has changes
    moved,       \* origin has commits HEAD lacks
    tags,        \* versions tagged at a commit of HEAD, here ...
    originTags,  \* ... and at origin
    published    \* versions in the npm registry

gitVars == <<version, dirty, moved, tags, originTags, published>>
vars == <<prebuildVars, step, gitVars>>

None == 0

TypeOK ==
    /\ PrebuildTypeOK
    /\ step \in {"idle", "linux", "darwin", "version", "checkTag", "publish", "push"}
    /\ version \in Versions \cup {None}
    /\ dirty \in BOOLEAN /\ moved \in BOOLEAN
    /\ tags \subseteq Versions /\ originTags \subseteq Versions /\ published \subseteq Versions

Init ==
    /\ PrebuildInit
    /\ step = "idle"
    /\ version = None
    /\ dirty \in BOOLEAN /\ moved \in BOOLEAN
    /\ tags = {} /\ originTags = {} /\ published = {}

\* A build script run by hand.
RunScript(p) ==
    /\ step = "idle"
    /\ StartScript(p)
    /\ UNCHANGED <<step, gitVars>>

ContinueScript == ScriptStep /\ UNCHANGED <<step, gitVars>>

\* The checks that the tree is clean and, after the fetch, not behind origin.
StartRelease ==
    /\ step = "idle"
    /\ ~dirty /\ ~moved
    /\ StartScript("linux")
    /\ step' = "linux"
    /\ UNCHANGED gitVars

\* Seeded fault: the status of the build scripts is ignored.
EndedScript == at \in {"built", "failed"}

BuiltPrebuild == at = "built"

BuildDarwin ==
    /\ step = "linux" /\ BuiltPrebuild
    /\ StartScript("darwin")
    /\ step' = "darwin"
    /\ UNCHANGED gitVars

\* verifyPrebuilds: under prebuilds/ are the files of both prebuilds and no other file;
\* directories without files are not listed.
ManifestIsExact ==
    /\ \A p \in Platforms :
          /\ files[p].target \in {"prior", "candidate"}
          /\ ~HoldsFiles(files[p].stage) /\ ~HoldsFiles(files[p].backup)
    /\ ~litter

VerifyPrebuilds ==
    /\ step = "darwin" /\ BuiltPrebuild /\ ManifestIsExact
    /\ step' = "version"
    /\ UNCHANGED <<prebuildVars, gitVars>>

\* npm version writes package.json, commits and tags; it may also be configured not
\* to tag.
NpmVersion(v) ==
    /\ step = "version"
    /\ v \notin tags /\ v # version
    /\ \/ dirty' = TRUE /\ step' = "idle" /\ UNCHANGED <<version, tags>>
       \/ /\ version' = v
          /\ tags' \in {tags, tags \cup {v}}
          /\ step' \in {"checkTag", "idle"}
          /\ UNCHANGED dirty
    /\ UNCHANGED <<prebuildVars, moved, originTags, published>>

\* git rev-parse --verify TAG^{}
TagIsHead == version \in tags

CheckTag ==
    /\ step = "checkTag"
    /\ step' = IF TagIsHead THEN "publish" ELSE "idle"
    /\ UNCHANGED <<prebuildVars, gitVars>>

\* Seeded fault: a failed publication does not end the release.
PushAnyway == "push"

AfterFailedPublish == "idle"

\* The registry takes a version once.
NpmPublish ==
    /\ step = "publish"
    /\ \/ version \notin published /\ published' = published \cup {version} /\ step' = "push"
       \/ published' \in {published, published \cup {version}} /\ step' = AfterFailedPublish
    /\ UNCHANGED <<prebuildVars, version, dirty, moved, tags, originTags>>

\* git push --atomic of HEAD and the tag: origin takes both or, when it has moved,
\* neither.
GitPush ==
    /\ step = "push"
    /\ \/ ~moved /\ originTags' = originTags \cup {version}
       \/ UNCHANGED originTags
    /\ step' = "idle"
    /\ UNCHANGED <<prebuildVars, version, dirty, moved, tags, published>>

\* release.sh fails, or is stopped, at any command.
AbortRelease ==
    /\ step # "idle" /\ Stopped
    /\ step' = "idle"
    /\ UNCHANGED <<prebuildVars, gitVars>>

\* Someone pushes to origin; the maintainer pulls, discards the changes a failed
\* command left, or removes the directories of a stopped script.
OthersPush ==
    /\ ~moved /\ moved' = TRUE
    /\ UNCHANGED <<prebuildVars, step, version, dirty, tags, originTags, published>>

TidyUp ==
    /\ step = "idle" /\ Stopped
    /\ dirty' = FALSE /\ moved' = FALSE /\ litter' = FALSE
    /\ UNCHANGED <<files, platform, at, shell, before, step, version, tags, originTags,
                   published>>

Next ==
    \/ \E p \in Platforms : RunScript(p)
    \/ ContinueScript
    \/ StartRelease \/ BuildDarwin \/ VerifyPrebuilds
    \/ \E v \in Versions : NpmVersion(v)
    \/ CheckTag \/ NpmPublish \/ GitPush \/ AbortRelease
    \/ OthersPush \/ TidyUp

Spec == Init /\ [][Next]_vars

-----------------------------------------------------------------------------
(* Safety.                                                                 *)

\* A package is published only with both prebuilds as this release built and tested
\* them, and no file that a stopped or failed run left under prebuilds/.
PublishesWhatItBuilt ==
    step \in {"version", "checkTag", "publish"} =>
        \A p \in Platforms : files[p] = [NoFiles EXCEPT !.target = "candidate"] /\ ~litter

\* The registry never has a version without a tag, and origin never has a tag without
\* its version in the registry: publication comes between the two.  When the push then
\* fails, the tag of a published version is here alone, to be pushed by hand.
TagsAndVersionsAgree == originTags \subseteq published /\ published \subseteq tags
=============================================================================
