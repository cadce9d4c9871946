------------------------------- MODULE UiPackage -------------------------------
(***************************************************************************)
(* build_ui_package (ui_package.py): the sources of one commit are read    *)
(* from Git, the worktree is required to agree with them, they are built   *)
(* in a directory of the temporary folder, the package is read from it,    *)
(* the directory is removed and the artifact is written and renamed into   *)
(* place.                                                                  *)
(*                                                                         *)
(* The author edits and commits at any moment, and somebody may put an     *)
(* entry of their own in the place of the directory.  Before the directory *)
(* is opened that entry is taken for it.  Later it is not: the removal     *)
(* renames the entry to a random name, looks at what it has captured, and  *)
(* puts a stranger back.  Nobody guesses the random names.  The artifact   *)
(* goes to a new private directory.                                        *)
(***************************************************************************)
EXTENDS Naturals

CONSTANTS
    UiCommits,    \* commits of the platform repository
    MaxFaults     \* bound: failures, kills and edits of the sources

VARIABLES
    head, worktree,      \* during a build: HEAD, and the commit the worktree agrees with, or "edited"
    build,               \* the next step of the build
    pinned,              \* the commit whose sources were read
    content, package,    \* sources or results in the directory; what was read from it
    room, quarantine,    \* the entries under the directory's name and the random name:
                         \* own, the directory the build has made or has open, or foreign
    artifact,            \* what the output holds
    planted,             \* history: somebody has put an entry there since it was opened
    faults

temporary == <<content, room, quarantine, planted>>
packaging == <<head, worktree, build, pinned, package, artifact, temporary>>

\* Which of the commits a build begins at does not matter.
Start == CHOOSE c \in UiCommits : TRUE

PackageInit ==
    /\ head = Start /\ worktree = head
    /\ build = "idle" /\ pinned = "none" /\ package = "none" /\ artifact = "none"
    /\ content = "none" /\ room = "absent" /\ quarantine = "absent" /\ planted = FALSE

Failure == faults < MaxFaults /\ faults' = faults + 1
Building(s) == build = s /\ UNCHANGED <<head, worktree, faults>>
Then(s) == build' = s

\* What a build leaves under its random names no other build looks at.
Forget ==
    /\ head' = Start /\ worktree' = Start /\ pinned' = "none" /\ package' = "none" /\ content' = "none"
    /\ room' = "absent" /\ quarantine' = "absent" /\ planted' = FALSE

StartBuild ==
    /\ Then("pin") /\ Forget /\ artifact' = "none" /\ UNCHANGED faults

EndBuild ==
    /\ build \in {"done", "failed"} /\ Then("idle") /\ Forget
    /\ UNCHANGED <<artifact, faults>>

\* HEAD is resolved once; its objects do not change.
Pin ==
    /\ Building("pin") /\ pinned' = head /\ Then("verify")
    /\ UNCHANGED <<package, artifact, temporary>>

VerifyWorktree ==
    /\ Building("verify") /\ Then(IF worktree = pinned THEN "room" ELSE "failed")
    /\ UNCHANGED <<pinned, package, artifact, temporary>>

MakeDirectory ==
    /\ Building("room") /\ room' = "own" /\ Then("open")
    /\ UNCHANGED <<pinned, package, artifact, content, quarantine, planted>>

\* The directory that has the name now is the build's from here on.
OpenDirectory ==
    /\ Building("open") /\ room' = "own" /\ Then("copy")
    /\ UNCHANGED <<pinned, package, artifact, content, quarantine, planted>>

\* What cannot be opened is removed by its name, if it is an empty directory.
OpenFails ==
    /\ build = "open" /\ Then("failed")
    /\ IF room = "own" THEN Failure ELSE UNCHANGED faults
    /\ room' \in {room, "absent"}
    /\ UNCHANGED <<head, worktree, pinned, package, artifact, content, quarantine, planted>>

\* Mutant: the sources are copied from the worktree that was verified.
CopyWorktree ==
    /\ Building("copy") /\ content' = worktree /\ Then("compile")
    /\ UNCHANGED <<pinned, package, artifact, room, quarantine, planted>>

CopySources ==
    /\ Building("copy") /\ content' = pinned /\ Then("compile")
    /\ UNCHANGED <<pinned, package, artifact, room, quarantine, planted>>

\* npm ci, vite and tsc, each with its process group stopped.
Compile == Building("compile") /\ Then("read") /\ UNCHANGED <<pinned, package, artifact, temporary>>

ReadPackage ==
    /\ Building("read") /\ package' = content /\ Then("clear")
    /\ UNCHANGED <<pinned, artifact, temporary>>

-----------------------------------------------------------------------------
\* The files, through the descriptor of the directory.
Clear ==
    /\ Building("clear") /\ content' = "none" /\ Then("capture")
    /\ UNCHANGED <<pinned, package, artifact, room, quarantine, planted>>

Capture ==
    /\ Building("capture") /\ quarantine' = room /\ room' = "absent"
    /\ Then(IF room = "absent" THEN "failed" ELSE "judge")
    /\ UNCHANGED <<pinned, package, artifact, content, planted>>

\* Mutant: what was captured is removed unseen.
JudgeUnseen ==
    /\ Building("judge") /\ quarantine' = "absent" /\ UNCHANGED room
    /\ Then(IF package = "none" THEN "failed" ELSE "write")
    /\ UNCHANGED <<pinned, package, artifact, content, planted>>

Judge ==
    /\ Building("judge")
    /\ \/ /\ quarantine = "own" /\ quarantine' = "absent" /\ UNCHANGED room
          /\ Then(IF package = "none" THEN "failed" ELSE "write")
       \/ /\ quarantine # "own" /\ Then("failed")
          /\ IF room = "absent" THEN room' = quarantine /\ quarantine' = "absent"
             ELSE UNCHANGED <<room, quarantine>>
    /\ UNCHANGED <<pinned, package, artifact, content, planted>>

\* The temporary is whole before it is renamed, and removed if it is not.
WriteArtifact ==
    /\ Building("write") /\ artifact' = package /\ Then("done")
    /\ UNCHANGED <<pinned, package, temporary>>

BuildFails ==
    /\ Failure
    /\ \/ build \in {"pin", "verify", "room", "clear", "capture", "judge", "write"} /\ Then("failed")
       \/ build \in {"copy", "compile", "read"} /\ Then("clear")
    /\ UNCHANGED <<head, worktree, pinned, package, artifact, temporary>>

Package ==
    \/ Pin \/ VerifyWorktree \/ MakeDirectory \/ OpenDirectory \/ OpenFails \/ CopySources \/ Compile \/ ReadPackage
    \/ Clear \/ Capture \/ Judge \/ WriteArtifact \/ BuildFails

-----------------------------------------------------------------------------
\* Once the sources are copied an edit is not seen by this build.
EditSources ==
    /\ build \in {"pin", "verify", "room", "open", "copy"} /\ Failure
    /\ \/ worktree' = "edited" /\ UNCHANGED head
       \/ \E c \in UiCommits \ {head} : head' = c /\ worktree' = c
    /\ UNCHANGED <<build, pinned, package, artifact, temporary>>

Plant ==
    /\ room = "own" \/ build = "judge"
    /\ room' = "foreign" /\ planted' = (build # "open")
    /\ UNCHANGED <<head, worktree, build, pinned, package, artifact, content, quarantine, faults>>

Others == EditSources \/ Plant

PackageOK ==
    /\ head \in UiCommits /\ worktree \in UiCommits \cup {"edited"}
    /\ {pinned, content, package, artifact} \subseteq UiCommits \cup {"none", "edited"}
    /\ {room, quarantine} \subseteq {"absent", "own", "foreign"}

=============================================================================
