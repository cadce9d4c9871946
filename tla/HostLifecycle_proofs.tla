-------------------------- MODULE HostLifecycle_proofs --------------------------
(***************************************************************************)
(* Theorems about a host and the application created next to it, for any   *)
(* number of operators, applications, commands, faults and UI commits.     *)
(* Nothing an operator does changes what the creation relies on, so IInv   *)
(* is an invariant of AppCreation and UiPackage, as HostLifecycle          *)
(* instantiates them.  HInv is the invariant of the operators' commands:   *)
(* the state has its type, a lock is held where it is worked under, and    *)
(* each operator's memory entitles it to its next step.                    *)
(***************************************************************************)
EXTENDS HostLifecycle, TLAPS

\* The package: while it is built the random name is free, and what is built is
\* the commit that was pinned.
Preparing == {"pin", "verify", "room"}
Compiling == {"copy", "compile", "read"}
Removing == {"clear", "capture"}

PackageInv ==
    /\ build \in Preparing => room = "absent"
    /\ build \in Preparing \cup {"open"} => ~planted
    /\ build \in Preparing \cup {"open"} \cup Compiling \cup Removing => quarantine = "absent"
    /\ build \in {"verify", "room", "open"} \cup Compiling => pinned \in UiCommits
    /\ build \in {"compile", "read"} => content \in UiCommits
    /\ build \in Preparing \cup {"open"} \cup Compiling => package = "none"
    /\ build \in Removing \cup {"judge"} => package \in UiCommits \cup {"none"}
    /\ build = "write" => package \in UiCommits
    /\ build = "done" => artifact \in UiCommits

\* Nothing goes on with a package but a finished one, nor past a living process.
Commanding == {"write", "spawn", "wait", "stop", "terminated", "killed", "stopped", "verify"}

StageInv ==
    /\ step \in Commanding \cup {"retire", "place"} => artifact \in UiCommits
    /\ step \in {"stopped", "verify", "retire", "place"} => group = {}

\* What the steps of an init know of the destination it has set aside.
Publishing == {"clear", "unplace", "put-back"}
Recovering == {"recover", "unstage", "return", "drop"}

FolderInv ==
    /\ kind = "create" => step \notin Recovering \cup Publishing \cup {"retire"}
    /\ kind = "init" /\ step \in {"resolve", "stage", "package",
       "retire"} \cup Commanding => retired = "absent"
    /\ kind = "init" /\ step \in (Commanding \ {"write"}) \cup {"retire",
       "place"} => stage["init"] = "app"
    /\ step = "return" => retired # "absent" /\ stage["init"] = "absent"
    /\ step = "drop" => retired = "empty" /\ dest # "absent" /\ stage["init"] = "absent"
    /\ kind = "init" /\ step \in Publishing \cup {"place"} => retired # "absent"
    /\ step = "unstage" => stage["init"] = "app"
    /\ step = "retire" => dest \notin Creation!Published
    /\ step \in {"clear", "unplace"} => dest \in Creation!Published
    /\ kind = "init" /\ stage["init"] = "partial" => step = "recover" \/ retired = "absent"

\* Not only when nobody works can the next init put the destination back.
Returnable ==
    given /\ (step \in {"idle", "recover"} \/ kind = "create") /\ dest = "absent"
          /\ retired = "empty" /\ ~torn
        => stage["init"] # "partial"

PackageSafe == Creation!PackageOK /\ PackageInv /\ Creation!StrangerKept
FoldersSafe == FolderInv /\ Returnable /\ Creation!DestinationKept
IInv == Creation!CreationOK /\ PackageSafe /\ StageInv /\ FoldersSafe

-----------------------------------------------------------------------------
LEMMA StartIsACommit == Creation!Start \in UiCommits
  BY SomeUiCommit DEF Creation!Start

LEMMA InitIInv == Creation!Init => IInv
  <1> SUFFICES ASSUME Creation!Init PROVE IInv
    OBVIOUS
  <1>1. PackageSafe
    BY StartIsACommit DEF Creation!Init, Creation!PackageInit, PackageSafe, PackageInv,
       Creation!PackageOK, Creation!StrangerKept, Preparing, Compiling, Removing
  <1>2. /\ dest \in {"absent", "empty", "author"} /\ retired = "absent" /\ step = "idle" /\ kind = "none"
        /\ stage = [k \in Creation!Creations |-> "absent"] /\ group = {} /\ taken = 0
        /\ wrote = (IF dest = "author" THEN 1 ELSE 0) /\ (given <=> dest # "absent")
    BY DEF Creation!Init
  <1>3. Creation!DestinationKept
    BY <1>2 DEF Creation!DestinationKept, Creation!Written
  <1>4. Creation!CreationOK
    BY <1>1, <1>2 DEF PackageSafe, Creation!CreationOK, Creation!Published
  <1>5. StageInv /\ FolderInv /\ Returnable
    BY <1>2 DEF StageInv, FolderInv, Returnable, Creation!Creations, Commanding, Publishing, Recovering
  <1> QED  BY <1>1, <1>3, <1>4, <1>5 DEF IInv, FoldersSafe

\* A step of the build: only it changes what PackageInv is about.
LEMMA PackageStep ==
  ASSUME PackageSafe,
         Creation!Package \/ Creation!Others \/ Creation!StartBuild \/ Creation!EndBuild
  PROVE  PackageSafe'
  <1> USE DEF PackageSafe, PackageInv, Creation!PackageOK, Creation!StrangerKept, Preparing,
     Compiling, Removing,
         Creation!Building, Creation!Then, Creation!Forget, Creation!Failure, Creation!temporary
  <1>1. CASE Creation!Pin
    BY <1>1 DEF Creation!Pin
  <1>2. CASE Creation!VerifyWorktree
    BY <1>2 DEF Creation!VerifyWorktree
  <1>3. CASE Creation!MakeDirectory
    BY <1>3 DEF Creation!MakeDirectory
  <1>4. CASE Creation!OpenDirectory
    BY <1>4 DEF Creation!OpenDirectory
  <1>5. CASE Creation!OpenFails
    BY <1>5 DEF Creation!OpenFails
  <1>6. CASE Creation!CopySources
    BY <1>6 DEF Creation!CopySources
  <1>7. CASE Creation!Compile
    BY <1>7 DEF Creation!Compile
  <1>8. CASE Creation!ReadPackage
    BY <1>8 DEF Creation!ReadPackage
  <1>9. CASE Creation!Clear
    BY <1>9 DEF Creation!Clear
  <1>10. CASE Creation!Capture
    BY <1>10 DEF Creation!Capture
  <1>11. CASE Creation!Judge
    BY <1>11 DEF Creation!Judge
  <1>12. CASE Creation!WriteArtifact
    BY <1>12 DEF Creation!WriteArtifact
  <1>13. CASE Creation!BuildFails
    BY <1>13 DEF Creation!BuildFails
  <1>14. CASE Creation!StartBuild
    BY <1>14, StartIsACommit DEF Creation!StartBuild
  <1>15. CASE Creation!EndBuild
    BY <1>15, StartIsACommit DEF Creation!EndBuild
  <1>16. CASE Creation!EditSources
    BY <1>16 DEF Creation!EditSources
  <1>17. CASE Creation!Plant
    BY <1>17 DEF Creation!Plant
  <1> QED  BY <1>1, <1>2, <1>3, <1>4, <1>5, <1>6, <1>7, <1>8, <1>9, <1>10, <1>11, <1>12, <1>13, <1>14, <1>15, <1>16, <1>17
           DEF Creation!Package, Creation!Others

\* A step that leaves the package alone.
LEMMA PackageKept == ASSUME PackageSafe, UNCHANGED Creation!packaging PROVE PackageSafe'
  BY DEF PackageSafe, PackageInv, Creation!PackageOK, Creation!StrangerKept, Preparing, Compiling,
     Removing, Creation!packaging, Creation!temporary

-----------------------------------------------------------------------------
\* The steps of the creation that leave the package alone.
LEMMA CreatorStep ==
  ASSUME IInv,
         \/ Creation!Recover \/ Creation!Removal \/ Creation!Return \/ Creation!Drop
         \/ Creation!Resolve \/ Creation!WriteStage \/ Creation!StageFails \/ Creation!Spawn
         \/ Creation!Runs \/ Creation!Wait \/ Creation!Stop \/ Creation!Terminated
         \/ Creation!Killed \/ Creation!Stopped \/ Creation!Verify \/ Creation!Retire
         \/ Creation!Place \/ Creation!Empty \/ Creation!Unplace \/ Creation!PutBack
         \/ Creation!Edit
         \/ \E k \in Creation!Creations : Creation!Begin(k)
  PROVE  IInv'
  <1> USE DEF IInv, Creation!CreationOK, StageInv, FoldersSafe, FolderInv, Returnable,
          Creation!DestinationKept, Creation!Written, Creation!Published, Commanding, Publishing,
          Recovering, Creation!Creations, Creation!folders, Creation!running, Creation!history,
          Creation!Here, Creation!To, Creation!NoFailure, Creation!Finish, Creation!Stage,
          Creation!Staged, Creation!Replaceable
  <1>1. CASE Creation!Recover
    <2>1. UNCHANGED Creation!packaging
      BY <1>1 DEF Creation!Recover
    <2>2. PackageSafe'
      BY <2>1, PackageKept
    <2>3. (Creation!CreationOK /\ StageInv /\ FoldersSafe)'
      BY <1>1, <2>1, <2>2 DEF Creation!Recover, PackageSafe, PackageInv, Creation!packaging
    <2> QED  BY <2>2, <2>3
  <1>2. CASE Creation!Removal
    <2>1. UNCHANGED Creation!packaging
      BY <1>2 DEF Creation!Removal
    <2>2. PackageSafe'
      BY <2>1, PackageKept
    <2>3. (Creation!CreationOK /\ StageInv /\ FoldersSafe)'
      BY <1>2, <2>1, <2>2 DEF Creation!Removal, PackageSafe, PackageInv, Creation!packaging
    <2> QED  BY <2>2, <2>3
  <1>3. CASE Creation!Return
    <2>1. UNCHANGED Creation!packaging
      BY <1>3 DEF Creation!Return
    <2>2. PackageSafe'
      BY <2>1, PackageKept
    <2>3. (Creation!CreationOK /\ StageInv /\ FoldersSafe)'
      BY <1>3, <2>1, <2>2 DEF Creation!Return, PackageSafe, PackageInv, Creation!packaging
    <2> QED  BY <2>2, <2>3
  <1>4. CASE Creation!Drop
    <2>1. UNCHANGED Creation!packaging
      BY <1>4 DEF Creation!Drop
    <2>2. PackageSafe'
      BY <2>1, PackageKept
    <2>3. (Creation!CreationOK /\ StageInv /\ FoldersSafe)'
      BY <1>4, <2>1, <2>2 DEF Creation!Drop, PackageSafe, PackageInv, Creation!packaging
    <2> QED  BY <2>2, <2>3
  <1>5. CASE Creation!Resolve
    <2>1. UNCHANGED Creation!packaging
      BY <1>5 DEF Creation!Resolve
    <2>2. PackageSafe'
      BY <2>1, PackageKept
    <2>3. (Creation!CreationOK /\ StageInv /\ FoldersSafe)'
      BY <1>5, <2>1, <2>2 DEF Creation!Resolve, PackageSafe, PackageInv, Creation!packaging
    <2> QED  BY <2>2, <2>3
  <1>6. CASE Creation!WriteStage
    <2>1. UNCHANGED Creation!packaging
      BY <1>6 DEF Creation!WriteStage
    <2>2. PackageSafe'
      BY <2>1, PackageKept
    <2>3. (Creation!CreationOK /\ StageInv /\ FoldersSafe)'
      BY <1>6, <2>1, <2>2 DEF Creation!WriteStage, PackageSafe, PackageInv, Creation!packaging
    <2> QED  BY <2>2, <2>3
  <1>7. CASE Creation!StageFails
    <2>1. UNCHANGED Creation!packaging
      BY <1>7 DEF Creation!StageFails
    <2>2. PackageSafe'
      BY <2>1, PackageKept
    <2>3. (Creation!CreationOK /\ StageInv /\ FoldersSafe)'
      BY <1>7, <2>1, <2>2 DEF Creation!StageFails, PackageSafe, PackageInv, Creation!packaging
    <2> QED  BY <2>2, <2>3
  <1>8. CASE Creation!Spawn
    <2>1. UNCHANGED Creation!packaging
      BY <1>8 DEF Creation!Spawn
    <2>2. PackageSafe'
      BY <2>1, PackageKept
    <2>3. (Creation!CreationOK /\ StageInv /\ FoldersSafe)'
      BY <1>8, <2>1, <2>2 DEF Creation!Spawn, PackageSafe, PackageInv, Creation!packaging
    <2> QED  BY <2>2, <2>3
  <1>9. CASE Creation!Runs
    <2>1. UNCHANGED Creation!packaging
      BY <1>9 DEF Creation!Runs
    <2>2. PackageSafe'
      BY <2>1, PackageKept
    <2>3. step' = step /\ (group = {} => group' = {}) /\ (StageInv /\ FoldersSafe)'
      BY <1>9, <2>1 DEF Creation!Runs, Creation!packaging
    <2>4. Creation!CreationOK'
      BY <1>9, <2>1, <2>2, <2>3 DEF Creation!Runs, PackageSafe, PackageInv, Creation!packaging
    <2> QED  BY <2>2, <2>3, <2>4
  <1>10. CASE Creation!Wait
    <2>1. UNCHANGED Creation!packaging
      BY <1>10 DEF Creation!Wait
    <2>2. PackageSafe'
      BY <2>1, PackageKept
    <2>3. (Creation!CreationOK /\ StageInv /\ FoldersSafe)'
      BY <1>10, <2>1, <2>2 DEF Creation!Wait, PackageSafe, PackageInv, Creation!packaging
    <2> QED  BY <2>2, <2>3
  <1>11. CASE Creation!Stop
    <2>1. UNCHANGED Creation!packaging
      BY <1>11 DEF Creation!Stop
    <2>2. PackageSafe'
      BY <2>1, PackageKept
    <2>3. (Creation!CreationOK /\ StageInv /\ FoldersSafe)'
      BY <1>11, <2>1, <2>2 DEF Creation!Stop, PackageSafe, PackageInv, Creation!packaging
    <2> QED  BY <2>2, <2>3
  <1>12. CASE Creation!Terminated
    <2>1. UNCHANGED Creation!packaging
      BY <1>12 DEF Creation!Terminated
    <2>2. PackageSafe'
      BY <2>1, PackageKept
    <2>3. (Creation!CreationOK /\ StageInv /\ FoldersSafe)'
      BY <1>12, <2>1, <2>2 DEF Creation!Terminated, PackageSafe, PackageInv, Creation!packaging
    <2> QED  BY <2>2, <2>3
  <1>13. CASE Creation!Killed
    <2>1. UNCHANGED Creation!packaging
      BY <1>13 DEF Creation!Killed
    <2>2. PackageSafe'
      BY <2>1, PackageKept
    <2>3. (Creation!CreationOK /\ StageInv /\ FoldersSafe)'
      BY <1>13, <2>1, <2>2 DEF Creation!Killed, PackageSafe, PackageInv, Creation!packaging
    <2> QED  BY <2>2, <2>3
  <1>14. CASE Creation!Stopped
    <2>1. UNCHANGED Creation!packaging
      BY <1>14 DEF Creation!Stopped
    <2>2. PackageSafe'
      BY <2>1, PackageKept
    <2>3. (Creation!CreationOK /\ StageInv /\ FoldersSafe)'
      BY <1>14, <2>1, <2>2 DEF Creation!Stopped, PackageSafe, PackageInv, Creation!packaging
    <2> QED  BY <2>2, <2>3
  <1>15. CASE Creation!Verify
    <2>1. UNCHANGED Creation!packaging
      BY <1>15 DEF Creation!Verify
    <2>2. PackageSafe'
      BY <2>1, PackageKept
    <2>3. (Creation!CreationOK /\ StageInv /\ FoldersSafe)'
      BY <1>15, <2>1, <2>2 DEF Creation!Verify, PackageSafe, PackageInv, Creation!packaging
    <2> QED  BY <2>2, <2>3
  <1>16. CASE Creation!Retire
    <2>1. UNCHANGED Creation!packaging
      BY <1>16 DEF Creation!Retire
    <2>2. PackageSafe'
      BY <2>1, PackageKept
    <2>3. (Creation!CreationOK /\ StageInv /\ FoldersSafe)'
      BY <1>16, <2>1, <2>2 DEF Creation!Retire, PackageSafe, PackageInv, Creation!packaging
    <2> QED  BY <2>2, <2>3
  <1>17. CASE Creation!Place
    <2>1. UNCHANGED Creation!packaging
      BY <1>17 DEF Creation!Place
    <2>2. PackageSafe'
      BY <2>1, PackageKept
    <2>3. (Creation!CreationOK /\ StageInv /\ FoldersSafe)'
      BY <1>17, <2>1, <2>2 DEF Creation!Place, PackageSafe, PackageInv, Creation!packaging
    <2> QED  BY <2>2, <2>3
  <1>18. CASE Creation!Empty
    <2>1. UNCHANGED Creation!packaging
      BY <1>18 DEF Creation!Empty
    <2>2. PackageSafe'
      BY <2>1, PackageKept
    <2>3. (Creation!CreationOK /\ StageInv /\ FoldersSafe)'
      BY <1>18, <2>1, <2>2 DEF Creation!Empty, PackageSafe, PackageInv, Creation!packaging
    <2> QED  BY <2>2, <2>3
  <1>19. CASE Creation!Unplace
    <2>1. UNCHANGED Creation!packaging
      BY <1>19 DEF Creation!Unplace
    <2>2. PackageSafe'
      BY <2>1, PackageKept
    <2>3. (Creation!CreationOK /\ StageInv /\ FoldersSafe)'
      BY <1>19, <2>1, <2>2 DEF Creation!Unplace, PackageSafe, PackageInv, Creation!packaging
    <2> QED  BY <2>2, <2>3
  <1>20. CASE Creation!PutBack
    <2>1. UNCHANGED Creation!packaging
      BY <1>20 DEF Creation!PutBack
    <2>2. PackageSafe'
      BY <2>1, PackageKept
    <2>3. (Creation!CreationOK /\ StageInv /\ FoldersSafe)'
      BY <1>20, <2>1, <2>2 DEF Creation!PutBack, PackageSafe, PackageInv, Creation!packaging
    <2> QED  BY <2>2, <2>3
  <1>21. CASE Creation!Edit
    <2>1. UNCHANGED Creation!packaging
      BY <1>21 DEF Creation!Edit
    <2>2. PackageSafe'
      BY <2>1, PackageKept
    <2>3. (Creation!CreationOK /\ StageInv /\ FoldersSafe)'
      BY <1>21, <2>1, <2>2 DEF Creation!Edit, PackageSafe, PackageInv, Creation!packaging
    <2> QED  BY <2>2, <2>3
  <1>22. CASE \E k \in Creation!Creations : Creation!Begin(k)
    <2>1. UNCHANGED Creation!packaging
      BY <1>22 DEF Creation!Begin
    <2>2. PackageSafe'
      BY <2>1, PackageKept
    <2>3. (Creation!CreationOK /\ StageInv /\ FoldersSafe)'
      BY <1>22, <2>1, <2>2 DEF Creation!Begin, PackageSafe, PackageInv, Creation!packaging
    <2> QED  BY <2>2, <2>3
  <1> QED  BY <1>1, <1>2, <1>3, <1>4, <1>5, <1>6, <1>7, <1>8, <1>9, <1>10, <1>11, <1>12, <1>13,
     <1>14, <1>15, <1>16, <1>17, <1>18, <1>19, <1>20, <1>21, <1>22

\* The steps that change the package, or throw it away.
LEMMA PackagerStep ==
  ASSUME IInv,
         \/ Creation!MakeStage \/ Creation!BuildPackage \/ Creation!Packaged \/ Creation!Meddle
         \/ Creation!RemovalFails \/ Creation!Kill
  PROVE  IInv'
  <1> USE DEF IInv, Creation!CreationOK, StageInv, FoldersSafe, FolderInv, Returnable,
          Creation!DestinationKept, Creation!Written, Creation!Published, Commanding, Publishing,
          Recovering, Creation!Creations, Creation!folders, Creation!running, Creation!history,
          Creation!Stage, Creation!Staged
  <1>1. CASE Creation!MakeStage
    <2>1. PackageSafe'
      BY <1>1, PackageStep DEF Creation!MakeStage
    <2> QED  BY <1>1, <2>1 DEF Creation!MakeStage, Creation!To, PackageSafe
  <1>2. CASE Creation!BuildPackage
    <2>1. PackageSafe'
      BY <1>2, PackageStep DEF Creation!BuildPackage
    <2> QED  BY <1>2, <2>1 DEF Creation!BuildPackage, PackageSafe
  <1>3. CASE Creation!Packaged
    <2>1. PackageSafe'
      BY <1>3, PackageStep DEF Creation!Packaged
    <2>2. UNCHANGED artifact /\ (build = "done" => artifact \in UiCommits)
      BY <1>3 DEF Creation!Packaged, Creation!EndBuild, PackageSafe, PackageInv
    <2> QED  BY <1>3, <2>1, <2>2 DEF Creation!Packaged, Creation!To, PackageSafe
  <1>4. CASE Creation!Meddle
    <2>1. PackageSafe'
      BY <1>4, PackageStep DEF Creation!Meddle
    <2> QED  BY <1>4, <2>1 DEF Creation!Meddle, PackageSafe
  <1>5. CASE Creation!RemovalFails \/ Creation!Kill
    <2>1. Creation!Abandoned /\ step # "idle" /\ group' \in {group, {}}
      BY <1>5 DEF Creation!RemovalFails, Creation!Kill
    <2>2. PackageSafe'
      BY <2>1, StartIsACommit DEF PackageSafe, PackageInv, Creation!PackageOK, Creation!StrangerKept,
         Preparing, Compiling, Removing, Creation!Abandoned, Creation!Forget
    <2>3. /\ step' = "idle" /\ kind' = "none"
          /\ UNCHANGED <<dest, retired, given, wrote, taken>>
      BY <2>1 DEF Creation!Abandoned, Creation!Finish
    <2>4. PICK left \in Creation!Remains :
            /\ stage' = [init |-> left, create |-> "absent"]
            /\ torn' = (torn \/ left # stage["init"])
      BY <2>1 DEF Creation!Abandoned
    <2>5. /\ stage'["init"] = left /\ stage' \in [Creation!Creations -> {"absent", "partial", "app"}]
          /\ left = stage["init"] \/ left = "partial"
      BY <2>4 DEF Creation!Remains
    <2>6. Returnable'
      BY <2>1, <2>3, <2>4, <2>5
    <2> QED  BY <2>1, <2>2, <2>3, <2>5, <2>6 DEF PackageSafe
  <1> QED  BY <1>1, <1>2, <1>3, <1>4, <1>5

\* Nothing the invariant is about changes.
LEMMA IdleStep == ASSUME IInv, UNCHANGED creation PROVE IInv'
  BY DEF IInv, PackageSafe, PackageInv, StageInv, FoldersSafe, FolderInv, Returnable,
     Creation!DestinationKept, Creation!Written, Creation!Published,
     Creation!CreationOK, Creation!PackageOK, Creation!StrangerKept, creation

LEMMA NextStep == IInv /\ [Operate \/ Create \/ Rest]_vars => IInv'
  <1> SUFFICES ASSUME IInv, [Operate \/ Create \/ Rest]_vars PROVE IInv'
    OBVIOUS
  <1>1. CASE Create
    <2>1. Creation!Next
      BY <1>1 DEF Create
    <2> QED  BY <2>1, CreatorStep, PackagerStep DEF Creation!Next, Creation!Creator
  <1>2. CASE Operate \/ Rest \/ UNCHANGED vars
    BY <1>2, IdleStep DEF Operate, Rest, vars, creation
  <1> QED  BY <1>1, <1>2

LEMMA SpecIInv == Spec => []IInv
  <1>1. LifecycleInit => IInv
    BY InitIInv DEF LifecycleInit
  <1> QED  BY <1>1, NextStep, PTL DEF Spec

-----------------------------------------------------------------------------
\* No directory the author asked init to use is lost, nor a directory they have
\* put a file in, but an application that was taken back after it was put in
\* place, whichever renames are killed or fail and whatever the operators do.
THEOREM CreationKeepsDestination == Spec => []DestinationKept
  <1>1. IInv => DestinationKept
    BY DEF IInv, FoldersSafe, DestinationKept
  <1> QED  BY <1>1, SpecIInv, PTL

\* The removal of a build's directory never removes what somebody else has put
\* in its place since the build opened it.
THEOREM CreationKeepsStranger == Spec => []StrangerKept
  <1>1. IInv => StrangerKept
    BY DEF IInv, PackageSafe, StrangerKept
  <1> QED  BY <1>1, SpecIInv, PTL

\* An application is put in place after every process that built it has ended,
\* with the package of one commit.
THEOREM CreationPublishesBuilt == Spec => PublishedIsBuilt
  <1> DEFINE Built == dest # "app" /\ dest' = "app" => group = {} /\ artifact \in UiCommits
  <1>1. ASSUME IInv, Create PROVE Built
    <2> SUFFICES ASSUME dest # "app", dest' = "app" PROVE group = {} /\ artifact \in UiCommits
      OBVIOUS
    <2>1. Creation!Next /\ retired # "app"
      BY <1>1 DEF Create, IInv, Creation!CreationOK
    <2>2. Creation!Place
      BY <2>1 DEF Creation!Next, Creation!Creator, Creation!Recover,
         Creation!Removal, Creation!Return, Creation!Drop,
         Creation!Resolve, Creation!Packaged, Creation!WriteStage, Creation!StageFails,
         Creation!Spawn, Creation!Runs, Creation!Wait, Creation!Stop, Creation!Terminated,
         Creation!Killed, Creation!Stopped, Creation!Verify, Creation!Retire, Creation!Empty,
         Creation!Unplace, Creation!PutBack, Creation!Edit, Creation!Begin, Creation!MakeStage,
         Creation!BuildPackage, Creation!Meddle, Creation!RemovalFails, Creation!Kill,
         Creation!Abandoned, Creation!folders
    <2> QED  BY <1>1, <2>2 DEF Creation!Place, Creation!Here, IInv, StageInv
  <1>2. ASSUME [Operate \/ Rest]_vars PROVE UNCHANGED Creation!creation
    BY <1>2 DEF Operate, Rest, vars, creation, Creation!creation, Creation!folders, Creation!running,
       Creation!history, Creation!packaging, Creation!temporary
  <1>3. IInv /\ [Operate \/ Create \/ Rest]_vars => [Built]_(Creation!creation)
    BY <1>1, <1>2
  <1> QED  BY <1>3, SpecIInv, PTL DEF Spec, PublishedIsBuilt, Creation!PublishedIsBuilt

-----------------------------------------------------------------------------
(***************************************************************************)
(* The host: what each operator remembers, and what its step entitles it   *)
(* to.  Only the holder of an application's lock moves its releases, so a  *)
(* migration knows them at each of its steps; nothing orders the profile,  *)
(* so it remembers two registries that differ in one entry.                *)
(***************************************************************************)
Chains == Seq(Registries)
Changing == {"register", "activate", "migrate"}
Operating == {"deploy", "rollback"}
Storing == {"init", "adopt", "backup", "restore", "replace"}
Tasks ==
    [kind: Changing \cup Operating \cup Storing \cup {"install", "none"},
     app: Apps \cup {None}, before: Registries \cup {None},
     candidate: Registries \cup Chains \cup {None}, chain: Chains, document: Chains,
     former: Lives, target: Nat, rendered: Registries \cup {None}]
Results == {"none", "done", "failed", "killed", "migrated", "unrestored"}

Selects(release) == {release.current, release.previous} \ {None}

\* A planned change is of one entry, and the releases remembered are legal.
TaskOK(t) ==
    /\ Selects(t.former) \subseteq t.former.releases
    /\ t.kind \in Changing =>
          /\ t.app \in Apps /\ t.before \in Registries /\ t.candidate \in Registries
          /\ \A b \in Apps \ {t.app} : t.candidate[b] = t.before[b]
    /\ t.kind \in Operating => t.app \in Apps
    /\ t.kind \in Storing \cup {"install", "none"} => t.app = None
    /\ t.kind = "init" => t.candidate \in Registries
    /\ t.kind \in {"restore", "replace"} => t.candidate \in Chains \ {<<>>}
    /\ t.kind = "migrate" => t.former.current # None

\* The steps of each kind of command.
Switching == {"build", "select", "apply", "gates", "former", "final"}
Undoing == {"undo", "undo-registry", "undo-install", "undo-release"}
Migrating == {"validate", "confirm", "unpublish", "fallback"} \cup Switching \cup Undoing
Deferring == {"switch", "render-late", "install-late", "settle"}
Knowing == Switching \cup {"undo", "switch", "render-late"}
Takes(k, s) ==
    \/ k = "none" /\ s = "idle"
    \/ k \in Changing /\ s = "publish"
    \/ k \in {"activate", "migrate"} \cup Operating /\ s = "lock"
    \/ k \in {"activate", "install"} /\ s \in {"render", "install"}
    \/ k = "activate" /\ s \in Deferring
    \/ k \in {"activate"} \cup Operating /\ s = "deploy"
    \/ k = "migrate" /\ s \in Migrating
    \/ k = "init" /\ s \in {"initialise", "snapshot"}
    \/ k \in {"init", "adopt", "backup", "replace"} /\ s \in {"backup", "write"}
    \/ k \in {"adopt", "backup"} /\ s = "compare"
    \/ k \in {"restore", "replace"} /\ s = k

\* What a step of p has in memory.
MemoryOK(p) ==
    /\ TaskOK(task[p]) /\ Takes(task[p].kind, pc[p])
    /\ pc[p] \in {"install", "install-late"} => task[p].rendered \in Registries
    /\ pc[p] = "write" => task[p].document # <<>>
    /\ pc[p] = "replace" => task[p].chain \in ToSet(backups)

\* The releases of the application a migration or an activation holds.
ReleasesOK(p) ==
    LET now == live[App(p)]
        former == task[p].former IN
    /\ pc[p] \in {"build", "select"} => Pair(now) = Pair(former)
    /\ pc[p] = "build" => now.releases = former.releases
    /\ pc[p] \in {"select", "apply", "gates", "former"} =>
          now.releases = former.releases \cup {task[p].target}
    /\ pc[p] \in {"apply", "gates", "former"} =>
          now.current = task[p].target /\ now.previous = former.previous
    /\ pc[p] \in {"final", "undo", "switch", "render-late"} => Selects(former) \subseteq now.releases

\* What is installed, unless somebody else has installed since.
InstalledOK(p) ==
    p \in calm =>
        /\ pc[p] \in {"publish", "unpublish"} /\ task[p].kind = "migrate" => installed = task[p].rendered
        /\ pc[p] \in {"gates", "former", "final", "confirm"} => installed = task[p].candidate
        /\ pc[p] = "undo-release" => installed = task[p].before

StateOK ==
    /\ chain \in Chains /\ pending \in Chains \cup {None} /\ backups \in Seq(Chains \ {<<>>})
    /\ main \in [Apps -> Nat] /\ live \in [Apps -> Lives] /\ lock \in [Apps -> Operators \cup {None}]
    /\ installed \in Registries \cup {None}
    /\ pc \in [Operators -> States] /\ task \in [Operators -> Tasks]
    /\ result \in [Operators -> Results]
    /\ \A a \in Apps : Selects(live[a]) \subseteq live[a].releases

LockOK == \A p \in Operators : \A a \in Apps : lock[a] = p <=> (pc[p] \in Holding /\ task[p].app = a)

Entitled(p) == MemoryOK(p) /\ ReleasesOK(p) /\ InstalledOK(p)
HInv == StateOK /\ LockOK /\ \A p \in Operators : Entitled(p)

-----------------------------------------------------------------------------
\* Registries, chains and tasks.

LEMMA ChainFacts ==
    ASSUME NEW c \in Chains
    PROVE  /\ c # <<>> => Last(c) \in Registries
           /\ \A r \in Registries : Append(c, r) \in Chains \ {<<>>} /\ Last(Append(c, r)) = r
<1>1. Len(c) \in Nat /\ (c # <<>> => Len(c) # 0)
  BY DEF Chains
<1>2. c # <<>> => Last(c) \in Registries
  BY <1>1 DEF Chains, Last
<1>3. ASSUME NEW r \in Registries PROVE Append(c, r) \in Chains \ {<<>>} /\ Last(Append(c, r)) = r
  BY DEF Chains, Last
<1> QED
  BY <1>2, <1>3

LEMMA EmptyChain == <<>> \in Chains
BY DEF Chains

LEMMA OneChain == ASSUME NEW r \in Registries PROVE <<r>> \in Chains \ {<<>>} /\ Last(<<r>>) = r
BY DEF Chains, Last

LEMMA ProfileType == ASSUME StateOK, chain # <<>> PROVE Profile \in Registries
BY ChainFacts DEF StateOK, Profile

\* Publishing a registry leaves it as the profile, in a legal chain.
LEMMA ExtendedFacts ==
    ASSUME StateOK, chain # <<>>, NEW r \in Registries
    PROVE  /\ Extended(r) \in Chains \ {<<>>} /\ Last(Extended(r)) = r
           /\ \A c : c = Extended(r) /\ chain' = c => Profile' = r
<1>1. chain \in Chains
  BY DEF StateOK
<1>2. Extended(r) \in Chains \ {<<>>} /\ Last(Extended(r)) = r
  BY <1>1, ChainFacts DEF Extended, Profile
<1> QED
  BY <1>2 DEF Profile

LEMMA AppendBackup ==
    ASSUME NEW s \in Seq(Chains \ {<<>>}), NEW d \in Chains \ {<<>>}
    PROVE  Append(s, d) \in Seq(Chains \ {<<>>}) /\ ToSet(s) \cup {d} \subseteq ToSet(Append(s, d))
<1>1. Append(s, d) \in Seq(Chains \ {<<>>})
  OBVIOUS
<1>2. \A i \in DOMAIN s : i \in DOMAIN Append(s, d) /\ Append(s, d)[i] = s[i]
  OBVIOUS
<1>3. Len(s) + 1 \in DOMAIN Append(s, d) /\ Append(s, d)[Len(s) + 1] = d
  OBVIOUS
<1> QED
  BY <1>1, <1>2, <1>3 DEF ToSet

LEMMA NoTaskOK ==
    /\ NoTask \in Tasks /\ NoTask.kind = "none" /\ TaskOK(NoTask)
    /\ Selects(NoTask.former) \subseteq NoTask.former.releases
<1>1. NoLive \in Lives
  BY DEF NoLive, Lives
<1>2. NoTask \in Tasks
  BY <1>1, EmptyChain DEF NoTask, Tasks
<1>3. Selects(NoTask.former) \subseteq NoTask.former.releases
  BY DEF NoTask, NoLive, Selects
<1> QED
  BY <1>2, <1>3 DEF NoTask, TaskOK, Changing, Operating, Storing

LEMMA KindOf ==
    ASSUME HInv, NEW p \in Operators
    PROVE  /\ task[p] \in Tasks /\ TaskOK(task[p])
           /\ pc[p] = "idle" <=> task[p].kind = "none"
           /\ pc[p] = "publish" => task[p].kind \in Changing
           /\ pc[p] = "lock" => task[p].kind \in {"activate", "migrate"} \cup Operating
           /\ pc[p] \in {"render", "install"} => task[p].kind \in {"activate", "install"}
           /\ pc[p] = "deploy" => task[p].kind \in {"activate"} \cup Operating
           /\ pc[p] \in Deferring => task[p].kind = "activate"
           /\ pc[p] \in Migrating => task[p].kind = "migrate"
           /\ pc[p] \in {"initialise", "snapshot"} => task[p].kind = "init"
           /\ pc[p] \in {"backup", "write"} => task[p].kind \in {"init", "adopt", "backup", "replace"}
           /\ pc[p] = "restore" => task[p].kind = "restore"
           /\ pc[p] = "compare" => task[p].kind \in {"adopt", "backup"}
           /\ pc[p] = "replace" => task[p].kind = "replace"
<1>1. task[p] \in Tasks /\ MemoryOK(p)
  BY DEF HInv, StateOK, Entitled
<1>2. task[p].kind \in Changing \cup Operating \cup Storing \cup {"install", "none"}
  BY <1>1 DEF Tasks
<1> QED
  BY <1>1, <1>2 DEF MemoryOK, Takes, Changing, Operating, Storing, Migrating, Deferring, Switching, Undoing

-----------------------------------------------------------------------------
\* What the ways to go on leave in the seat of an operator.

SeatKept(p) ==
    /\ lock' \in [Apps -> Operators \cup {None}] /\ pc' \in [Operators -> States]
    /\ task' \in [Operators -> Tasks] /\ result' \in [Operators -> Results]
    /\ LockOK' /\ MemoryOK(p)'
    /\ \A q \in Operators \ {p} : pc'[q] = pc[q] /\ task'[q] = task[q]

LEMMA Ended ==
    ASSUME HInv, NEW p \in Operators, NEW how \in Results, End(p, how)
    PROVE  SeatKept(p) /\ pc'[p] = "idle" /\ result'[p] = how
<1>1. pc' = [pc EXCEPT ![p] = "idle"] /\ task' = [task EXCEPT ![p] = NoTask]
      /\ result' = [result EXCEPT ![p] = how] /\ lock' = Released(p)
  BY DEF End, Stopped
<1>2. /\ pc' \in [Operators -> States] /\ task' \in [Operators -> Tasks]
      /\ result' \in [Operators -> Results] /\ pc'[p] = "idle" /\ task'[p] = NoTask /\ result'[p] = how
      /\ \A q \in Operators \ {p} : pc'[q] = pc[q] /\ task'[q] = task[q]
  BY <1>1, NoTaskOK DEF HInv, StateOK, States
<1>3. lock' \in [Apps -> Operators \cup {None}] /\ \A a \in Apps : lock'[a] = IF lock[a] = p THEN None ELSE lock[a]
  BY <1>1 DEF Released, HInv, StateOK
<1>4. LockOK'
  <2>1. "idle" \notin Holding /\ p # None
    BY Parameters DEF Holding
  <2> QED
    BY <1>2, <1>3, <2>1, Parameters DEF LockOK, HInv
<1>5. MemoryOK(p)'
  <2>1. TaskOK(task[p])' /\ task'[p].kind = "none"
    BY <1>2, NoTaskOK DEF TaskOK
  <2>2. Takes(task[p].kind, pc[p])'
    BY <1>2, <2>1 DEF Takes
  <2> QED
    BY <1>2, <2>1, <2>2 DEF MemoryOK
<1> QED
  BY <1>2, <1>3, <1>4, <1>5 DEF SeatKept

\* On to a step of the same command, with or without its lock.
LEMMA Gone ==
    ASSUME HInv, NEW p \in Operators, NEW s \in States, Takes(task[p].kind, s), Goto(p, s),
           s \notin {"install", "install-late", "write"}, s = "replace" => task[p].chain \in ToSet(backups'),
           \/ UNCHANGED lock /\ (s \in Holding <=> pc[p] \in Holding)
           \/ lock' = Released(p) /\ s \notin Holding
           \/ /\ task[p].app \in Apps /\ lock[task[p].app] = None /\ lock' = [lock EXCEPT ![task[p].app] = p]
              /\ s \in Holding /\ pc[p] \notin Holding
    PROVE  SeatKept(p) /\ pc'[p] = s /\ task' = task /\ result' = result
<1>1. pc' = [pc EXCEPT ![p] = s] /\ task' = task /\ result' = result
  BY DEF Goto
<1>2. /\ pc' \in [Operators -> States] /\ pc'[p] = s
      /\ \A q \in Operators \ {p} : pc'[q] = pc[q]
  BY <1>1 DEF HInv, StateOK
<1>3. CASE UNCHANGED lock /\ (s \in Holding <=> pc[p] \in Holding)
  BY <1>1, <1>2, <1>3 DEF SeatKept, HInv, StateOK, LockOK, MemoryOK, Entitled
<1>4. CASE lock' = Released(p) /\ s \notin Holding
  <2>1. lock' \in [Apps -> Operators \cup {None}] /\ \A a \in Apps : lock'[a] = IF lock[a] = p THEN None ELSE lock[a]
    BY <1>4 DEF Released, HInv, StateOK
  <2>2. LockOK'
    BY <1>1, <1>2, <1>4, <2>1, Parameters DEF HInv, LockOK
  <2> QED
    BY <1>1, <1>2, <2>1, <2>2 DEF SeatKept, HInv, StateOK, MemoryOK, Entitled
<1>5. CASE /\ task[p].app \in Apps /\ lock[task[p].app] = None /\ lock' = [lock EXCEPT ![task[p].app] = p]
           /\ s \in Holding /\ pc[p] \notin Holding
  <2>1. lock' \in [Apps -> Operators \cup {None}]
        /\ \A a \in Apps : lock'[a] = IF a = task[p].app THEN p ELSE lock[a]
    BY <1>5 DEF HInv, StateOK
  <2>2. LockOK'
    BY <1>1, <1>2, <1>5, <2>1, Parameters DEF HInv, LockOK
  <2> QED
    BY <1>1, <1>2, <2>1, <2>2 DEF SeatKept, HInv, StateOK, MemoryOK, Entitled
<1> QED
  BY <1>3, <1>4, <1>5

\* The last step of a command plan, or its next memory, under the same lock.
LEMMA Noted ==
    ASSUME HInv, NEW p \in Operators, NEW t \in Tasks, NEW s \in States, Takes(t.kind, s),
           pc' = [pc EXCEPT ![p] = s], task' = [task EXCEPT ![p] = t], UNCHANGED lock,
           result' \in [Operators -> Results], TaskOK(t), t.app = task[p].app \/ s \notin Holding,
           s \in Holding <=> pc[p] \in Holding, s # "replace",
           s \in {"install", "install-late"} => t.rendered \in Registries, s = "write" => t.document # <<>>
    PROVE  SeatKept(p) /\ pc'[p] = s /\ task'[p] = t
<1>1. /\ pc' \in [Operators -> States] /\ pc'[p] = s
      /\ task' \in [Operators -> Tasks] /\ task'[p] = t
      /\ \A q \in Operators \ {p} : pc'[q] = pc[q] /\ task'[q] = task[q]
  BY DEF HInv, StateOK
<1>2. LockOK'
  BY <1>1 DEF HInv, LockOK
<1>3. MemoryOK(p)'
  BY <1>1 DEF MemoryOK
<1> QED
  BY <1>1, <1>2, <1>3 DEF SeatKept, HInv, StateOK

\* The lock of an application is taken, and what it has is read.
LEMMA Taken ==
    ASSUME HInv, NEW p \in Operators, NEW t \in Tasks, NEW s \in Holding \cap States, Takes(t.kind, s),
           pc' = [pc EXCEPT ![p] = s], task' = [task EXCEPT ![p] = t], UNCHANGED result, TaskOK(t),
           t.app \in Apps, lock[t.app] = None, lock' = [lock EXCEPT ![t.app] = p], pc[p] \notin Holding,
           s \notin {"install", "install-late"}
    PROVE  SeatKept(p) /\ pc'[p] = s /\ task'[p] = t
<1>1. /\ pc' \in [Operators -> States] /\ pc'[p] = s
      /\ task' \in [Operators -> Tasks] /\ task'[p] = t
      /\ \A q \in Operators \ {p} : pc'[q] = pc[q] /\ task'[q] = task[q]
  BY DEF HInv, StateOK
<1>2. lock' \in [Apps -> Operators \cup {None}]
      /\ \A a \in Apps : lock'[a] = IF a = t.app THEN p ELSE lock[a]
  BY DEF HInv, StateOK
<1>3. LockOK'
  BY <1>1, <1>2, Parameters DEF HInv, LockOK
<1>4. MemoryOK(p)'
  BY <1>1 DEF MemoryOK, Holding
<1> QED
  BY <1>1, <1>2, <1>3, <1>4 DEF SeatKept, HInv, StateOK

\* A step of p takes nothing from the others.
Apart(p) ==
    /\ \A a \in Apps : live'[a] # live[a] => lock[a] = p
    /\ calm' \subseteq calm \cup {p}
    /\ installed' # installed => calm' \subseteq {p}
    /\ ToSet(backups) \subseteq ToSet(backups')

LEMMA OthersEntitled ==
    ASSUME HInv, NEW p \in Operators, SeatKept(p), Apart(p), NEW q \in Operators \ {p}
    PROVE  Entitled(q)'
<1>1. pc'[q] = pc[q] /\ task'[q] = task[q] /\ Entitled(q)
  BY DEF SeatKept, HInv
<1>2. MemoryOK(q)'
  BY <1>1 DEF Entitled, MemoryOK, Apart
<1>3. ReleasesOK(q)'
  <2>1. CASE pc[q] \in Knowing
    <3>1. task[q].app \in Apps /\ lock[task[q].app] = q
      BY <2>1, KindOf
      DEF Knowing, Migrating, Deferring, Undoing, Switching, TaskOK, Changing, HInv, LockOK, Holding
    <3>2. live'[task[q].app] = live[task[q].app]
      BY <3>1 DEF Apart
    <3> QED
      BY <1>1, <3>2 DEF Entitled, ReleasesOK, App, Pair
  <2>2. CASE pc[q] \notin Knowing
    BY <1>1, <2>2 DEF ReleasesOK, Knowing, Switching
  <2> QED
    BY <2>1, <2>2
<1>4. InstalledOK(q)'
  BY <1>1 DEF Entitled, InstalledOK, Apart
<1> QED
  BY <1>2, <1>3, <1>4 DEF Entitled

-----------------------------------------------------------------------------
\* Commands.

\* A step that only uses the store.
LEMMA StoreStep ==
    ASSUME HInv, NEW p \in Operators, SeatKept(p), UNCHANGED <<live, installed, calm, main>>,
           chain' \in Chains, pending' \in Chains \cup {None}, backups' \in Seq(Chains \ {<<>>}),
           ToSet(backups) \subseteq ToSet(backups'),
           pc'[p] \notin Knowing,
           pc'[p] \in {"publish", "unpublish", "confirm", "undo-release"} => InstalledOK(p)'
    PROVE  HInv'
<1>1. StateOK' /\ LockOK'
  BY DEF SeatKept, HInv, StateOK
<1>2. Apart(p)
  BY DEF Apart
<1>3. MemoryOK(p)' /\ ReleasesOK(p)'
  BY DEF SeatKept, ReleasesOK, Knowing, Switching
<1>4. InstalledOK(p)'
  BY DEF InstalledOK, Knowing, Switching
<1> QED
  BY <1>1, <1>2, <1>3, <1>4, OthersEntitled DEF HInv, Entitled

LEMMA Commanded ==
    ASSUME HInv, NEW p \in Operators, NEW t \in Tasks, NEW s \in States, Takes(t.kind, s),
           Command(p, s, t), UNCHANGED lock, TaskOK(t), s \notin {"replace", "install", "install-late", "write"},
           s \notin Holding \/ t.app = None
    PROVE  SeatKept(p) /\ pc'[p] = s /\ task'[p] = t /\ calm' = calm \cup {p}
<1>1. /\ pc' = [pc EXCEPT ![p] = s] /\ task' = [task EXCEPT ![p] = t]
      /\ result' = [result EXCEPT ![p] = "none"] /\ calm' = calm \cup {p} /\ pc[p] = "idle"
  BY DEF Command
<1>2. /\ pc' \in [Operators -> States] /\ pc'[p] = s
      /\ task' \in [Operators -> Tasks] /\ task'[p] = t /\ result' \in [Operators -> Results]
      /\ \A q \in Operators \ {p} : pc'[q] = pc[q] /\ task'[q] = task[q]
  BY <1>1 DEF HInv, StateOK, Results
<1>3. LockOK'
  BY <1>1, <1>2, Parameters DEF HInv, LockOK, Holding
<1>4. MemoryOK(p)'
  BY <1>2 DEF MemoryOK
<1> QED
  BY <1>1, <1>2, <1>3, <1>4 DEF SeatKept, HInv, StateOK

\* A command begins: nothing but the operator's seat changes.
LEMMA CommandStep ==
    ASSUME HInv, NEW p \in Operators, NEW t \in Tasks, NEW s \in States, Takes(t.kind, s),
           Command(p, s, t), UNCHANGED <<store, backups, main, runtime, installed>>, TaskOK(t),
           s \in {"publish", "lock", "render", "initialise", "backup", "restore"},
           s = "render" => t.app = None,
           t.kind = "migrate" => t.rendered = installed
    PROVE  HInv'
<1>1. UNCHANGED <<chain, pending, backups, main, live, lock, installed>>
  BY DEF store, runtime
<1>2. SeatKept(p) /\ pc'[p] = s /\ task'[p] = t /\ calm' = calm \cup {p}
  BY <1>1, Commanded DEF Holding
<1>3. StateOK' /\ LockOK'
  BY <1>1, <1>2 DEF SeatKept, HInv, StateOK
<1>4. Apart(p)
  BY <1>1, <1>2 DEF Apart
<1>5. MemoryOK(p)' /\ ReleasesOK(p)' /\ InstalledOK(p)'
  BY <1>1, <1>2 DEF SeatKept, ReleasesOK, InstalledOK
<1> QED
  BY <1>3, <1>4, <1>5, OthersEntitled, <1>2 DEF HInv, Entitled

\* An entry with a port nobody else has keeps a registry legal.
LEMMA EntryKept ==
    ASSUME NEW r \in Registries, NEW a \in Apps, NEW port \in Ports \cup {None}, PortFree(r, a, port)
    PROVE  [r EXCEPT ![a] = Entry(a, port)] \in Registries
<1> DEFINE e == Entry(a, port)
           s == [r EXCEPT ![a] = e]
<1>1. e \in Entries /\ e.port = port
  BY DEF Entry, Entries
<1> HIDE DEF e
<1>2. s \in [Apps -> Entries \cup {None}] /\ s[a] = e /\ \A b \in Apps \ {a} : s[b] = r[b]
  BY <1>1 DEF Registries
<1>3. ASSUME NEW b \in Apps, NEW c \in Apps, b # c, s[b] # None, s[c] # None, s[b].port # None
      PROVE  s[b].port # s[c].port
  BY <1>1, <1>2, <1>3 DEF Registries, PortFree
<1> QED
  BY <1>2, <1>3 DEF Registries, e

LEMMA BasedKept ==
    ASSUME NEW r \in Registries, NEW a \in Apps, r[a] # None
    PROVE  Based(r, a) \in Registries /\ \A b \in Apps \ {a} : Based(r, a)[b] = r[b]
<1> DEFINE e == [r[a] EXCEPT !.base = Kind(a) = "based"]
           s == [r EXCEPT ![a] = e]
<1>1. r[a] \in Entries
  BY DEF Registries
<1>2. e \in Entries /\ e.port = r[a].port
  BY <1>1 DEF Entries
<1>3. Based(r, a) = s
  BY DEF Based
<1> HIDE DEF e
<1>4. s \in [Apps -> Entries \cup {None}] /\ s[a] = e /\ \A b \in Apps \ {a} : s[b] = r[b]
  BY <1>2 DEF Registries
<1>5. ASSUME NEW b \in Apps, NEW c \in Apps, b # c, s[b] # None, s[c] # None, s[b].port # None
      PROVE  s[b].port # s[c].port
  BY <1>2, <1>4, <1>5 DEF Registries
<1> QED
  BY <1>3, <1>4, <1>5 DEF Registries

LEMMA PlanStep ==
    ASSUME HInv, NEW p \in Operators, Register(p) \/ Activate(p)
    PROVE  HInv'
<1>1. Profile \in Registries
  BY ProfileType DEF Register, Activate, Readable, HInv
<1>2. PICK k \in {"register", "activate"}, a \in Apps, port \in Ports \cup {None} : Plan(p, k, a, port)
  <2>1. CASE Activate(p)
    BY <1>1, <2>1 DEF Activate, Allocated, Registries, Entries
  <2> QED
    BY <2>1 DEF Register
<1> DEFINE new == [Profile EXCEPT ![a] = Entry(a, port)]
           t == [NoTask EXCEPT !.kind = k, !.app = a, !.before = Profile, !.candidate = new]
<1>3. new \in Registries /\ \A b \in Apps \ {a} : new[b] = Profile[b]
  BY <1>2, <1>1, EntryKept DEF Plan, Registrable, Registries
<1>4. Command(p, "publish", t) /\ UNCHANGED <<store, backups, main, runtime, installed>>
  BY <1>2 DEF Plan
<1> HIDE DEF new
<1>5. t \in Tasks /\ t.kind = k /\ TaskOK(t)
  <2>1. /\ t \in Tasks /\ t.kind = k /\ t.app = a /\ t.before = Profile /\ t.candidate = new
        /\ t.former = NoTask.former
    BY <1>1, <1>3, NoTaskOK DEF Tasks, Changing
  <2> HIDE DEF t
  <2> QED
    BY <1>1, <1>3, <2>1, NoTaskOK DEF TaskOK, Changing, Operating, Storing
<1> HIDE DEF t
<1>6. "publish" \in States /\ Takes(t.kind, "publish")
  BY <1>5 DEF Takes, States, Changing
<1> QED
  BY <1>4, <1>5, <1>6, CommandStep

LEMMA OperateStep ==
    ASSUME HInv, NEW p \in Operators, Deploy(p) \/ Install(p)
    PROVE  HInv'
<1>1. CASE Deploy(p)
  <2>1. PICK a \in Apps, k \in {"deploy", "rollback"} : Command(p, "lock", [NoTask EXCEPT !.kind = k, !.app = a])
    BY <1>1 DEF Deploy
  <2> DEFINE t == [NoTask EXCEPT !.kind = k, !.app = a]
  <2>2. t \in Tasks /\ t.kind = k /\ t.app = a /\ t.former = NoTask.former
    BY NoTaskOK DEF Tasks, Operating
  <2> HIDE DEF t
  <2>3. TaskOK(t)
    BY <2>2, NoTaskOK DEF TaskOK, Changing, Operating, Storing
  <2>4. "lock" \in States /\ Takes(t.kind, "lock")
    BY <2>2 DEF Takes, States, Changing, Operating
  <2> QED
    BY <1>1, <2>1, <2>2, <2>3, <2>4, CommandStep DEF Deploy, t
<1>2. CASE Install(p)
  <2> DEFINE t == [NoTask EXCEPT !.kind = "install"]
  <2>1. t \in Tasks /\ t.kind = "install" /\ t.app = None /\ t.former = NoTask.former
    BY NoTaskOK DEF Tasks, NoTask
  <2>2. Command(p, "render", t) /\ UNCHANGED <<store, backups, main, runtime, installed>>
    BY <1>2 DEF Install
  <2> HIDE DEF t
  <2>3. TaskOK(t)
    BY <2>1, NoTaskOK DEF TaskOK, Changing, Operating, Storing
  <2>4. "render" \in States /\ Takes(t.kind, "render")
    BY <2>1 DEF Takes, States, Holding
  <2> QED
    BY <2>1, <2>2, <2>3, <2>4, CommandStep
<1> QED
  BY <1>1, <1>2

LEMMA MigrateStep ==
    ASSUME HInv, NEW p \in Operators, Migrate(p)
    PROVE  HInv'
<1>1. PICK a \in Apps :
        /\ Profile[a] # None /\ Migratable(a)
        /\ Command(p, "publish",
              [NoTask EXCEPT !.kind = "migrate", !.app = a, !.before = Profile,
                             !.candidate = Based(Profile, a),
                             !.former = live[a], !.target = main[a], !.rendered = installed])
  BY DEF Migrate
<1>2. Profile \in Registries
  BY ProfileType DEF Migrate, Readable, HInv
<1> DEFINE new == Based(Profile, a)
           t == [NoTask EXCEPT !.kind = "migrate", !.app = a, !.before = Profile, !.candidate = new,
                               !.former = live[a], !.target = main[a], !.rendered = installed]
<1>3. new \in Registries /\ \A b \in Apps \ {a} : new[b] = Profile[b]
  BY <1>1, <1>2, BasedKept
<1>4. Command(p, "publish", t) /\ UNCHANGED <<store, backups, main, runtime, installed>>
  BY <1>1 DEF Migrate
<1>5. live[a] \in Lives /\ main[a] \in Nat /\ installed \in Registries \cup {None}
      /\ Selects(live[a]) \subseteq live[a].releases /\ live[a].current # None
  BY <1>1 DEF HInv, StateOK, Migratable
<1> HIDE DEF new
<1>6. /\ t \in Tasks /\ t.kind = "migrate" /\ t.app = a /\ t.before = Profile /\ t.candidate = new
      /\ t.former = live[a] /\ t.rendered = installed
  BY <1>2, <1>3, <1>5, NoTaskOK DEF Tasks, Changing
<1> HIDE DEF t
<1>7. TaskOK(t)
  BY <1>2, <1>3, <1>5, <1>6 DEF TaskOK, Changing, Operating, Storing
<1>8. "publish" \in States /\ Takes(t.kind, "publish")
  BY <1>6 DEF Takes, States, Changing
<1> QED
  BY <1>4, <1>6, <1>7, <1>8, CommandStep

LEMMA RequestStep ==
    ASSUME HInv, NEW p \in Operators, Initialise(p) \/ Adopt(p) \/ Backup(p) \/ Restore(p)
    PROVE  HInv'
<1>1. SUFFICES ASSUME NEW k \in Storing, NEW s \in {"initialise", "backup", "restore"},
                      NEW t, Request(p, s, t), t \in Tasks, t.kind = k, t.app = None,
                      t.former = NoTask.former,
                      k = "init" => t.candidate \in Registries /\ s = "initialise",
                      k \in {"restore", "replace"} => t.candidate \in Chains \ {<<>>},
                      k \in {"adopt", "backup", "replace"} => s = "backup",
                      k = "restore" => s = "restore"
               PROVE  HInv'
  <2>1. chain \in Chains
    BY DEF HInv, StateOK
  <2>2. CASE Initialise(p)
    <3>1. PICK r \in Registries : Request(p, "initialise", [NoTask EXCEPT !.kind = "init", !.candidate = r])
      BY <2>2, Parameters DEF Initialise
    <3> DEFINE u == [NoTask EXCEPT !.kind = "init", !.candidate = r]
    <3>2. u \in Tasks /\ u.kind = "init" /\ u.app = None /\ u.candidate = r /\ u.former = NoTask.former
      BY NoTaskOK DEF Tasks, NoTask, Storing
    <3> HIDE DEF u
    <3> QED
      BY <1>1, <3>1, <3>2 DEF Storing, u
  <2>3. CASE Adopt(p) \/ Backup(p)
    <3>1. PICK k \in {"adopt", "backup"} : Request(p, "backup", [NoTask EXCEPT !.kind = k, !.chain = chain])
      BY <2>3 DEF Adopt, Backup
    <3> DEFINE u == [NoTask EXCEPT !.kind = k, !.chain = chain]
    <3>2. u \in Tasks /\ u.kind = k /\ u.app = None /\ u.former = NoTask.former
      BY <2>1, NoTaskOK DEF Tasks, NoTask, Storing
    <3> HIDE DEF u
    <3> QED
      BY <1>1, <3>1, <3>2 DEF Storing, u
  <2>4. CASE Restore(p)
    <3>1. PICK d \in Chains \ {<<>>} :
            \/ Request(p, "restore", [NoTask EXCEPT !.kind = "restore", !.candidate = d])
            \/ Request(p, "backup", [NoTask EXCEPT !.kind = "replace", !.candidate = d, !.chain = chain])
      BY <2>4 DEF Restore, Parsable, Chains
    <3> DEFINE u == [NoTask EXCEPT !.kind = "restore", !.candidate = d]
               v == [NoTask EXCEPT !.kind = "replace", !.candidate = d, !.chain = chain]
    <3>2. /\ u \in Tasks /\ u.kind = "restore" /\ u.app = None /\ u.candidate = d
          /\ v \in Tasks /\ v.kind = "replace" /\ v.app = None /\ v.candidate = d
          /\ u.former = NoTask.former /\ v.former = NoTask.former
      BY <2>1, NoTaskOK DEF Tasks, NoTask, Storing
    <3> HIDE DEF u, v
    <3> QED
      BY <1>1, <3>1, <3>2 DEF Storing, u, v
  <2> QED
    BY <2>2, <2>3, <2>4
<1>2. Command(p, s, t) /\ UNCHANGED <<store, backups, main, runtime, installed>>
  BY <1>1 DEF Request
<1>3. TaskOK(t)
  BY <1>1, NoTaskOK DEF TaskOK, Changing, Operating, Storing
<1>4. s \in States /\ Takes(t.kind, s)
  BY <1>1 DEF Takes, States, Operating, Storing
<1> QED
  BY <1>1, <1>2, <1>3, <1>4, CommandStep DEF Storing

LEMMA RecoverStep ==
    ASSUME HInv, NEW p \in Operators, Recover(p)
    PROVE  HInv'
BY DEF HInv, StateOK, LockOK, Entitled, MemoryOK, ReleasesOK, InstalledOK, App, Pair, Recover, seat, Same

-----------------------------------------------------------------------------
\* Steps of a command.  The profile a change was planned from, and its plan.

LEMMA Interrupts ==
    ASSUME StateOK, NEW new \in Chains, Interrupted(new)
    PROVE  chain' \in {chain, new} /\ chain' \in Chains /\ pending' \in Chains \cup {None}
BY DEF StateOK, Interrupted

\* What a change has in memory.
LEMMA ChangeFacts ==
    ASSUME HInv, NEW p \in Operators, task[p].kind \in Changing
    PROVE  /\ App(p) \in Apps /\ task[p].before \in Registries /\ task[p].candidate \in Registries
           /\ \A b \in Apps \ {App(p)} : task[p].candidate[b] = task[p].before[b]
BY KindOf DEF TaskOK, App

LEMMA PublishStep ==
    ASSUME HInv, NEW p \in Operators, Publish(p) \/ PublishFails(p) \/ Unpublish(p)
    PROVE  HInv'
<1>1. StateOK /\ UNCHANGED <<backups, main, live, installed, calm>>
  BY DEF HInv, Publish, PublishFails, Unpublish
<1>2. /\ task[p].kind \in Changing /\ pc[p] \in {"publish", "unpublish"}
      /\ pc[p] = "unpublish" => task[p].kind = "migrate"
  BY KindOf DEF Publish, PublishFails, Unpublish, At, Migrating, Changing
<1>3. task[p].before \in Registries /\ task[p].candidate \in Registries
  BY <1>2, ChangeFacts
<1>4. chain' \in Chains /\ pending' \in Chains \cup {None}
  <2>1. CASE UNCHANGED store
    BY <1>1, <2>1 DEF store, StateOK
  <2>2. CASE ~UNCHANGED store
    <3>1. PICK r \in Registries : Readable /\ (Publishes(Extended(r)) \/ Interrupted(Extended(r)))
      BY <1>3, <2>2 DEF Publish, PublishFails, Unpublish
    <3>2. Extended(r) \in Chains
      BY <1>1, <3>1, ExtendedFacts DEF Readable
    <3> QED
      BY <1>1, <3>1, <3>2, Interrupts DEF Publishes, StateOK
  <2> QED
    BY <2>1, <2>2
<1>5. /\ SeatKept(p) /\ pc'[p] \in {"idle", "lock", "unpublish"}
      /\ pc'[p] = "unpublish" => pc[p] = "publish" /\ task[p].kind = "migrate" /\ task' = task
  <2>1. CASE \E how \in Results : End(p, how)
    BY <2>1, Ended
  <2>2. CASE ~\E how \in Results : End(p, how)
    <3>1. PICK s \in {"lock", "unpublish"} : Goto(p, s) /\ UNCHANGED lock /\ pc[p] = "publish"
            /\ (s = "unpublish" => task[p].kind = "migrate") /\ task[p].kind # "register"
      BY <1>2, <2>2 DEF Publish, PublishFails, Unpublish, Results, At, Changing
    <3>2. s \in States /\ Takes(task[p].kind, s) /\ s \notin Holding /\ pc[p] \notin Holding
      BY <1>2, <3>1 DEF States, Takes, Holding, Migrating, Changing
    <3> QED
      BY <3>1, <3>2, Gone
  <2> QED
    BY <2>1, <2>2
<1>6. pc'[p] = "unpublish" => InstalledOK(p)'
  BY <1>1, <1>5 DEF HInv, Entitled, InstalledOK
<1> QED
  BY <1>1, <1>4, <1>5, <1>6, StoreStep DEF StateOK, Knowing, Switching

\* A step that does not use the store.
LEMMA PlatformStep ==
    ASSUME HInv, NEW p \in Operators, SeatKept(p), UNCHANGED <<chain, pending, backups, main>>,
           live' \in [Apps -> Lives], \A a \in Apps : Selects(live'[a]) \subseteq live'[a].releases,
           \A a \in Apps : live'[a] # live[a] => lock[a] = p,
           installed' \in Registries \cup {None},
           calm' = calm \/ calm' = calm \cap {p}, installed' = installed \/ calm' = calm \cap {p},
           ReleasesOK(p)', InstalledOK(p)'
    PROVE  HInv'
<1>1. StateOK' /\ LockOK'
  BY DEF SeatKept, HInv, StateOK
<1>2. Apart(p)
  BY DEF Apart
<1> QED
  BY <1>1, <1>2, OthersEntitled DEF HInv, Entitled, SeatKept

LEMMA LockStep ==
    ASSUME HInv, NEW p \in Operators, Lock(p)
    PROVE  HInv'
<1> DEFINE a == App(p)
           t == [task[p] EXCEPT !.target = main[a], !.former = live[a]]
<1>1. UNCHANGED <<chain, pending, backups, main, live, installed, calm>> /\ StateOK /\ pc[p] = "lock"
  BY DEF Lock, End, store, HInv, At
<1>2. /\ task[p] \in Tasks /\ TaskOK(task[p]) /\ task[p].kind \in {"activate"} \cup Operating
      /\ task[p].app = a /\ a \in Apps
  BY <1>1, KindOf DEF Lock, At, TaskOK, App, Changing, Operating
<1>3. CASE End(p, "failed")
  BY <1>1, <1>3, Ended, StoreStep DEF StateOK, Results, Knowing, Switching
<1>4. CASE ~End(p, "failed")
  <2>1. live[a] \in Lives /\ main[a] \in Nat /\ Selects(live[a]) \subseteq live[a].releases
    BY <1>1, <1>2 DEF StateOK
  <2>2. /\ t \in Tasks /\ t.kind = task[p].kind /\ t.app = a /\ t.former = live[a]
        /\ t.before = task[p].before /\ t.candidate = task[p].candidate
    BY <1>2, <2>1 DEF Tasks
  <2>3. PICK s \in {"deploy", "switch", "render"} :
          /\ pc' = [pc EXCEPT ![p] = s] /\ UNCHANGED result
          /\ s # "deploy" <=> task[p].kind = "activate"
          /\ lock[a] = None /\ lock' = [lock EXCEPT ![a] = p]
    BY <1>4 DEF Lock
  <2>4. task' = [task EXCEPT ![p] = t]
    BY <1>1, <1>2, <1>4 DEF Lock, StateOK
  <2> HIDE DEF t
  <2>5. TaskOK(t)
    BY <1>2, <2>1, <2>2 DEF TaskOK, Operating
  <2>6. s \in Holding \cap States /\ Takes(t.kind, s) /\ pc[p] \notin Holding
    BY <1>1, <1>2, <2>2, <2>3 DEF Holding, States, Takes, Deferring
  <2>7. SeatKept(p) /\ pc'[p] = s /\ task'[p] = t
    BY <1>2, <2>2, <2>3, <2>4, <2>5, <2>6, Taken
  <2>8. ReleasesOK(p)' /\ InstalledOK(p)'
    BY <1>1, <2>1, <2>2, <2>7 DEF ReleasesOK, InstalledOK, App
  <2> QED
    BY <1>1, <2>7, <2>8, PlatformStep DEF StateOK
<1> QED
  BY <1>3, <1>4

LEMMA LockToMigrateStep ==
    ASSUME HInv, NEW p \in Operators, LockToMigrate(p) \/ Fallback(p)
    PROVE  HInv'
<1>1. UNCHANGED <<chain, pending, backups, main, live, installed, calm>> /\ StateOK
  BY DEF LockToMigrate, Fallback, store, HInv
<1>2. task[p].kind = "migrate" /\ App(p) \in Apps /\ pc[p] \in {"lock", "fallback"}
  BY KindOf DEF LockToMigrate, Fallback, At, Migrating, TaskOK, App, Changing
<1>3. SeatKept(p) /\ pc'[p] \in {"idle", "fallback", "validate", "undo-registry"}
  <2>1. CASE \E how \in Results : End(p, how)
    BY <2>1, Ended
  <2>2. CASE ~\E how \in Results : End(p, how)
    <3>1. PICK s \in {"fallback", "validate", "undo-registry"} :
            /\ Goto(p, s)
            /\ \/ UNCHANGED lock /\ s = "fallback"
               \/ lock[App(p)] = None /\ lock' = [lock EXCEPT ![App(p)] = p] /\ s # "fallback"
      BY <2>2 DEF LockToMigrate, Fallback, Results
    <3>2. /\ s \in States /\ (s \notin Holding <=> s = "fallback") /\ pc[p] \notin Holding
          /\ Takes(task[p].kind, s)
      BY <1>2 DEF States, Holding, Takes, Migrating, Undoing
    <3> QED
      BY <1>2, <3>1, <3>2, Gone DEF App
  <2> QED
    BY <2>1, <2>2
<1> QED
  BY <1>1, <1>3, StoreStep DEF StateOK, Knowing, Switching

-----------------------------------------------------------------------------
\* Steps under the lock of an application: nobody else moves its releases.

LEMMA Holds ==
    ASSUME HInv, NEW p \in Operators, pc[p] \in Holding, task[p].kind \in Changing \cup Operating
    PROVE  App(p) \in Apps /\ lock[App(p)] = p /\ live[App(p)] \in Lives
           /\ Selects(live[App(p)]) \subseteq live[App(p)].releases
BY KindOf DEF HInv, LockOK, StateOK, TaskOK, App

LEMMA SelectedType ==
    ASSUME NEW c \in Nat \cup {None}, NEW q \in Nat \cup {None}
    PROVE  Selected(c, q) \in Lives /\ Selects(Selected(c, q)) \subseteq Selected(c, q).releases
BY DEF Selected, Lives, Selects

\* The releases of one application are moved.
LEMMA MovedType ==
    ASSUME StateOK, NEW a \in Apps, NEW new \in Lives, live' \in {live, [live EXCEPT ![a] = new]},
           Selects(new) \subseteq new.releases
    PROVE  /\ live' \in [Apps -> Lives] /\ \A b \in Apps : Selects(live'[b]) \subseteq live'[b].releases
           /\ \A b \in Apps : live'[b] # live[b] => b = a
BY DEF StateOK

\* What a deployment or a rollback selects, or leaves when it fails, is stored.
LEMMA LeftType ==
    ASSUME HInv, NEW p \in Operators
    PROVE  \A new \in Left(p) \cup {Wanted(p)} : new \in Lives /\ Selects(new) \subseteq new.releases
<1> DEFINE old == task[p].former
           target == task[p].target
           wanted == Wanted(p)
<1>1. old \in Lives /\ target \in Nat /\ Selects(old) \subseteq old.releases
  BY KindOf DEF Tasks, TaskOK
<1>2. /\ old.current \in Nat \cup {None} /\ old.previous \in Nat \cup {None} /\ old.releases \subseteq Nat
      /\ {old.current, old.previous} \subseteq old.releases \cup {None}
  BY <1>1 DEF Lives, Selects
<1>3. wanted \in Lives /\ Selects(wanted) \subseteq wanted.releases
      /\ wanted.previous \in {old.current, old.previous}
  <2>1. wanted \in {Selected(old.previous, old.current), old, Selected(target, old.current)}
    BY DEF Wanted
  <2>2. /\ Selected(old.previous, old.current).previous = old.current
        /\ Selected(target, old.current).previous = old.current
    BY DEF Selected
  <2> HIDE DEF old, target, wanted
  <2> QED
    BY <1>1, <1>2, <2>1, <2>2, SelectedType
<1>4. wanted.current \in Nat \cup {None}
  BY <1>3 DEF Lives
<1>5. ASSUME NEW l \in Left(p) PROVE l \in Lives /\ Selects(l) \subseteq l.releases
  <2>1. /\ l \in [current: {old.current, wanted.current}, previous: {old.previous, wanted.previous},
                  releases: {old.releases, old.releases \cup ({wanted.current} \ {None})}]
        /\ {l.current} \subseteq l.releases \cup {None}
    BY DEF Left
  <2> HIDE DEF old, wanted
  <2>2. /\ l = [current |-> l.current, previous |-> l.previous, releases |-> l.releases]
        /\ l.current \in {old.current, wanted.current} /\ l.previous \in {old.current, old.previous}
        /\ old.releases \subseteq l.releases /\ l.releases \subseteq Nat
    BY <1>2, <1>3, <1>4, <2>1
  <2> QED
    BY <1>2, <1>4, <2>1, <2>2 DEF Lives, Selects
<1> QED
  BY <1>3, <1>5

\* The releases of the application p holds are moved.
LEMMA MovedStep ==
    ASSUME HInv, NEW p \in Operators, App(p) \in Apps, lock[App(p)] = p, SeatKept(p),
           UNCHANGED <<chain, pending, backups, main, installed, calm>>, ReleasesOK(p)', InstalledOK(p)',
           NEW new \in Lives, Selects(new) \subseteq new.releases,
           live' \in {live, [live EXCEPT ![App(p)] = new]}
    PROVE  HInv'
<1>1. StateOK
  BY DEF HInv
<1> QED
  BY <1>1, MovedType, PlatformStep DEF StateOK

LEMMA SwitchFailsStep ==
    ASSUME HInv, NEW p \in Operators, pc[p] \in Holding, task[p].kind \in {"activate"} \cup Operating,
           SwitchFails(p), UNCHANGED <<chain, pending, backups, main, installed, calm>>
    PROVE  HInv'
<1>1. App(p) \in Apps /\ lock[App(p)] = p
  BY Holds DEF Changing
<1>2. SeatKept(p) /\ pc'[p] = "idle"
  BY Ended DEF SwitchFails, Results
<1>3. ReleasesOK(p)' /\ InstalledOK(p)'
  BY <1>2 DEF ReleasesOK, InstalledOK
<1>4. PICK new \in Left(p) : live' = [live EXCEPT ![App(p)] = new]
  BY DEF SwitchFails
<1>5. new \in Lives /\ Selects(new) \subseteq new.releases
  BY LeftType
<1> QED
  BY <1>1, <1>2, <1>3, <1>4, <1>5, MovedStep

\* Steps between publication and deployment.
LEMMA RenderStep ==
    ASSUME HInv, NEW p \in Operators, Render(p)
    PROVE  HInv'
<1>1. UNCHANGED <<chain, pending, backups, main, installed, calm>> /\ StateOK /\ pc[p] \in {"render", "render-late"}
  BY DEF Render, store, HInv, At
<1>2. /\ task[p] \in Tasks /\ TaskOK(task[p]) /\ task[p].kind \in {"activate", "install"} /\ pc[p] \in Holding
      /\ pc[p] = "render-late" => task[p].kind = "activate"
  BY <1>1, KindOf DEF Deferring, Holding
<1>3. CASE Readable /\ AllFit(Profile, Apps)
  <2> DEFINE t == [task[p] EXCEPT !.rendered = Profile]
             s == IF pc[p] = "render" THEN "install" ELSE "install-late"
  <2>1. /\ task' = [task EXCEPT ![p] = t] /\ pc' = [pc EXCEPT ![p] = s]
        /\ UNCHANGED <<result, lock, live>> /\ Profile \in Registries
    BY <1>1, <1>3, ProfileType DEF Render, Readable, StateOK
  <2>2. t \in Tasks /\ t.kind = task[p].kind /\ t.app = task[p].app /\ t.rendered = Profile
        /\ t.before = task[p].before /\ t.candidate = task[p].candidate /\ t.former = task[p].former
    BY <1>2, <2>1 DEF Tasks
  <2> HIDE DEF t
  <2>3. TaskOK(t) /\ Takes(t.kind, s) /\ s \in States \cap Holding /\ s \in {"install", "install-late"}
    BY <1>1, <1>2, <2>2 DEF TaskOK, Takes, States, Holding, Deferring
  <2> HIDE DEF s
  <2>4. SeatKept(p) /\ pc'[p] = s
    BY <1>1, <1>2, <2>1, <2>2, <2>3, Noted DEF StateOK
  <2> QED
    BY <1>1, <2>1, <2>3, <2>4, StoreStep DEF StateOK, Knowing, Switching
<1>4. CASE ~(Readable /\ AllFit(Profile, Apps)) /\ SwitchFails(p) /\ pc[p] = "render-late"
  BY <1>1, <1>2, <1>4, SwitchFailsStep
<1>5. CASE End(p, "failed") /\ UNCHANGED live
  BY <1>1, <1>5, Ended, StoreStep DEF StateOK, Results, Knowing, Switching
<1>6. CASE /\ pc[p] = "render-late" /\ End(p, "failed")
           /\ live' = [live EXCEPT ![App(p)].current = task[p].former.current]
  <2> DEFINE now == live[App(p)]
             former == task[p].former
             new == [now EXCEPT !.current = former.current]
  <2>1. App(p) \in Apps /\ lock[App(p)] = p /\ now \in Lives /\ Selects(now) \subseteq now.releases
    BY <1>2, <1>6, Holds DEF Changing
  <2>2. Selects(former) \subseteq now.releases /\ former \in Lives
    BY <1>2, <1>6 DEF HInv, Entitled, ReleasesOK, Tasks
  <2>3. live' = [live EXCEPT ![App(p)] = new]
    BY <1>1, <1>6, <2>1 DEF StateOK
  <2>4. /\ new \in Lives /\ new.current = former.current /\ new.previous = now.previous
        /\ new.releases = now.releases
    BY <2>1, <2>2 DEF Lives
  <2> HIDE DEF new, former, now
  <2>5. Selects(new) \subseteq new.releases
    BY <2>1, <2>2, <2>4 DEF Selects
  <2>6. SeatKept(p) /\ pc'[p] = "idle"
    BY <1>6, Ended DEF Results
  <2>7. ReleasesOK(p)' /\ InstalledOK(p)'
    BY <2>6 DEF ReleasesOK, InstalledOK
  <2> QED
    BY <1>1, <2>1, <2>3, <2>4, <2>5, <2>6, <2>7, MovedStep
<1> QED
  BY <1>1, <1>3, <1>4, <1>5, <1>6 DEF Render

LEMMA InstallStep ==
    ASSUME HInv, NEW p \in Operators, WriteInstalled(p)
    PROVE  HInv'
<1>1. UNCHANGED <<chain, pending, backups, main, live>> /\ StateOK /\ pc[p] \in {"install", "install-late"}
      /\ installed' = task[p].rendered /\ calm' = calm \cap {p}
  BY DEF WriteInstalled, store, HInv, At
<1>2. /\ task[p].kind \in {"activate", "install"} /\ task[p].rendered \in Registries
      /\ pc[p] = "install-late" => task[p].kind = "activate"
  BY <1>1, KindOf DEF HInv, Entitled, MemoryOK, Deferring
<1>3. SeatKept(p) /\ pc'[p] \in {"idle", "deploy", "settle"}
  <2>1. CASE End(p, "done")
    BY <2>1, Ended DEF Results
  <2>2. CASE ~End(p, "done")
    <3>1. PICK s \in {"deploy", "settle"} : Goto(p, s) /\ UNCHANGED lock /\ task[p].kind = "activate"
      BY <1>2, <2>2 DEF WriteInstalled
    <3>2. Takes(task[p].kind, s) /\ s \in States \cap Holding /\ pc[p] \in Holding
      BY <1>1, <3>1 DEF Takes, States, Holding, Deferring
    <3> QED
      BY <3>1, <3>2, Gone
  <2> QED
    BY <2>1, <2>2
<1>4. ReleasesOK(p)' /\ InstalledOK(p)'
  BY <1>3 DEF ReleasesOK, InstalledOK
<1> QED
  BY <1>1, <1>2, <1>3, <1>4, PlatformStep DEF StateOK

\* The release and current, before the installation.
LEMMA SwitchFirstStep ==
    ASSUME HInv, NEW p \in Operators, SwitchFirst(p)
    PROVE  HInv'
<1> DEFINE a == App(p)
           now == live[a]
           former == task[p].former
           target == task[p].target
           new == [now EXCEPT !.current = target, !.releases = @ \cup {target}]
<1>1. UNCHANGED <<chain, pending, backups, main, installed, calm>> /\ pc[p] = "switch" /\ StateOK
  BY DEF SwitchFirst, store, At, HInv
<1>2. /\ task[p].kind = "activate" /\ pc[p] \in Holding /\ a \in Apps /\ lock[a] = p
      /\ now \in Lives /\ Selects(now) \subseteq now.releases
      /\ former \in Lives /\ target \in Nat /\ Selects(former) \subseteq now.releases
  <2>1. task[p].kind = "activate" /\ task[p] \in Tasks /\ pc[p] \in Holding
    BY <1>1, KindOf DEF Deferring, Holding
  <2>2. Selects(former) \subseteq now.releases
    BY <1>1 DEF HInv, Entitled, ReleasesOK
  <2> QED
    BY <2>1, <2>2, Holds DEF Changing, Tasks
<1>3. CASE SwitchFails(p)
  BY <1>1, <1>2, <1>3, SwitchFailsStep
<1>4. CASE ~SwitchFails(p)
  <2>1. Goto(p, "render-late") /\ UNCHANGED lock /\ live' = [live EXCEPT ![a] = new]
    BY <1>1, <1>2, <1>4 DEF SwitchFirst, StateOK
  <2>2. Takes(task[p].kind, "render-late") /\ "render-late" \in States \cap Holding
    BY <1>2 DEF Takes, States, Holding, Deferring
  <2>3. SeatKept(p) /\ task' = task /\ pc'[p] = "render-late"
    BY <1>2, <2>1, <2>2, Gone
  <2>4. /\ new \in Lives /\ new.current = target /\ new.previous = now.previous
        /\ new.releases = now.releases \cup {target}
    BY <1>2 DEF Lives
  <2> HIDE DEF new, former, target, a, now
  <2>5. Selects(new) \subseteq new.releases /\ Selects(former) \subseteq new.releases
    BY <1>2, <2>4 DEF Selects
  <2>6. live'[a] = new
    BY <1>1, <1>2, <2>1 DEF StateOK
  <2>7. ReleasesOK(p)' /\ InstalledOK(p)'
    BY <2>3, <2>5, <2>6 DEF ReleasesOK, InstalledOK, App, a, former
  <2>8. App(p) = a
    BY DEF a
  <2> QED
    BY <1>1, <1>2, <2>1, <2>3, <2>4, <2>5, <2>7, <2>8, MovedStep
<1> QED
  BY <1>3, <1>4

LEMMA SwitchStep ==
    ASSUME HInv, NEW p \in Operators, Switch(p)
    PROVE  HInv'
<1>1. UNCHANGED <<chain, pending, backups, main, installed, calm>> /\ pc[p] \in {"deploy", "settle"} /\ StateOK
  BY DEF Switch, store, At, HInv
<1>2. /\ task[p].kind \in {"activate"} \cup Operating /\ pc[p] \in Holding
      /\ App(p) \in Apps /\ lock[App(p)] = p
  BY <1>1, KindOf, Holds DEF Holding, Changing, Deferring
<1>3. CASE SwitchFails(p)
  BY <1>1, <1>2, <1>3, SwitchFailsStep
<1>4. CASE ~SwitchFails(p)
  <2>1. End(p, "done") /\ live' = [live EXCEPT ![App(p)] = Wanted(p)]
    BY <1>4 DEF Switch
  <2>2. SeatKept(p) /\ pc'[p] = "idle"
    BY <2>1, Ended DEF Results
  <2>3. ReleasesOK(p)' /\ InstalledOK(p)'
    BY <2>2 DEF ReleasesOK, InstalledOK
  <2>4. Wanted(p) \in Lives /\ Selects(Wanted(p)) \subseteq Wanted(p).releases
    BY LeftType
  <2> QED
    BY <1>1, <1>2, <2>1, <2>2, <2>3, <2>4, MovedStep
<1> QED
  BY <1>3, <1>4

\* A step of a migration to another of its steps.
LEMMA MigrationGoes ==
    ASSUME HInv, NEW p \in Operators, task[p].kind = "migrate", NEW s \in Migrating, Goto(p, s),
           \/ UNCHANGED lock /\ (s \in Holding <=> pc[p] \in Holding)
           \/ lock' = Released(p) /\ s \notin Holding
    PROVE  SeatKept(p) /\ pc'[p] = s /\ task' = task
<1>1. s \in States /\ Takes(task[p].kind, s) /\ s \notin {"install", "install-late", "write", "replace"}
  BY DEF Takes, States, Holding, Migrating, Switching, Undoing
<1> QED
  BY <1>1, Gone

\* What a migration knows.
LEMMA MigrationFacts ==
    ASSUME HInv, NEW p \in Operators, pc[p] \in Migrating
    PROVE  /\ task[p].kind = "migrate" /\ App(p) \in Apps
           /\ task[p].before \in Registries /\ task[p].candidate \in Registries
           /\ task[p].former \in Lives /\ task[p].target \in Nat
           /\ Selects(task[p].former) \subseteq task[p].former.releases /\ task[p].former.current # None
           /\ pc[p] \in Switching \cup Undoing \cup {"validate"} =>
                 /\ pc[p] \in Holding /\ lock[App(p)] = p /\ live[App(p)] \in Lives
                 /\ Selects(live[App(p)]) \subseteq live[App(p)].releases
<1>1. task[p].kind = "migrate" /\ task[p] \in Tasks /\ TaskOK(task[p])
  BY KindOf
<1>2. pc[p] \in Switching \cup Undoing \cup {"validate"} => pc[p] \in Holding
  BY DEF Switching, Undoing, Holding
<1> QED
  BY <1>1, <1>2, ChangeFacts, Holds DEF Tasks, TaskOK, Changing

LEMMA ValidateStep ==
    ASSUME HInv, NEW p \in Operators, Validate(p)
    PROVE  HInv'
<1>1. UNCHANGED <<chain, pending, backups, main, live, installed, calm>> /\ pc[p] = "validate" /\ StateOK
  BY DEF Validate, store, At, HInv
<1>2. task[p].kind = "migrate" /\ pc[p] \in Holding /\ App(p) \in Apps
  BY <1>1, MigrationFacts DEF Migrating
<1>3. SeatKept(p) /\ task' = task
      /\ \/ pc'[p] = "build" /\ FormerPair(p) /\ live[App(p)].releases = task[p].former.releases
         \/ pc'[p] = "fallback"
  BY <1>2, MigrationGoes DEF Validate, Leave, Migrating, Switching, Holding
<1>4. ReleasesOK(p)' /\ InstalledOK(p)'
  BY <1>1, <1>3 DEF ReleasesOK, InstalledOK, App, FormerPair, Pair
<1> QED
  BY <1>1, <1>3, <1>4, PlatformStep DEF StateOK

LEMMA BuildStep ==
    ASSUME HInv, NEW p \in Operators, Build(p) \/ Select(p) \/ SelectFails(p)
    PROVE  HInv'
<1> DEFINE a == App(p)
           now == live[a]
           former == task[p].former
           target == task[p].target
           stored == [now EXCEPT !.releases = @ \cup {target}]
           chosen == [now EXCEPT !.current = target]
<1>1. UNCHANGED <<chain, pending, backups, main, installed, calm>> /\ pc[p] \in {"build", "select"} /\ StateOK
  BY DEF Build, Select, SelectFails, Inside, store, At, HInv
<1>2. /\ task[p].kind = "migrate" /\ a \in Apps /\ lock[a] = p /\ now \in Lives /\ pc[p] \in Holding
      /\ Selects(now) \subseteq now.releases /\ former \in Lives /\ target \in Nat
      /\ Selects(former) \subseteq former.releases
  BY <1>1, MigrationFacts DEF Migrating, Switching
<1>3. /\ Pair(now) = Pair(former)
      /\ pc[p] = "build" => now.releases = former.releases
      /\ pc[p] = "select" => now.releases = former.releases \cup {target}
  BY <1>1 DEF HInv, Entitled, ReleasesOK
<1>4. now.current = former.current /\ now.previous = former.previous
  BY <1>3 DEF Pair
<1>5. /\ stored \in Lives /\ stored.current = now.current /\ stored.previous = now.previous
      /\ stored.releases = now.releases \cup {target}
      /\ chosen \in Lives /\ chosen.current = target /\ chosen.previous = now.previous
      /\ chosen.releases = now.releases
  BY <1>2 DEF Lives
<1>6. Stored(p) = [live EXCEPT ![a] = stored] /\ Chosen(p) = [live EXCEPT ![a] = chosen]
  BY <1>1, <1>2 DEF Stored, Chosen, StateOK
<1> HIDE DEF stored, chosen, former, target, a, now
<1>7. CASE Build(p)
  <2>1. SeatKept(p) /\ task' = task /\ pc'[p] = "select"
    BY <1>2, <1>7, MigrationGoes DEF Build, Inside, Migrating, Switching, Holding
  <2>2. live' = [live EXCEPT ![a] = stored] /\ Selects(stored) \subseteq stored.releases
    BY <1>2, <1>5, <1>6, <1>7 DEF Build, Selects
  <2>3. live'[a] = stored
    BY <1>1, <1>2, <2>2 DEF StateOK
  <2>4. ReleasesOK(p)' /\ InstalledOK(p)'
    BY <1>3, <1>4, <1>5, <1>7, <2>1, <2>3 DEF ReleasesOK, InstalledOK, App, Pair, a, former, target, Build, At
  <2> QED
    BY <1>1, <1>2, <1>5, <2>1, <2>2, <2>4, MovedType, PlatformStep DEF StateOK
<1>8. CASE Select(p) \/ SelectFails(p)
  <2>1. pc[p] = "select" /\ live' \in {live, [live EXCEPT ![a] = chosen]}
    BY <1>6, <1>8 DEF Select, SelectFails, At
  <2>2. Selects(chosen) \subseteq chosen.releases
    BY <1>2, <1>3, <1>5, <2>1 DEF Selects
  <2>3. /\ SeatKept(p) /\ task' = task
        /\ \/ pc'[p] = "apply" /\ live' = [live EXCEPT ![a] = chosen]
           \/ pc'[p] = "undo" /\ live' = live
           \/ pc'[p] = "fallback"
    BY <1>2, <1>6, <1>8, MigrationGoes
    DEF Select, SelectFails, Inside, Leave, Migrating, Switching, Undoing, Holding
  <2>4. ReleasesOK(p)' /\ InstalledOK(p)'
    <3>1. CASE pc'[p] = "apply"
      <4>1. live'[a] = chosen
        BY <1>1, <1>2, <2>3, <3>1 DEF StateOK
      <4> QED
        BY <1>3, <1>4, <1>5, <2>1, <2>3, <3>1, <4>1 DEF ReleasesOK, InstalledOK, App, a, former, target
    <3>2. CASE pc'[p] = "undo"
      BY <1>2, <1>3, <2>1, <2>3, <3>2 DEF ReleasesOK, InstalledOK, App, a, now, former, target, Selects
    <3>3. CASE pc'[p] = "fallback"
      BY <3>3 DEF ReleasesOK, InstalledOK
    <3> QED
      BY <2>3, <3>1, <3>2, <3>3
  <2> QED
    BY <1>1, <1>2, <1>5, <2>1, <2>2, <2>3, <2>4, MovedType, PlatformStep DEF StateOK
<1> QED
  BY <1>7, <1>8

\* The new files and the new job.
LEMMA ApplyStep ==
    ASSUME HInv, NEW p \in Operators, InstallCandidate(p) \/ Gates(p)
    PROVE  HInv'
<1>1. UNCHANGED <<chain, pending, backups, main, live>> /\ StateOK /\ pc[p] \in {"apply", "gates"}
  BY DEF InstallCandidate, Gates, Inside, store, At, HInv
<1>2. task[p].kind = "migrate" /\ pc[p] \in Holding /\ task[p].candidate \in Registries
      /\ Selects(task[p].former) \subseteq task[p].former.releases
  BY <1>1, MigrationFacts DEF Migrating, Switching
<1>3. /\ SeatKept(p) /\ task' = task
      /\ pc'[p] = IF Candidate(p) THEN IF pc[p] = "apply" THEN "gates" ELSE "former" ELSE "undo"
  BY <1>2, MigrationGoes DEF InstallCandidate, Gates, Inside, At, Migrating, Switching, Undoing, Holding
<1>4. \/ installed' = task[p].candidate /\ calm' = calm \cap {p} /\ pc[p] = "apply" /\ Candidate(p)
      \/ UNCHANGED <<installed, calm>> /\ (pc[p] = "gates" \/ ~Candidate(p))
  BY DEF InstallCandidate, Gates, Candidate, At
<1>5. ReleasesOK(p)'
  BY <1>1, <1>2, <1>3 DEF HInv, Entitled, ReleasesOK, App, Selects, Pair
<1>6. InstalledOK(p)'
  BY <1>1, <1>3, <1>4 DEF HInv, Entitled, InstalledOK
<1> QED
  BY <1>1, <1>2, <1>3, <1>4, <1>5, <1>6, PlatformStep DEF StateOK

LEMMA FormerStep ==
    ASSUME HInv, NEW p \in Operators, SelectFormer(p)
    PROVE  HInv'
<1> DEFINE a == App(p)
           now == live[a]
           former == task[p].former
           target == task[p].target
           kept == {target, former.current, former.previous}
           new == [now EXCEPT !.previous = former.current, !.releases = now.releases \cap kept]
<1>1. UNCHANGED <<chain, pending, backups, main, installed, calm>> /\ pc[p] = "former" /\ StateOK
  BY DEF SelectFormer, Inside, store, At, HInv
<1>2. /\ task[p].kind = "migrate" /\ a \in Apps /\ lock[a] = p /\ now \in Lives /\ pc[p] \in Holding
      /\ former \in Lives /\ target \in Nat
      /\ Selects(former) \subseteq former.releases /\ former.current # None
  BY <1>1, MigrationFacts DEF Migrating, Switching
<1>3. /\ now.releases = former.releases \cup {target}
      /\ now.current = target /\ now.previous = former.previous
  BY <1>1 DEF HInv, Entitled, ReleasesOK
<1>4. /\ new \in Lives /\ new.current = target /\ new.previous = former.current
      /\ new.releases = now.releases \cap kept
  BY <1>2, <1>3 DEF Lives
<1>5. live' = [live EXCEPT ![a] = new]
  BY <1>1, <1>2 DEF SelectFormer, Pruned, Kept, StateOK
<1> HIDE DEF new, former, target, a, now
<1>6. Selects(new) \subseteq new.releases /\ Selects(former) \subseteq new.releases
  BY <1>2, <1>3, <1>4 DEF Selects
<1>7. SeatKept(p) /\ task' = task /\ pc'[p] = "final"
  BY <1>2, MigrationGoes DEF SelectFormer, Inside, Migrating, Switching, Holding
<1>8. live'[a] = new
  BY <1>1, <1>2, <1>5 DEF StateOK
<1>9. ReleasesOK(p)' /\ InstalledOK(p)'
  BY <1>1, <1>6, <1>7, <1>8 DEF HInv, Entitled, ReleasesOK, InstalledOK, App, a, former
<1> QED
  BY <1>1, <1>2, <1>4, <1>5, <1>6, <1>7, <1>9, MovedType, PlatformStep DEF StateOK

LEMMA FinalStep ==
    ASSUME HInv, NEW p \in Operators, FinalLocked(p) \/ Confirm(p)
    PROVE  HInv'
<1>1. UNCHANGED <<chain, pending, backups, main, live, installed, calm>> /\ StateOK
      /\ pc[p] \in {"final", "confirm"}
  BY DEF FinalLocked, Confirm, store, At, HInv
<1>2. task[p].kind = "migrate" /\ (pc[p] = "final" => pc[p] \in Holding)
  BY <1>1, MigrationFacts DEF Migrating, Switching
<1>3. /\ SeatKept(p)
      /\ \/ pc'[p] \in {"idle", "fallback"}
         \/ pc'[p] \in {"confirm", "undo"} /\ pc[p] = "final" /\ task' = task
  BY <1>2, MigrationGoes, Ended
  DEF FinalLocked, Confirm, Leave, Results, At, Migrating, Switching, Undoing, Holding
<1>4. ReleasesOK(p)' /\ InstalledOK(p)'
  BY <1>1, <1>3 DEF HInv, Entitled, ReleasesOK, InstalledOK, App
<1> QED
  BY <1>1, <1>3, <1>4, PlatformStep DEF StateOK

\* An error in the lock, with or without the effect of its step.
LEMMA FailStep ==
    ASSUME HInv, NEW p \in Operators, MigrationFails(p)
    PROVE  HInv'
<1> DEFINE a == App(p)
           now == live[a]
           former == task[p].former
           target == task[p].target
           stored == [now EXCEPT !.releases = @ \cup {target}]
           pruned(gone) == [now EXCEPT !.previous = former.current, !.releases = now.releases \ gone]
           kept == {target, former.current, former.previous}
<1>1. UNCHANGED <<chain, pending, backups, main>> /\ pc[p] \in {"build", "apply", "gates", "former"} /\ StateOK
  BY DEF MigrationFails, Inside, store, At, HInv
<1>2. /\ task[p].kind = "migrate" /\ a \in Apps /\ lock[a] = p /\ now \in Lives /\ pc[p] \in Holding
      /\ Selects(now) \subseteq now.releases /\ former \in Lives /\ target \in Nat
      /\ Selects(former) \subseteq former.releases /\ task[p].candidate \in Registries
  BY <1>1, MigrationFacts DEF Migrating, Switching
<1>3. former.releases \subseteq now.releases /\ (pc[p] = "former" => now.current = target)
  BY <1>1 DEF HInv, Entitled, ReleasesOK
<1>4. /\ stored \in Lives /\ stored.current = now.current /\ stored.previous = now.previous
      /\ stored.releases = now.releases \cup {target}
  BY <1>2 DEF Lives
<1>5. \A gone : /\ pruned(gone) \in Lives /\ pruned(gone).current = now.current
                /\ pruned(gone).previous = former.current
                /\ pruned(gone).releases = now.releases \ gone
  BY <1>2 DEF Lives
<1>6. /\ Stored(p) = [live EXCEPT ![a] = stored]
      /\ \A gone : Pruned(p, now.releases \ gone) = [live EXCEPT ![a] = pruned(gone)]
  BY <1>1, <1>2 DEF Stored, Pruned, StateOK
<1>7. /\ \/ live' \in {live, Stored(p)}
         \/ pc[p] = "former" /\ \E gone \in SUBSET (now.releases \ kept) : live' = Pruned(p, now.releases \ gone)
      /\ installed' \in {installed, task[p].candidate}
      /\ calm' = (IF installed' = installed THEN calm ELSE calm \cap {p})
  BY DEF MigrationFails, Kept, At
<1> HIDE DEF stored, pruned, former, target, a, now
<1>8. PICK new \in Lives : /\ live' \in {live, [live EXCEPT ![a] = new]}
                           /\ Selects(new) \subseteq new.releases /\ Selects(former) \subseteq new.releases
  <2>1. CASE live' \in {live, Stored(p)}
    <3>1. Selects(stored) \subseteq stored.releases /\ Selects(former) \subseteq stored.releases
      BY <1>2, <1>3, <1>4 DEF Selects
    <3> QED
      BY <1>4, <1>6, <2>1, <3>1
  <2>2. ASSUME NEW gone \in SUBSET (now.releases \ kept), live' = Pruned(p, now.releases \ gone), pc[p] = "former"
        PROVE  \E new \in Lives : /\ live' \in {live, [live EXCEPT ![a] = new]}
                                  /\ Selects(new) \subseteq new.releases /\ Selects(former) \subseteq new.releases
    <3>1. Selects(former) \subseteq now.releases \ gone
      BY <1>2, <1>3, <2>2 DEF Selects
    <3>2. Selects(pruned(gone)) \subseteq now.releases \ gone
      BY <1>2, <1>3, <1>5, <2>2, <3>1 DEF Selects
    <3> QED
      BY <1>5, <1>6, <2>2, <3>1, <3>2
  <2> QED
    BY <1>7, <2>1, <2>2
<1>9. SeatKept(p) /\ task' = task /\ pc'[p] = "undo"
  BY <1>2, MigrationGoes DEF MigrationFails, Inside, Migrating, Undoing, Holding
<1>10. Selects(former) \subseteq live'[a].releases
  <2>1. live' = live \/ live'[a] = new
    BY <1>1, <1>2, <1>8 DEF StateOK
  <2> QED
    BY <1>2, <1>3, <1>8, <2>1 DEF Selects, now
<1>11. ReleasesOK(p)' /\ InstalledOK(p)'
  BY <1>9, <1>10 DEF ReleasesOK, InstalledOK, App, a, former
<1> QED
  BY <1>1, <1>2, <1>7, <1>8, <1>9, <1>11, MovedType, PlatformStep DEF StateOK

-----------------------------------------------------------------------------
\* The recovery of a migration.

LEMMA UndoPointersStep ==
    ASSUME HInv, NEW p \in Operators, UndoPointers(p) \/ (RecoveryFails(p) /\ pc[p] = "undo")
    PROVE  HInv'
<1> DEFINE a == App(p)
           now == live[a]
           former == task[p].former
           new == [now EXCEPT !.current = former.current, !.previous = former.previous]
           half == [now EXCEPT !.current = former.current]
<1>1. UNCHANGED <<chain, pending, backups, main, installed, calm>> /\ pc[p] = "undo" /\ StateOK
  BY DEF UndoPointers, RecoveryFails, store, At, HInv
<1>2. /\ task[p].kind = "migrate" /\ a \in Apps /\ lock[a] = p /\ now \in Lives /\ pc[p] \in Holding
      /\ Selects(now) \subseteq now.releases /\ former \in Lives
  BY <1>1, MigrationFacts DEF Migrating, Undoing
<1>3. Selects(former) \subseteq now.releases
  BY <1>1 DEF HInv, Entitled, ReleasesOK
<1>4. /\ new \in Lives /\ new.current = former.current /\ new.previous = former.previous
      /\ new.releases = now.releases
      /\ half \in Lives /\ half.current = former.current /\ half.previous = now.previous
      /\ half.releases = now.releases
  BY <1>2 DEF Lives
<1>5. [live EXCEPT ![a].current = former.current, ![a].previous = former.previous] = [live EXCEPT ![a] = new]
      /\ [live EXCEPT ![a].current = former.current] = [live EXCEPT ![a] = half]
  BY <1>1, <1>2 DEF StateOK
<1> HIDE DEF new, half, former, a, now
<1>6. Selects(new) \subseteq new.releases /\ Selects(half) \subseteq half.releases
  BY <1>2, <1>3, <1>4 DEF Selects
<1>7. \/ live' = [live EXCEPT ![a] = new]
      \/ live' \in {live, [live EXCEPT ![a] = half]}
  BY <1>1, <1>5 DEF UndoPointers, RecoveryFails, At, a, former
<1>8. SeatKept(p) /\ pc'[p] \in {"idle", "undo-registry"}
  BY <1>2, MigrationGoes, Ended DEF UndoPointers, RecoveryFails, Results, Migrating, Undoing, Holding
<1>9. ReleasesOK(p)' /\ InstalledOK(p)'
  BY <1>8 DEF ReleasesOK, InstalledOK
<1> QED
  BY <1>1, <1>2, <1>4, <1>6, <1>7, <1>8, <1>9, MovedType, PlatformStep DEF StateOK

LEMMA UndoRegistryStep ==
    ASSUME HInv, NEW p \in Operators, UndoRegistry(p) \/ (RecoveryFails(p) /\ pc[p] # "undo")
    PROVE  HInv'
<1>1. /\ UNCHANGED <<backups, main, live, installed, calm>> /\ StateOK
      /\ pc[p] \in {"undo-registry", "unpublish", "undo-install", "undo-release"}
  BY DEF UndoRegistry, RecoveryFails, At, HInv
<1>2. task[p].kind = "migrate" /\ task[p].before \in Registries
      /\ (pc[p] = "undo-registry" => pc[p] \in Holding)
  BY <1>1, MigrationFacts DEF Migrating, Undoing
<1>3. chain' \in Chains /\ pending' \in Chains \cup {None}
  <2>1. CASE UNCHANGED store
    BY <1>1, <2>1 DEF store, StateOK
  <2>2. CASE ~UNCHANGED store
    <3> DEFINE new == Extended(task[p].before)
    <3>1. Readable /\ (Publishes(new) \/ Interrupted(new))
      BY <1>1, <2>2 DEF UndoRegistry, RecoveryFails, At
    <3>2. new \in Chains
      BY <1>1, <1>2, <3>1, ExtendedFacts DEF Readable
    <3> HIDE DEF new
    <3> QED
      BY <1>1, <3>1, <3>2, Interrupts DEF Publishes, StateOK
  <2> QED
    BY <2>1, <2>2
<1>4. SeatKept(p) /\ pc'[p] \in {"idle", "undo-install"}
  BY <1>2, MigrationGoes, Ended DEF UndoRegistry, RecoveryFails, At, Results, Migrating, Undoing, Holding
<1> QED
  BY <1>1, <1>3, <1>4, StoreStep DEF StateOK, Knowing, Switching

LEMMA UndoInstallStep ==
    ASSUME HInv, NEW p \in Operators, UndoInstall(p)
    PROVE  HInv'
<1>1. UNCHANGED <<chain, pending, backups, main, live>> /\ StateOK /\ pc[p] = "undo-install"
  BY DEF UndoInstall, store, At, HInv
<1>2. task[p].kind = "migrate" /\ pc[p] \in Holding /\ task[p].before \in Registries
  BY <1>1, MigrationFacts DEF Migrating, Undoing
<1>3. /\ SeatKept(p)
      /\ \/ pc'[p] = "idle" /\ UNCHANGED <<installed, calm>>
         \/ pc'[p] = "undo-release" /\ task' = task /\ installed' = task[p].before /\ calm' = calm \cap {p}
  BY <1>2, MigrationGoes, Ended DEF UndoInstall, Results, Migrating, Undoing, Holding
<1>4. ReleasesOK(p)' /\ InstalledOK(p)'
  BY <1>3 DEF ReleasesOK, InstalledOK
<1> QED
  BY <1>1, <1>2, <1>3, <1>4, PlatformStep DEF StateOK

LEMMA UndoReleaseStep ==
    ASSUME HInv, NEW p \in Operators, UndoRelease(p)
    PROVE  HInv'
<1> DEFINE a == App(p)
           now == live[a]
           former == task[p].former
           new == [now EXCEPT !.releases = former.releases]
<1>1. UNCHANGED <<chain, pending, backups, main, installed, calm>> /\ pc[p] = "undo-release" /\ StateOK
  BY DEF UndoRelease, store, At, HInv
<1>2. /\ a \in Apps /\ lock[a] = p /\ now \in Lives /\ former \in Lives
      /\ Selects(now) \subseteq now.releases /\ Selects(former) \subseteq former.releases
  BY <1>1, MigrationFacts DEF Migrating, Undoing
<1>3. /\ new \in Lives /\ new.current = now.current /\ new.previous = now.previous
      /\ new.releases = former.releases
  BY <1>2 DEF Lives
<1>4. [live EXCEPT ![a].releases = former.releases] = [live EXCEPT ![a] = new]
  BY <1>1, <1>2 DEF StateOK
<1>5. live' = live \/ (FormerPair(p) /\ live' = [live EXCEPT ![a] = new])
  BY <1>4 DEF UndoRelease
<1> HIDE DEF new
<1>6. FormerPair(p) => Selects(new) \subseteq new.releases
  BY <1>2, <1>3 DEF FormerPair, Pair, Selects
<1>7. SeatKept(p) /\ pc'[p] = "idle"
  BY Ended DEF UndoRelease, Results
<1>8. ReleasesOK(p)' /\ InstalledOK(p)'
  BY <1>7 DEF ReleasesOK, InstalledOK
<1>9. CASE live' = live
  BY <1>1, <1>7, <1>8, <1>9, PlatformStep DEF StateOK
<1>10. CASE FormerPair(p) /\ live' = [live EXCEPT ![a] = new]
  BY <1>1, <1>2, <1>3, <1>6, <1>7, <1>8, <1>10, MovedType, PlatformStep DEF StateOK
<1> QED
  BY <1>5, <1>9, <1>10

-----------------------------------------------------------------------------
\* The commands on the profile.

LEMMA FirstStep ==
    ASSUME HInv, NEW p \in Operators, PublishFirst(p)
    PROVE  HInv'
<1> DEFINE new == IF pc[p] = "restore" THEN task[p].candidate ELSE <<task[p].candidate>>
<1>1. UNCHANGED <<backups, main, live, installed, calm>> /\ StateOK /\ pc[p] \in {"initialise", "restore"}
  BY DEF PublishFirst, Same, At, HInv
<1>2. new \in Chains /\ (pc[p] = "initialise" => task[p].kind = "init")
  BY <1>1, KindOf, OneChain DEF TaskOK
<1>3. Publishes(new) \/ Interrupted(new) \/ UNCHANGED store
  BY DEF PublishFirst
<1> HIDE DEF new
<1>4. chain' \in Chains /\ pending' \in Chains \cup {None}
  BY <1>1, <1>2, <1>3, Interrupts DEF Publishes, store, StateOK
<1>5. SeatKept(p) /\ pc'[p] \in {"idle", "snapshot"}
  <2>1. CASE \E how \in Results : End(p, how)
    BY <2>1, Ended
  <2>2. CASE ~\E how \in Results : End(p, how)
    <3>1. Goto(p, "snapshot") /\ UNCHANGED lock /\ pc[p] = "initialise"
      BY <1>1, <2>2 DEF PublishFirst, Results
    <3>2. Takes(task[p].kind, "snapshot") /\ "snapshot" \in States \ Holding /\ pc[p] \notin Holding
      BY <1>2, <3>1 DEF Takes, States, Holding
    <3> QED
      BY <3>1, <3>2, Gone
  <2> QED
    BY <2>1, <2>2
<1> QED
  BY <1>1, <1>4, <1>5, StoreStep DEF StateOK, Knowing, Switching

\* The profile is read: what is backed up is not empty.
LEMMA ReadStep ==
    ASSUME HInv, NEW p \in Operators, Snapshot(p) \/ BuildDocument(p)
    PROVE  HInv'
<1>1. UNCHANGED <<chain, pending, backups, main, live, installed, calm>> /\ StateOK
      /\ pc[p] \in {"snapshot", "backup"}
  BY DEF Snapshot, BuildDocument, Same, At, store, HInv
<1>2. /\ task[p] \in Tasks /\ TaskOK(task[p]) /\ task[p].kind \in {"init", "adopt", "backup", "replace"}
      /\ pc[p] = "snapshot" => task[p].kind = "init"
  BY <1>1, KindOf
<1>3. SeatKept(p) /\ pc'[p] \in {"idle", "backup", "write"}
  <2>1. CASE End(p, "failed")
    BY <2>1, Ended DEF Results
  <2>2. CASE ~End(p, "failed")
    <3> DEFINE t == IF pc[p] = "snapshot" THEN [task[p] EXCEPT !.chain = chain]
                    ELSE [task[p] EXCEPT !.document = chain]
               s == IF pc[p] = "snapshot" THEN "backup" ELSE "write"
    <3>1. /\ task' = [task EXCEPT ![p] = t] /\ pc' = [pc EXCEPT ![p] = s]
          /\ UNCHANGED <<result, lock>> /\ chain # <<>>
      BY <1>1, <2>2 DEF Snapshot, BuildDocument, Readable, At
    <3>2. chain \in Chains
      BY <1>1 DEF StateOK
    <3>3. t \in Tasks /\ t.kind = task[p].kind /\ t.app = task[p].app
          /\ t.before = task[p].before /\ t.candidate = task[p].candidate /\ t.former = task[p].former
      BY <1>2, <3>2 DEF Tasks
    <3>4. s = "write" => t.document = chain
      BY <1>2 DEF Tasks
    <3> HIDE DEF t
    <3>5. TaskOK(t) /\ Takes(t.kind, s) /\ s \in States \ Holding /\ pc[p] \notin Holding
      BY <1>1, <1>2, <3>3 DEF TaskOK, Takes, States, Holding
    <3> HIDE DEF s
    <3>6. s \in {"backup", "write"}
      BY DEF s
    <3> QED
      BY <1>1, <3>1, <3>3, <3>4, <3>5, <3>6, Noted DEF StateOK
  <2> QED
    BY <2>1, <2>2
<1> QED
  BY <1>1, <1>3, StoreStep DEF StateOK, Knowing, Switching

LEMMA WriteStep ==
    ASSUME HInv, NEW p \in Operators, WriteBackup(p)
    PROVE  HInv'
<1> DEFINE d == task[p].document
           written == Append(backups, d)
<1>1. UNCHANGED <<chain, pending, main, live, installed, calm>> /\ StateOK /\ pc[p] = "write"
      /\ backups' \in {backups, written}
  BY DEF WriteBackup, Same, At, store, HInv
<1>2. d \in Chains \ {<<>>} /\ task[p].kind \in {"init", "adopt", "backup", "replace"}
  BY <1>1, KindOf DEF Tasks, HInv, Entitled, MemoryOK
<1>3. /\ backups' \in Seq(Chains \ {<<>>}) /\ ToSet(backups) \subseteq ToSet(backups')
      /\ backups' = written => d \in ToSet(backups')
  <2>1. backups \in Seq(Chains \ {<<>>})
    BY <1>1 DEF StateOK
  <2>2. written \in Seq(Chains \ {<<>>}) /\ ToSet(backups) \cup {d} \subseteq ToSet(written)
    BY <1>2, <2>1, AppendBackup
  <2> HIDE DEF written
  <2> QED
    BY <1>1, <2>1, <2>2
<1> HIDE DEF written
<1>4. SeatKept(p) /\ pc'[p] \in {"idle", "replace", "compare"}
  <2>1. CASE \E how \in Results : End(p, how)
    BY <2>1, Ended
  <2>2. CASE ~\E how \in Results : End(p, how)
    <3>1. PICK s \in {"replace", "compare"} :
            /\ Goto(p, s) /\ UNCHANGED lock /\ Matches(p) /\ backups' = written
            /\ s = "replace" <=> task[p].kind = "replace"
            /\ task[p].kind # "init"
      <4>1. Matches(p) /\ backups' = written
            /\ CASE task[p].kind = "init" -> End(p, "done")
                 [] task[p].kind = "replace" -> Goto(p, "replace") /\ UNCHANGED lock
                 [] OTHER -> Goto(p, "compare") /\ UNCHANGED lock
        BY <2>2 DEF WriteBackup, Results, written
      <4> QED
        BY <2>2, <4>1 DEF Results
    <3>2. Takes(task[p].kind, s) /\ s \in States \ Holding /\ pc[p] \notin Holding
      BY <1>1, <1>2, <3>1 DEF Takes, States, Holding
    <3>3. task[p].chain \in ToSet(backups')
      BY <1>3, <3>1 DEF Matches
    <3> QED
      BY <3>1, <3>2, <3>3, Gone
  <2> QED
    BY <2>1, <2>2
<1> QED
  BY <1>1, <1>3, <1>4, StoreStep DEF StateOK, Knowing, Switching

LEMMA ReplaceStep ==
    ASSUME HInv, NEW p \in Operators, Replace(p) \/ Compare(p)
    PROVE  HInv'
<1>1. UNCHANGED <<backups, main, live, installed, calm>> /\ StateOK
  BY DEF Replace, Compare, Same, HInv
<1>2. chain' \in Chains /\ pending' \in Chains \cup {None}
  <2>1. CASE UNCHANGED store
    BY <1>1, <2>1 DEF store, StateOK
  <2>2. CASE ~UNCHANGED store
    <3> DEFINE new == Append(chain, Last(task[p].candidate))
    <3>1. task[p].candidate \in Chains \ {<<>>} /\ (Publishes(new) \/ Interrupted(new))
      BY <2>2, KindOf DEF Replace, Compare, At, TaskOK
    <3>2. new \in Chains
      BY <1>1, <3>1, ChainFacts DEF StateOK
    <3> HIDE DEF new
    <3> QED
      BY <1>1, <3>1, <3>2, Interrupts DEF Publishes, StateOK
  <2> QED
    BY <2>1, <2>2
<1>3. SeatKept(p) /\ pc'[p] = "idle"
  BY Ended DEF Replace, Compare, Results
<1> QED
  BY <1>1, <1>2, <1>3, StoreStep DEF StateOK, Knowing, Switching

-----------------------------------------------------------------------------
\* Faults and authors.

LEMMA KillStep ==
    ASSUME HInv, NEW p \in Operators, Kill(p)
    PROVE  HInv'
<1>1. UNCHANGED <<chain, pending, backups, main, live, installed, calm>> /\ StateOK
  BY DEF Kill, Same, store, HInv
<1>2. SeatKept(p) /\ pc'[p] = "idle"
  BY Ended DEF Kill, Results
<1> QED
  BY <1>1, <1>2, StoreStep DEF StateOK, Knowing, Switching

\* Nothing the seats are entitled to changes: main, the chain, the creation.
LEMMA StillEntitled ==
    ASSUME HInv, UNCHANGED <<backups, live, lock, installed, seat, calm>>,
           chain' \in Chains, pending' \in Chains \cup {None}, main' \in [Apps -> Nat]
    PROVE  HInv'
BY DEF HInv, StateOK, LockOK, Entitled, MemoryOK, ReleasesOK, InstalledOK, App, Pair, seat

LEMMA WorldStep ==
    ASSUME HInv, Lose \/ \E a \in Apps : Commit(a)
    PROVE  HInv'
<1>1. CASE Lose
  BY <1>1, EmptyChain, StillEntitled DEF Lose, Same, HInv, StateOK
<1>2. ASSUME NEW a \in Apps, Commit(a) PROVE HInv'
  <2>1. main[a] \in Nat /\ main' = [main EXCEPT ![a] = @ + 1]
    BY <1>2 DEF Commit, HInv, StateOK
  <2>2. main' \in [Apps -> Nat]
    BY <2>1 DEF HInv, StateOK
  <2> QED
    BY <1>2, <2>2, StillEntitled DEF Commit, store, runtime, HInv, StateOK
<1> QED
  BY <1>1, <1>2

LEMMA HostStep == ASSUME HInv, Next PROVE HInv'
<1>1. ASSUME NEW p \in Operators, Commands(p) PROVE HInv'
  BY <1>1, PlanStep, OperateStep, MigrateStep, RequestStep, RecoverStep DEF Commands
<1>2. ASSUME NEW p \in Operators, Steps(p) PROVE HInv'
  BY <1>2, PublishStep, LockStep, LockToMigrateStep, RenderStep, InstallStep, SwitchFirstStep, SwitchStep,
     ValidateStep, BuildStep, ApplyStep, FormerStep, FinalStep, FailStep, UndoPointersStep,
     UndoRegistryStep, UndoInstallStep, UndoReleaseStep,
     FirstStep, ReadStep, WriteStep, ReplaceStep DEF Steps
<1> QED
  BY <1>1, <1>2, KillStep, WorldStep DEF Next

LEMMA HostInit == ASSUME LifecycleInit PROVE HInv
<1>1. PICK h \in Hosts :
        /\ chain = h.chain /\ backups = h.backups /\ main = h.main /\ live = h.live
        /\ installed = IF h.chain = <<>> THEN None ELSE Last(h.chain)
  BY DEF LifecycleInit, Init
<1>2. Legal(h)
  BY Parameters
<1>3. StateOK
  <2>1. chain \in Chains /\ backups \in Seq(Chains \ {<<>>}) /\ main \in [Apps -> Nat] /\ live \in [Apps -> Lives]
        /\ \A a \in Apps : Selects(live[a]) \subseteq live[a].releases
    BY <1>1, <1>2 DEF Legal, Chains, Selects
  <2>2. installed \in Registries \cup {None}
    BY <1>1, <2>1, ChainFacts
  <2> QED
    BY <2>1, <2>2, NoTaskOK DEF LifecycleInit, Init, StateOK, States, Results
<1>4. pc = [p \in Operators |-> "idle"] /\ task = [p \in Operators |-> NoTask]
      /\ lock = [a \in Apps |-> None]
  BY DEF LifecycleInit, Init
<1>5. LockOK
  BY <1>4, Parameters DEF LockOK, Holding
<1>6. ASSUME NEW p \in Operators PROVE Entitled(p)
  BY <1>4, NoTaskOK DEF Entitled, MemoryOK, ReleasesOK, InstalledOK, Takes
<1> QED
  BY <1>3, <1>5, <1>6 DEF HInv

\* The repository of the created application is there while its destination holds it.
MadeThere == main[Made] # 0 <=> dest \in Creation!Published
HostInv == IInv /\ HInv /\ MadeThere

\* Only authors change main.
LEMMA MainKept ==
    ASSUME NEW p \in Operators, Commands(p) \/ Steps(p) \/ Kill(p)
    PROVE  main' = main
<1>1. CASE Commands(p)
  BY <1>1 DEF Commands, Register, Activate, Plan, Deploy, Install, Migrate, Initialise, Adopt, Backup,
     Restore, Request, Recover, Same
<1>2. CASE \/ Publish(p) \/ PublishFails(p) \/ Lock(p) \/ Render(p) \/ WriteInstalled(p) \/ Switch(p)
           \/ SwitchFirst(p) \/ LockToMigrate(p) \/ Validate(p) \/ FinalLocked(p) \/ Confirm(p) \/ SelectFails(p)
  BY <1>2 DEF Publish, PublishFails, Lock, LockToMigrate, Render, WriteInstalled, SwitchFirst, Switch, Validate,
     FinalLocked, Confirm, SelectFails
<1>3. CASE \/ Build(p) \/ Select(p) \/ InstallCandidate(p) \/ Gates(p) \/ SelectFormer(p)
           \/ MigrationFails(p)
  BY <1>3 DEF Build, Select, InstallCandidate, Gates, SelectFormer, MigrationFails, Inside
<1>4. CASE \/ Unpublish(p) \/ UndoPointers(p) \/ Fallback(p) \/ UndoRegistry(p) \/ UndoInstall(p)
           \/ UndoRelease(p) \/ RecoveryFails(p)
  BY <1>4 DEF Unpublish, UndoPointers, Fallback, UndoRegistry, UndoInstall, UndoRelease, RecoveryFails
<1>5. CASE \/ PublishFirst(p) \/ Snapshot(p) \/ BuildDocument(p) \/ WriteBackup(p) \/ Compare(p)
           \/ Replace(p) \/ Kill(p)
  BY <1>5 DEF PublishFirst, Snapshot, BuildDocument, WriteBackup, Compare, Replace, Kill, Same
<1> QED
  BY <1>1, <1>2, <1>3, <1>4, <1>5 DEF Steps

LEMMA HostNext == HostInv /\ [Operate \/ Create \/ Rest]_vars => HostInv'
<1> SUFFICES ASSUME HostInv, [Operate \/ Create \/ Rest]_vars PROVE HostInv'
  OBVIOUS
<1>1. IInv'
  BY NextStep DEF HostInv
<1>2. main \in [Apps -> Nat] /\ Made \in Apps
  BY MadeIsAnApp DEF HostInv, HInv, StateOK
<1>3. CASE Operate
  <2>1. HInv' /\ dest' = dest
    BY <1>3, HostStep DEF HostInv, Operate, creation
  <2>2. main'[Made] # 0 <=> main[Made] # 0
    <3>1. CASE \E a \in Apps : Commit(a)
      BY <1>2, <3>1 DEF Commit
    <3>2. CASE ~\E a \in Apps : Commit(a)
      <4>1. main' = main
        BY <1>3, <3>2, MainKept DEF Operate, Next, Lose, Same
      <4> QED
        BY <4>1
    <3> QED
      BY <3>1, <3>2
  <2> QED
    BY <1>1, <2>1, <2>2 DEF HostInv, MadeThere
<1>4. CASE Create
  <2>1. /\ main' = [main EXCEPT ![Made] = IF dest' \notin Creation!Published THEN 0
                                       ELSE IF dest \notin Creation!Published THEN 1 ELSE @]
        /\ UNCHANGED <<chain, pending, backups, live, lock, installed, seat, calm>>
    BY <1>4 DEF Create, Repository, store, runtime
  <2>2. main' \in [Apps -> Nat] /\ (main'[Made] # 0 <=> dest' \in Creation!Published)
    BY <1>2, <2>1 DEF HostInv, MadeThere
  <2>3. HInv'
    BY <2>1, <2>2, StillEntitled DEF HostInv, HInv, StateOK
  <2> QED
    BY <1>1, <2>2, <2>3 DEF HostInv, MadeThere
<1>5. CASE Rest \/ UNCHANGED vars
  <2>1. UNCHANGED <<chain, pending, backups, main, live, lock, installed, seat, calm, dest>>
    BY <1>5 DEF Rest, vars, host, creation, store, runtime
  <2>2. HInv'
    BY <2>1, StillEntitled DEF HostInv, HInv, StateOK
  <2> QED
    BY <1>1, <2>1, <2>2 DEF HostInv, MadeThere
<1> QED
  BY <1>3, <1>4, <1>5

LEMMA HostAlways == Spec => []HostInv
<1>1. LifecycleInit => HostInv
  <2>1. Creation!Init => dest \notin Creation!Published
    BY DEF Creation!Init, Creation!Published
  <2> QED
    BY <2>1, InitIInv, HostInit DEF HostInv, MadeThere, LifecycleInit
<1> QED
  BY <1>1, HostNext, PTL DEF Spec

-----------------------------------------------------------------------------
\* Every registry ever published is legal, no two services share a port, every
\* selected release is stored, each lock is held by the command that works
\* under it, and a repository is where its creation has put it.
THEOREM HostTypeCorrect == Spec => []TypeOK
<1>1. HInv => HostOK
  <2> SUFFICES ASSUME HInv PROVE HostOK
    OBVIOUS
  <2>1. \A i \in DOMAIN backups : backups[i] \in Chains \ {<<>>}
    BY DEF HInv, StateOK
  <2>2. \A a \in Apps : live[a] \in Lives /\ ({live[a].current, live[a].previous} \ {None}) \subseteq live[a].releases
    BY DEF HInv, StateOK, Selects
  <2> QED
    BY <2>1, <2>2 DEF HInv, StateOK, LockOK, HostOK, Chains
<1>2. HostInv => TypeOK
  BY <1>1 DEF HostInv, MadeThere, TypeOK, IInv
<1> QED
  BY <1>2, HostAlways, PTL

\* A step moves the seat of one operator.
LEMMA SeatsApart ==
    ASSUME HInv, NEW p \in Operators, NEW q \in Operators, p # q, Commands(q) \/ Steps(q) \/ Kill(q)
    PROVE  pc'[p] = pc[p]
<1>1. (\E s : pc' = [pc EXCEPT ![q] = s]) => pc'[p] = pc[p]
  BY DEF HInv, StateOK
<1>2. CASE Commands(q)
  BY <1>1, <1>2 DEF Commands, Register, Activate, Plan, Deploy, Install, Migrate, Initialise, Adopt, Backup,
     Restore, Request, Recover, Command, seat
<1>3. CASE \/ Publish(q) \/ PublishFails(q) \/ Lock(q) \/ Render(q) \/ WriteInstalled(q) \/ Switch(q)
           \/ SwitchFirst(q) \/ LockToMigrate(q) \/ Validate(q) \/ FinalLocked(q) \/ Confirm(q) \/ SelectFails(q)
  BY <1>1, <1>3 DEF Publish, PublishFails, Lock, LockToMigrate, Render, WriteInstalled, SwitchFirst, Switch, SwitchFails,
     Validate, FinalLocked, Confirm, SelectFails, End, Stopped, Leave, Goto
<1>4. CASE \/ Build(q) \/ Select(q) \/ InstallCandidate(q) \/ Gates(q) \/ SelectFormer(q)
           \/ MigrationFails(q)
  BY <1>1, <1>4 DEF Build, Select, InstallCandidate, Gates, SelectFormer, MigrationFails, Inside, Goto
<1>5. CASE \/ Unpublish(q) \/ UndoPointers(q) \/ Fallback(q) \/ UndoRegistry(q) \/ UndoInstall(q)
           \/ UndoRelease(q) \/ RecoveryFails(q)
  BY <1>1, <1>5 DEF Unpublish, UndoPointers, Fallback, UndoRegistry, UndoInstall, UndoRelease, RecoveryFails,
     End, Stopped, Goto
<1>6. CASE \/ PublishFirst(q) \/ Snapshot(q) \/ BuildDocument(q) \/ WriteBackup(q) \/ Compare(q)
           \/ Replace(q) \/ Kill(q)
  BY <1>1, <1>6 DEF PublishFirst, Snapshot, BuildDocument, WriteBackup, Compare, Replace, Kill, End, Stopped, Goto
<1> QED
  BY <1>2, <1>3, <1>4, <1>5, <1>6 DEF Steps

\* What moves the seat of p is a step of p.
LEMMA OwnStep ==
    ASSUME HostInv, [Operate \/ Create \/ Rest]_vars, NEW p \in Operators, pc'[p] # pc[p]
    PROVE  HInv /\ (Commands(p) \/ Steps(p) \/ Kill(p))
<1>1. Operate
  BY DEF Create, Rest, vars, host, seat
<1>2. PICK q \in Operators : Commands(q) \/ Steps(q) \/ Kill(q)
  BY <1>1 DEF Operate, Next, Lose, Commit, seat
<1> QED
  BY <1>2, SeatsApart DEF HostInv

\* The steps that publish, and what they publish over.
LEMMA Publishers ==
    ASSUME HInv, NEW p \in Operators, Commands(p) \/ Steps(p) \/ Kill(p), pc'[p] # pc[p], chain' # chain
    PROVE  \/ /\ task[p].kind \in Changing /\ Readable
              /\ Profile \in {task[p].before, task[p].candidate}
              /\ \E r \in {task[p].before, task[p].candidate} : chain' = Extended(r)
           \/ PublishFirst(p) \/ Replace(p)
<1>1. \/ Publish(p) \/ PublishFails(p) \/ Unpublish(p) \/ UndoRegistry(p) \/ RecoveryFails(p)
      \/ PublishFirst(p) \/ Replace(p)
  <2>1. CASE Commands(p)
    BY <2>1 DEF Commands, Register, Activate, Plan, Deploy, Install, Migrate, Initialise, Adopt, Backup,
       Restore, Request, Recover, store, seat
  <2>2. CASE \/ Lock(p) \/ Render(p) \/ WriteInstalled(p) \/ SwitchFirst(p) \/ Switch(p)
             \/ LockToMigrate(p) \/ Validate(p) \/ FinalLocked(p) \/ Confirm(p) \/ SelectFails(p)
             \/ UndoPointers(p) \/ Fallback(p) \/ UndoInstall(p) \/ UndoRelease(p)
    BY <2>2 DEF Lock, Render, WriteInstalled, SwitchFirst, Switch, LockToMigrate, Validate,
       FinalLocked, Confirm, SelectFails, UndoPointers,
       Fallback, UndoInstall, UndoRelease, store
  <2>3. CASE \/ Build(p) \/ Select(p) \/ InstallCandidate(p) \/ Gates(p) \/ SelectFormer(p)
             \/ MigrationFails(p) \/ Snapshot(p) \/ BuildDocument(p) \/ WriteBackup(p) \/ Compare(p) \/ Kill(p)
    BY <2>3 DEF Build, Select, InstallCandidate, Gates, SelectFormer, MigrationFails, Inside,
       Snapshot, BuildDocument, WriteBackup, Compare, Kill, store
  <2> QED
    BY <2>1, <2>2, <2>3 DEF Steps
<1>2. CASE Publish(p) \/ PublishFails(p)
  BY <1>2, KindOf DEF Publish, PublishFails, At, Publishes, Interrupted, store
<1>3. CASE Unpublish(p) \/ UndoRegistry(p) \/ RecoveryFails(p)
  <2>1. task[p].kind = "migrate"
    BY <1>3, KindOf DEF Unpublish, UndoRegistry, RecoveryFails, At, Migrating, Undoing
  <2> QED
    BY <1>3, <2>1 DEF Unpublish, UndoRegistry, RecoveryFails, Publishes, Interrupted, store, Changing
<1> QED
  BY <1>1, <1>2, <1>3

\* A registration, an activation or a migration, its recovery included, changes
\* no entry but its own, whatever the others have done since it was planned.
THEOREM HostKeepsOthers == Spec => OthersKept
<1> DEFINE OthersSame == \A p \in Operators :
                     pc'[p] # pc[p] /\ task[p].app # None /\ chain # <<>>
                     => \A b \in Apps \ {task[p].app} : Profile'[b] = Profile[b]
<1>1. ASSUME HostInv, [Operate \/ Create \/ Rest]_vars PROVE OthersSame
  <2> SUFFICES ASSUME NEW p \in Operators, pc'[p] # pc[p], task[p].app # None, chain # <<>>,
                      NEW b \in Apps \ {task[p].app}
               PROVE  Profile'[b] = Profile[b]
    OBVIOUS
  <2>1. CASE chain' = chain
    BY <2>1 DEF Profile
  <2>2. CASE chain' # chain
    <3>1. HInv /\ (Commands(p) \/ Steps(p) \/ Kill(p))
      BY <1>1, OwnStep
    <3>2. ~PublishFirst(p) /\ ~Replace(p)
      BY <2>2, <3>1, KindOf DEF PublishFirst, Replace, At, TaskOK, Storing, store
    <3>3. task[p].kind \in Changing /\ Profile \in {task[p].before, task[p].candidate}
      BY <2>2, <3>1, <3>2, Publishers
    <3>4. PICK r \in {task[p].before, task[p].candidate} : chain' = Extended(r)
      BY <2>2, <3>1, <3>2, Publishers
    <3>5. /\ task[p].before \in Registries /\ task[p].candidate \in Registries
          /\ task[p].candidate[b] = task[p].before[b]
      BY <3>1, <3>3, ChangeFacts DEF App
    <3>6. Profile' = r
      BY <3>1, <3>4, <3>5, ExtendedFacts DEF HInv
    <3> QED
      BY <3>3, <3>5, <3>6
  <2> QED
    BY <2>1, <2>2
<1>2. HostInv /\ [Operate \/ Create \/ Rest]_vars => [OthersSame]_host
  BY <1>1
<1> HIDE DEF OthersSame
<1>3. Spec => [][OthersSame]_host
  BY <1>2, HostAlways, PTL DEF Spec
<1> QED
  BY <1>3 DEF OthersKept, OthersSame

\* The history restore --replace publishes over is in a backup.
THEOREM HostBacksUpReplaced == Spec => ReplacedIsBackedUp
<1> DEFINE BackedUp == \A p \in Operators :
                     pc[p] = "replace" /\ chain' # chain /\ pc'[p] # pc[p] => chain \in ToSet(backups)
<1>1. ASSUME HostInv, [Operate \/ Create \/ Rest]_vars PROVE BackedUp
  <2> SUFFICES ASSUME NEW p \in Operators, pc[p] = "replace", chain' # chain, pc'[p] # pc[p]
               PROVE  chain \in ToSet(backups)
    OBVIOUS
  <2>1. HInv /\ (Commands(p) \/ Steps(p) \/ Kill(p))
    BY <1>1, OwnStep
  <2>2. task[p].kind = "replace" /\ task[p].chain \in ToSet(backups)
    BY <2>1, KindOf DEF HInv, Entitled, MemoryOK
  <2>3. Replace(p)
    BY <2>1, <2>2, Publishers DEF PublishFirst, At, Changing
  <2> QED
    BY <2>2, <2>3 DEF Replace, store
<1>2. HostInv /\ [Operate \/ Create \/ Rest]_vars => [BackedUp]_host
  BY <1>1
<1> HIDE DEF BackedUp
<1>3. Spec => [][BackedUp]_host
  BY <1>2, HostAlways, PTL DEF Spec
<1> QED
  BY <1>3 DEF ReplacedIsBackedUp, BackedUp

-----------------------------------------------------------------------------
\* How a migration ends.

LEMMA MigrationEnds ==
    ASSUME HInv, NEW p \in Operators, Commands(p) \/ Steps(p) \/ Kill(p), task[p].kind = "migrate",
           pc'[p] = "idle", result'[p] \in {"failed", "migrated"}
    PROVE  \/ result'[p] = "failed" /\ (Unpublish(p) \/ UndoRelease(p))
           \/ result'[p] = "migrated" /\ Confirm(p)
<1>1. pc[p] \in {"publish", "lock"} \cup Migrating
  BY KindOf DEF HInv, Entitled, MemoryOK, Takes, Changing, Operating, Storing
<1>2. /\ \A how \in Results : End(p, how) => result'[p] = how
      /\ \A s : Goto(p, s) => pc'[p] = s
  <2>1. \A s : Goto(p, s) => pc'[p] = s
    BY DEF Goto, HInv, StateOK
  <2> QED
    BY <2>1, Ended
<1>3. ~Commands(p)
  BY <1>1 DEF Commands, Register, Activate, Plan, Deploy, Install, Migrate, Initialise, Adopt, Backup,
     Restore, Request, Recover, Command, seat, Migrating, Switching, Undoing
<1>4. ~Publish(p) /\ ~PublishFails(p) /\ ~Lock(p) /\ ~LockToMigrate(p) /\ ~Validate(p) /\ ~SelectFails(p)
      /\ ~FinalLocked(p) /\ ~Kill(p)
  BY <1>2 DEF Publish, PublishFails, Lock, LockToMigrate, Validate, SelectFails, FinalLocked, Leave, Kill, Results
<1>5. ~Build(p) /\ ~Select(p) /\ ~InstallCandidate(p) /\ ~Gates(p) /\ ~SelectFormer(p) /\ ~MigrationFails(p)
  BY <1>2 DEF Build, Select, InstallCandidate, Gates, SelectFormer, MigrationFails, Inside
<1>6. ~UndoPointers(p) /\ ~Fallback(p) /\ ~UndoRegistry(p) /\ ~UndoInstall(p) /\ ~RecoveryFails(p)
  BY <1>2 DEF UndoPointers, Fallback, UndoRegistry, UndoInstall, RecoveryFails, Results
<1>7. /\ ~Render(p) /\ ~WriteInstalled(p) /\ ~SwitchFirst(p) /\ ~Switch(p) /\ ~PublishFirst(p) /\ ~Snapshot(p)
      /\ ~BuildDocument(p) /\ ~WriteBackup(p) /\ ~Compare(p) /\ ~Replace(p)
  BY <1>1 DEF Render, WriteInstalled, SwitchFirst, Switch, PublishFirst, Snapshot, BuildDocument, WriteBackup, Compare,
     Replace, At, Migrating, Switching, Undoing
<1>8. Unpublish(p) \/ UndoRelease(p) \/ Confirm(p)
  BY <1>3, <1>4, <1>5, <1>6, <1>7 DEF Steps
<1> QED
  BY <1>2, <1>8 DEF Unpublish, UndoRelease, Confirm, Results

\* A failure is reported where everything has been put back.
LEMMA FailedMigration ==
    ASSUME HInv, NEW p \in Operators, task[p].kind = "migrate", result'[p] = "failed",
           Unpublish(p) \/ UndoRelease(p)
    PROVE  /\ Profile' = task[p].before
           /\ live'[App(p)] = task[p].former
           /\ p \in calm' => installed' \in {task[p].before, task[p].rendered}
<1> DEFINE a == App(p)
           former == task[p].former
<1>1. /\ a \in Apps /\ task[p].before \in Registries /\ former \in Lives /\ live[a] \in Lives
      /\ \A how \in Results : End(p, how) => result'[p] = how
  BY ChangeFacts, Ended, KindOf DEF Changing, Tasks, HInv, StateOK
<1>2. FormerPair(p) => live[a].current = former.current /\ live[a].previous = former.previous
  BY DEF FormerPair, Pair
<1>3. CASE Unpublish(p)
  <2>1. /\ FormerPair(p) /\ Readable /\ Publishes(Extended(task[p].before))
        /\ live[a].releases = former.releases /\ UNCHANGED <<live, installed, calm>> /\ pc[p] = "unpublish"
    BY <1>1, <1>3 DEF Unpublish, Results, At
  <2>2. live[a] = former
    BY <1>1, <1>2, <2>1 DEF Lives
  <2>3. Profile' = task[p].before
    BY <1>1, <2>1, ExtendedFacts DEF Readable, Publishes, HInv
  <2> QED
    BY <2>1, <2>2, <2>3 DEF HInv, Entitled, InstalledOK
<1>4. CASE UndoRelease(p)
  <2>1. /\ Profile = task[p].before /\ FormerPair(p) /\ live' = [live EXCEPT ![a].releases = former.releases]
        /\ UNCHANGED <<chain, installed, calm>> /\ pc[p] = "undo-release"
    BY <1>1, <1>4 DEF UndoRelease, Results, At, store
  <2>2. live'[a] = [live[a] EXCEPT !.releases = former.releases]
    BY <1>1, <2>1 DEF HInv, StateOK
  <2>3. live'[a] = former
    BY <1>1, <1>2, <2>1, <2>2 DEF Lives
  <2>4. Profile' = task[p].before
    BY <2>1 DEF Profile
  <2> QED
    BY <2>1, <2>3, <2>4 DEF HInv, Entitled, InstalledOK
<1> QED
  BY <1>3, <1>4

\* A migration that reports a plain failure has changed nothing, and one that
\* succeeds has changed everything it was to change: profile, selected
\* releases, and the installed files unless somebody else has installed.
THEOREM HostMigratesWhole == Spec => MigrationWhole
<1> DEFINE Whole == \A p \in Operators :
          task[p].kind = "migrate" /\ pc[p] # "idle" /\ pc'[p] = "idle"
          => /\ result'[p] = "failed"
                => /\ Profile' = task[p].before
                   /\ live'[App(p)] = task[p].former
                   /\ p \in calm' => installed' \in {task[p].before, task[p].rendered}
             /\ result'[p] = "migrated"
                => /\ Profile' = task[p].candidate
                   /\ Pair(live'[App(p)]) = <<task[p].target, task[p].former.current>>
                   /\ p \in calm' => installed' = task[p].candidate
<1>1. ASSUME HostInv, [Operate \/ Create \/ Rest]_vars PROVE Whole
  <2>1. ASSUME NEW p \in Operators, task[p].kind = "migrate", pc[p] # "idle", pc'[p] = "idle"
        PROVE  HInv /\ (Commands(p) \/ Steps(p) \/ Kill(p))
    BY <1>1, <2>1, OwnStep
  <2>2. ASSUME NEW p \in Operators, task[p].kind = "migrate", pc[p] # "idle", pc'[p] = "idle",
               result'[p] = "failed"
        PROVE  /\ Profile' = task[p].before
               /\ live'[App(p)] = task[p].former
               /\ p \in calm' => installed' \in {task[p].before, task[p].rendered}
    BY <2>1, <2>2, MigrationEnds, FailedMigration
  <2>3. ASSUME NEW p \in Operators, task[p].kind = "migrate", pc[p] # "idle", pc'[p] = "idle",
               result'[p] = "migrated"
        PROVE  /\ Profile' = task[p].candidate
               /\ Pair(live'[App(p)]) = <<task[p].target, task[p].former.current>>
               /\ p \in calm' => installed' = task[p].candidate
    <3>1. HInv /\ Confirm(p)
      BY <2>1, <2>3, MigrationEnds
    <3>2. Final(p) /\ UNCHANGED <<chain, live, installed, calm>> /\ pc[p] = "confirm"
      BY <2>3, <3>1 DEF Confirm, At, store, Goto, HInv, StateOK
    <3> QED
      BY <3>1, <3>2 DEF Final, Candidate, Profile, HInv, Entitled, InstalledOK
  <2> QED
    BY <2>2, <2>3
<1>2. HostInv /\ [Operate \/ Create \/ Rest]_vars => [Whole]_host
  BY <1>1
<1> HIDE DEF Whole
<1>3. Spec => [][Whole]_host
  BY <1>2, HostAlways, PTL DEF Spec
<1> QED
  BY <1>3 DEF MigrationWhole, Whole

-----------------------------------------------------------------------------
\* The history as a reader will find it, an interrupted publication recovered.
Published == IF pending = None THEN chain ELSE pending
Continues(old, new) == Len(old) <= Len(new) /\ \A i \in 1..Len(old) : new[i] = old[i]
PendingContinues == pending # None => Continues(chain, pending)

\* The store takes one publication, or a recovery.
LEMMA StoreMoves ==
    ASSUME HInv, NEW p \in Operators, Commands(p) \/ Steps(p) \/ Kill(p)
    PROVE  \/ UNCHANGED store
           \/ pending # None /\ chain' = pending /\ pending' = None
           \/ /\ pending = None
              /\ \E new \in Chains : Continues(chain, new) /\ (Publishes(new) \/ Interrupted(new))
<1>1. chain \in Chains /\ StateOK
  BY DEF HInv, StateOK
<1>2. /\ Continues(chain, chain)
      /\ \A r \in Registries : Append(chain, r) \in Chains /\ Continues(chain, Append(chain, r))
  BY <1>1, ChainFacts DEF Continues, Chains
<1>3. CASE Commands(p)
  <2>1. CASE Recover(p)
    BY <2>1 DEF Recover
  <2>2. CASE ~Recover(p)
    BY <1>3, <2>2 DEF Commands, Register, Activate, Plan, Deploy, Install, Migrate, Initialise, Adopt, Backup,
       Restore, Request
  <2> QED
    BY <2>1, <2>2
<1>4. CASE \/ Publish(p) \/ PublishFails(p) \/ Unpublish(p) \/ UndoRegistry(p) \/ RecoveryFails(p)
  <2>1. task[p].kind \in Changing
    BY <1>4, KindOf DEF Publish, PublishFails, Unpublish, UndoRegistry, RecoveryFails, At, Migrating, Undoing,
       Changing
  <2>2. task[p].before \in Registries /\ task[p].candidate \in Registries
    BY <2>1, ChangeFacts
  <2>3. \/ UNCHANGED store
        \/ Readable /\ \E r \in Registries : Publishes(Extended(r)) \/ Interrupted(Extended(r))
    BY <1>4, <2>2 DEF Publish, PublishFails, Unpublish, UndoRegistry, RecoveryFails, store
  <2> QED
    BY <1>1, <1>2, <2>3 DEF Readable, Extended
<1>5. CASE PublishFirst(p)
  <2> DEFINE new == IF pc[p] = "restore" THEN task[p].candidate ELSE <<task[p].candidate>>
  <2>1. new \in Chains
    BY <1>5, KindOf, OneChain DEF PublishFirst, At, TaskOK
  <2>2. UNCHANGED store \/ (chain = <<>> /\ pending = None /\ (Publishes(new) \/ Interrupted(new)))
    BY <1>5 DEF PublishFirst
  <2> HIDE DEF new
  <2>3. chain = <<>> => Continues(chain, new)
    BY <2>1 DEF Continues, Chains
  <2> QED
    BY <2>1, <2>2, <2>3
<1>6. CASE Replace(p)
  <2>1. Last(task[p].candidate) \in Registries
    BY <1>6, KindOf, ChainFacts DEF Replace, At, TaskOK
  <2> QED
    BY <1>2, <1>6, <2>1 DEF Replace, Readable
<1>7. CASE \/ Lock(p) \/ Render(p) \/ WriteInstalled(p) \/ SwitchFirst(p) \/ Switch(p)
           \/ LockToMigrate(p) \/ Validate(p) \/ FinalLocked(p) \/ Confirm(p) \/ SelectFails(p)
           \/ UndoPointers(p) \/ Fallback(p) \/ UndoInstall(p) \/ UndoRelease(p)
  BY <1>7 DEF Lock, Render, WriteInstalled, SwitchFirst, Switch, LockToMigrate, Validate,
     FinalLocked, Confirm, SelectFails, UndoPointers,
     Fallback, UndoInstall, UndoRelease
<1>8. CASE \/ Build(p) \/ Select(p) \/ InstallCandidate(p) \/ Gates(p) \/ SelectFormer(p)
           \/ MigrationFails(p) \/ Snapshot(p) \/ BuildDocument(p) \/ WriteBackup(p) \/ Compare(p) \/ Kill(p)
  BY <1>8 DEF Build, Select, InstallCandidate, Gates, SelectFormer, MigrationFails, Inside,
     Snapshot, BuildDocument, WriteBackup, Compare, Kill
<1> QED
  BY <1>3, <1>4, <1>5, <1>6, <1>7, <1>8 DEF Steps

LEMMA HistoryStep ==
    ASSUME HInv, PendingContinues, [Operate \/ Create \/ Rest]_vars
    PROVE  PendingContinues' /\ (Lose \/ Continues(Published, Published'))
<1>1. chain \in Chains /\ pending \in Chains \cup {None}
  BY DEF HInv, StateOK
<1>2. \A c \in Chains : Continues(c, c)
  BY DEF Continues, Chains
<1>3. CASE UNCHANGED store
  BY <1>1, <1>2, <1>3 DEF store, Published, PendingContinues
<1>4. CASE Lose
  BY <1>4 DEF Lose, PendingContinues
<1>5. ASSUME NEW p \in Operators, Commands(p) \/ Steps(p) \/ Kill(p), ~UNCHANGED store
      PROVE  PendingContinues' /\ Continues(Published, Published')
  <2>1. CASE pending # None /\ chain' = pending /\ pending' = None
    BY <1>1, <1>2, <2>1 DEF PendingContinues, Published
  <2>2. ASSUME pending = None, NEW new \in Chains, Continues(chain, new), Publishes(new) \/ Interrupted(new)
        PROVE  PendingContinues' /\ Continues(Published, Published')
    BY <1>1, <1>2, <2>2 DEF Publishes, Interrupted, PendingContinues, Published
  <2> QED
    BY <1>5, <2>1, <2>2, StoreMoves
<1>6. UNCHANGED store \/ Lose \/ \E p \in Operators : Commands(p) \/ Steps(p) \/ Kill(p)
  BY DEF Operate, Create, Rest, vars, host, Next, Commit
<1> QED
  BY <1>3, <1>4, <1>5, <1>6

\* The history of the host's profile, with its interrupted publication
\* recovered, only grows, whatever commands meet, fail, are killed, replace the
\* profile or recover it: only the loss of the private directory takes it away.
THEOREM HostHistoryGrows == Spec => [][Lose \/ Continues(Published, Published')]_vars
<1>1. LifecycleInit => PendingContinues
  BY DEF LifecycleInit, Init, PendingContinues
<1>2. HostInv /\ PendingContinues /\ [Operate \/ Create \/ Rest]_vars
      => PendingContinues' /\ [Lose \/ Continues(Published, Published')]_vars
  BY HistoryStep DEF HostInv
<1> QED
  BY <1>1, <1>2, HostAlways, PTL DEF Spec

=============================================================================
