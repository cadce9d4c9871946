------------------------------ MODULE AppCreation ------------------------------
(***************************************************************************)
(* The creation of an application (app_generator.py): `create' publishes   *)
(* into an absent destination by one exclusive rename, `init' into an      *)
(* existing empty directory by renaming it away, renaming the stage into   *)
(* place and removing the empty directory (app_initialization.py).  A      *)
(* later init recovers what a killed one has left.  The stage is built by  *)
(* commands, each run as a process group that must be gone before the next *)
(* step (process_runner.py); the first thing it needs is the UI package    *)
(* (UiPackage).                                                            *)
(*                                                                         *)
(* One creator works at a time.  The author of the application may write   *)
(* into the destination, or make it, at any moment, also while it is the   *)
(* application that an init has put there and may yet take back.  A stage  *)
(* is partial until it has its provenance, and may be again once its       *)
(* removal has been cut short.                                             *)
(***************************************************************************)
EXTENDS UiPackage

CONSTANTS
    MaxCommands,    \* bounds: creations,
    MaxEdits        \* directories the author puts a file in

VARIABLES
    dest,       \* absent, empty, author (a directory with a file of the author),
                \* app, or adapted (the application with a file of the author)
    stage,      \* of each command, absent, partial or app; create's is out of init's sight
    retired,    \* the renamed destination: absent, empty or author
    step, kind, \* what the creator does next, and for which command
    succeeds,   \* the running command has not failed
    group,      \* living processes of the last command
    commands,
    given, torn,     \* history: there was a destination; a removal cut short took the provenance;
    wrote, taken     \* directories the author has put a file in, and those of them taken back as a stage

Creations == {"init", "create"}

folders == <<dest, stage, retired>>
running == <<succeeds, group>>
history == <<given, torn, wrote, taken>>
creation == <<folders, step, kind, running, history, packaging>>

Init ==
    /\ PackageInit
    /\ dest \in {"absent", "empty", "author"} /\ stage = [k \in Creations |-> "absent"] /\ retired = "absent"
    /\ step = "idle" /\ kind = "none" /\ succeeds = TRUE /\ group = {}
    /\ given = (dest # "absent") /\ torn = FALSE
    /\ wrote = (IF dest = "author" THEN 1 ELSE 0) /\ taken = 0

Here(s) == step = s /\ UNCHANGED <<commands, history, packaging>>
To(s) == step' = s /\ UNCHANGED kind
NoFailure == UNCHANGED faults
Finish == step' = "idle" /\ kind' = "none"
Stage == stage[kind]
Staged(state) == stage' = [stage EXCEPT ![kind] = state]

\* A directory is renamed onto nothing or onto an empty directory.
Replaceable(folder) == folder \in {"absent", "empty"}

\* The destination is the application.
Published == {"app", "adapted"}

-----------------------------------------------------------------------------
Begin(k) ==
    /\ step = "idle" /\ commands < MaxCommands /\ commands' = commands + 1
    /\ kind' = k
    /\ step' = IF k = "init" THEN "recover" ELSE "resolve"
    /\ UNCHANGED <<folders, running, history, packaging, faults>>

\* ExistingEmptyDestination.recover looks at what is left of one operation.
Recover ==
    /\ Here("recover") /\ NoFailure /\ UNCHANGED <<folders, running>>
    /\ LET refused ==
              \/ retired = "author" \/ Stage = "partial"
              \/ Stage = "app" /\ (retired = "absent") = (dest = "absent")
              \/ Stage = "app" /\ retired = "absent" /\ dest # "empty"
       IN IF refused THEN Finish
          ELSE To(CASE Stage = "app" -> "unstage"
                    [] Stage = "absent" /\ retired = "empty" -> IF dest = "absent" THEN "return" ELSE "drop"
                    [] OTHER -> "resolve")

\* shutil.rmtree of the stage, if there is one.
Removal ==
    /\ Here("unstage") \/ Here("cleanup")
    /\ NoFailure /\ Staged("absent")
    /\ IF step = "cleanup" THEN Finish ELSE To(IF retired = "absent" THEN "resolve" ELSE "return")
    /\ UNCHANGED <<dest, retired, running>>

Return ==
    /\ Here("return") /\ UNCHANGED <<stage, running>>
    /\ \/ Replaceable(dest) /\ NoFailure /\ dest' = retired /\ retired' = "absent" /\ To("resolve")
       \/ ~Replaceable(dest) /\ NoFailure /\ UNCHANGED <<dest, retired>> /\ Finish

Drop ==
    /\ Here("drop") /\ NoFailure /\ retired' = "absent" /\ To("resolve")
    /\ UNCHANGED <<dest, stage, running>>

\* What a removal cut short leaves of init's stage: all of it, or not its provenance.
Remains ==
    {stage["init"]} \cup
       IF kind = "init" /\ step \in {"unstage", "cleanup"} /\ Stage # "absent" THEN {"partial"} ELSE {}

\* What a create leaves behind is never looked at again.
Abandoned ==
    /\ Failure /\ Finish
    /\ \E left \in Remains :
          /\ stage' = [init |-> left, create |-> "absent"]
          /\ torn' = (torn \/ left # stage["init"])
    /\ build' = "idle" /\ Forget /\ artifact' = "none"
    /\ UNCHANGED <<dest, retired, commands, given, wrote, taken>>

RemovalFails ==
    /\ step \in {"unstage", "return", "drop", "cleanup"}
    /\ Abandoned /\ UNCHANGED running

\* The destination is absent for create and empty for init.
Resolve ==
    /\ Here("resolve") /\ NoFailure /\ UNCHANGED <<folders, running>>
    /\ IF dest = (IF kind = "init" THEN "empty" ELSE "absent") THEN To("stage") ELSE Finish

-----------------------------------------------------------------------------
(***************************************************************************)
(* The stage and the commands run in it.                                   *)
(***************************************************************************)
MakeStage ==
    /\ step = "stage" /\ Staged("partial") /\ StartBuild /\ To("package")
    /\ UNCHANGED <<dest, retired, running, history, commands>>

BuildPackage ==
    /\ step = "package" /\ Package
    /\ UNCHANGED <<folders, step, kind, running, history, commands>>

Packaged ==
    /\ step = "package" /\ EndBuild
    /\ To(IF build = "done" THEN "write" ELSE "cleanup")
    /\ UNCHANGED <<folders, running, history, commands>>

\* The artifact, the generated tree and, last, the provenance.
WriteStage ==
    /\ Here("write") /\ NoFailure /\ Staged("app") /\ To("spawn")
    /\ UNCHANGED <<dest, retired, running>>

StageFails ==
    /\ Here("write") \/ Here("spawn") \/ Here("verify")
    /\ Failure /\ To("cleanup") /\ UNCHANGED <<folders, running>>

Spawn ==
    /\ Here("spawn") /\ NoFailure
    /\ group' = {"leader"} /\ succeeds' = TRUE /\ To("wait")
    /\ UNCHANGED folders

\* The processes of a command fork, end and are sometimes beyond signals.
Runs ==
    /\ group # {}
    /\ \/ "leader" \in group /\ group' = group \cup {"child"}
       \/ \E q \in group : group' = group \ {q}
    /\ UNCHANGED <<folders, step, kind, succeeds, history, packaging, commands, faults>>

\* The leader ends, well or not, or the deadline passes, or a signal interrupts.
Wait ==
    /\ Here("wait") /\ UNCHANGED <<folders, group>> /\ To("stop")
    /\ \/ "leader" \notin group /\ NoFailure /\ UNCHANGED succeeds
       \/ Failure /\ succeeds' = FALSE

Stop ==
    /\ Here("stop") /\ NoFailure /\ UNCHANGED <<folders, succeeds>>
    /\ IF group = {} THEN To("stopped") /\ UNCHANGED group
       ELSE group' \in SUBSET group /\ To("terminated")

\* Some time after SIGTERM; and some time after SIGKILL.
Terminated ==
    /\ Here("terminated") /\ UNCHANGED <<folders, succeeds>>
    /\ IF group = {} THEN To("stopped") /\ NoFailure /\ UNCHANGED group
       ELSE /\ To("killed")
            /\ \/ group' = {} /\ NoFailure
               \/ group' \in SUBSET group \ {{}} /\ Failure

Killed ==
    /\ Here("killed") /\ NoFailure /\ UNCHANGED <<folders, running>>
    /\ To(IF group = {} THEN "stopped" ELSE "cleanup")

\* The next command, the checks of the stage, or the end of the workflow.
Stopped ==
    /\ Here("stopped") /\ NoFailure /\ UNCHANGED <<folders, running>>
    /\ IF succeeds THEN To("spawn") \/ To("verify") ELSE To("cleanup")

Verify ==
    /\ Here("verify") /\ NoFailure /\ UNCHANGED <<folders, running>>
    /\ IF kind = "create" THEN To("place")
       ELSE To(IF dest = "empty" /\ retired = "absent" THEN "retire" ELSE "cleanup")

-----------------------------------------------------------------------------
(***************************************************************************)
(* Publication.                                                            *)
(***************************************************************************)
\* What is renamed away is the directory as it is now.
Retire ==
    /\ Here("retire") /\ UNCHANGED <<stage, running>>
    /\ \/ dest # "absent" /\ NoFailure /\ retired' = dest /\ dest' = "absent" /\ To("place")
       \/ ((dest = "absent" /\ NoFailure) \/ (dest # "absent" /\ Failure))
          /\ UNCHANGED <<dest, retired>> /\ To("cleanup")

\* Mutant: the destination is replaced whatever it has become.
PlaceOver ==
    /\ Here("place") /\ NoFailure /\ dest' = "app" /\ Staged("absent")
    /\ IF kind = "create" THEN Finish ELSE To("clear")
    /\ UNCHANGED <<retired, running>>

Place ==
    /\ Here("place") /\ UNCHANGED <<retired, running>>
    /\ LET free == IF kind = "create" THEN dest = "absent" ELSE Replaceable(dest)
       IN \/ free /\ NoFailure /\ dest' = "app" /\ Staged("absent")
             /\ IF kind = "create" THEN Finish ELSE To("clear")
          \/ ((~free /\ NoFailure) \/ (free /\ Failure))
             /\ UNCHANGED <<dest, stage>> /\ To(IF kind = "create" THEN "cleanup" ELSE "put-back")

\* rmdir: the author may have written into the directory before it was renamed.
Empty ==
    /\ Here("clear") /\ UNCHANGED <<dest, stage, running>>
    /\ \/ retired = "empty" /\ NoFailure /\ retired' = "absent" /\ Finish
       \/ ((retired # "empty" /\ NoFailure) \/ (retired = "empty" /\ Failure))
          /\ UNCHANGED retired /\ To("unplace")

\* The application is taken back, with what the author has written into it.
Unplace ==
    /\ step = "unplace" /\ UNCHANGED <<retired, running, given, torn, wrote, packaging, commands>>
    /\ \/ /\ NoFailure /\ Staged("app") /\ dest' = "absent" /\ To("put-back")
          /\ taken' = IF dest = "adapted" THEN taken + 1 ELSE taken
       \/ Failure /\ UNCHANGED <<stage, dest, taken>> /\ To("cleanup")

PutBack ==
    /\ Here("put-back") /\ UNCHANGED <<stage, running>> /\ To("cleanup")
    /\ \/ Replaceable(dest) /\ NoFailure /\ dest' = retired /\ retired' = "absent"
       \/ ((~Replaceable(dest) /\ NoFailure) \/ (Replaceable(dest) /\ Failure)) /\ UNCHANGED <<dest, retired>>

-----------------------------------------------------------------------------
Kill ==
    /\ step # "idle" /\ Abandoned
    /\ group' = {} /\ succeeds' = TRUE

\* The author makes the destination, or puts a file into what is there.
Edit ==
    /\ \/ dest = "absent" /\ dest' = "empty" /\ UNCHANGED wrote
       \/ /\ Replaceable(dest) \/ dest = "app"
          /\ dest' = IF dest = "app" THEN "adapted" ELSE "author"
          /\ wrote < MaxEdits /\ wrote' = wrote + 1
    /\ given' = TRUE
    /\ UNCHANGED <<stage, retired, step, kind, running, torn, taken, packaging, commands, faults>>

Creator ==
    \/ \E k \in Creations : Begin(k)
    \/ Recover \/ Removal \/ Return \/ Drop \/ RemovalFails
    \/ Resolve \/ MakeStage \/ BuildPackage \/ Packaged \/ WriteStage \/ StageFails \/ Spawn \/ Wait \/ Stop \/ Terminated
    \/ Killed \/ Stopped \/ Verify \/ Retire \/ Place \/ Empty \/ Unplace \/ PutBack \/ Kill

\* While a package is built.
Meddle == step = "package" /\ Others /\ UNCHANGED <<folders, step, kind, running, history, commands>>

Next == Creator \/ Runs \/ Edit \/ Meddle

-----------------------------------------------------------------------------
CreationOK ==
    /\ PackageOK
    /\ dest \in {"absent", "empty", "author"} \cup Published /\ stage \in [Creations -> {"absent", "partial", "app"}]
    /\ retired \in {"absent", "empty", "author"}
    /\ kind \in Creations \cup {"none"} /\ (step = "idle" <=> kind = "none")
    /\ group \subseteq {"leader", "child"}
    /\ wrote \in Nat /\ taken \in Nat

Written(folder) == IF folder \in {"author", "adapted"} THEN 1 ELSE 0

\* The destination is there, or set aside; when nobody works and it is set aside
\* empty, the next init can put it back, unless the removal of a stage was cut
\* short; and no directory the author has put a file in is lost, but an
\* application that was taken back after it was put in place.
DestinationKept ==
    /\ given => dest # "absent" \/ retired # "absent"
    /\ given /\ step = "idle" /\ dest = "absent" /\ retired = "empty" /\ ~torn => stage["init"] # "partial"
    /\ wrote = Written(dest) + Written(retired) + taken

\* An entry somebody has put in the place of the directory of a build is not
\* removed with it, unless the build had not yet opened its directory.
StrangerKept == planted => "foreign" \in {room, quarantine}

\* When an application is put in place none of the processes that built it lives,
\* and its UI package is the build of one commit, whatever was edited meanwhile.
PublishedIsBuilt ==
    [][dest # "app" /\ dest' = "app" => group = {} /\ artifact \in UiCommits]_creation

=============================================================================
