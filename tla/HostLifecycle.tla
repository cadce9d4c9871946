----------------------------- MODULE HostLifecycle -----------------------------
(***************************************************************************)
(* A host and the application created next to it: HostOperations composed  *)
(* with AppCreation.  The repository of the created application exists     *)
(* while its destination holds it, so what creation publishes can be       *)
(* registered and activated, and what it takes back cannot.  Commands and  *)
(* faults of the two count together.                                       *)
(***************************************************************************)
EXTENDS HostOperations

CONSTANTS
    Made,        \* the created application
    UiCommits,
    MaxEdits     \* bound: directories its author puts a file in

ASSUME SomeUiCommit == UiCommits # {}
ASSUME MadeIsAnApp == Made \in Apps

VARIABLES
    dest, stage, retired, step, kind, succeeds, group, given, torn, wrote, taken,
    head, worktree, build, pinned, content, package, room, quarantine, artifact, planted

Creation == INSTANCE AppCreation

creation ==
    <<dest, stage, retired, step, kind, succeeds, group, given, torn, wrote, taken,
      head, worktree, build, pinned, content, package, room, quarantine, artifact, planted>>
vars == <<host, creation>>

\* main of the created application appears and disappears with its repository.
Repository ==
    main' = [main EXCEPT ![Made] = IF dest' \notin Creation!Published THEN 0
                                   ELSE IF dest \notin Creation!Published THEN 1 ELSE @]

LifecycleInit == Init /\ Creation!Init /\ main[Made] = 0

Create ==
    /\ Creation!Next /\ Repository
    /\ UNCHANGED <<store, backups, runtime, installed, seat, calm>>

Operate == Next /\ UNCHANGED creation

\* The bounds are reached: anything else that stops is a deadlock.
Rest ==
    /\ commands = MaxCommands /\ step = "idle" /\ pc = [p \in Operators |-> "idle"]
    /\ UNCHANGED vars

Spec == LifecycleInit /\ [][Operate \/ Create \/ Rest]_vars

-----------------------------------------------------------------------------
\* Every variable has a value of its kind; registries are valid, selected
\* releases exist, and the repository of the created application is where the
\* creation has put it.
TypeOK == HostOK /\ Creation!CreationOK /\ (main[Made] # 0 <=> dest \in Creation!Published)

\* The directory the author asked `init' to use is never lost, and no file of
\* theirs but one written into an application that was then taken back, whatever
\* the operators do with the application meanwhile.
DestinationKept == Creation!DestinationKept

\* Removing the directory of a build removes nobody else's entry put there since
\* the build opened it.
StrangerKept == Creation!StrangerKept

\* What is put in place, and so can be registered, was built from one commit by
\* processes that have ended.
PublishedIsBuilt == Creation!PublishedIsBuilt

=============================================================================
