------------------------------ MODULE Deployment ------------------------------
(***************************************************************************)
(* Releases of one registered application: local_web_server/deploy.py,     *)
(* runtime.py, the launchd adapter of services.py, the activation that     *)
(* passes an installer to deploy (app_activation.py) and the               *)
(* service-command migration around it (service_command_migration.py).     *)
(*                                                                         *)
(* A deployment, rollback or migration holds the application's lock while  *)
(* it builds or reuses a release, switches `current', restarts the managed *)
(* job, passes the health gates, switches `previous' and prunes.  A        *)
(* failure after the switch runs a recovery; a kill runs nothing.  Main    *)
(* moves, and the job exits and is relaunched by launchd, at any time.  A  *)
(* migration publishes the new command before it asks for the lock, and    *)
(* falls back without the lock when the deployment did not recover.        *)
(***************************************************************************)
EXTENDS Integers

CONSTANTS
    Processes,  \* CLI commands and Git hooks
    Migrators,  \* the processes that may run service-command migrations
    Commits,    \* commits main may point to; a release is named by its commit
    Commands,   \* service start commands
    CommandOf,  \* the start command each commit's manifest declares
    IsService,  \* the registered application is a service
    MaxFaults,  \* bound of the model on raised errors, kills and job exits
    None        \* an absent pointer, plist, command or lock holder

ASSUME Parameters ==
    /\ Migrators \subseteq Processes /\ CommandOf \in [Commits -> Commands] /\ IsService \in BOOLEAN /\ MaxFaults \in Nat
    /\ None \notin Commits \cup Commands \cup Processes

VARIABLES
    main,        \* the commit of main
    releases,    \* "absent", "partial" (a removal was interrupted) or "complete"
    current,     \* the two release pointers
    previous,
    registered,  \* start command in the host profile
    agent,       \* start command in the installed LaunchAgent plist
    job,         \* the launchd job: state, and release and command it was started with
    lock,        \* holder of the application lock
    pc,          \* next step of each process
    op,          \* what each process read when it began, and how it ended
    faults       \* raised errors, kills and job exits so far

pair == <<current, previous>>
world == <<main, releases, pair, registered, agent, job>>
vars == <<world, lock, pc, op, faults>>

Missing == [state |-> "missing", release |-> None, command |-> None]
NoOperation ==
    [kind |-> "none", target |-> None, current |-> None, previous |-> None,
     before |-> None, outcome |-> "none"]

Init ==
    /\ main \in Commits /\ registered \in Commands
    /\ releases = [c \in Commits |-> "absent"]
    /\ current = None /\ previous = None /\ agent = None /\ job = Missing
    /\ lock = None /\ faults = 0
    /\ pc = [p \in Processes |-> "idle"] /\ op = [p \in Processes |-> NoOperation]

-----------------------------------------------------------------------------
\* The state an operation starts from.
Operation(kind, target) ==
    [kind |-> kind, target |-> target, current |-> current, previous |-> previous,
     before |-> registered, outcome |-> "running"]

Candidate(p) == CommandOf[op[p].target]
FormerPair(p) == <<op[p].current, op[p].previous>>

\* main is already current: nothing is switched.
Unchanged(p) == op[p].kind # "rollback" /\ op[p].current = op[p].target
Switched(p) == ~Unchanged(p) /\ current = op[p].target /\ pc[p] # "switch"

\* The installer of an activation runs after the switch when it cannot render
\* the service without a release.
Deferred(p) == op[p].kind = "activate" /\ IsService /\ op[p].current = None

Goto(p, step) == pc' = [pc EXCEPT ![p] = step] /\ UNCHANGED <<lock, op, faults>>

End(p, outcome) ==
    /\ pc' = [pc EXCEPT ![p] = "idle"]
    /\ op' = [op EXCEPT ![p] = [NoOperation EXCEPT !.outcome = outcome]]
    /\ lock' = IF lock = p THEN None ELSE lock

Finish(p, outcome) == End(p, outcome) /\ UNCHANGED faults

Start == IF IsService THEN "stop" ELSE "health"

\* Mutant: selecting `previous' is left outside the recovery.
RecoverBeforePrevious(p) ==
    \/ /\ Switched(p) /\ pc[p] # "previous"
       /\ pc' = [pc EXCEPT ![p] = "undo-current"] /\ UNCHANGED <<lock, op>>
    \/ /\ ~Switched(p) /\ op[p].kind = "migrate" /\ pc[p] # "switch"
       /\ pc' = [pc EXCEPT ![p] = "check-pair"] /\ UNCHANGED <<lock, op>>
    \/ /\ op[p].kind = "migrate" /\ pc[p] = "switch"
       /\ pc' = [pc EXCEPT ![p] = "fallback"] /\ lock' = None /\ UNCHANGED op
    \/ /\ ~Switched(p) \/ pc[p] = "previous"
       /\ op[p].kind # "migrate" /\ End(p, "failed")

\* What an error at the present step of p leads to.  The switch itself is outside
\* every recovery but the migration's fallback.
Recover(p) ==
    \/ /\ Switched(p)
       /\ pc' = [pc EXCEPT ![p] = "undo-current"] /\ UNCHANGED <<lock, op>>
    \/ /\ ~Switched(p) /\ op[p].kind = "migrate" /\ pc[p] # "switch"
       /\ pc' = [pc EXCEPT ![p] = "check-pair"] /\ UNCHANGED <<lock, op>>
    \/ /\ op[p].kind = "migrate" /\ pc[p] = "switch"
       /\ pc' = [pc EXCEPT ![p] = "fallback"] /\ lock' = None /\ UNCHANGED op
    \/ ~Switched(p) /\ op[p].kind # "migrate" /\ End(p, "failed")

-----------------------------------------------------------------------------
(***************************************************************************)
(* Beginnings.  AppLock does not wait: a busy application is an error that *)
(* changes nothing, except that a migration then falls back.               *)
(***************************************************************************)
Begin(p, operation, step) ==
    /\ pc[p] = "idle" /\ lock = None
    /\ lock' = p
    /\ op' = [op EXCEPT ![p] = operation]
    /\ pc' = [pc EXCEPT ![p] = step]
    /\ UNCHANGED <<world, faults>>

Arrived == IF current = main THEN Start ELSE "build"

Deploy(p) == Begin(p, Operation("deploy", main), Arrived)

\* An activation is planned before the lock: a service registered with another
\* command is refused.
PlanActivation(p) ==
    /\ pc[p] = "idle" /\ (IsService => registered = CommandOf[main])
    /\ op' = [op EXCEPT ![p] = Operation("activate", main)]
    /\ pc' = [pc EXCEPT ![p] = "activate"]
    /\ UNCHANGED <<world, lock, faults>>

Activate(p) ==
    /\ pc[p] = "activate" /\ lock = None
    /\ lock' = p
    /\ op' = [op EXCEPT ![p] = Operation("activate", main)]
    /\ pc' = [pc EXCEPT ![p] = IF IsService /\ current = None THEN Arrived ELSE "install"]
    /\ UNCHANGED <<world, faults>>

RefuseActivation(p) ==
    /\ pc[p] = "activate" /\ lock # None
    /\ Finish(p, "failed")
    /\ UNCHANGED world

Rollback(p) ==
    /\ current # None /\ previous # None
    /\ Begin(p, Operation("rollback", previous), "switch")

\* A migration is planned, and its command published if the profile still is the
\* one planned from, before the lock is asked for.
PreviewMigration(p) ==
    /\ p \in Migrators /\ pc[p] = "idle" /\ IsService
    /\ current # None /\ CommandOf[main] # registered
    /\ op' = [op EXCEPT ![p] = Operation("migrate", main)]
    /\ pc' = [pc EXCEPT ![p] = "publish"]
    /\ UNCHANGED <<world, lock, faults>>

PublishCandidate(p) ==
    /\ pc[p] = "publish"
    /\ IF registered = op[p].before
         THEN registered' = Candidate(p) /\ Goto(p, "migrate")
         ELSE UNCHANGED registered /\ Goto(p, "unpublish-check")
    /\ UNCHANGED <<main, releases, pair, agent, job>>

Admitted(p) ==
    /\ lock = None /\ registered = Candidate(p)
    /\ main = op[p].target /\ pair = FormerPair(p)

BeginMigration(p) ==
    /\ pc[p] = "migrate" /\ Admitted(p)
    /\ lock' = p
    /\ pc' = [pc EXCEPT ![p] = IF Unchanged(p) THEN "install" ELSE "build"]
    /\ UNCHANGED <<world, op, faults>>

RefuseMigration(p) ==
    /\ pc[p] = "migrate" /\ ~Admitted(p)
    /\ Goto(p, "fallback")
    /\ UNCHANGED world

-----------------------------------------------------------------------------
(***************************************************************************)
(* The steps of a deployment.                                              *)
(***************************************************************************)
\* The installer writes the plist of the registered command.
Install(p) ==
    /\ pc[p] = "install"
    /\ op[p].kind = "migrate" => registered = Candidate(p)
    /\ agent' = IF IsService THEN registered ELSE agent
    /\ Goto(p, IF current = op[p].target THEN Start ELSE "build")
    /\ UNCHANGED <<main, releases, pair, registered, job>>

\* A release is installed by one rename; an existing directory is reused.
Build(p) ==
    /\ pc[p] = "build"
    /\ releases' = [releases EXCEPT ![op[p].target] = IF @ = "absent" THEN "complete" ELSE @]
    /\ Goto(p, "switch")
    /\ UNCHANGED <<main, pair, registered, agent, job>>

Switch(p) ==
    /\ pc[p] = "switch"
    /\ current' = op[p].target
    /\ Goto(p, IF op[p].kind = "migrate" \/ Deferred(p) THEN "install" ELSE Start)
    /\ UNCHANGED <<main, releases, previous, registered, agent, job>>

\* LaunchctlServiceController.replace: bootout, then bootstrap.
StopJob(p) ==
    /\ pc[p] = "stop"
    /\ job' = Missing
    /\ Goto(p, "bootstrap")
    /\ UNCHANGED <<main, releases, pair, registered, agent>>

Started == [state |-> "running", release |-> current, command |-> agent]

\* Mutant: the job is bootstrapped though its plist was never installed.
BootstrapUnchecked(p) ==
    /\ pc[p] = "bootstrap"
    /\ job' = Started
    /\ Goto(p, "health")
    /\ UNCHANGED <<main, releases, pair, registered, agent>>

Bootstrap(p) ==
    /\ pc[p] = "bootstrap" /\ agent # None
    /\ job' = Started
    /\ Goto(p, "health")
    /\ UNCHANGED <<main, releases, pair, registered, agent>>

\* _check_release_health polls until the gates pass or its deadline.
Healthy(p) ==
    /\ pc[p] = "health"
    /\ IsService => job.state = "running"
    /\ IF op[p].kind = "migrate" THEN Goto(p, "verify")
       ELSE IF Unchanged(p) THEN Finish(p, "done")
       ELSE Goto(p, "previous")
    /\ UNCHANGED world

Verify(p) ==
    /\ pc[p] = "verify" /\ registered = Candidate(p)
    /\ Goto(p, IF Unchanged(p) THEN "final" ELSE "previous")
    /\ UNCHANGED world

\* Mutant: `previous' is computed from the pointer instead of the value read at
\* the beginning.
SelectPreviousLate(p) ==
    /\ pc[p] = "previous"
    /\ previous' = current
    /\ Goto(p, "prune")
    /\ UNCHANGED <<main, releases, current, registered, agent, job>>

SelectPrevious(p) ==
    /\ pc[p] = "previous"
    /\ previous' = op[p].current
    /\ Goto(p, "prune")
    /\ UNCHANGED <<main, releases, current, registered, agent, job>>

\* Mutants: a prune keeps only `current', or forgets the protected release.
RetainedCurrent(p) ==
    {current} \cup (IF op[p].kind = "migrate" THEN {op[p].previous} ELSE {})

RetainedPair(p) == {current, previous}

\* A migration protects the former previous release until it is final.
Retained(p) ==
    {current, previous} \cup (IF op[p].kind = "migrate" THEN {op[p].previous} ELSE {})

Stale(p) == {c \in Commits : c \notin Retained(p) /\ releases[c] # "absent"}

\* A release directory is removed file by file.
Remove(c) ==
    releases' = [releases EXCEPT ![c] = IF @ = "complete" THEN "partial" ELSE "absent"]

Prune(p) ==
    /\ pc[p] \in {"prune", "undo-prune"}
    /\ \E c \in Stale(p) : Remove(c)
    /\ UNCHANGED <<main, pair, registered, agent, job, lock, pc, op, faults>>

Pruned(p) ==
    /\ pc[p] = "prune" /\ Stale(p) = {}
    /\ IF op[p].kind = "migrate" THEN Goto(p, "final") ELSE Finish(p, "done")
    /\ UNCHANGED world

Final(p) ==
    /\ pc[p] = "final"
    /\ registered = Candidate(p) /\ main = op[p].target
    /\ Finish(p, "done")
    /\ UNCHANGED world

-----------------------------------------------------------------------------
(***************************************************************************)
(* Failures.  Unhealthy gates, a missing plist and a plan that no longer   *)
(* holds fail a step; any other step may raise.                            *)
(***************************************************************************)
PlanChanged(p) ==
    \/ pc[p] \in {"install", "verify"} /\ op[p].kind = "migrate" /\ registered # Candidate(p)
    \/ pc[p] = "final" /\ (registered # Candidate(p) \/ main # op[p].target)

\* Mutant: the readiness poll has no deadline.
UnhealthyNever(p) ==
    /\ (pc[p] = "bootstrap" /\ agent = None) \/ PlanChanged(p)
    /\ Recover(p)
    /\ UNCHANGED <<world, faults>>

Unhealthy(p) ==
    /\ \/ pc[p] = "health"
       \/ pc[p] = "bootstrap" /\ agent = None
       \/ PlanChanged(p)
    /\ Recover(p)
    /\ UNCHANGED <<world, faults>>

Working ==
    {"publish", "migrate", "install", "build", "switch", "stop", "bootstrap", "health", "verify", "previous", "prune",
     "final"}

RaiseTo(p, step) == pc' = [pc EXCEPT ![p] = step] /\ UNCHANGED <<lock, op>>

\* Pruning after a success is outside the recovery of a deployment or rollback.
Raise(p) ==
    /\ pc[p] \in Working /\ faults < MaxFaults
    /\ faults' = faults + 1
    /\ IF pc[p] = "publish" THEN RaiseTo(p, "unpublish-check")
       ELSE IF pc[p] = "migrate" THEN RaiseTo(p, "fallback")
       ELSE IF pc[p] = "prune" /\ op[p].kind # "migrate" THEN End(p, "failed-late")
       ELSE Recover(p)
    /\ UNCHANGED world

Kill(p) ==
    /\ pc[p] # "idle" /\ faults < MaxFaults
    /\ faults' = faults + 1
    /\ End(p, "killed")
    /\ UNCHANGED world

-----------------------------------------------------------------------------
(***************************************************************************)
(* _recover_post_switch.  Each step may fail and is then only noted.       *)
(***************************************************************************)
UndoCurrent(p) ==
    /\ pc[p] = "undo-current"
    /\ current' = op[p].current
    /\ Goto(p, "undo-previous")
    /\ UNCHANGED <<main, releases, previous, registered, agent, job>>

UndoPrevious(p) ==
    /\ pc[p] = "undo-previous"
    /\ previous' = op[p].previous
    /\ Goto(p, "check-pair")
    /\ UNCHANGED <<main, releases, current, registered, agent, job>>

\* Nothing else is restored unless the exact pair is.
CheckPair(p) ==
    /\ pc[p] = "check-pair"
    /\ IF pair # FormerPair(p) THEN Finish(p, "unrecovered")
       ELSE Goto(p, IF op[p].kind = "migrate" THEN "undo-registered"
                    ELSE IF IsService THEN "undo-stop" ELSE "undo-prune")
    /\ UNCHANGED world

RestoreRegistered(p, step) ==
    /\ IF registered \in {op[p].before, Candidate(p)}
         THEN registered' = op[p].before /\ Goto(p, step)
         ELSE UNCHANGED registered /\ Finish(p, "unrecovered")
    /\ UNCHANGED <<main, releases, pair, agent, job>>

UndoRegistered(p) == pc[p] = "undo-registered" /\ RestoreRegistered(p, "undo-agent")

\* Mutant: the plist of the former command is not installed again.
UndoAgentSkipped(p) ==
    /\ pc[p] = "undo-agent"
    /\ Goto(p, "undo-stop")
    /\ UNCHANGED <<main, releases, pair, registered, agent, job>>

UndoAgent(p) ==
    /\ pc[p] = "undo-agent"
    /\ IF registered = op[p].before
         THEN agent' = registered /\ Goto(p, "undo-stop")
         ELSE UNCHANGED agent /\ Finish(p, "unrecovered")
    /\ UNCHANGED <<main, releases, pair, registered, job>>

\* A first release leaves no job behind.
UndoStop(p) ==
    /\ pc[p] = "undo-stop"
    /\ job' = Missing
    /\ Goto(p, IF op[p].current = None THEN "undo-prune" ELSE "undo-bootstrap")
    /\ UNCHANGED <<main, releases, pair, registered, agent>>

UndoBootstrap(p) ==
    /\ pc[p] = "undo-bootstrap" /\ agent # None
    /\ job' = Started
    /\ Goto(p, IF op[p].kind = "migrate" THEN "undo-health" ELSE "undo-prune")
    /\ UNCHANGED <<main, releases, pair, registered, agent>>

Recovered(p) == Finish(p, IF op[p].outcome = "noted" THEN "unrecovered" ELSE "failed")

UndoHealthy(p) ==
    /\ pc[p] = "undo-health"
    /\ job.state = "running" /\ registered = op[p].before
    /\ Recovered(p)
    /\ UNCHANGED world

UndoUnhealthy(p) ==
    /\ pc[p] = "undo-health"
    /\ Finish(p, "unrecovered")
    /\ UNCHANGED world

UndoPruned(p) ==
    /\ pc[p] = "undo-prune" /\ Stale(p) = {}
    /\ Recovered(p)
    /\ UNCHANGED world

\* The step after a noted failure.
Notable == {"undo-current", "undo-previous", "undo-stop", "undo-bootstrap"}

AfterNoted ==
    [step \in Notable |->
        IF step = "undo-current" THEN "undo-previous"
        ELSE IF step = "undo-previous" THEN "check-pair" ELSE "undo-prune"]

Noted(p) ==
    IF \/ op[p].kind = "migrate" /\ pc[p] \notin {"undo-current", "undo-previous"}
       \/ pc[p] \notin Notable
      THEN End(p, "unrecovered")
      ELSE /\ pc' = [pc EXCEPT ![p] = AfterNoted[@]]
           /\ op' = [op EXCEPT ![p].outcome = "noted"]
           /\ UNCHANGED lock

Fallbacks ==
    {"unpublish-check", "unpublish", "fallback", "fallback-publish", "fallback-install"}

Undoing == Notable \cup Fallbacks \cup {"undo-registered", "undo-agent", "undo-prune"}

UndoRaises(p) ==
    /\ pc[p] \in Undoing /\ faults < MaxFaults
    /\ faults' = faults + 1
    /\ Noted(p)
    /\ UNCHANGED world

UndoRefused(p) ==
    /\ pc[p] = "undo-bootstrap" /\ agent = None
    /\ Noted(p)
    /\ UNCHANGED <<world, faults>>

-----------------------------------------------------------------------------
(***************************************************************************)
(* The fallbacks of ServiceCommandMigrator.migrate, outside the lock: the   *)
(* profile alone after a publication that failed, profile and plist after a *)
(* deployment that failed without a recovery of its own.                   *)
(***************************************************************************)
FallbackCheck(p) ==
    /\ pc[p] \in {"unpublish-check", "fallback"}
    /\ IF pair # FormerPair(p) THEN Finish(p, "unrecovered")
       ELSE Goto(p, IF pc[p] = "fallback" THEN "fallback-publish" ELSE "unpublish")
    /\ UNCHANGED world

Unpublish(p) ==
    /\ pc[p] = "unpublish"
    /\ IF registered \in {op[p].before, Candidate(p)}
         THEN registered' = op[p].before /\ Finish(p, "failed")
         ELSE UNCHANGED registered /\ Finish(p, "unrecovered")
    /\ UNCHANGED <<main, releases, pair, agent, job>>

FallbackPublish(p) == pc[p] = "fallback-publish" /\ RestoreRegistered(p, "fallback-install")

FallbackInstall(p) ==
    /\ pc[p] = "fallback-install"
    /\ IF registered = op[p].before
         THEN agent' = registered /\ Finish(p, "failed")
         ELSE UNCHANGED agent /\ Finish(p, "unrecovered")
    /\ UNCHANGED <<main, releases, pair, registered, job>>

-----------------------------------------------------------------------------
(***************************************************************************)
(* The environment: authors, and launchd with KeepAlive.                   *)
(***************************************************************************)
AdvanceMain ==
    /\ \E c \in Commits \ {main} : main' = c
    /\ UNCHANGED <<releases, pair, registered, agent, job, lock, pc, op, faults>>

JobExits ==
    /\ job.state = "running" /\ faults < MaxFaults
    /\ \/ job' = [job EXCEPT !.state = "stopped"]
       \/ job' = Missing
    /\ faults' = faults + 1
    /\ UNCHANGED <<main, releases, pair, registered, agent, lock, pc, op>>

Relaunch ==
    /\ job.state = "stopped" /\ current # None
    /\ job' = [job EXCEPT !.state = "running", !.release = current]
    /\ UNCHANGED <<main, releases, pair, registered, agent, lock, pc, op, faults>>

Request(p) == Deploy(p) \/ PlanActivation(p) \/ Rollback(p) \/ PreviewMigration(p)

Step(p) ==
    \/ Activate(p) \/ RefuseActivation(p) \/ PublishCandidate(p) \/ BeginMigration(p) \/ RefuseMigration(p)
    \/ Install(p) \/ Build(p) \/ Switch(p) \/ StopJob(p) \/ Bootstrap(p) \/ Healthy(p)
    \/ Verify(p) \/ SelectPrevious(p) \/ Prune(p) \/ Pruned(p) \/ Final(p) \/ Unhealthy(p)
    \/ UndoCurrent(p) \/ UndoPrevious(p) \/ CheckPair(p) \/ UndoRegistered(p) \/ UndoAgent(p)
    \/ UndoStop(p) \/ UndoBootstrap(p) \/ UndoHealthy(p) \/ UndoUnhealthy(p) \/ UndoPruned(p)
    \/ UndoRefused(p) \/ FallbackCheck(p) \/ Unpublish(p) \/ FallbackPublish(p) \/ FallbackInstall(p)

Fault(p) == Raise(p) \/ Kill(p) \/ UndoRaises(p)

Next ==
    \/ \E p \in Processes : Request(p) \/ Step(p) \/ Fault(p)
    \/ AdvanceMain \/ JobExits \/ Relaunch

Spec == Init /\ [][Next]_vars

\* A running process keeps running: its next step is never blocked by another.
FairSpec == Spec /\ \A p \in Processes : WF_vars(Step(p))

-----------------------------------------------------------------------------
(***************************************************************************)
(* Properties.                                                             *)
(***************************************************************************)
Steps ==
    {"idle", "activate", "undo-health", "check-pair"} \cup Working \cup Undoing

Operations ==
    [kind: {"none", "deploy", "activate", "rollback", "migrate"},
     target: Commits \cup {None}, current: Commits \cup {None}, previous: Commits \cup {None},
     before: Commands \cup {None},
     outcome: {"none", "running", "noted", "done", "failed", "failed-late", "unrecovered", "killed"}]

Jobs ==
    [state: {"missing", "stopped", "running"}, release: Commits \cup {None},
     command: Commands \cup {None}]

\* Kinds of values; a holder of the lock is at work, and a running job has a
\* release and a command.
TypeOK ==
    /\ main \in Commits /\ releases \in [Commits -> {"absent", "partial", "complete"}]
    /\ current \in Commits \cup {None} /\ previous \in Commits \cup {None}
    /\ registered \in Commands /\ agent \in Commands \cup {None} /\ job \in Jobs
    /\ lock \in Processes \cup {None} /\ faults \in Nat
    /\ pc \in [Processes -> Steps] /\ op \in [Processes -> Operations]
    /\ lock # None => pc[lock] # "idle"
    /\ job.state # "missing" => job.release # None /\ job.command # None

\* No sequence of switches, rollbacks, prunes and failures leaves a pointer to a
\* removed release: neither the site nor a rollback can lose its files.
PointersResolve ==
    \A c \in Commits : c \in {current, previous} => releases[c] # "absent"

\* While an operation may still fail, both releases it started from are there to
\* return to, pruning by the same operation included.
FormerPairKept ==
    lock # None /\ (pc[lock] = "prune" => op[lock].kind = "migrate") =>
        \A c \in Commits : c \in {op[lock].current, op[lock].previous} => releases[c] # "absent"

Ends(p, outcome) == op[p].outcome \in {"running", "noted"} /\ op'[p].outcome = outcome

\* A deployment, rollback or migration reported as failed leaves the exact pair
\* of pointers it started from.
FailureRestoresPair ==
    [][\A p \in Processes : lock = p /\ Ends(p, "failed") => pair' = FormerPair(p)]_vars

\* An operation reported as successful selected its target, kept the release
\* before it for a rollback, and a running job runs what it selected.
SuccessSelects ==
    [][\A p \in Processes : Ends(p, "done") =>
          /\ current' = op[p].target
          /\ Unchanged(p) \/ previous' = op[p].current
          /\ job'.state = "running" => job'.release = current']_vars

\* Profile, plist and a running job agree on the command.
Settles(command) ==
    /\ registered' = command /\ agent' = command
    /\ job'.state = "running" => job'.command = command

\* A migration moves profile, plist and job together, or none of them, provided no
\* other migration runs: the fallback of one writes the plist outside the lock.
MigrationIsAtomic ==
    [][\A p \in Processes : lock = p /\ op[p].kind = "migrate" =>
          /\ Ends(p, "done") => Settles(Candidate(p))
          /\ Ends(p, "failed") => Settles(op[p].before)]_vars

\* Every operation ends: the gates give up at their deadline, no step waits for
\* another process, and recovery is finite.
OperationsEnd == \A p \in Processes : pc[p] # "idle" ~> pc[p] = "idle"

\* runtime.py:434: existing_release returns `a complete exact-SHA release'.
SelectedIsComplete == \A c \in Commits : c = current => releases[c] = "complete"

\* README.md:364: rollback and migration recover `service state on failure'; with
\* no fault at all, the job of a quiet application runs the registered command.
JobRunsRegistered ==
    /\ faults = 0 /\ job.state = "running"
    /\ \A p \in Processes : pc[p] = "idle" /\ op[p].outcome # "unrecovered"
    => job.command = registered

=============================================================================
