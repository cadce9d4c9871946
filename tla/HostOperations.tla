---------------------------- MODULE HostOperations ----------------------------
(***************************************************************************)
(* The commands an operator gives a host: init, migrate-registry, backup,  *)
(* restore and recover of its private profile (host_commands.py), the      *)
(* registration and activation of applications (app_registration.py,       *)
(* app_activation.py), deployment and rollback, installation, and the      *)
(* migration of a service to its public base path                          *)
(* (public_base_path_migration.py).                                        *)
(*                                                                         *)
(* Nothing but the store's comparison of profiles and one non-blocking     *)
(* lock for each application orders two commands.  The profile store is    *)
(* the register of ProfileRegister with its interrupted publications, and  *)
(* a deployment, an installation or a prune is one step: HostProfileStore, *)
(* Deployment and Installation take them apart.  A plan is made by one     *)
(* step, the last of the previews that must agree.                         *)
(***************************************************************************)
EXTENDS Integers, SequencesExt

CONSTANTS
    Operators,
    Apps,
    Manifests,    \* for each application, the kind of each commit of its main
    Ports,
    Prepared,     \* registries to initialise a profile from
    Hosts,        \* hosts to start from: [chain, backups, main, live]
    None,
    MaxCommands,  \* bounds of the model: commands,
    MaxFaults     \* failing steps, kills and lost profiles

Kinds == {"static", "service", "based"}    \* based: declares its public base path
Entries == [port: Ports \cup {None}, base: BOOLEAN]
Registries ==
    {r \in [Apps -> Entries \cup {None}] :
        \A a, b \in Apps : a # b /\ r[a] # None /\ r[b] # None /\ r[a].port # None
                           => r[a].port # r[b].port}
Lives == [current: Nat \cup {None}, previous: Nat \cup {None}, releases: SUBSET Nat]

\* A host is left by earlier commands: its registries are valid, its backups hold
\* a profile each, and the releases it selects exist.
Legal(h) ==
    /\ h = [chain |-> h.chain, backups |-> h.backups, main |-> h.main, live |-> h.live]
    /\ h.chain \in Seq(Registries) /\ h.backups \in Seq(Seq(Registries) \ {<<>>})
    /\ h.main \in [Apps -> Nat] /\ h.live \in [Apps -> Lives]
    /\ \A a \in Apps : ({h.live[a].current, h.live[a].previous} \ {None}) \subseteq h.live[a].releases

ASSUME Parameters ==
    /\ Manifests \in [Apps -> Seq(Kinds)] /\ Prepared \subseteq Registries
    /\ \A h \in Hosts : Legal(h)
    /\ None \notin Apps \cup Operators
    /\ MaxCommands \in Nat /\ MaxFaults \in Nat

VARIABLES
    chain,      \* registries of the history; the last one is the profile
    pending,    \* the chain an interrupted publication recovers to, or None
    backups,    \* chains of the backup documents, the latest last
    main,       \* the number of commits on main, 0 without a repository
    live,       \* of each application: the selected releases and all of them
    lock,       \* of each application: who holds its lock
    installed,  \* the registry the installed files were rendered from
    pc, task,   \* each operator's next step and what it remembers
    result,     \* how the last command ended
    calm,       \* history: nobody else has installed since the command began
    commands, faults

store == <<chain, pending>>
runtime == <<live, lock>>
seat == <<pc, task, result>>
counts == <<commands, faults>>
host == <<store, backups, main, runtime, installed, seat, calm, counts>>

NoLive == [current |-> None, previous |-> None, releases |-> {}]
NoTask ==
    [kind |-> "none", app |-> None, before |-> None, candidate |-> None, chain |-> <<>>,
     document |-> <<>>, former |-> NoLive, target |-> 0, rendered |-> None]

Init ==
    /\ \E h \in Hosts :
          /\ chain = h.chain /\ backups = h.backups /\ main = h.main /\ live = h.live
          /\ installed = IF h.chain = <<>> THEN None ELSE Last(h.chain)
    /\ pending = None
    /\ lock = [a \in Apps |-> None]
    /\ pc = [p \in Operators |-> "idle"] /\ task = [p \in Operators |-> NoTask]
    /\ result = [p \in Operators |-> "none"] /\ calm = {}
    /\ commands = 0 /\ faults = 0

Profile == IF chain = <<>> THEN None ELSE Last(chain)
Readable == pending = None /\ chain # <<>>
App(p) == task[p].app

Command(p, step, memory) ==
    /\ pc[p] = "idle" /\ commands < MaxCommands /\ commands' = commands + 1
    /\ pc' = [pc EXCEPT ![p] = step]
    /\ task' = [task EXCEPT ![p] = memory]
    /\ result' = [result EXCEPT ![p] = "none"]
    /\ calm' = calm \cup {p}
    /\ UNCHANGED faults
At(p, step) == pc[p] = step /\ UNCHANGED commands
Goto(p, step) == pc' = [pc EXCEPT ![p] = step] /\ UNCHANGED <<task, result>>
Fault == faults < MaxFaults /\ faults' = faults + 1
NoFault == UNCHANGED faults
Stopped(p, how) ==
    /\ pc' = [pc EXCEPT ![p] = "idle"] /\ task' = [task EXCEPT ![p] = NoTask]
    /\ result' = [result EXCEPT ![p] = how]
Released(p) == [a \in Apps |-> IF lock[a] = p THEN None ELSE lock[a]]
End(p, how) == Stopped(p, how) /\ lock' = Released(p)
Leave(p, step) == Goto(p, step) /\ lock' = Released(p)

\* A publication: it is done, or it is refused or interrupted before or after
\* what recovery will decide by.
Publishes(new) == chain' = new /\ UNCHANGED pending
Interrupted(new) ==
    \/ UNCHANGED chain /\ pending' \in {None, chain, new}
    \/ chain' = new /\ UNCHANGED pending
Extended(registry) == IF registry = Profile THEN chain ELSE Append(chain, registry)

-----------------------------------------------------------------------------
(***************************************************************************)
(* Registration and activation.                                            *)
(***************************************************************************)
Kind(a) == Manifests[a][main[a]]

\* validate_registered_app
Fits(entry, kind) == (entry.port = None) <=> (kind = "static")
AllFit(r, apps) == \A a \in apps : r[a] # None => main[a] # 0 /\ Fits(r[a], Kind(a))

Entry(a, port) == [port |-> port, base |-> Kind(a) = "based"]

\* Mutant: conflicting ports are not looked for.
AnyPort(r, a, port) == TRUE

PortFree(r, a, port) ==
    port # None => \A b \in Apps \ {a} : r[b] # None => r[b].port # port

\* AppRegistrar.plan: a new application, the same entry, or a static one that
\* has become a service.
Registrable(r, a, port) ==
    /\ main[a] # 0 /\ ((port = None) <=> (Kind(a) = "static"))
    /\ AllFit(r, Apps \ {a}) /\ PortFree(r, a, port)
    /\ r[a] \notin {None, Entry(a, port)} => r[a].port = None /\ Kind(a) # "static"

\* ServicePortAllocator.select takes the first port that can be bound.
Allocated(r, a) ==
    IF Kind(a) = "static" THEN {None}
    ELSE IF r[a] # None /\ r[a].port # None THEN {r[a].port}
    ELSE {q \in Ports : \A b \in Apps : r[b] # None => r[b].port # q}

Plan(p, kind, a, port) ==
    /\ Registrable(Profile, a, port)
    /\ Command(p, "publish",
          [NoTask EXCEPT !.kind = kind, !.app = a, !.before = Profile,
                         !.candidate = [Profile EXCEPT ![a] = Entry(a, port)]])
    /\ UNCHANGED <<store, backups, main, runtime, installed>>

Register(p) ==
    Readable /\ \E a \in Apps, port \in Ports \cup {None} : Plan(p, "register", a, port)
Activate(p) ==
    Readable /\ \E a \in {b \in Apps : main[b] # 0} :
                   \E port \in Allocated(Profile, a) : Plan(p, "activate", a, port)

\* Mutant: the profile is not compared with the one of the plan.
PublishUnchecked(p) ==
    /\ At(p, "publish") /\ Readable /\ NoFault
    /\ Publishes(Extended(task[p].candidate))
    /\ IF task[p].kind = "register" THEN End(p, "done") ELSE Goto(p, "lock") /\ UNCHANGED lock
    /\ UNCHANGED <<backups, main, live, installed, calm>>

Publish(p) ==
    /\ At(p, "publish") /\ Readable /\ Profile = task[p].before /\ NoFault
    /\ Publishes(Extended(task[p].candidate))
    /\ IF task[p].kind = "register" THEN End(p, "done") ELSE Goto(p, "lock") /\ UNCHANGED lock
    /\ UNCHANGED <<backups, main, live, installed, calm>>

PublishFails(p) ==
    /\ At(p, "publish")
    /\ \/ (~Readable \/ Profile # task[p].before) /\ NoFault /\ UNCHANGED store
       \/ Readable /\ Profile = task[p].before /\ Fault /\ Interrupted(Extended(task[p].candidate))
    /\ IF task[p].kind = "migrate" THEN Goto(p, "unpublish") /\ UNCHANGED lock ELSE End(p, "failed")
    /\ UNCHANGED <<backups, main, live, installed, calm>>

-----------------------------------------------------------------------------
(***************************************************************************)
(* Deployment, rollback and installation.                                  *)
(***************************************************************************)
Deploy(p) ==
    /\ \E a \in Apps, kind \in {"deploy", "rollback"} :
          /\ chain # <<>> /\ Profile[a] # None
          /\ Command(p, "lock", [NoTask EXCEPT !.kind = kind, !.app = a])
    /\ UNCHANGED <<store, backups, main, runtime, installed>>

Install(p) ==
    /\ Command(p, "render", [NoTask EXCEPT !.kind = "install"])
    /\ UNCHANGED <<store, backups, main, runtime, installed>>

IsService(a, commit) == Manifests[a][commit] # "static"

\* validate_registered_app and, for a rollback, the releases it exchanges.
Deployable(p) ==
    LET a == App(p) IN
    /\ chain # <<>> /\ Profile[a] # None /\ AllFit(Profile, {a})
    /\ task[p].kind = "rollback" => None \notin {live[a].current, live[a].previous}

\* An activation installs first, but for a service in the place of a static
\* release or of none.
Deferred(p) ==
    LET current == live[App(p)].current
    IN Kind(App(p)) # "static" /\ (current = None \/ ~IsService(App(p), current))

\* The registry is loaded, AppLock taken, which does not wait, and main read.
Lock(p) ==
    /\ At(p, "lock") /\ task[p].kind # "migrate" /\ NoFault
    /\ IF lock[App(p)] # None \/ ~Deployable(p) THEN End(p, "failed") /\ UNCHANGED live
       ELSE /\ lock' = [lock EXCEPT ![App(p)] = p]
            /\ task' = [task EXCEPT ![p].target = main[App(p)], ![p].former = live[App(p)]]
            /\ pc' = [pc EXCEPT ![p] = IF task[p].kind # "activate" THEN "deploy"
                                       ELSE IF Deferred(p) THEN "switch" ELSE "render"]
            /\ UNCHANGED <<result, live>>
    /\ UNCHANGED <<store, backups, main, installed, calm>>

Selected(current, previous) ==
    [current |-> current, previous |-> previous, releases |-> {current, previous} \ {None}]

\* What deploy or rollback select in the end.
Wanted(p) ==
    LET old == task[p].former
    IN CASE task[p].kind = "rollback" -> Selected(old.previous, old.current)
         [] old.current = task[p].target -> old
         [] OTHER -> Selected(task[p].target, old.current)

\* What they may leave when they fail: either of two values of each pointer, and
\* the new release or not.
Left(p) ==
    LET old == task[p].former
        new == Wanted(p)
    IN {l \in [current: {old.current, new.current}, previous: {old.previous, new.previous},
                releases: {old.releases, old.releases \cup ({new.current} \ {None})}] :
          {l.current} \subseteq l.releases \cup {None}}

SwitchFails(p) ==
    /\ Fault /\ \E left \in Left(p) : live' = [live EXCEPT ![App(p)] = left]
    /\ End(p, "failed")

\* install_platform: the snapshot of the profile is read, and written later.  A
\* deferred installation that fails takes the switch back.
Render(p) ==
    /\ At(p, "render") \/ At(p, "render-late")
    /\ IF Readable /\ AllFit(Profile, Apps)
       THEN /\ task' = [task EXCEPT ![p].rendered = Profile]
            /\ pc' = [pc EXCEPT ![p] = IF @ = "render" THEN "install" ELSE "install-late"]
            /\ NoFault /\ UNCHANGED <<result, live, lock>>
       ELSE IF pc[p] = "render" THEN NoFault /\ UNCHANGED live /\ End(p, "failed")
       ELSE \/ /\ NoFault /\ End(p, "failed")
               /\ live' = [live EXCEPT ![App(p)].current = task[p].former.current]
            \/ SwitchFails(p)
    /\ UNCHANGED <<store, backups, main, installed, calm>>

WriteInstalled(p) ==
    /\ At(p, "install") \/ At(p, "install-late")
    /\ NoFault /\ installed' = task[p].rendered /\ calm' = calm \cap {p}
    /\ IF task[p].kind = "install" THEN End(p, "done")
       ELSE Goto(p, IF pc[p] = "install" THEN "deploy" ELSE "settle") /\ UNCHANGED lock
    /\ UNCHANGED <<store, backups, main, live>>

\* The release and current; the rest follows the installation.
SwitchFirst(p) ==
    /\ At(p, "switch")
    /\ \/ /\ NoFault /\ Goto(p, "render-late") /\ UNCHANGED lock
          /\ live' = [live EXCEPT ![App(p)].current = task[p].target,
                                  ![App(p)].releases = @ \cup {task[p].target}]
       \/ SwitchFails(p)
    /\ UNCHANGED <<store, backups, main, installed, calm>>

\* DeploymentManager.deploy and rollback, done or failed.
Switch(p) ==
    /\ At(p, "deploy") \/ At(p, "settle")
    /\ \/ NoFault /\ live' = [live EXCEPT ![App(p)] = Wanted(p)] /\ End(p, "done")
       \/ SwitchFails(p)
    /\ UNCHANGED <<store, backups, main, installed, calm>>

-----------------------------------------------------------------------------
(***************************************************************************)
(* The public base path migration.                                         *)
(***************************************************************************)
Pair(release) == <<release.current, release.previous>>
FormerPair(p) == Pair(live[App(p)]) = Pair(task[p].former)

\* plan_public_base_path_migration: the entry is given the base path main declares.
Based(r, a) == [r EXCEPT ![a].base = Kind(a) = "based"]

\* _validate_registration: one managed value of one service has changed.
Bounded(before, candidate, a) ==
    /\ \A b \in Apps \ {a} : candidate[b] = before[b]
    /\ candidate[a].port = before[a].port /\ before[a].port # None
    /\ candidate[a].base # before[a].base

\* The preview: main declares a base path its entry lacks, and is not released.
Migratable(a) ==
    /\ Kind(a) = "based" /\ AllFit(Profile, Apps \ {a})
    /\ Bounded(Profile, Based(Profile, a), a)
    /\ live[a].current # None /\ IsService(a, live[a].current)
    /\ main[a] \notin live[a].releases \cup {live[a].current}

\* The preview is repeated, and the checkout and the releases are read.
Migrate(p) ==
    /\ Readable
    /\ \E a \in {b \in Apps : Profile[b] # None /\ main[b] # 0} :
          /\ Migratable(a)
          /\ Command(p, "publish",
                [NoTask EXCEPT !.kind = "migrate", !.app = a, !.before = Profile,
                               !.candidate = Based(Profile, a),
                               !.former = live[a], !.target = main[a], !.rendered = installed])
    /\ UNCHANGED <<store, backups, main, runtime, installed>>

\* The registry a migration published is still there, and main at its target.
Candidate(p) ==
    Readable /\ Profile = task[p].candidate /\ main[App(p)] = task[p].target

LockToMigrate(p) ==
    /\ At(p, "lock") /\ task[p].kind = "migrate" /\ NoFault
    /\ IF lock[App(p)] = None /\ Candidate(p)
       THEN lock' = [lock EXCEPT ![App(p)] = p] /\ Goto(p, "validate")
       ELSE UNCHANGED lock /\ Goto(p, "fallback")
    /\ UNCHANGED <<store, backups, main, live, installed, calm>>

\* A step taken inside the application lock: on, or to the recovery.
Inside(p, ok, next) ==
    /\ Goto(p, IF ok THEN next ELSE "undo")
    /\ UNCHANGED <<store, backups, main, lock>>

\* The first validation is outside what deploy recovers from.
Validate(p) ==
    /\ At(p, "validate") /\ NoFault
    /\ IF /\ Candidate(p) /\ FormerPair(p)
          /\ live[App(p)].releases = task[p].former.releases
       THEN Goto(p, "build") /\ UNCHANGED lock
       ELSE Leave(p, "fallback")
    /\ UNCHANGED <<store, backups, main, live, installed, calm>>

\* _install_release renames a whole release into place, and clears its staging.
Stored(p) == [live EXCEPT ![App(p)].releases = @ \cup {task[p].target}]
Chosen(p) == [live EXCEPT ![App(p)].current = task[p].target]

Build(p) ==
    /\ At(p, "build") /\ NoFault
    /\ live' = Stored(p)
    /\ Inside(p, TRUE, "select") /\ UNCHANGED <<installed, calm>>

\* The second validation, and current.
Select(p) ==
    /\ At(p, "select") /\ NoFault
    /\ LET ok == /\ Candidate(p) /\ FormerPair(p)
                 /\ live[App(p)].releases = task[p].former.releases \cup {task[p].target}
       IN /\ live' = IF ok THEN Chosen(p) ELSE live
          /\ Inside(p, ok, "apply")
    /\ UNCHANGED <<installed, calm>>

InstallCandidate(p) ==
    /\ At(p, "apply") /\ NoFault
    /\ IF Candidate(p) THEN installed' = Profile /\ calm' = calm \cap {p} ELSE UNCHANGED <<installed, calm>>
    /\ Inside(p, Candidate(p), "gates") /\ UNCHANGED live

\* The job is replaced, the service healthy and its tile served.
Gates(p) ==
    /\ At(p, "gates") /\ NoFault
    /\ Inside(p, Candidate(p), "former") /\ UNCHANGED <<live, installed, calm>>

\* previous, and a prune that keeps the release recovery would need.
Kept(p) ==
    live[App(p)].releases \cap {task[p].target, task[p].former.current, task[p].former.previous}
Pruned(p, releases) ==
    [live EXCEPT ![App(p)].previous = task[p].former.current, ![App(p)].releases = releases]

SelectFormer(p) ==
    /\ At(p, "former") /\ NoFault
    /\ live' = Pruned(p, Kept(p))
    /\ Inside(p, TRUE, "final") /\ UNCHANGED <<installed, calm>>

Final(p) ==
    /\ Candidate(p)
    /\ Pair(live[App(p)]) = <<task[p].target, task[p].former.current>>
    /\ task[p].target \in live[App(p)].releases

\* validate_final in the lock, and again after it.
FinalLocked(p) ==
    /\ At(p, "final") /\ NoFault
    /\ IF Final(p) THEN Leave(p, "confirm") ELSE Goto(p, "undo") /\ UNCHANGED lock
    /\ UNCHANGED <<store, backups, main, live, installed, calm>>

Confirm(p) ==
    /\ At(p, "confirm") /\ NoFault
    /\ IF Final(p) THEN End(p, "migrated") ELSE Goto(p, "fallback") /\ UNCHANGED lock
    /\ UNCHANGED <<store, backups, main, live, installed, calm>>

\* A step in the lock fails, with or without its effect, or halfway through a prune.
MigrationFails(p) ==
    /\ Fault
    /\ \/ At(p, "build") /\ live' \in {live, Stored(p)} /\ UNCHANGED installed
       \/ At(p, "apply") /\ installed' \in {installed, task[p].candidate} /\ UNCHANGED live
       \/ (At(p, "gates") \/ At(p, "former")) /\ UNCHANGED <<live, installed>>
       \/ /\ At(p, "former") /\ UNCHANGED installed
          /\ \E gone \in SUBSET (live[App(p)].releases \ Kept(p)) :
                live' = Pruned(p, live[App(p)].releases \ gone)
    /\ calm' = IF installed' = installed THEN calm ELSE calm \cap {p}
    /\ Inside(p, FALSE, "undo")

\* The switch of current is outside what deploy recovers from.
SelectFails(p) ==
    /\ At(p, "select") /\ Fault
    /\ live' \in {live, Chosen(p)} /\ Leave(p, "fallback")
    /\ UNCHANGED <<store, backups, main, installed, calm>>

\* A publication that failed: the profile, if it was changed, and nothing else.
Unpublish(p) ==
    /\ At(p, "unpublish") /\ NoFault
    /\ IF FormerPair(p) /\ Readable /\ Profile \in {task[p].before, task[p].candidate}
       THEN /\ Publishes(Extended(task[p].before))
            /\ End(p, IF /\ main[App(p)] = task[p].target
                         /\ live[App(p)].releases = task[p].former.releases
                      THEN "failed" ELSE "unrestored")
       ELSE UNCHANGED store /\ End(p, "unrestored")
    /\ UNCHANGED <<backups, main, live, installed, calm>>

\* _recover_post_switch holds the lock; nobody else has moved the pointers.
UndoPointers(p) ==
    /\ At(p, "undo") /\ NoFault
    /\ live' = [live EXCEPT ![App(p)].current = task[p].former.current,
                            ![App(p)].previous = task[p].former.previous]
    /\ Goto(p, "undo-registry")
    /\ UNCHANGED <<store, backups, main, lock, installed, calm>>

\* Outside, the lock is taken again and the pointers are only checked.
Fallback(p) ==
    /\ At(p, "fallback") /\ NoFault
    /\ IF lock[App(p)] = None
       THEN lock' = [lock EXCEPT ![App(p)] = p] /\ Goto(p, "undo-registry")
       ELSE End(p, "unrestored")
    /\ UNCHANGED <<store, backups, main, live, installed, calm>>

UndoRegistry(p) ==
    /\ At(p, "undo-registry") /\ NoFault
    /\ IF FormerPair(p) /\ Readable /\ Profile \in {task[p].before, task[p].candidate}
       THEN Publishes(Extended(task[p].before)) /\ Goto(p, "undo-install") /\ UNCHANGED lock
       ELSE UNCHANGED store /\ End(p, "unrestored")
    /\ UNCHANGED <<backups, main, live, installed, calm>>

UndoInstall(p) ==
    /\ At(p, "undo-install") /\ NoFault
    /\ IF Readable /\ Profile = task[p].before /\ AllFit(Profile, Apps)
       THEN /\ installed' = Profile /\ calm' = calm \cap {p}
            /\ Goto(p, "undo-release") /\ UNCHANGED lock
       ELSE UNCHANGED <<installed, calm>> /\ End(p, "unrestored")
    /\ UNCHANGED <<store, backups, main, live>>

\* Mutant: the attempted release is left behind.
UndoReleaseKept(p) ==
    /\ At(p, "undo-release") /\ NoFault
    /\ End(p, IF Readable /\ Profile = task[p].before /\ FormerPair(p) THEN "failed" ELSE "unrestored")
    /\ UNCHANGED <<store, backups, main, live, installed, calm>>

\* verify_restored and _remove_attempt_release.
UndoRelease(p) ==
    /\ At(p, "undo-release") /\ NoFault
    /\ LET former == task[p].former.releases
           ok == /\ Readable /\ Profile = task[p].before /\ FormerPair(p)
                 /\ live[App(p)].releases \in {former, former \cup {task[p].target}}
       IN /\ live' = IF ok THEN [live EXCEPT ![App(p)].releases = former] ELSE live
          /\ End(p, IF ok /\ main[App(p)] = task[p].target THEN "failed" ELSE "unrestored")
    /\ UNCHANGED <<store, backups, main, installed, calm>>

RecoveryFails(p) ==
    /\ Fault
    /\ \/ At(p, "undo") /\ live' \in {live, [live EXCEPT ![App(p)].current = task[p].former.current]}
          /\ UNCHANGED <<store, installed, calm>>
       \/ (At(p, "undo-registry") \/ At(p, "unpublish")) /\ Readable /\ Profile = task[p].candidate
          /\ Interrupted(Extended(task[p].before)) /\ UNCHANGED <<live, installed, calm>>
       \/ (At(p, "undo-install") \/ At(p, "undo-release")) /\ UNCHANGED <<store, live, installed, calm>>
    /\ End(p, "unrestored")
    /\ UNCHANGED <<backups, main>>

-----------------------------------------------------------------------------
(***************************************************************************)
(* The commands on the private profile.                                    *)
(***************************************************************************)
Same == UNCHANGED <<main, live, installed, calm>>
Request(p, step, memory) ==
    Command(p, step, memory) /\ UNCHANGED <<store, backups, main, runtime, installed>>

\* init, and migrate-registry on a host without a profile.
Initialise(p) ==
    /\ chain = <<>> /\ pending = None
    /\ \E r \in Prepared : Request(p, "initialise", [NoTask EXCEPT !.kind = "init", !.candidate = r])

LatestBackup == IF backups = <<>> THEN None ELSE Last(backups)

\* migrate-registry where the profile has the legacy registry's bytes.
Adopt(p) ==
    /\ Readable /\ Profile \in Prepared /\ LatestBackup # chain
    /\ Request(p, "backup", [NoTask EXCEPT !.kind = "adopt", !.chain = chain])

Backup(p) ==
    Readable /\ Request(p, "backup", [NoTask EXCEPT !.kind = "backup", !.chain = chain])

\* _parse: the history of the document is a history, and its tip the profile.
Parsable(document) == document \in Seq(Registries) \ {<<>>}

\* restore, into an absent profile or over another one.
Restore(p) ==
    \E document \in {d \in ToSet(backups) : Parsable(d)} :
        \/ /\ chain = <<>> /\ pending = None
           /\ Request(p, "restore", [NoTask EXCEPT !.kind = "restore", !.candidate = document])
        \/ /\ Readable /\ Profile # Last(document)
           /\ Request(p, "backup", [NoTask EXCEPT !.kind = "replace", !.candidate = document, !.chain = chain])

\* HostProfileStore.initialise and restore_snapshot, into an absent profile.
PublishFirst(p) ==
    /\ At(p, "initialise") \/ At(p, "restore")
    /\ LET new == IF pc[p] = "restore" THEN task[p].candidate ELSE <<task[p].candidate>>
           absent == chain = <<>> /\ pending = None
       IN \/ /\ absent /\ NoFault /\ Publishes(new)
             /\ IF pc[p] = "restore" THEN End(p, "done") ELSE Goto(p, "snapshot") /\ UNCHANGED lock
          \/ absent /\ Fault /\ Interrupted(new) /\ End(p, "failed")
          \/ ~absent /\ NoFault /\ UNCHANGED store /\ End(p, "failed")
    /\ UNCHANGED backups /\ Same

Snapshot(p) ==
    /\ At(p, "snapshot") /\ NoFault
    /\ IF Readable /\ Profile = task[p].candidate
       THEN /\ task' = [task EXCEPT ![p].chain = chain] /\ pc' = [pc EXCEPT ![p] = "backup"]
            /\ UNCHANGED <<result, lock>>
       ELSE End(p, "failed")
    /\ UNCHANGED <<store, backups>> /\ Same

\* build_host_backup reads the store itself.
BuildDocument(p) ==
    /\ At(p, "backup")
    /\ \/ /\ Readable /\ NoFault
          /\ task' = [task EXCEPT ![p].document = chain] /\ pc' = [pc EXCEPT ![p] = "write"]
          /\ UNCHANGED <<result, lock>>
       \/ /\ (~Readable /\ NoFault) \/ (Readable /\ Fault)
          /\ End(p, "failed")
    /\ UNCHANGED <<store, backups>> /\ Same

\* _verified_backup: what was written must be the snapshot of the plan.
Matches(p) == task[p].document = task[p].chain

\* A backup that fails its verification stays.
WriteBackup(p) ==
    /\ At(p, "write")
    /\ \/ /\ NoFault /\ backups' = Append(backups, task[p].document)
          /\ IF Matches(p)
             THEN CASE task[p].kind = "init" -> End(p, "done")
                    [] task[p].kind = "replace" -> Goto(p, "replace") /\ UNCHANGED lock
                    [] OTHER -> Goto(p, "compare") /\ UNCHANGED lock
             ELSE End(p, "failed")
       \/ /\ Fault /\ backups' \in {backups, Append(backups, task[p].document)}
          /\ End(p, "failed")
    /\ UNCHANGED store /\ Same

Compare(p) ==
    /\ At(p, "compare") /\ NoFault
    /\ End(p, IF Readable /\ chain = task[p].chain THEN "done" ELSE "failed")
    /\ UNCHANGED <<store, backups>> /\ Same

\* Mutant: the history is not compared with the one in the backup.
ReplaceUnchecked(p) ==
    /\ At(p, "replace") /\ NoFault
    /\ \/ Readable /\ Publishes(Append(chain, Last(task[p].candidate))) /\ End(p, "done")
       \/ ~Readable /\ UNCHANGED store /\ End(p, "failed")
    /\ UNCHANGED backups /\ Same

\* publish_backup_restoration compares profile and history with the snapshot.
Replace(p) ==
    /\ At(p, "replace")
    /\ LET same == Readable /\ chain = task[p].chain
           new == Append(chain, Last(task[p].candidate))
       IN \/ same /\ NoFault /\ Publishes(new) /\ End(p, "done")
          \/ same /\ Fault /\ Interrupted(new) /\ End(p, "failed")
          \/ ~same /\ NoFault /\ UNCHANGED store /\ End(p, "failed")
    /\ UNCHANGED backups /\ Same

Recover(p) ==
    /\ pending # None /\ chain' = pending /\ pending' = None
    /\ pc[p] = "idle" /\ commands < MaxCommands /\ commands' = commands + 1
    /\ UNCHANGED <<backups, lock, seat, faults>> /\ Same

-----------------------------------------------------------------------------
Kill(p) ==
    /\ pc[p] # "idle" /\ Fault /\ End(p, "killed")
    /\ UNCHANGED <<store, backups, commands>> /\ Same

\* The private directory is lost; backups are kept elsewhere.
Lose ==
    /\ chain # <<>> /\ Fault /\ chain' = <<>> /\ pending' = None
    /\ UNCHANGED <<backups, lock, seat, commands>> /\ Same

\* Authors commit to main; the bound on commands counts what they commit too.
Commit(a) ==
    /\ main[a] \in 1..(Len(Manifests[a]) - 1)
    /\ commands < MaxCommands /\ commands' = commands + 1
    /\ main' = [main EXCEPT ![a] = @ + 1]
    /\ UNCHANGED <<store, backups, runtime, installed, seat, calm, faults>>

Commands(p) ==
    /\ pc[p] = "idle" /\ commands < MaxCommands
    /\ \/ Register(p) \/ Activate(p) \/ Deploy(p) \/ Install(p) \/ Migrate(p)
       \/ Initialise(p) \/ Adopt(p) \/ Backup(p) \/ Restore(p) \/ Recover(p)
Steps(p) ==
    \/ Publish(p) \/ PublishFails(p) \/ Lock(p) \/ Render(p) \/ WriteInstalled(p) \/ SwitchFirst(p) \/ Switch(p)
    \/ LockToMigrate(p) \/ Validate(p) \/ Build(p) \/ Select(p) \/ InstallCandidate(p) \/ Gates(p) \/ SelectFormer(p)
    \/ FinalLocked(p) \/ Confirm(p) \/ MigrationFails(p) \/ SelectFails(p)
    \/ Unpublish(p) \/ UndoPointers(p) \/ Fallback(p) \/ UndoRegistry(p) \/ UndoInstall(p)
    \/ UndoRelease(p) \/ RecoveryFails(p)
    \/ PublishFirst(p) \/ Snapshot(p) \/ BuildDocument(p) \/ WriteBackup(p) \/ Compare(p) \/ Replace(p)

Next ==
    \/ \E p \in Operators : Commands(p) \/ Steps(p) \/ Kill(p)
    \/ Lose \/ \E a \in Apps : Commit(a)

-----------------------------------------------------------------------------
Holding ==
    {"switch", "render", "render-late", "install", "install-late", "deploy", "settle", "validate", "build", "select", "apply", "gates", "former",
     "final", "undo", "undo-registry", "undo-install", "undo-release"}
States == Holding \cup {"idle", "publish", "lock", "confirm", "unpublish", "fallback",
                        "initialise", "restore", "snapshot", "backup", "write", "compare", "replace"}

\* Every registry ever published is one load_registry accepts, no two services
\* have a port in common, a selected release exists, and each lock is held by
\* the command that works under it.
HostOK ==
    /\ chain \in Seq(Registries) /\ (pending = None \/ pending \in Seq(Registries))
    /\ \A i \in DOMAIN backups : backups[i] \in Seq(Registries) \ {<<>>}
    /\ installed \in Registries \cup {None}
    /\ pc \in [Operators -> States]
    /\ \A a \in Apps : live[a] \in Lives /\ ({live[a].current, live[a].previous} \ {None}) \subseteq live[a].releases
    /\ \A a \in Apps : lock[a] \in Operators \cup {None}
    /\ \A p \in Operators :
          \A a \in Apps : lock[a] = p <=> (pc[p] \in Holding /\ task[p].app = a)

\* A registration, an activation or a migration, its recovery included, changes
\* the entry of its own application only, whatever else was registered, restored
\* or recovered since it was planned.
OthersKept ==
    [][\A p \in Operators :
          pc'[p] # pc[p] /\ task[p].app # None /\ chain # <<>>
          => \A b \in Apps \ {task[p].app} : Profile'[b] = Profile[b]]_host

\* What restore --replace replaces, history included, is in a backup.
ReplacedIsBackedUp ==
    [][\A p \in Operators :
          pc[p] = "replace" /\ chain' # chain /\ pc'[p] # pc[p] => chain \in ToSet(backups)]_host

\* A migration that reports a plain failure has changed nothing: profile,
\* selected releases and stored releases are as they were, and the installed
\* files too unless somebody else has installed; one that succeeds has changed
\* all of them.
MigrationWhole ==
    [][\A p \in Operators :
          task[p].kind = "migrate" /\ pc[p] # "idle" /\ pc'[p] = "idle"
          => /\ result'[p] = "failed"
                => /\ Profile' = task[p].before
                   /\ live'[App(p)] = task[p].former
                   /\ p \in calm' => installed' \in {task[p].before, task[p].rendered}
             /\ result'[p] = "migrated"
                => /\ Profile' = task[p].candidate
                   /\ Pair(live'[App(p)]) = <<task[p].target, task[p].former.current>>
                   /\ p \in calm' => installed' = task[p].candidate]_host

=============================================================================
