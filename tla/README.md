# A TLA+ model of local-web-server

Local Web Platform runs a few private web applications on one Mac: a Python
package (`local_web_server/`) that keeps a host profile, builds and switches
releases, drives launchd and Caddy and updates application repositories, and a
TypeScript side (`packages/ui`, `apps/system-index`) that runs in the browser.
Everything that is hard in it is a protocol on a file system: several files must
change together, a process may be killed between any two of them, and a second
command, a Git hook or the operator may arrive in between.

The modules here model those protocols. TLC checks them on small instances, and
TLAPS proves the main invariants for every value of the constants.

## 1. Inventory

| Part | Source | State it keeps | Operations | What is hard | What makes it correct |
|---|---|---|---|---|---|
| Host profile store | `host_profile_store.py`, `host_profile_recovery.py`, `host_profile.py` | `apps.json`, revision files, the transaction marker, three fixed temporaries, the recovery archive, the directory lock | initialise, change, restore, read, inspect, recover | kills between three replacements, truncated temporaries, recovery interrupted and resumed by another process, stale previews | revisions form a chain; without a marker the profile is its tip; the store is a compare-and-append register |
| Deployment | `deploy.py`, `runtime.py`, `services.py`, `git_build.py`, `app_activation.py`, `service_command_migration.py` | releases, `current`/`previous`, the profile's and the plist's command, the launchd job, the application lock | deploy, activate, roll back, migrate, prune, recover, fall back | a failure after the switch, recovery steps that fail, launchd relaunching a job from whatever is installed, a fallback outside the lock | a reported failure restores the former pair; pointers never dangle; a migration is all or nothing |
| Application update | `app_update_transaction.py`, `app_update.py` | the working tree, staged temporaries, a marker in the Git directory | preview, update, publish, recover | no lock, kills, a recovery that itself fails, a folder that was created | publication is a compare-and-swap of several files |
| System Index statuses | `apps/system-index/src/statusController.ts`, `SystemIndex.tsx` | page, statuses, per run of the effect `active` and the controller's three flags, probes in flight | load, sweep, interval, visibility, clean up | late answers, StrictMode's double run, visibility during a sweep | late answers change nothing; statuses converge to what a probe finds |
| Application update planning, checks | `app_update.py`, `app_doctor.py`, `app_provenance.py` | the six managed files of an application | plan an adoption, a refresh or a frontend foundation; diagnose | a plan approved earlier is made again later; files that disagree with each other | what an update makes passes the doctor and leaves nothing to update |
| Fleet updater | `fleet_update.py`, `fleet_live_release.py`, `app_platform_commit.py` | none of its own: repository, commit and live release of each application | preview, apply, two recoveries | five effects in three systems, each may fail after the others; nothing locks a repository | an application is updated, untouched or restored, and the fleet stops at the first that is neither |
| Theme store, installer | `theme.py`, `install.py`, `ingress.py` | two theme files, home page and its predecessor, Caddyfile, plist and job of Caddy | install, activate, roll back, restore | recovery over four kinds of state, a job that changes by itself, what was read before the lock | the former installation is back after a failure; no theme in use is lost |
| Public base path migration | `public_base_path_migration.py` | as deployment, and the registry | preview, migrate, recover, fall back | the fallback takes the lock again | a failure leaves nothing of it, a success all of it |
| Host commands, backups, registration | `host_commands.py`, `host_profile_backup.py`, `app_registration.py` | backup files; the profile through the store | init, migrate, backup, restore, recover, register, activate | plans previewed, repeated and applied later | only the previewed plan is applied; no replacement without its backup; nobody else's entry changes |
| Application initialisation | `app_initialization.py`, `app_generator.py` | the destination, a stage and an empty backup beside it | publish, roll back, recover | two renames and a removal, killed anywhere; the author writes meanwhile | the destination is empty or complete, or recoverable |
| UI package build | `ui_package.py` | a directory in the temporary folder, the artifact | resolve, verify, copy, build, remove, publish | the worktree changes after it was verified; the directory's name is taken by somebody else | the artifact is the build of one commit; nobody else's entry is removed |
| Process runner | `process_runner.py` | a process group | run, stop | a group that outlives its leader, or a deadline | no member survives a call |

Interaction: the *host commands*, *activation* and the *migrations* write the
profile through the *store*; *deployment* reads it and installs what an installer
callback of theirs gives it; the *fleet updater* plans with the *update planner*
and calls the *update transaction*, Git and *activation* in turn; a *creation*
builds a *UI package* by *process groups* and publishes a repository that the host
commands then register; the Git hook starts a *deployment*. They share nothing in
memory: they meet only in files, locks and launchd.

The rest (configuration, the export of artifacts, the command line, the browser
controls, scripts, templates, examples) has no state that another part reads or
none between two calls; `PROJECT.json` lists each part with the reason it is left
out.

## 2. Modules

| Module | Models | Implements |
|---|---|---|
| `HostProfileStore` | the store and its recovery archive | `ProfileRegister`, an append-only log extended by compare-and-append |
| `Deployment` | releases, pointers, job, lock, deployment, rollback, activation, migration | |
| `UpdatePublisher` | one application's repository and the update transaction | `AtomicUpdate`, a compare-and-swap of several files |
| `SystemIndex` | the effect and the controllers of the page | |
| `UpdatePlan` | the planner and the doctor, as functions of six files | |
| `FleetUpdate` | the fleet updater over several repositories; extends `UpdatePlan` | |
| `Installation` | the installer, the theme store and the Caddy job | |
| `HostOperations` | the operators' commands on profile, backups, registrations, releases and installed files | |
| `UiPackage` | the build of the UI package and the removal of its directory | |
| `AppCreation` | `create` and `init`, their recovery, and the process groups of the build; extends `UiPackage` | |
| `HostLifecycle` | `HostOperations` composed with an instance of `AppCreation` | |
| `*_proofs` | the theorems and proofs of the module they extend | |
| `MC*` | the small instances for TLC | |

`PROJECT.json` maps each definition to the lines it stands for. A few definitions
named `...Over`, `...Early`, `...Only` and the like, commented `Mutant` or `Mutated
form`, are plausible faults of the definition after them; they are not part of
the model and show that a property can fail.

### HostProfileStore

One action per file-system step: creating, writing and placing a temporary
(`CreateTemporary`, `WriteTemporary`, `Replace`, or `ClonePlace` and
`UnlinkTemporary` in a restore), unlinking the marker, and each step of the
recovery archive (open a batch, stage and publish its manifest, move each listed
file, publish the candidate, retire the marker). `Raise` is an error that unwinds
the Python stack, which unlinks only the temporary being staged; `Kill` unwinds
nothing. `InspectState` is the decision table of `_inspect_state`, with the
residue rules of both marker schemas. A revision is a record of the digests it
links and a stamp that keeps equal changes apart. Permissions, symbolic links and
encoding are left out; the identity of a marker file (inode, ctime) is the number
of batches retired before it, the archive's byte limit is its number of batches.

### Deployment

A process takes the lock (`Begin`), builds, switches `current`, stops and
bootstraps the job, verifies, switches `previous` and prunes one release at a
time. `Raise` sends it where the code's `except` clauses do: nowhere before the
switch, then into the recovery of `deploy.py`, whose own steps may fail
(`UndoRaises`) and then only note it. `Kill` runs nothing. Main may move and the
job may exit, and be relaunched from the installed plist, at any step. A migration
publishes its candidate before it asks for the lock and falls back without it.
Simplified: the three health gates are one answer; the migration's first preview,
whose result is compared and discarded, is left out; the hook's skip is a no-op;
nobody edits the pointers by hand.

### UpdatePublisher

`Update`, `UpdateExpected` and `PublishInverse` (the fleet updater's recovery)
start a plan; `Prepare` stages file by file, `Mark` writes the marker, `Replace`
replaces, `Verify` reads again, `Clear` removes the marker. Errors lead to
`Restore`, `Clean`, `Unmark` exactly as in the code. The author edits and commits
while no update runs, also between a kill and its recovery. Simplified: at most
one folder has to be created; modes and symbolic links are left out; the final
validation reads in one step; a kill during a restoration may leave one unlisted
temporary per file (named 0).

### SystemIndex

An action is one JavaScript handler with the microtasks it settles. Runs of the
effect are cleaned up at any time while their probes stay in flight, also those
of a run that is over.

### UpdatePlan and FleetUpdate

`UpdatePlan` has no variables. A file is what the code tells apart about it (the
manifest's versions and capabilities, which build the artifact is, which scripts
call which), `Candidate` and `FoundationCandidate` are the bytes a plan writes,
`Diagnostics` what the doctor finds, `Plannable` what the preview does not refuse. The
reachable scripts are a recursive function, as the doctor iterates.

`FleetUpdate` takes a run apart into its preview, and for each application its
publication, commit, verification of the commit, checks, activation and the
final look at HEAD and the live release; `Start`, `Steps` and `Kill` are the run,
`Others` an author or operator (`Edit`, `AuthorCommits`, `Deploy`, `UpdateAlone`;
`Register` is another registration or declaration, after which a preview skips the
application because its activation would be a transition). A failure before the
commit leads to the inverse publication, one after it to the inverse, a second commit and a second activation,
each of which may fail; a final look at the live release that fails
(`InspectLiveFails`) ends the turn in `RECOVERY_FAILED`. The publication is one step with the outcomes `AtomicUpdate` allows (all, nothing, or a
pending recovery), the activation one with those of `Deployment`.

### Installation

A process inspects files and job, takes the theme's lock, publishes the two files,
validates and activates them (reload, bootstrap or nothing, by what it saw), checks
the ingress and writes theme, assets and home page. The `...Fails` actions send
it to the recovery of the step that failed; a step of a recovery may fail too, which
ends it `unrestored`. A rollback of the theme is a command of its own under the same lock.
launchd restarts the job and operators load and unload it at any step; `calm`
remembers whom that has not concerned.

### HostOperations, UiPackage, AppCreation, HostLifecycle

`HostOperations` uses the other components by what they promise: the store is the
register of `ProfileRegister` with its interrupted publications, a deployment, an
installation or a prune is one step. So are the load of the registry with the lock
and the reading of main that follow it (`Lock`), and the comparison of installed
files with their installation (`InstallCandidate`, `UndoInstall`). A command binds
what its preview read into `task`; the steps after it compare and write. An
activation installs before it switches, except for a service that has no release or
a static one, which is switched first (`SwitchFirst`) and installed afterwards, from
the registry loaded before the lock. A migration to the public base path publishes,
selects, installs and prunes step by step; `MigrationFails` covers each of its steps
failing with or without its effect, also after `previous` has been selected or
halfway through a prune. Its recovery runs in the lock, its fallback takes the lock
again and may be refused. Authors commit to main at any moment.

`UiPackage` is one build: HEAD is pinned, the worktree verified, a directory made by
name (`MakeDirectory`) and then opened, which fixes its identity (`OpenDirectory`;
after `OpenFails` it is removed by name), the sources copied from Git's objects,
built, read, and the directory removed by capturing it under a random name, before
the artifact is renamed into place. Somebody else's entry may come under the
directory's name at any moment, also between its making and its opening. A build
starts at one commit; what it leaves under random names is forgotten, since no later
build looks there. `AppCreation` adds the
process groups (leader, child, deadline, SIGTERM, SIGKILL, the wait after each),
the stage, and the renames of `create` and `init`; `Edit` is the author who makes a
destination, or puts a file in the one there is, at any moment: also in the
application an `init` has placed and may still take back (`adapted`; `wrote` counts
the directories written in, `taken` those taken back). `Kill` stops the creator
anywhere, and a removal cut short may or may not have reached the stage's
provenance (`Remains`).

`HostLifecycle` makes the repository of the created application exist while its
destination holds it, so that what is created can be registered, activated and
deployed by the operators while the creation is rolled back or recovered. Commands
and faults of both halves count against the same bounds.

## 3. Runs

| Run | Instance | Shows |
|---|---|---|
| `profile_store` | 2 clients, 2 registries, 2 stamps, chains up to 3, restored chains of 1 and 2, one archive slot, 2 faults | type, chain and tip, which interruptions block recovery, markers, refinement of `ProfileRegister` |
| `profile_recovery` | 1 client, 3 faults, 2 slots, fairness | recovery ends, interrupted twice after the first crash |
| `deployment` | 2 processes, one migrates, 2 commits with different commands, 1 fault | failures restore, successes select, migration is atomic |
| `deployment_alone` | 1 process, 3 commits (so that pruning has something to remove), 2 faults, fairness | pointers resolve, the former pair is kept, every operation ends |
| `deployment_partial` | 1 process, 1 fault | **violation**: a release left half removed is selected as complete |
| `deployment_fallback` | 2 processes, no fault | **violation**: the fallback of a refused migration and the lock's holder leave a job with an unregistered command |
| `update_publisher` | 1 process, a file and a nested file, 2 kills, 1 error, 1 edit, fairness | refinement of `AtomicUpdate`, failures put back, nothing left behind, pending recoveries resolved |
| `update_publisher_two` | 2 processes, no fault | **violation**: an update reports success over files another one has restored |
| `system_index` | 2 runs of the effect, 2 applications, one with a backend | late answers, `checking`, refresh on return, convergence |
| `fleet_update` | 2 applications, 2 runs, 2 failing operations, 1 act of somebody else, 1 kill, fairness; three fleets to begin with | reports are true, at most one application is unsettled, every run ends or waits for ever for a command without a deadline |
| `installation` | 2 processes, 2 commands, 2 faults; two LAN renderings and one behind Tailscale | failures restore, successes serve, themes are kept |
| `host_lifecycle` | 2 operators, a registered service and an application to be created, 2 ports, 2 UI commits, 3 commands (a commit to main is one), 1 fault, 2 directories the author writes in; a new host and one with a history | entries of others, backups, migration, destination, strangers, provenance of what is published |

Why the bounds are enough. A stale preview needs a chain of three (read, changed
by another, changed again) and two values the stale change could take, hence two
stamps. Two faults put a crash in a publication and another in its recovery.
Pruning removes the third of three commits. Two processes are all the lock can
tell apart: it refuses whoever comes second, and a third likewise. Two files, one nested, distinguish a mixture from
either version and the folder from the files. Two applications are what the fleet's
stop needs, two runs what a marker left by the first needs; the three fleets hold an
application of every status the preview gives, and the files they start from are
among those updates make and authors leave. Two installations differ in
which of theme, Caddyfile and plist they change, so that each can be the part a
recovery forgets; the third adds the ingress that has a listener to migrate. Three
commands on a host are a plan, what makes it stale (a commit to main counts as a
command), and a third that meets the result; two directories the author writes in
are one that is set aside and one put in its place; one fault suffices for each property there because the components' own
runs put faults into recoveries.

Deadlock is not checked in the runs of the profile store, where a store with
a full archive, or with a residue recovery refuses, really does stop, nor in that of
the fleet, which ends with its last run.

Fairness. A running process keeps running: its own steps are weakly fair (no step
of these modules waits for another process, locks are taken without waiting).
For the operations of `Deployment` (`OperationsEnd`) that
includes an assumption the code does not enforce: that the builds, Git and launchctl
it calls return. They are called without a deadline (`git_build.py:64`, `417`,
`services.py:28`). A run of the fleet calls them in its two previews and in
activations (`Waiting`), and nothing is assumed of it there; the commands of its
other steps have deadlines, and those steps are weakly fair. `RunEnds` accordingly
says that a run that is not killed ends, or waits for ever in one of these three.
Recoveries and updates are weakly fair where a liveness property is about an
operator who repeats the command. Probes are answered because the code aborts
them after three seconds; the interval is fair only in `Converges`, the property
that needs it, since it fires every thirty seconds. `PendingResolved` assumes
that the author does not keep a file in the folder a recovery has to remove: there
the code reports `recovery required` for ever.

Crashes are kills of a process: what was written stays written. Loss of power,
which could reorder unsynchronised writes, is not modelled.

## 4. Divergences

Three runs show what the code does against what a document or test says; the
findings of `PROJECT.json` quote both sides. Met and not given a run of their own:

- `current` and `previous` are switched by two renames, and a kill between them
  leaves a pair no operation intended (`docs/architecture.md:72` describes one
  pair). `PointersResolve` shows that both still resolve.
- A prune that fails after the gates have passed makes a successful switch a
  failed command with the new pair selected. The outcome is `failed-late` in the
  model and exempt from `FailureRestoresPair`; `docs/architecture.md:75` makes no
  exception.
- `TornStaging` names the residues inspection refuses: besides the profile
  temporary of the run, a marker staged and not placed, and a revision truncated
  during a restore.
- A kill of an update before its marker leaves temporaries nothing removes.
  `NothingLeftBehind` is therefore stated for behaviours without kills.
- `docs/operations/host-profile.md:126` says recovery publishes the former or the
  new profile after any interruption; a kill while the profile temporary is being
  written leaves a state it refuses. `UnsafeOnlyIfTorn` has exactly this case.
- Two migrations of one service at once: the second is refused the lock, and its
  fallback, which does not hold it, restores profile and plist as the second found
  them, under the first. With a second process in `Migrators` TLC finds
  `MigrationIsAtomic` violated in this way; it is therefore checked and proved for
  one migrating process among any number that deploy, roll back and activate, and
  speaks of what ends in the lock.
- An update of the fleet whose restoration succeeds but whose marker cannot be
  removed leaves a pending recovery and is reported `FAILED_RECOVERED`, verified.
  Former files whose manifest and provenance disagree cannot be restored after the
  commit: the check that precedes the second commit refuses them, and the status is
  `RECOVERY_FAILED`.
- The installer reads the former Caddyfile and plist before it takes the lock, so
  it may restore what another installation has replaced since; `FailureRestores`
  is therefore stated for a process nobody has interfered with. After a
  kill between the write of a file and the reload, the next installation sees equal
  bytes and does not reload: `SuccessServes` speaks of a job that ran the files
  found (`task.served`). The recovery does not put back the home page.
- Two concurrent `init` commands: the second's recovery takes the first's stage and
  empty directory for those of a dead process, and the roll-back of the first then
  removes the application it has published. The model has one creator at a time.
- A kill before a stage has its provenance leaves one that every later `init`
  refuses; so may a removal cut short (`torn`), unless the provenance is still there
  and the next `init` resumes it. A directory set aside in which the author has
  written is refused by the recovery; the file is kept there.
- A file the author puts into the placed application before the empty directory's
  `rmdir` fails is lost: `app_initialization.py:207` renames the application back to
  the stage and `app_generator.py:412` removes the stage. `DestinationKept` counts
  such a directory as `taken`; no other is lost.
- An entry put under the name of a build's directory between `mkdir` and the open
  (`ui_package.py:980-999`) is adopted as the build's own and removed with it, or, if
  it is an empty directory and the open fails, removed by name (984).
  `StrangerKept` is about entries that come after the open.
- A migration to the base path whose fallback finds the lock taken ends
  `unrestored`; `MigrationWhole` is about plain failures. Files another operator
  installs between the comparison and the write of one migration would be
  overwritten; the model makes these one step and does not show it.

## 5. Theorems

All are proved without bounds on clients, processes, commits, files, contents or
faults, from the named assumptions on the constants alone: that the marker values
`None` and `Torn` differ from data, that sets have the kind they should, and that a
state to start from is one earlier commands leave (`Legal`). Every invariant and
action property a passing run checks is the statement of a theorem.
The four theorems of `UpdatePublisher` that assume `Single` and the one of
`Deployment` that assumes `SoleMigrator` are false without it: TLC finds each of the
five properties violated with a second process or migrator (`NothingLeftBehind` once a
step may fail).

**HostProfileStore.** `InductiveInvariant` is the strengthening: that a pending
marker is well formed and stands beside one of the three mixtures of old and new
it explains (`DiskInv`), what each step of a publication (`PublishInv`) or of a
recovery (`ArchiveInv`) finds, and that acknowledged revisions are committed. From it follow the type invariant,
`StoreHistoryIsChain`, `StoreProfileIsTip`, the two action properties
`StoreMarkerNotOverwritten` and `StoreMarkerLast`, and `StoreImplementsRegister`:
every step is an append by compare, an observation, a report or a stutter. The chain is not
inductive alone: a recovery appends nothing but removes revisions, and that it
removes the right ones depends on the manifest, the plan and the marker agreeing.
Two consequences state what a reader relies on: `StoreHistoryOnlyGrows` (what is
committed is never undone or reordered) and `StoreReportedIsKept` (what was reported
as done stays).
`StoreUnsafeOnlyIfTorn` needs `RInv` besides: which bytes a transaction may have
left in its temporaries, by what its marker still has to publish (`ResidueInv`), and
that the action in a prepared manifest still fits marker and profile
(`ManifestInv`), so that whoever resumes the recovery can plan.

**Deployment.** `InductiveInvariant` says which steps hold the lock, that the
release a process is about to select is there, and what its former pair is. It
gives `DeploymentTypeOK`, `DeploymentPointersResolve` and
`DeploymentFormerPairKept`. The pointers alone are not inductive: a recovery
switches back to releases read long before, and they are still there only because the
operation that read them holds the lock and prunes last.
`FormerInvariant` adds what the pointers are at each step relative to the pair
an operation found (`FormerInv`), that the job whose gates are checked runs
`current` (`JobInv`: launchd may relaunch or lose it in between) and which steps a
kind of command takes. `DeploymentFailureRestoresPair` and
`DeploymentSuccessSelects` follow. For `DeploymentMigrationIsAtomic`, `CommandInv`
says which plist is installed after the selection and after its undoing, and that
the job checked has its command; a second migrator's fallback would break it.

**UpdatePublisher.** `PublisherTypeOK` holds for any number of processes. The others
assume `Single`, one process, since with two they are
false (`update_publisher_two`). For `PublisherIsAtomic`: the *effective* bytes of a file are
those of the marker, if it lists the file, and of the tree otherwise. `Knows(p)`
says that before the marker is written the tree is as planned, that behind the
marker its bytes are those of the plan, that a restoration has put back every
file it has handled, and that every planned file is in place before the marker
goes. So placing the marker, replacing and restoring change no effective byte, and only
`Clear` does, all files at once. `PublisherLeavesNothing` and
`PublisherFailureRestores` need more: that nothing is in a folder that is not there
(`FolderInv`), that while nothing was killed every temporary is one a marker
or the process at work lists (`Listed`), and what a process that restores or cleans
still has to remove (`Leaves`). `PublisherSuccessIsPublished` is the promise that the run
`update_publisher_two` refutes for two processes, proved for one.

**SystemIndex.** `IndexTypeOK`, `IndexCheckingIsProbed` and
`IndexLateAnswersIgnored` hold for any number of runs of the effect and of
applications. Type correctness says that no two sweeps of a controller overlap, and is
not inductive: `IInv` adds that probes in flight belong to a noted sweep
(`SweepNoted`), that a run has none before its registry is loaded (`NothingEarly`),
and that one run is active at a time, whose controller is not stopped
(`Cleanups`).

**UpdatePlan.** `UpdateSettles`: the preview of the files an update has written
accepts them and plans nothing more. `FoundationSettles` says so of a new frontend,
provided that the template's package depends on the vendored artifact and has a
`check`. Both assume only that a record is not the value `None`.

**FleetUpdate.** `TypeCorrect`, `StatusesAreTrue` and `AtMostOneUnsettled` hold for
any applications, requests, plans, runs and failures, with acts of other people on
any repository in between. The inductive invariant says that an application nobody
has touched is, until its turn, what the run found (`RestKnown`), that a plan is one of the
state found (`PlanKnown`, for which `UpdateSettles` is cited), how many commits a
turn has made at each of its steps and for which outcome (`TurnShape`), and
which commits these are (`TurnKnown`). The reports alone are not inductive:
they speak of turns that have ended.

**Installation.** `TypeCorrect` (mutual exclusion included), `ThemeIsKept`,
`FailureIsRestored` and `SuccessIsServed` hold for any renderings, processes,
commands and faults. A process past the lock remembers the theme in use and which of the two theme
files holds it at each step (`StylesKnown`); what it knows of Caddyfile, plist and
job holds only while nobody else has touched them (`FilesKnown`,
`JobKnown`), because it reads them before it locks. `ServedKnown` joins the two: a
job in step with the files then found ran those files.

**HostLifecycle.** `CreationKeepsDestination`, `CreationKeepsStranger` and
`CreationPublishesBuilt` hold for any number of operators, commands, faults and
edits, assuming that there is a commit to build from. The first says that every
directory the author has put a file in is the destination, is set aside, or is an
application that was taken back after it was placed; the second that no entry put
under a build's name after its directory was opened is removed. The invariant joins what each step of a
build knows (`PackageInv`: until the directory is captured the random name is free,
and the sources are those of the pinned commit), of a stage (`StageInv`: what is
verified has a finished package and no living process) and of an `init`
(`FolderInv`: when the destination may be aside, when the stage may be partial, and how many
directories the author has written in).
`DestinationKept` alone is not inductive, since it speaks of the stage
only when nobody works.

`HostTypeCorrect`, `HostKeepsOthers`, `HostBacksUpReplaced` and `HostMigratesWhole`
are about the operators' commands, for any number of operators, applications, ports,
backups and commits; they assume hosts that are `Legal`, that no
application or operator is `None`, and that the created application is one of the
host's. `HInv` says what an operator's memory entitles it to at its step
(`Entitled`): a planned change differs from the profile it was planned from in one
entry, a replacement has its backup (`MemoryOK`); the holder of the lock knows the releases of
its application, which nobody else moves (`ReleasesOK`); and it knows the installed
files unless somebody else has installed (`InstalledOK`). Nothing orders the
profile: that `OthersKept` holds nevertheless is the comparison each publication
makes with the registry it was planned from. `HostHistoryGrows` says of the commands
together what `StoreHistoryOnlyGrows` says of the store: taken as recovery will find
it (`PendingContinues`), the history only grows, until the private directory is lost.

Only model-checked: liveness (`RecoveryTerminates`, `OperationsEnd`,
`PendingResolved`, `Converges`, `VisibleRefresh`, `RunEnds`), which TLAPS cannot do under
fairness.

## 6. Not modelled, and plan

Not modelled for good: parsing, validation and rendering beyond what a protocol
branches on (pure functions of their input); the contents of builds (a release is a
commit) and of pages; anything launchd, Caddy, Tailscale, Git or npm does beyond the
answers the code distinguishes; permissions, symbolic links and descriptors;
loss of power. In particular:

- the agent skill written after an installation, the service plists, hooks and
  index registry (written with the assets), and the restoration of pages, which
  the code does not do;
- the comparison that lets a UI build replace an earlier output: the
  stages it writes to are new; an interrupt of the keyboard while the runner waits,
  which leaves the group running; the groups of a creator that is killed;
- `git_runner.py` and `theme_gate.py` (and the runners in `ui_package.py` and
  `app_platform_commit.py`) repeat the protocol of `process_runner.py`, which is
  modelled once;
- the first of several previews of a migration or host command, compared with the
  one modelled and then dropped;
- other platform contracts in the planner, and what scripts run before or after
  another: npm adds them, not the doctor.

Planned: abstract specifications for `Deployment` (a pair of releases that moves as a
whole or not at all) and for `Installation`, with refinements.
