------------------------------ MODULE FleetUpdate ------------------------------
(***************************************************************************)
(* The fleet updater (fleet_update.py) and the commits it makes            *)
(* (app_platform_commit.py).                                               *)
(*                                                                         *)
(* A run previews every registered application and then gives each READY   *)
(* one its turn: publish the planned bytes in the working tree, commit     *)
(* them, check and activate the commit, and read HEAD and the live release *)
(* again.  What fails before the commit is taken back by the inverse       *)
(* publication, what fails after it by the inverse, a second commit and a  *)
(* second activation.  When that fails too the run stops.  Nothing locks a *)
(* repository: authors edit, commit, deploy and roll back at any time.     *)
(*                                                                         *)
(* Publication is the compare-and-swap of AtomicUpdate, which may leave a  *)
(* recovery pending; activation is one step with the outcomes of           *)
(* Deployment.  The files an update may change are one value, of which     *)
(* UpdatePlan says what a plan makes and what the doctor finds.            *)
(***************************************************************************)
EXTENDS Integers, Sequences, UpdatePlan

CONSTANTS
    Apps,       \* registered applications, numbered in the order of the registry
    Contents,   \* bytes of the files an update may change,
    Files,      \* and for each what UpdatePlan sees in them
    Initial,    \* what the applications may begin with
    Requests,   \* capabilities an operator may ask for
    Torn,       \* a mixture of two contents
    MaxRuns,    \* bounds of the model: runs of the fleet updater,
    MaxEdits,   \* actions of authors and operators,
    MaxErrors,  \* operations that fail without need,
    MaxKills    \* kills of the fleet updater

ASSUME Parameters ==
    /\ Apps \subseteq Nat /\ Initial \subseteq [Apps -> Contents]
    /\ \A c \in Contents, request \in Requests \cup {{}}, foundation \in BOOLEAN :
          Planned(Files[c], request, foundation) \in {Files[d] : d \in Contents} \cup {None}
    /\ Torn \notin Contents /\ None \notin Contents
    /\ MaxRuns \in Nat /\ MaxEdits \in Nat /\ MaxErrors \in Nat /\ MaxKills \in Nat

VARIABLES
    tree,      \* bytes of the planned files in each working tree
    other,     \* anything else in it differs from the last commit
    intent,    \* the index holds an intent to add
    commits,   \* contents of the commits of main, the last is HEAD
    marker,    \* bytes the pending recovery of an update would put back
    live,      \* the commit of the selected release, or 0
    stale,     \* applications whose registration an activation would change
    pc,        \* next step of the run
    plan,      \* what the run has previewed
    todo,      \* applications it has still to handle
    app,       \* whose turn it is
    commit,    \* the commit HEAD and the live release should have in the end
    former,    \* the live release an activation expects
    goal,      \* the status the turn ends with if all goes well
    result,    \* the statuses reported so far
    origin,    \* history: repository and release when the run began,
    touched,   \* and the applications others have changed since
    runs, edits, errors, kills

repositories == <<tree, other, intent, commits, marker>>
deployed == <<live, stale>>
turn == <<app, commit, former, goal>>
history == <<origin, touched>>
counts == <<runs, edits, errors, kills>>
vars == <<repositories, deployed, pc, plan, todo, turn, result, history, counts>>

\* What the updater and the doctor say of each content.
Bytes(f) == IF f = None THEN None ELSE CHOOSE c \in Contents : Files[c] = f
Plan ==
    [c \in Contents |-> [request \in Requests \cup {{}} |-> [foundation \in BOOLEAN |->
       Bytes(Planned(Files[c], request, foundation))]]]
Legacy == {c \in Contents : Files[c].manifest = None}
Compatible == {c \in Contents : Accepted(Files[c])}
Creating == {c \in Contents : None \in {Files[c].lock, Files[c].artifact}}
Target(c) == Plan[c][{}][FALSE]

Tip(a) == Len(commits[a])
TipBytes(a) == commits[a][Tip(a)]

\* _paths_are_dirty: the planned files are those of HEAD.
Unedited(a) == tree[a] = TipBytes(a)

\* inspect_clean_main: nothing to commit.
Clean(a) == Unedited(a) /\ ~other[a] /\ ~intent[a]

Settled(a) == Clean(a) /\ live[a] = Tip(a)

Observed(a) == [tree |-> tree[a], clean |-> Clean(a), commits |-> commits[a], live |-> live[a]]

NoPlan == [status |-> "none", source |-> 0, before |-> None]

Init ==
    /\ tree \in Initial
    /\ commits = [a \in Apps |-> <<tree[a]>>]
    /\ other = [a \in Apps |-> FALSE] /\ intent = other
    /\ marker = [a \in Apps |-> None]
    /\ live = [a \in Apps |-> 1] /\ stale = {}
    /\ pc = "idle" /\ plan = [a \in Apps |-> NoPlan] /\ todo = {} /\ app = 0
    /\ commit = 0 /\ former = 0 /\ goal = "none"
    /\ result = [a \in Apps |-> "none"]
    /\ origin = [a \in Apps |-> Observed(a)] /\ touched = {}
    /\ runs = 0 /\ edits = 0 /\ errors = 0 /\ kills = 0

-----------------------------------------------------------------------------
(***************************************************************************)
(* The run.                                                                *)
(***************************************************************************)
InOrder(a) == a \in todo /\ \A b \in todo : a <= b

Start ==
    /\ pc = "idle" /\ runs < MaxRuns
    /\ runs' = runs + 1
    /\ pc' = IF Apps = {} THEN "idle" ELSE "preview"
    /\ todo' = Apps
    /\ plan' = [a \in Apps |-> NoPlan] /\ result' = [a \in Apps |-> "none"]
    /\ origin' = [a \in Apps |-> Observed(a)] /\ touched' = {}
    /\ UNCHANGED <<repositories, deployed, turn, edits, errors, kills>>

\* The decision table of _preview_app.
Status(a) ==
    IF ~Clean(a) THEN "BLOCKED"
    ELSE IF tree[a] \in Legacy THEN "SKIPPED"
    ELSE IF marker[a] # None \/ Target(tree[a]) = None THEN "BLOCKED"
    ELSE IF a \in stale THEN "SKIPPED"
    ELSE IF live[a] # Tip(a) THEN "BLOCKED"
    ELSE IF Target(tree[a]) = tree[a] THEN "CURRENT" ELSE "READY"

\* A step of the file system, Git or the platform fails without need.
Error == errors < MaxErrors /\ errors' = errors + 1 /\ UNCHANGED <<runs, edits, kills>>

Previewed(a, status) ==
    /\ pc = "preview" /\ InOrder(a)
    /\ plan' = [plan EXCEPT ![a] = [status |-> status, source |-> Tip(a),
                                    before |-> IF status = "READY" THEN tree[a] ELSE None]]
    /\ IF todo = {a} THEN pc' = "turn" /\ todo' = Apps
                     ELSE pc' = pc /\ todo' = todo \ {a}
    /\ UNCHANGED <<repositories, deployed, turn, result, history>>

Preview(a) == Previewed(a, Status(a)) /\ UNCHANGED counts
PreviewFails(a) == Previewed(a, "BLOCKED") /\ Error

\* Mutant: the application stays in the list.
ReportedOnly(a, status) ==
    /\ result' = [result EXCEPT ![a] = status]
    /\ todo' = todo
    /\ pc' = IF todo = {a} THEN "idle" ELSE "turn"

\* The end of a turn with a status.
Reported(a, status) ==
    /\ result' = [result EXCEPT ![a] = status]
    /\ todo' = todo \ {a}
    /\ pc' = IF todo = {a} THEN "idle" ELSE "turn"

\* Mutant: the run goes on after a failed recovery.
StopOnly == Reported(app, "RECOVERY_FAILED")

\* A failed recovery ends the run; what was READY is reported BLOCKED.
Stop ==
    /\ result' = [a \in Apps |->
          IF a = app THEN "RECOVERY_FAILED"
          ELSE IF a \notin todo THEN result[a]
          ELSE IF plan[a].status = "READY" THEN "BLOCKED" ELSE plan[a].status]
    /\ todo' = {} /\ pc' = "idle"

Turn(a) ==
    /\ pc = "turn" /\ InOrder(a)
    /\ IF plan[a].status # "READY"
       THEN Reported(a, plan[a].status) /\ UNCHANGED turn
       ELSE /\ pc' = "repeat" /\ UNCHANGED <<todo, result>>
            /\ app' = a /\ commit' = plan[a].source /\ former' = plan[a].source
            /\ goal' = "UPDATED"
    /\ UNCHANGED <<repositories, deployed, plan, history, counts>>

Running(step) == pc = step /\ UNCHANGED <<plan, history>>
Goto(step) == pc' = step /\ UNCHANGED <<todo, result>>
Same == UNCHANGED <<repositories, deployed, turn>>

Before == plan[app].before
Wanted == Target(Before)

\* The turn repeats the preview and ends if anything has changed.
AsPlanned == Status(app) = "READY" /\ Tip(app) = commit /\ tree[app] = Before
Repeat ==
    /\ Running("repeat") /\ Same /\ UNCHANGED counts
    /\ IF AsPlanned THEN Goto("update") ELSE Reported(app, "BLOCKED")

RepeatFails == Running("repeat") /\ Same /\ Error /\ Reported(app, "BLOCKED")

-----------------------------------------------------------------------------
(***************************************************************************)
(* Publication in the working tree, here and in the recoveries.            *)
(***************************************************************************)
Publish(bytes) ==
    /\ tree' = [tree EXCEPT ![app] = bytes]
    /\ UNCHANGED <<other, intent, commits, marker, deployed>>

\* It changes nothing, leaves a recovery pending, or, when killed before its
\* marker is written, temporaries.
Unpublished(bytes) ==
    \/ UNCHANGED <<tree, marker, other>>
    \/ /\ marker[app] = None
       /\ marker' = [marker EXCEPT ![app] = tree[app]]
       /\ \E t \in {tree[app], Torn, bytes} : tree' = [tree EXCEPT ![app] = t]
       /\ UNCHANGED other

Update ==
    /\ Running("update") /\ marker[app] = None /\ Unedited(app) /\ tree[app] = Before
    /\ Publish(Wanted) /\ Goto("commit")
    /\ UNCHANGED <<turn, counts>>

\* A failure is recovered if HEAD and the live release are still the former ones.
Confirm(status) ==
    /\ goal' = status /\ UNCHANGED <<app, commit, former>> /\ Goto("verify-state")

UpdateRefused ==
    /\ Running("update")
    /\ \/ marker[app] # None /\ UNCHANGED counts
       \/ Unedited(app) /\ tree[app] # Before /\ UNCHANGED counts
       \/ Error  \* the platform's checkout has changed
    /\ Confirm("BLOCKED")
    /\ UNCHANGED <<repositories, deployed>>

UpdateFails ==
    /\ Running("update") /\ marker[app] = None
    /\ \/ ~Unedited(app) /\ UNCHANGED <<tree, marker, other, counts>>
       \/ Unedited(app) /\ Error /\ Unpublished(Wanted)
    /\ Confirm("FAILED_RECOVERED")
    /\ UNCHANGED <<intent, commits, deployed>>

\* The inverse puts the former bytes back, if the tree holds the planned ones:
\* uncommitted, they are as they were; otherwise they are committed.
Uncommitted == commit = plan[app].source
Inverse ==
    /\ Running("inverse") /\ marker[app] = None /\ tree[app] = Wanted
    /\ Publish(Before)
    /\ Goto(IF Uncommitted THEN "verify-state" ELSE "commit")
    /\ UNCHANGED <<turn, counts>>

\* Mutant: a publication that fails is tried again.
InverseFailsAgain ==
    /\ Running("inverse")
    /\ Goto("inverse")
    /\ Same /\ UNCHANGED counts

InverseFails ==
    /\ Running("inverse")
    /\ \/ /\ marker[app] # None \/ tree[app] # Wanted
          /\ UNCHANGED <<tree, marker, other, counts>>
       \/ Error /\ Unpublished(Before)
    /\ Stop
    /\ UNCHANGED <<intent, commits, deployed, turn>>

-----------------------------------------------------------------------------
(***************************************************************************)
(* AppPlatformCommitter._commit, for the update and for its restoration.   *)
(***************************************************************************)
Restoring == goal = "FAILED_RECOVERED"
From == IF Restoring THEN Wanted ELSE Before
To == IF Restoring THEN Before ELSE Wanted

\* Only the planned files differ from HEAD, and they do as planned.
Committable ==
    /\ Tip(app) = commit /\ TipBytes(app) = From /\ tree[app] = To
    /\ ~other[app] /\ ~intent[app]
    /\ Restoring => commit > 1 /\ commits[app][commit - 1] = Before

CheckCommit ==
    /\ Running("commit") /\ Committable
    /\ Goto(IF ~Restoring /\ Before \in Creating THEN "intent" ELSE "git-commit")
    /\ Same /\ UNCHANGED counts

IntendToAdd ==
    /\ Running("intent") /\ intent' = [intent EXCEPT ![app] = TRUE]
    /\ Goto("git-commit")
    /\ UNCHANGED <<tree, other, commits, marker, deployed, turn, counts>>

\* commit --only takes the planned files as they are now.
Committed == commits' = [commits EXCEPT ![app] = Append(@, tree[app])]
GitCommit ==
    /\ Running("git-commit") /\ tree[app] \in Contents \ {TipBytes(app)}
    /\ Committed /\ intent' = [intent EXCEPT ![app] = FALSE]
    /\ Goto("verify-commit")
    /\ UNCHANGED <<tree, other, marker, deployed, turn, counts>>

Verified == Tip(app) = commit + 1 /\ TipBytes(app) = To /\ Clean(app)
VerifyCommit ==
    /\ Running("verify-commit") /\ Verified
    /\ commit' = commit + 1 /\ UNCHANGED <<app, former, goal>>
    /\ Goto("check")
    /\ UNCHANGED <<repositories, deployed, counts>>

\* What is not known to be committed is taken back as uncommitted.
NotCommitted ==
    IF Restoring THEN Stop /\ UNCHANGED turn
    ELSE /\ goal' = "FAILED_RECOVERED" /\ UNCHANGED <<app, commit, former>>
         /\ Goto("inverse")

\* Git may fail, or miss its deadline, with the commit made or the intent left.
CommitFails ==
    /\ \/ Running("commit") /\ ~Committable /\ UNCHANGED <<commits, intent, counts>>
       \/ Running("verify-commit") /\ ~Verified /\ UNCHANGED <<commits, intent, counts>>
       \/ /\ Running("git-commit") /\ tree[app] \notin Contents \ {TipBytes(app)}
          /\ intent' = [intent EXCEPT ![app] = FALSE] /\ UNCHANGED <<commits, counts>>
       \/ (Running("commit") \/ Running("verify-commit")) /\ Error /\ UNCHANGED <<commits, intent>>
       \/ /\ Running("intent") /\ Error /\ UNCHANGED commits
          /\ \E left \in BOOLEAN : intent' = [intent EXCEPT ![app] = left]
       \/ /\ Running("git-commit") /\ Error
          /\ \/ UNCHANGED commits /\ (UNCHANGED intent \/ intent' = [intent EXCEPT ![app] = FALSE])
             \/ /\ tree[app] \in Contents \ {TipBytes(app)} /\ Committed
                /\ intent' = [intent EXCEPT ![app] = FALSE]
    /\ NotCommitted
    /\ UNCHANGED <<tree, other, marker, deployed>>

-----------------------------------------------------------------------------
(***************************************************************************)
(* Check, activation, verification.                                        *)
(***************************************************************************)
\* AppChecker.check: the doctor finds nothing, and no managed file is dirty.
Checked(a) ==
    /\ tree[a] \in Compatible
    /\ \A t \in Files[tree[a]].provenance.managed : Files[tree[a]][t] = Files[TipBytes(a)][t]

Check ==
    /\ Running("check") /\ Checked(app) /\ Goto("activate")
    /\ Same /\ UNCHANGED counts

\* An error after the commit begins the recovery; within it, it ends the run.
Failed ==
    IF goal = "UPDATED" THEN Goto("inspect-live") ELSE Stop

\* The registration is previewed again; the deployment compares main and the
\* live release under its lock.
Activatable == app \notin stale /\ Tip(app) = commit /\ live[app] = former
Activate ==
    /\ Running("activate") /\ Activatable
    /\ live' = [live EXCEPT ![app] = commit]
    /\ Goto("verify-state")
    /\ UNCHANGED <<repositories, stale, turn, counts>>

\* It may fail with the new release selected.
StepFails ==
    /\ \/ Running("check") /\ ~Checked(app) /\ UNCHANGED <<live, counts>>
       \/ Running("check") /\ Error /\ UNCHANGED live
       \/ Running("activate") /\ ~Activatable /\ UNCHANGED <<live, counts>>
       \/ /\ Running("activate") /\ Activatable /\ Error
          /\ \E c \in {live[app], commit} : live' = [live EXCEPT ![app] = c]
    /\ Failed
    /\ UNCHANGED <<repositories, stale, turn>>

\* Mutant: HEAD is compared, but not whether the tree is clean.
VerifyStateOnly ==
    /\ Running("verify-state") /\ Same /\ UNCHANGED counts
    /\ IF Tip(app) = commit THEN Goto("verify-live") ELSE Failed

VerifyState ==
    /\ Running("verify-state") /\ Same /\ UNCHANGED counts
    /\ IF Clean(app) /\ Tip(app) = commit THEN Goto("verify-live") ELSE Failed

VerifyLive ==
    /\ Running("verify-live") /\ Same /\ UNCHANGED counts
    /\ IF live[app] = commit THEN Reported(app, goal) ELSE Failed

VerifyFails ==
    /\ Running("verify-state") \/ Running("verify-live")
    /\ Error /\ Failed /\ Same

\* _recover_app begins from whichever of the two releases is live.
InspectLive ==
    /\ Running("inspect-live") /\ UNCHANGED <<repositories, deployed, counts>>
    /\ IF live[app] \in {plan[app].source, commit}
       THEN /\ Goto("inverse") /\ former' = live[app] /\ goal' = "FAILED_RECOVERED"
            /\ UNCHANGED <<app, commit>>
       ELSE Stop /\ UNCHANGED turn

InspectLiveFails == Running("inspect-live") /\ Same /\ Error /\ Stop

\* A kill leaves the effect of the present step done or not, or in between.
Kill ==
    /\ pc # "idle" /\ kills < MaxKills /\ kills' = kills + 1
    /\ pc' = "idle"
    /\ \/ pc \notin {"update", "inverse"} /\ UNCHANGED <<tree, other, marker>>
       \/ pc = "update" /\ Unpublished(Wanted)
       \/ pc = "inverse" /\ Unpublished(Before)
       \/ /\ pc \in {"update", "inverse"}
          /\ other' = [other EXCEPT ![app] = TRUE] /\ UNCHANGED <<tree, marker>>
    /\ \/ UNCHANGED live
       \/ pc = "activate" /\ Activatable /\ live' = [live EXCEPT ![app] = commit]
    /\ UNCHANGED <<intent, commits, stale, plan, todo, turn, result, history, runs, edits, errors>>

Steps ==
    \/ \E a \in Apps : Preview(a) \/ PreviewFails(a) \/ Turn(a)
    \/ Repeat \/ RepeatFails \/ Update \/ UpdateRefused \/ UpdateFails \/ Inverse \/ InverseFails
    \/ CheckCommit \/ IntendToAdd \/ GitCommit \/ VerifyCommit \/ CommitFails
    \/ Check \/ Activate \/ StepFails \/ VerifyState \/ VerifyLive \/ VerifyFails \/ InspectLive
    \/ InspectLiveFails

-----------------------------------------------------------------------------
(***************************************************************************)
(* Authors and operators.                                                  *)
(***************************************************************************)
Touch(a) ==
    /\ edits < MaxEdits /\ edits' = edits + 1
    /\ touched' = touched \cup {a}
    /\ UNCHANGED <<pc, plan, todo, turn, result, origin, runs, errors, kills>>

Edit(a) ==
    /\ Touch(a)
    /\ \/ marker[a] = None /\ (\E c \in Contents : tree' = [tree EXCEPT ![a] = c]) /\ UNCHANGED other
       \/ other' = [other EXCEPT ![a] = ~@] /\ UNCHANGED tree
    /\ UNCHANGED <<intent, commits, marker, deployed>>

AuthorCommits(a) ==
    /\ Touch(a) /\ tree[a] \in Contents
    /\ commits' = [commits EXCEPT ![a] = Append(@, tree[a])]
    /\ other' = [other EXCEPT ![a] = FALSE] /\ intent' = [intent EXCEPT ![a] = FALSE]
    /\ UNCHANGED <<tree, marker, deployed>>

\* The hook of a commit, a deployment or a rollback, or a pointer damaged by hand.
Deploy(a) ==
    /\ Touch(a)
    /\ \E c \in 0..Tip(a) : live' = [live EXCEPT ![a] = c]
    /\ UNCHANGED <<repositories, stale>>

\* Another registration, or an application that declares another one.
Register(a) ==
    /\ Touch(a)
    /\ stale' = IF a \in stale THEN stale \ {a} ELSE stale \cup {a}
    /\ UNCHANGED <<repositories, live>>

\* AppUpdater.update for one application: it recovers what is pending, then
\* publishes what it plans, if the files are clean and the request is accepted.
UpdateAlone(a) ==
    /\ Touch(a)
    /\ \E request \in Requests, foundation \in BOOLEAN :
          LET found == IF marker[a] = None THEN tree[a] ELSE marker[a]
              wanted == IF found = TipBytes(a) THEN Plan[found][request][foundation] ELSE None
          IN tree' = [tree EXCEPT ![a] = IF wanted = None THEN found ELSE wanted]
    /\ marker' = [marker EXCEPT ![a] = None]
    /\ UNCHANGED <<other, intent, commits, deployed>>

Others == \E a \in Apps : Edit(a) \/ AuthorCommits(a) \/ Deploy(a) \/ Register(a) \/ UpdateAlone(a)

Next == Start \/ Steps \/ Kill \/ Others

Spec == Init /\ [][Next]_vars

\* The steps that preview or make an activation, which reads Git, builds and calls
\* launchctl without a deadline: they may wait for a command that never ends.
Waiting == {"preview", "repeat", "activate"}

\* Elsewhere a run that is not killed goes on: the commands it starts there have
\* a deadline.
FairSpec == Spec /\ WF_vars(Steps /\ pc \notin Waiting)

-----------------------------------------------------------------------------
Statuses == {"BLOCKED", "SKIPPED", "CURRENT", "READY"}
Goals == {"UPDATED", "BLOCKED", "FAILED_RECOVERED"}
Results == {"none", "RECOVERY_FAILED"} \cup (Statuses \ {"READY"}) \cup Goals

Idle == {"idle", "preview", "turn"}
Turns ==
    {"repeat", "update", "inverse", "commit", "intent", "git-commit", "verify-commit", "check",
     "activate", "verify-state", "verify-live", "inspect-live"}

\* Every variable has a value of its kind; a turn belongs to a READY application
\* that has no result yet.
TypeOK ==
    /\ tree \in [Apps -> Contents \cup {Torn}] /\ marker \in [Apps -> Contents \cup {None}]
    /\ other \in [Apps -> BOOLEAN] /\ intent \in [Apps -> BOOLEAN]
    /\ commits \in [Apps -> Seq(Contents)] /\ \A a \in Apps : commits[a] # <<>>
    /\ live \in [Apps -> Nat]
    /\ plan \in [Apps -> [status: Statuses \cup {"none"}, source: Nat, before: Contents \cup {None}]]
    /\ pc \in Idle \cup Turns /\ todo \subseteq Apps
    /\ app \in Apps \cup {0} /\ commit \in Nat /\ former \in Nat /\ goal \in Goals \cup {"none"}
    /\ result \in [Apps -> Results]
    /\ touched \subseteq Apps /\ stale \subseteq Apps
    /\ pc \in Turns => /\ app \in todo /\ goal \in Goals
                       /\ plan[app].status = "READY" /\ Before \in Contents
                       /\ result[app] = "none"

\* What each status claims, for an application nobody else has touched since the
\* run began: UPDATED is one commit of the planned files, live and clean, which
\* hold one build of the UI package and leave the next run nothing to do;
\* FAILED_RECOVERED is the former bytes, clean, committed and live, with no commit
\* or two commits more; the others claim that nothing has changed.
ReportsAreTrue ==
    \A a \in Apps \ touched :
        LET was == origin[a] IN
        /\ result[a] = "UPDATED" =>
              /\ Settled(a) /\ commits[a] = Append(was.commits, Target(was.tree))
              /\ tree[a] \in Compatible /\ Target(tree[a]) = tree[a]
              /\ LET f == Files[tree[a]] IN {f.provenance.ui, f.artifact, f.lock} = {Platform}
        /\ result[a] = "FAILED_RECOVERED" =>
              /\ Settled(a) /\ tree[a] = was.tree
              /\ commits[a] \in {was.commits, was.commits \o <<Target(was.tree), was.tree>>}
        /\ result[a] \in {"CURRENT", "SKIPPED", "BLOCKED"} => Observed(a) = was
        /\ result[a] = "CURRENT" => Settled(a) /\ Target(tree[a]) = tree[a]

\* A run, also one that is killed, leaves at most one application unsettled that
\* was settled when it began.
Unsettled == {a \in Apps \ touched : origin[a].clean /\ origin[a].live = Len(origin[a].commits) /\ ~Settled(a)}
OneUnsettled == \A a, b \in Unsettled : a = b

\* Every run ends, whatever fails in it and whatever others do, unless a command
\* without a deadline keeps it waiting for ever in one step.
RunEnds == (pc # "idle") ~> (pc = "idle" \/ [](pc \in Waiting))

=============================================================================
