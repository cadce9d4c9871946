---------------------------- MODULE UpdatePublisher ----------------------------
(***************************************************************************)
(* Publication of a platform update into an application's repository:      *)
(* AppUpdater.update (app_update.py) and the recoverable transaction under *)
(* it (app_update_transaction.py).                                         *)
(*                                                                         *)
(* The planned bytes are staged beside their files, a marker in the Git    *)
(* directory records the bytes they replace, and the files are replaced    *)
(* one by one.  An error puts the recorded bytes back; a kill leaves that  *)
(* to the next update, which recovers before it plans.  Nothing locks the  *)
(* repository.  The author edits, and commits, between updates, also       *)
(* between a kill and its recovery.                                        *)
(*                                                                         *)
(* One folder of the repository may be missing (`vendor'); the files in it *)
(* are Nested.  File modes, symbolic links and the content of the bytes    *)
(* are left out: what the candidate must satisfy is one answer.            *)
(***************************************************************************)
EXTENDS Integers

CONSTANTS
    Processes,  \* running commands
    Paths,      \* files an update may change, numbered in the order of a plan
    Nested,     \* those in the folder an update may have to create
    Bytes,      \* contents of files
    Heads,      \* commits an application may start from
    Releases,   \* what the installed platform wants in each file
    Names,      \* names of temporaries mkstemp can pick
    MaxEdits,   \* bounds of the model: edits of the author,
    MaxErrors,  \* operations that fail,
    MaxKills,   \* kills of a process
    None        \* an absent file or marker

Contents == Bytes \cup {None}
Trees == [Paths -> Contents]

Plans == UNION {[S -> [before: Contents, after: Contents]] : S \in SUBSET Paths}
Temps == (Names \cup {0}) \X Paths
\* What a restoration needs: the former bytes, the temporaries and the folder.
States ==
    [before: UNION {[S -> Contents] : S \in SUBSET Paths}, temps: SUBSET Temps, made: BOOLEAN]

ASSUME Parameters ==
    /\ Paths \subseteq Nat /\ Nested \subseteq Paths /\ Names \subseteq Nat \ {0}
    /\ None \notin Bytes \cup States /\ Heads \subseteq Trees /\ Releases \subseteq [Paths -> Bytes]
    /\ MaxEdits \in Nat /\ MaxErrors \in Nat /\ MaxKills \in Nat

VARIABLES
    tree,    \* bytes of each path in the working tree
    head,    \* and in the last commit
    folder,  \* the folder of the Nested files exists
    stray,   \* and holds a file of the author's
    temps,   \* temporaries in the working tree: a name and the path it is for
    marker,  \* the recovery marker
    pc,      \* next step of each process
    op,      \* what each process has in memory
    edits, errors, kills

repository == <<tree, head, folder, stray, temps, marker>>
counts == <<edits, errors, kills>>
vars == <<repository, pc, op, counts>>

NoFiles == [f \in {} |-> None]
NoState == [before |-> NoFiles, temps |-> {}, made |-> FALSE]

Init ==
    /\ head \in Heads /\ tree = head
    /\ folder = (\E f \in Nested : tree[f] # None)
    /\ stray = FALSE /\ temps = {} /\ marker = None
    /\ pc = [p \in Processes |-> "idle"]
    /\ op = [p \in Processes |->
          [plan |-> NoFiles, state |-> NoState, name |-> 0, todo |-> {},
           recovering |-> FALSE, outcome |-> "none"]]
    /\ edits = 0 /\ errors = 0 /\ kills = 0

-----------------------------------------------------------------------------
Plan(p) == op[p].plan
State(p) == op[p].state

Goto(p, step) == pc' = [pc EXCEPT ![p] = step]
Remember(p, record) == op' = [op EXCEPT ![p] = record]
End(p, outcome) ==
    /\ Goto(p, "idle")
    /\ Remember(p, [op[p] EXCEPT !.outcome = outcome, !.todo = {}, !.state = NoState, !.recovering = FALSE])

\* The files of a plan are handled in order.
NextFile(p, f) == f \in op[p].todo /\ \A g \in op[p].todo : f <= g

\* Mutant: only the first file is handled.
HandledOnce(p, f, step, after) ==
    /\ Remember(p, [op[p] EXCEPT !.todo = {}])
    /\ Goto(p, after)

Handled(p, f, step, after) ==
    /\ Remember(p, [op[p] EXCEPT !.todo = @ \ {f}])
    /\ Goto(p, IF op[p].todo = {f} THEN after ELSE step)

\* rmdir removes an empty folder.
Empty(files, temporaries) ==
    /\ ~stray /\ \A f \in Nested : files[f] = None
    /\ \A t \in temporaries : t[2] \notin Nested

\* _clean_prepared: the temporaries go, and the folder if the update made it.
CleanPrepared(state) ==
    /\ temps' = temps \ state.temps
    /\ folder' = (folder /\ (state.made => ~Empty(tree, temps')))

\* Mutant: a restoration starts where the publication stopped.
BeginRestoreRest(p, state, recovering) ==
    /\ Goto(p, "restore")
    /\ Remember(p, [op[p] EXCEPT !.state = state, !.recovering = recovering, !.outcome = "running"])

BeginRestore(p, state, recovering) ==
    /\ Goto(p, "restore")
    /\ Remember(p, [op[p] EXCEPT !.state = state, !.todo = DOMAIN state.before,
                                 !.recovering = recovering, !.outcome = "running"])

-----------------------------------------------------------------------------
\* update without an expected plan recovers what is pending, then plans.
Update(p) ==
    /\ pc[p] = "idle"
    /\ IF marker # None THEN BeginRestore(p, marker, TRUE)
       ELSE /\ Goto(p, "preview")
            /\ Remember(p, [op[p] EXCEPT !.outcome = "running"])
    /\ UNCHANGED <<repository, counts>>

\* With one it refuses a pending recovery.
UpdateExpected(p) ==
    /\ pc[p] = "idle"
    /\ IF marker # None THEN End(p, "refused")
       ELSE /\ Goto(p, "preview")
            /\ Remember(p, [op[p] EXCEPT !.outcome = "running"])
    /\ UNCHANGED <<repository, counts>>

\* The fleet updater publishes the inverse of a plan it has published.
Inverse(plan) == [f \in DOMAIN plan |-> [before |-> plan[f].after, after |-> plan[f].before]]
PublishInverse(p) ==
    /\ pc[p] = "idle" /\ op[p].outcome = "published"
    /\ Goto(p, "check")
    /\ Remember(p, [op[p] EXCEPT !.plan = Inverse(@), !.outcome = "running"])
    /\ UNCHANGED <<repository, counts>>

\* preview refuses a pending recovery and targets that differ from the last commit,
Preview(p) ==
    /\ pc[p] = "preview" /\ marker = None /\ tree = head
    /\ Goto(p, "read")
    /\ UNCHANGED <<repository, op, counts>>

\* and then reads them.
Changes(release) ==
    [f \in {g \in Paths : tree[g] # release[g]} |-> [before |-> tree[f], after |-> release[f]]]
Read(p) ==
    /\ pc[p] = "read"
    /\ \E release \in Releases :
          IF tree = release THEN End(p, "current")
          ELSE /\ Goto(p, "check")
               /\ Remember(p, [op[p] EXCEPT !.plan = Changes(release)])
    /\ UNCHANGED <<repository, counts>>

\* publish checks that nothing is pending and that the files are as planned.
AsPlanned(p) == \A f \in DOMAIN Plan(p) : tree[f] = Plan(p)[f].before
Check(p) ==
    /\ pc[p] = "check" /\ marker = None /\ AsPlanned(p)
    /\ Goto(p, "prepare")
    /\ \E n \in Names :
          /\ \A t \in temps : t[1] # n
          /\ \A q \in Processes \ {p} : pc[q] # "idle" => op[q].name # n
          /\ Remember(p, [op[p] EXCEPT !.name = n, !.todo = DOMAIN Plan(p),
                !.state = [before |-> [f \in DOMAIN Plan(p) |-> Plan(p)[f].before],
                           temps |-> {}, made |-> FALSE]])
    /\ UNCHANGED <<repository, counts>>

\* A check that does not pass, an unacceptable candidate or a changed plan ends
\* the update before it has written anything.
Refuse(p) ==
    /\ pc[p] \in {"preview", "read", "check"}
    /\ End(p, "refused")
    /\ UNCHANGED <<repository, counts>>

-----------------------------------------------------------------------------
\* Staging one file: its folder, if it is missing, and its temporary.
Stageable(p, f) == Plan(p)[f].before = None \/ tree[f] # None
Prepare(p) ==
    /\ pc[p] = "prepare"
    /\ \E f \in Paths :
          LET makes == f \in Nested /\ ~folder
              staged == IF Plan(p)[f].after = None THEN {} ELSE {<<op[p].name, f>>} IN
          /\ NextFile(p, f) /\ Stageable(p, f)
          /\ folder' = (folder \/ makes)
          /\ temps' = temps \cup staged
          /\ Remember(p, [op[p] EXCEPT !.todo = @ \ {f},
                !.state = [before |-> State(p).before, temps |-> State(p).temps \cup staged,
                           made |-> State(p).made \/ makes]])
          /\ Goto(p, IF op[p].todo = {f} THEN "mark" ELSE "prepare")
    /\ UNCHANGED <<tree, head, stray, marker, counts>>

\* A step fails because it must, or by an error of the file system.
Fails(must) ==
    /\ ~must => errors < MaxErrors
    /\ errors' = IF must THEN errors ELSE errors + 1
    /\ UNCHANGED <<edits, kills>>

\* Mutant: an error while staging removes nothing.
PrepareFailsOnly(p) ==
    /\ pc[p] = "prepare" /\ Fails(FALSE)
    /\ End(p, "failed")
    /\ UNCHANGED <<tree, head, folder, stray, temps, marker>>

\* An error, or an interrupt, while staging removes what was staged.
PrepareFails(p) ==
    /\ pc[p] = "prepare"
    /\ Fails(\E f \in op[p].todo : NextFile(p, f) /\ ~Stageable(p, f))
    /\ CleanPrepared(State(p)) /\ End(p, "failed")
    /\ UNCHANGED <<tree, head, stray, marker>>

\* The marker is put in place by one rename, over whatever is there.
Mark(p) ==
    /\ pc[p] = "mark"
    /\ marker' = State(p)
    /\ Goto(p, "replace") /\ Remember(p, [op[p] EXCEPT !.todo = DOMAIN Plan(p)])
    /\ UNCHANGED <<tree, head, folder, stray, temps, counts>>

MarkFails(p) ==
    /\ pc[p] = "mark" /\ Fails(FALSE)
    /\ IF marker = None
       THEN /\ CleanPrepared(State(p))
            /\ End(p, IF State(p).made /\ folder' THEN "unrecovered" ELSE "failed")
       ELSE BeginRestore(p, State(p), FALSE) /\ UNCHANGED <<folder, temps>>
    /\ UNCHANGED <<tree, head, stray, marker>>

Replaceable(p, f) ==
    IF Plan(p)[f].after = None THEN tree[f] # None ELSE <<op[p].name, f>> \in temps

Replace(p) ==
    /\ pc[p] = "replace"
    /\ \E f \in Paths :
          /\ NextFile(p, f) /\ Replaceable(p, f)
          /\ tree' = [tree EXCEPT ![f] = Plan(p)[f].after]
          /\ temps' = temps \ {<<op[p].name, f>>}
          /\ Handled(p, f, "replace", "verify")
    /\ UNCHANGED <<head, folder, stray, marker, counts>>

\* validate reads every changed file again and inspects the candidate.
Published(p) == \A f \in DOMAIN Plan(p) : tree[f] = Plan(p)[f].after
Verify(p) ==
    /\ pc[p] = "verify" /\ Published(p)
    /\ Goto(p, "clear")
    /\ UNCHANGED <<repository, op, counts>>

\* Mutant: an error leaves the restoration to the next update and says nothing of it.
PublishFailsOnly(p) ==
    /\ pc[p] \in {"replace", "verify", "clear"} /\ Fails(FALSE)
    /\ End(p, "failed")
    /\ UNCHANGED repository

\* An error of any of these steps begins the restoration from memory.
PublishFails(p) ==
    /\ pc[p] \in {"replace", "verify", "clear"}
    /\ Fails(\/ \E f \in op[p].todo : NextFile(p, f) /\ ~Replaceable(p, f)
             \/ pc[p] = "verify" /\ ~Published(p))
    /\ BeginRestore(p, State(p), FALSE)
    /\ UNCHANGED repository

\* Publication is complete when the marker is gone.
Clear(p) ==
    /\ pc[p] = "clear"
    /\ marker' = None /\ End(p, "published")
    /\ UNCHANGED <<tree, head, folder, stray, temps, counts>>

-----------------------------------------------------------------------------
\* Restoration puts the recorded bytes back, whatever is there,
Restorable(p, f) == State(p).before[f] = None \/ f \notin Nested \/ folder
Restore(p) ==
    /\ pc[p] = "restore"
    /\ \E f \in Paths :
          /\ NextFile(p, f) /\ Restorable(p, f)
          /\ tree' = [tree EXCEPT ![f] = State(p).before[f]]
          /\ Handled(p, f, "restore", "clean")
    /\ UNCHANGED <<head, folder, stray, temps, marker, counts>>

\* Mutant: the folder is removed before the temporaries.
CleanFolderFirst(p) ==
    /\ pc[p] = "clean"
    /\ IF State(p).made /\ folder /\ ~Empty(tree, temps)
       THEN End(p, "unrecovered") /\ UNCHANGED <<folder, temps>>
       ELSE /\ temps' = temps \ State(p).temps
            /\ folder' = (folder /\ ~State(p).made)
            /\ Goto(p, "unmark") /\ UNCHANGED op
    /\ UNCHANGED <<tree, head, stray, marker, counts>>

\* removes the temporaries and the folder, which must be empty,
Clean(p) ==
    /\ pc[p] = "clean"
    /\ CleanPrepared(State(p))
    /\ IF State(p).made /\ folder' THEN End(p, "unrecovered")
       ELSE Goto(p, "unmark") /\ UNCHANGED op
    /\ UNCHANGED <<tree, head, stray, marker, counts>>

\* and last the marker.
Unmark(p) ==
    /\ pc[p] = "unmark"
    /\ marker' = None
    /\ IF op[p].recovering
       THEN Goto(p, "preview") /\ Remember(p, [op[p] EXCEPT !.state = NoState, !.recovering = FALSE])
       ELSE End(p, "failed")
    /\ UNCHANGED <<tree, head, folder, stray, temps, counts>>

\* A restoration that fails leaves the marker to the next update.
RestoreFails(p) ==
    /\ pc[p] \in {"restore", "clean", "unmark"}
    /\ Fails(\E f \in op[p].todo : NextFile(p, f) /\ ~Restorable(p, f))
    /\ End(p, "unrecovered")
    /\ UNCHANGED repository

\* A kill ends a process anywhere; in a restoration it may leave the temporary of
\* the file being restored, which no marker lists.
Kill(p) ==
    /\ pc[p] # "idle" /\ kills < MaxKills
    /\ End(p, "killed")
    /\ \/ UNCHANGED temps
       \/ \E f \in Paths :
             /\ pc[p] = "restore" /\ NextFile(p, f) /\ State(p).before[f] # None /\ Restorable(p, f)
             /\ temps' = temps \cup {<<0, f>>}
    /\ kills' = kills + 1
    /\ UNCHANGED <<tree, head, folder, stray, marker, edits, errors>>

-----------------------------------------------------------------------------
\* The author works on the repository while no update runs.
Quiet == \A p \in Processes : pc[p] = "idle"
Edited == edits < MaxEdits /\ edits' = edits + 1 /\ UNCHANGED <<marker, temps, pc, op, errors, kills>>

Edit(f) ==
    /\ Quiet /\ Edited
    /\ \E c \in Contents \ {tree[f]} : tree' = [tree EXCEPT ![f] = c]
    /\ folder' = (folder \/ f \in Nested)
    /\ UNCHANGED <<head, stray>>

EditFolder ==
    /\ Quiet /\ Edited /\ folder
    /\ stray' = ~stray
    /\ UNCHANGED <<tree, head, folder>>

\* Commits of the author and of the fleet updater.
Commit ==
    /\ Quiet /\ head' = tree
    /\ UNCHANGED <<tree, folder, stray, temps, marker, pc, op, counts>>

Begins(p) == Update(p) \/ UpdateExpected(p) \/ PublishInverse(p)
Steps(p) ==
    \/ Preview(p) \/ Read(p) \/ Check(p) \/ Refuse(p) \/ Prepare(p) \/ PrepareFails(p)
    \/ Mark(p) \/ MarkFails(p) \/ Replace(p) \/ Verify(p) \/ PublishFails(p) \/ Clear(p)
    \/ Restore(p) \/ Clean(p) \/ Unmark(p) \/ RestoreFails(p)

Next ==
    \/ \E p \in Processes : Begins(p) \/ Steps(p) \/ Kill(p)
    \/ \E f \in Paths : Edit(f)
    \/ EditFolder \/ Commit

Spec == Init /\ [][Next]_vars

\* A running command goes on, and the operator repeats the update.
FairSpec == Spec /\ \A p \in Processes : WF_vars(Steps(p)) /\ WF_vars(Update(p))

-----------------------------------------------------------------------------
Outcomes ==
    {"none", "running", "published", "current", "refused", "failed", "unrecovered", "killed"}
Ops ==
    [plan: Plans, state: States, name: Names \cup {0}, todo: SUBSET Paths,
     recovering: BOOLEAN, outcome: Outcomes]
Handling == {"prepare", "replace", "restore"}

\* Every variable has a value of its kind, and files are left to handle in the
\* steps that handle files.
TypeOK ==
    /\ tree \in Trees /\ head \in Trees /\ folder \in BOOLEAN /\ stray \in BOOLEAN
    /\ temps \subseteq Temps /\ marker \in States \cup {None}
    /\ pc \in [Processes -> Handling \cup
                  {"idle", "preview", "read", "check", "mark", "verify", "clear", "clean", "unmark"}]
    /\ op \in [Processes -> Ops]
    /\ \A p \in Processes : op[p].todo # {} <=> pc[p] \in Handling
    /\ edits \in 0..MaxEdits /\ errors \in 0..MaxErrors /\ kills \in 0..MaxKills

\* The bytes a recovery would leave.
Effective ==
    [f \in Paths |-> IF marker # None /\ f \in DOMAIN marker.before THEN marker.before[f] ELSE tree[f]]

\* Whatever fails or is killed, and however often a recovery is interrupted, an
\* update replaces all files of its plan or none: the publisher implements a
\* compare-and-swap of several files, and says `published' only of one that happened.
Atomic ==
    INSTANCE AtomicUpdate WITH
        files <- Effective,
        plan <- [p \in Processes |-> Plan(p)],
        outcome <- [p \in Processes |-> op[p].outcome]
UpdateIsAtomic == Atomic!Spec

Ends(p, outcome) == op[p].outcome = "running" /\ op'[p].outcome = outcome

\* A failure reported without `recovery required' has put everything back: bytes,
\* temporaries, the folder unless the author uses it, and no marker is left.
FailureRestoresFiles ==
    [][\A p \in Processes : Ends(p, "failed") =>
          /\ marker' = None
          /\ \A f \in DOMAIN Plan(p) : tree'[f] = Plan(p)[f].before
          /\ State(p).temps \cap temps' = {}
          /\ State(p).made => ~folder' \/ stray']_vars

\* tests/test_app_update_transaction.py:113: `success publishes exact planned files'.
SuccessIsPublished ==
    [][\A p \in Processes : Ends(p, "published") =>
          \A f \in DOMAIN Plan(p) : tree'[f] = Plan(p)[f].after]_vars

\* Without a kill nothing staged is ever left behind.
NothingLeftBehind ==
    kills = 0 /\ Quiet => \/ temps = {}
                          \/ marker # None /\ temps \subseteq marker.temps

\* A pending recovery is resolved by repeating the update, unless the author keeps
\* a file in the folder it has to remove.
PendingResolved == <>[]~stray => [](marker # None => <>(marker = None))

=============================================================================
