-------------------------- MODULE Deployment_proofs --------------------------
(***************************************************************************)
(* Proofs about Deployment for any processes, commits, commands and bound: *)
(* its state keeps its types, pointers always resolve, the pair an         *)
(* operation may still have to restore is never removed, and an operation  *)
(* ends with what it reports; a migration too, when no other one runs.     *)
(***************************************************************************)
EXTENDS Deployment, TLAPS

\* Steps taken while holding the application lock.
LockSteps ==
    (Working \ {"publish", "migrate"}) \cup Notable
        \cup {"undo-registered", "undo-agent", "undo-prune", "undo-health", "check-pair"}

\* Steps after the target was selected, and after the former pair was restored.
SelectedSteps == {"stop", "bootstrap", "health", "verify", "previous", "prune", "final"}
RestoredSteps ==
    {"undo-registered", "undo-agent", "undo-stop", "undo-bootstrap", "undo-health", "undo-prune"}

Present(c) == c \in Commits => releases[c] # "absent"

\* The lock is held exactly in these steps.
LockInv == \A p \in Processes : lock = p <=> pc[p] \in LockSteps

\* A process at work knows its target and the command it found.
OpInv ==
    \A p \in Processes : pc[p] # "idle" =>
        op[p].target \in Commits /\ op[p].before \in Commands

\* What the pointers are at each step of the holder.
PointerInv ==
    \A p \in Processes :
        /\ pc[p] \in SelectedSteps => current = op[p].target
        /\ pc[p] = "switch" => Present(op[p].target)
        /\ pc[p] = "prune" => previous = op[p].current
        /\ pc[p] \in RestoredSteps => current = op[p].current /\ previous = op[p].previous
        /\ pc[p] = "undo-bootstrap" => op[p].current # None

Resolve == Present(current) /\ Present(previous)

\* The releases of the former pair survive until a success is final.
KeptInv ==
    \A p \in Processes :
        pc[p] \in LockSteps /\ (pc[p] = "prune" => op[p].kind = "migrate")
            => Present(op[p].current) /\ Present(op[p].previous)

IInv == TypeOK /\ LockInv /\ OpInv /\ PointerInv /\ Resolve /\ KeptInv

USE Parameters

-----------------------------------------------------------------------------
\* A process asks for an operation.

LEMMA DeployStep == ASSUME NEW p \in Processes, IInv, Deploy(p) PROVE IInv'
<1> USE DEF IInv, Working, Notable, Undoing, Fallbacks
<1>1. TypeOK'
  BY DEF TypeOK, LockInv, OpInv, PointerInv, LockSteps, SelectedSteps, RestoredSteps, Steps,
      Operations, Jobs, Deploy, Begin, Operation, Arrived, Start, world, pair
<1>2. LockInv' /\ OpInv'
  BY DEF TypeOK, LockInv, OpInv, LockSteps, Deploy, Begin, Operation, Arrived, Start, world,
      pair
<1>3. PointerInv'
  BY DEF TypeOK, LockInv, OpInv, PointerInv, Resolve, KeptInv, Present, LockSteps,
      SelectedSteps, RestoredSteps, Deploy, Begin, Operation, Arrived, Start, world, pair
<1>4. Resolve' /\ KeptInv'
  BY DEF TypeOK, LockInv, OpInv, PointerInv, Resolve, KeptInv, Present, LockSteps,
      SelectedSteps, RestoredSteps, Deploy, Begin, Operation, Arrived, Start, world, pair
<1> QED BY <1>1, <1>2, <1>3, <1>4

LEMMA PlanActivationStep == ASSUME NEW p \in Processes, IInv, PlanActivation(p) PROVE IInv'
<1> USE DEF IInv, Working, Notable, Undoing, Fallbacks
<1>1. TypeOK'
  BY DEF TypeOK, LockInv, OpInv, PointerInv, LockSteps, SelectedSteps, RestoredSteps, Steps,
      Operations, Jobs, PlanActivation, Operation, world, pair
<1>2. LockInv' /\ OpInv'
  BY DEF TypeOK, LockInv, OpInv, LockSteps, PlanActivation, Operation, world, pair
<1>3. PointerInv'
  BY DEF TypeOK, LockInv, OpInv, PointerInv, Resolve, KeptInv, Present, LockSteps,
      SelectedSteps, RestoredSteps, PlanActivation, Operation, world, pair
<1>4. Resolve' /\ KeptInv'
  BY DEF TypeOK, LockInv, OpInv, PointerInv, Resolve, KeptInv, Present, LockSteps,
      SelectedSteps, RestoredSteps, PlanActivation, Operation, world, pair
<1> QED BY <1>1, <1>2, <1>3, <1>4

LEMMA RollbackStep == ASSUME NEW p \in Processes, IInv, Rollback(p) PROVE IInv'
<1> USE DEF IInv, Working, Notable, Undoing, Fallbacks
<1>1. TypeOK'
  BY DEF TypeOK, LockInv, OpInv, PointerInv, LockSteps, SelectedSteps, RestoredSteps, Steps,
      Operations, Jobs, Rollback, Begin, Operation, world, pair
<1>2. LockInv' /\ OpInv'
  BY DEF TypeOK, LockInv, OpInv, LockSteps, Rollback, Begin, Operation, world, pair
<1>3. PointerInv'
  BY DEF TypeOK, LockInv, OpInv, PointerInv, Resolve, KeptInv, Present, LockSteps,
      SelectedSteps, RestoredSteps, Rollback, Begin, Operation, world, pair
<1>4. Resolve' /\ KeptInv'
  BY DEF TypeOK, LockInv, OpInv, PointerInv, Resolve, KeptInv, Present, LockSteps,
      SelectedSteps, RestoredSteps, Rollback, Begin, Operation, world, pair
<1> QED BY <1>1, <1>2, <1>3, <1>4

LEMMA PreviewMigrationStep == ASSUME NEW p \in Processes, IInv, PreviewMigration(p) PROVE IInv'
<1> USE DEF IInv, Working, Notable, Undoing, Fallbacks
<1>1. TypeOK'
  BY DEF TypeOK, LockInv, OpInv, PointerInv, LockSteps, SelectedSteps, RestoredSteps, Steps,
      Operations, Jobs, PreviewMigration, Operation, world, pair
<1>2. LockInv' /\ OpInv'
  BY DEF TypeOK, LockInv, OpInv, LockSteps, PreviewMigration, Operation, world, pair
<1>3. PointerInv'
  BY DEF TypeOK, LockInv, OpInv, PointerInv, Resolve, KeptInv, Present, LockSteps,
      SelectedSteps, RestoredSteps, PreviewMigration, Operation, world, pair
<1>4. Resolve' /\ KeptInv'
  BY DEF TypeOK, LockInv, OpInv, PointerInv, Resolve, KeptInv, Present, LockSteps,
      SelectedSteps, RestoredSteps, PreviewMigration, Operation, world, pair
<1> QED BY <1>1, <1>2, <1>3, <1>4

-----------------------------------------------------------------------------
\* A process takes the next step of its operation.

LEMMA ActivateStep == ASSUME NEW p \in Processes, IInv, Activate(p) PROVE IInv'
<1> USE DEF IInv, Working, Notable, Undoing, Fallbacks
<1>1. TypeOK'
  BY DEF TypeOK, LockInv, OpInv, PointerInv, LockSteps, SelectedSteps, RestoredSteps, Steps,
      Operations, Jobs, Activate, Operation, Arrived, Start, world, pair
<1>2. LockInv' /\ OpInv'
  BY DEF TypeOK, LockInv, OpInv, LockSteps, Activate, Operation, Arrived, Start, world, pair
<1>3. PointerInv'
  BY DEF TypeOK, LockInv, OpInv, PointerInv, Resolve, KeptInv, Present, LockSteps,
      SelectedSteps, RestoredSteps, Activate, Operation, Arrived, Start, world, pair
<1>4. Resolve' /\ KeptInv'
  BY DEF TypeOK, LockInv, OpInv, PointerInv, Resolve, KeptInv, Present, LockSteps,
      SelectedSteps, RestoredSteps, Activate, Operation, Arrived, Start, world, pair
<1> QED BY <1>1, <1>2, <1>3, <1>4

LEMMA RefuseActivationStep == ASSUME NEW p \in Processes, IInv, RefuseActivation(p) PROVE IInv'
<1> USE DEF IInv, Working, Notable, Undoing, Fallbacks
<1>1. TypeOK'
  BY DEF TypeOK, LockInv, OpInv, PointerInv, LockSteps, SelectedSteps, RestoredSteps, Steps,
      Operations, Jobs, RefuseActivation, Finish, End, NoOperation, world, pair
<1>2. LockInv' /\ OpInv'
  BY DEF TypeOK, LockInv, OpInv, LockSteps, RefuseActivation, Finish, End, NoOperation, world,
      pair
<1>3. PointerInv'
  BY DEF TypeOK, LockInv, OpInv, PointerInv, Resolve, KeptInv, Present, LockSteps,
      SelectedSteps, RestoredSteps, RefuseActivation, Finish, End, NoOperation, world, pair
<1>4. Resolve' /\ KeptInv'
  BY DEF TypeOK, LockInv, OpInv, PointerInv, Resolve, KeptInv, Present, LockSteps,
      SelectedSteps, RestoredSteps, RefuseActivation, Finish, End, NoOperation, world, pair
<1> QED BY <1>1, <1>2, <1>3, <1>4

LEMMA PublishCandidateStep == ASSUME NEW p \in Processes, IInv, PublishCandidate(p) PROVE IInv'
<1> USE DEF IInv, Working, Notable, Undoing, Fallbacks
<1>1. TypeOK'
  BY DEF TypeOK, LockInv, OpInv, PointerInv, LockSteps, SelectedSteps, RestoredSteps, Steps,
      Operations, Jobs, PublishCandidate, Candidate, Goto, pair
<1>2. LockInv' /\ OpInv'
  BY DEF TypeOK, LockInv, OpInv, LockSteps, PublishCandidate, Candidate, Goto, pair
<1>3. PointerInv'
  BY DEF TypeOK, LockInv, OpInv, PointerInv, Resolve, KeptInv, Present, LockSteps,
      SelectedSteps, RestoredSteps, PublishCandidate, Candidate, Goto, pair
<1>4. Resolve' /\ KeptInv'
  BY DEF TypeOK, LockInv, OpInv, PointerInv, Resolve, KeptInv, Present, LockSteps,
      SelectedSteps, RestoredSteps, PublishCandidate, Candidate, Goto, pair
<1> QED BY <1>1, <1>2, <1>3, <1>4

LEMMA BeginMigrationStep == ASSUME NEW p \in Processes, IInv, BeginMigration(p) PROVE IInv'
<1> USE DEF IInv, Working, Notable, Undoing, Fallbacks
<1>1. TypeOK'
  BY DEF TypeOK, LockInv, OpInv, PointerInv, LockSteps, SelectedSteps, RestoredSteps, Steps,
      Operations, Jobs, BeginMigration, Admitted, Unchanged, Candidate, FormerPair, world, pair
<1>2. LockInv' /\ OpInv'
  BY DEF TypeOK, LockInv, OpInv, LockSteps, BeginMigration, Admitted, Unchanged, Candidate,
      FormerPair, world, pair
<1>3. PointerInv'
  BY DEF TypeOK, LockInv, OpInv, PointerInv, Resolve, KeptInv, Present, LockSteps,
      SelectedSteps, RestoredSteps, BeginMigration, Admitted, Unchanged, Candidate, FormerPair,
      world, pair
<1>4. Resolve' /\ KeptInv'
  BY DEF TypeOK, LockInv, OpInv, PointerInv, Resolve, KeptInv, Present, LockSteps,
      SelectedSteps, RestoredSteps, BeginMigration, Admitted, Unchanged, Candidate, FormerPair,
      world, pair
<1> QED BY <1>1, <1>2, <1>3, <1>4

LEMMA RefuseMigrationStep == ASSUME NEW p \in Processes, IInv, RefuseMigration(p) PROVE IInv'
<1> USE DEF IInv, Working, Notable, Undoing, Fallbacks
<1>1. TypeOK'
  BY DEF TypeOK, LockInv, OpInv, PointerInv, LockSteps, SelectedSteps, RestoredSteps, Steps,
      Operations, Jobs, RefuseMigration, Admitted, Goto, Candidate, FormerPair, world, pair
<1>2. LockInv' /\ OpInv'
  BY DEF TypeOK, LockInv, OpInv, LockSteps, RefuseMigration, Admitted, Goto, Candidate,
      FormerPair, world, pair
<1>3. PointerInv'
  BY DEF TypeOK, LockInv, OpInv, PointerInv, Resolve, KeptInv, Present, LockSteps,
      SelectedSteps, RestoredSteps, RefuseMigration, Admitted, Goto, Candidate, FormerPair,
      world, pair
<1>4. Resolve' /\ KeptInv'
  BY DEF TypeOK, LockInv, OpInv, PointerInv, Resolve, KeptInv, Present, LockSteps,
      SelectedSteps, RestoredSteps, RefuseMigration, Admitted, Goto, Candidate, FormerPair,
      world, pair
<1> QED BY <1>1, <1>2, <1>3, <1>4

LEMMA InstallStep == ASSUME NEW p \in Processes, IInv, Install(p) PROVE IInv'
<1> USE DEF IInv, Working, Notable, Undoing, Fallbacks
<1>1. TypeOK'
  BY DEF TypeOK, LockInv, OpInv, PointerInv, LockSteps, SelectedSteps, RestoredSteps, Steps,
      Operations, Jobs, Install, Candidate, Goto, Start, pair
<1>2. LockInv' /\ OpInv'
  BY DEF TypeOK, LockInv, OpInv, LockSteps, Install, Candidate, Goto, Start, pair
<1>3. PointerInv'
  BY DEF TypeOK, LockInv, OpInv, PointerInv, Resolve, KeptInv, Present, LockSteps,
      SelectedSteps, RestoredSteps, Install, Candidate, Goto, Start, pair
<1>4. Resolve' /\ KeptInv'
  BY DEF TypeOK, LockInv, OpInv, PointerInv, Resolve, KeptInv, Present, LockSteps,
      SelectedSteps, RestoredSteps, Install, Candidate, Goto, Start, pair
<1> QED BY <1>1, <1>2, <1>3, <1>4

LEMMA BuildStep == ASSUME NEW p \in Processes, IInv, Build(p) PROVE IInv'
<1> USE DEF IInv, Working, Notable, Undoing, Fallbacks
<1>1. TypeOK'
  BY DEF TypeOK, LockInv, OpInv, PointerInv, LockSteps, SelectedSteps, RestoredSteps, Steps,
      Operations, Jobs, Build, Goto, pair
<1>2. LockInv' /\ OpInv'
  BY DEF TypeOK, LockInv, OpInv, LockSteps, Build, Goto, pair
<1>3. PointerInv'
  BY DEF TypeOK, LockInv, OpInv, PointerInv, Resolve, KeptInv, Present, LockSteps,
      SelectedSteps, RestoredSteps, Build, Goto, pair
<1>4. Resolve' /\ KeptInv'
  BY DEF TypeOK, LockInv, OpInv, PointerInv, Resolve, KeptInv, Present, LockSteps,
      SelectedSteps, RestoredSteps, Build, Goto, pair
<1> QED BY <1>1, <1>2, <1>3, <1>4

LEMMA SwitchStep == ASSUME NEW p \in Processes, IInv, Switch(p) PROVE IInv'
<1> USE DEF IInv, Working, Notable, Undoing, Fallbacks
<1>1. TypeOK'
  BY DEF TypeOK, LockInv, OpInv, PointerInv, LockSteps, SelectedSteps, RestoredSteps, Steps,
      Operations, Jobs, Switch, Goto, Deferred, Start
<1>2. LockInv' /\ OpInv'
  BY DEF TypeOK, LockInv, OpInv, LockSteps, Switch, Goto, Deferred, Start
<1>3. PointerInv'
  BY DEF TypeOK, LockInv, OpInv, PointerInv, Resolve, KeptInv, Present, LockSteps,
      SelectedSteps, RestoredSteps, Switch, Goto, Deferred, Start
<1>4. Resolve' /\ KeptInv'
  BY DEF TypeOK, LockInv, OpInv, PointerInv, Resolve, KeptInv, Present, LockSteps,
      SelectedSteps, RestoredSteps, Switch, Goto, Deferred, Start
<1> QED BY <1>1, <1>2, <1>3, <1>4

LEMMA StopJobStep == ASSUME NEW p \in Processes, IInv, StopJob(p) PROVE IInv'
<1> USE DEF IInv, Working, Notable, Undoing, Fallbacks
<1>1. TypeOK'
  BY DEF TypeOK, LockInv, OpInv, PointerInv, LockSteps, SelectedSteps, RestoredSteps, Steps,
      Operations, Jobs, StopJob, Missing, Goto, pair
<1>2. LockInv' /\ OpInv'
  BY DEF TypeOK, LockInv, OpInv, LockSteps, StopJob, Missing, Goto, pair
<1>3. PointerInv'
  BY DEF TypeOK, LockInv, OpInv, PointerInv, Resolve, KeptInv, Present, LockSteps,
      SelectedSteps, RestoredSteps, StopJob, Missing, Goto, pair
<1>4. Resolve' /\ KeptInv'
  BY DEF TypeOK, LockInv, OpInv, PointerInv, Resolve, KeptInv, Present, LockSteps,
      SelectedSteps, RestoredSteps, StopJob, Missing, Goto, pair
<1> QED BY <1>1, <1>2, <1>3, <1>4

LEMMA BootstrapStep == ASSUME NEW p \in Processes, IInv, Bootstrap(p) PROVE IInv'
<1> USE DEF IInv, Working, Notable, Undoing, Fallbacks
<1>1. TypeOK'
  BY DEF TypeOK, LockInv, OpInv, PointerInv, LockSteps, SelectedSteps, RestoredSteps, Steps,
      Operations, Jobs, Bootstrap, Started, Goto, pair
<1>2. LockInv' /\ OpInv'
  BY DEF TypeOK, LockInv, OpInv, LockSteps, Bootstrap, Started, Goto, pair
<1>3. PointerInv'
  BY DEF TypeOK, LockInv, OpInv, PointerInv, Resolve, KeptInv, Present, LockSteps,
      SelectedSteps, RestoredSteps, Bootstrap, Started, Goto, pair
<1>4. Resolve' /\ KeptInv'
  BY DEF TypeOK, LockInv, OpInv, PointerInv, Resolve, KeptInv, Present, LockSteps,
      SelectedSteps, RestoredSteps, Bootstrap, Started, Goto, pair
<1> QED BY <1>1, <1>2, <1>3, <1>4

LEMMA HealthyStep == ASSUME NEW p \in Processes, IInv, Healthy(p) PROVE IInv'
<1> USE DEF IInv, Working, Notable, Undoing, Fallbacks
<1>1. TypeOK'
  BY DEF TypeOK, LockInv, OpInv, PointerInv, LockSteps, SelectedSteps, RestoredSteps, Steps,
      Operations, Jobs, Healthy, Goto, Unchanged, Finish, End, NoOperation, world, pair
<1>2. LockInv' /\ OpInv'
  BY DEF TypeOK, LockInv, OpInv, LockSteps, Healthy, Goto, Unchanged, Finish, End, NoOperation,
      world, pair
<1>3. PointerInv'
  BY DEF TypeOK, LockInv, OpInv, PointerInv, Resolve, KeptInv, Present, LockSteps,
      SelectedSteps, RestoredSteps, Healthy, Goto, Unchanged, Finish, End, NoOperation, world,
      pair
<1>4. Resolve' /\ KeptInv'
  BY DEF TypeOK, LockInv, OpInv, PointerInv, Resolve, KeptInv, Present, LockSteps,
      SelectedSteps, RestoredSteps, Healthy, Goto, Unchanged, Finish, End, NoOperation, world,
      pair
<1> QED BY <1>1, <1>2, <1>3, <1>4

LEMMA VerifyStep == ASSUME NEW p \in Processes, IInv, Verify(p) PROVE IInv'
<1> USE DEF IInv, Working, Notable, Undoing, Fallbacks
<1>1. TypeOK'
  BY DEF TypeOK, LockInv, OpInv, PointerInv, LockSteps, SelectedSteps, RestoredSteps, Steps,
      Operations, Jobs, Verify, Candidate, Goto, Unchanged, world, pair
<1>2. LockInv' /\ OpInv'
  BY DEF TypeOK, LockInv, OpInv, LockSteps, Verify, Candidate, Goto, Unchanged, world, pair
<1>3. PointerInv'
  BY DEF TypeOK, LockInv, OpInv, PointerInv, Resolve, KeptInv, Present, LockSteps,
      SelectedSteps, RestoredSteps, Verify, Candidate, Goto, Unchanged, world, pair
<1>4. Resolve' /\ KeptInv'
  BY DEF TypeOK, LockInv, OpInv, PointerInv, Resolve, KeptInv, Present, LockSteps,
      SelectedSteps, RestoredSteps, Verify, Candidate, Goto, Unchanged, world, pair
<1> QED BY <1>1, <1>2, <1>3, <1>4

LEMMA SelectPreviousStep == ASSUME NEW p \in Processes, IInv, SelectPrevious(p) PROVE IInv'
<1> USE DEF IInv, Working, Notable, Undoing, Fallbacks
<1>1. TypeOK'
  BY DEF TypeOK, LockInv, OpInv, PointerInv, LockSteps, SelectedSteps, RestoredSteps, Steps,
      Operations, Jobs, SelectPrevious, Goto
<1>2. LockInv' /\ OpInv'
  BY DEF TypeOK, LockInv, OpInv, LockSteps, SelectPrevious, Goto
<1>3. PointerInv'
  BY DEF TypeOK, LockInv, OpInv, PointerInv, Resolve, KeptInv, Present, LockSteps,
      SelectedSteps, RestoredSteps, SelectPrevious, Goto
<1>4. Resolve' /\ KeptInv'
  BY DEF TypeOK, LockInv, OpInv, PointerInv, Resolve, KeptInv, Present, LockSteps,
      SelectedSteps, RestoredSteps, SelectPrevious, Goto
<1> QED BY <1>1, <1>2, <1>3, <1>4

LEMMA PruneStep == ASSUME NEW p \in Processes, IInv, Prune(p) PROVE IInv'
<1> USE DEF IInv, Working, Notable, Undoing, Fallbacks
<1>1. TypeOK'
  BY DEF TypeOK, LockInv, OpInv, PointerInv, LockSteps, SelectedSteps, RestoredSteps, Steps,
      Operations, Jobs, Prune, Stale, Remove, Retained, pair
<1>2. LockInv' /\ OpInv'
  BY DEF TypeOK, LockInv, OpInv, LockSteps, Prune, Stale, Remove, Retained, pair
<1>3. PointerInv'
  BY DEF TypeOK, LockInv, OpInv, PointerInv, Resolve, KeptInv, Present, LockSteps,
      SelectedSteps, RestoredSteps, Prune, Stale, Remove, Retained, pair
<1>4. Resolve' /\ KeptInv'
  BY DEF TypeOK, LockInv, OpInv, PointerInv, Resolve, KeptInv, Present, LockSteps,
      SelectedSteps, RestoredSteps, Prune, Stale, Remove, Retained, pair
<1> QED BY <1>1, <1>2, <1>3, <1>4

LEMMA PrunedStep == ASSUME NEW p \in Processes, IInv, Pruned(p) PROVE IInv'
<1> USE DEF IInv, Working, Notable, Undoing, Fallbacks
<1>1. TypeOK'
  BY DEF TypeOK, LockInv, OpInv, PointerInv, LockSteps, SelectedSteps, RestoredSteps, Steps,
      Operations, Jobs, Pruned, Stale, Goto, Finish, Retained, End, NoOperation, world, pair
<1>2. LockInv' /\ OpInv'
  BY DEF TypeOK, LockInv, OpInv, LockSteps, Pruned, Stale, Goto, Finish, Retained, End,
      NoOperation, world, pair
<1>3. PointerInv'
  BY DEF TypeOK, LockInv, OpInv, PointerInv, Resolve, KeptInv, Present, LockSteps,
      SelectedSteps, RestoredSteps, Pruned, Stale, Goto, Finish, Retained, End, NoOperation,
      world, pair
<1>4. Resolve' /\ KeptInv'
  BY DEF TypeOK, LockInv, OpInv, PointerInv, Resolve, KeptInv, Present, LockSteps,
      SelectedSteps, RestoredSteps, Pruned, Stale, Goto, Finish, Retained, End, NoOperation,
      world, pair
<1> QED BY <1>1, <1>2, <1>3, <1>4

LEMMA FinalStep == ASSUME NEW p \in Processes, IInv, Final(p) PROVE IInv'
<1> USE DEF IInv, Working, Notable, Undoing, Fallbacks
<1>1. TypeOK'
  BY DEF TypeOK, LockInv, OpInv, PointerInv, LockSteps, SelectedSteps, RestoredSteps, Steps,
      Operations, Jobs, Final, Candidate, Finish, End, NoOperation, world, pair
<1>2. LockInv' /\ OpInv'
  BY DEF TypeOK, LockInv, OpInv, LockSteps, Final, Candidate, Finish, End, NoOperation, world,
      pair
<1>3. PointerInv'
  BY DEF TypeOK, LockInv, OpInv, PointerInv, Resolve, KeptInv, Present, LockSteps,
      SelectedSteps, RestoredSteps, Final, Candidate, Finish, End, NoOperation, world, pair
<1>4. Resolve' /\ KeptInv'
  BY DEF TypeOK, LockInv, OpInv, PointerInv, Resolve, KeptInv, Present, LockSteps,
      SelectedSteps, RestoredSteps, Final, Candidate, Finish, End, NoOperation, world, pair
<1> QED BY <1>1, <1>2, <1>3, <1>4

LEMMA UnhealthyStep == ASSUME NEW p \in Processes, IInv, Unhealthy(p) PROVE IInv'
<1> USE DEF IInv, Working, Notable, Undoing, Fallbacks
<1>1. TypeOK'
  BY DEF TypeOK, LockInv, OpInv, PointerInv, LockSteps, SelectedSteps, RestoredSteps, Steps,
      Operations, Jobs, Unhealthy, PlanChanged, Recover, Candidate, Switched, End, Unchanged,
      NoOperation, world, pair
<1>2. LockInv' /\ OpInv'
  BY DEF TypeOK, LockInv, OpInv, LockSteps, Unhealthy, PlanChanged, Recover, Candidate,
      Switched, End, Unchanged, NoOperation, world, pair
<1>3. PointerInv'
  BY DEF TypeOK, LockInv, OpInv, PointerInv, Resolve, KeptInv, Present, LockSteps,
      SelectedSteps, RestoredSteps, Unhealthy, PlanChanged, Recover, Candidate, Switched, End,
      Unchanged, NoOperation, world, pair
<1>4. Resolve' /\ KeptInv'
  BY DEF TypeOK, LockInv, OpInv, PointerInv, Resolve, KeptInv, Present, LockSteps,
      SelectedSteps, RestoredSteps, Unhealthy, PlanChanged, Recover, Candidate, Switched, End,
      Unchanged, NoOperation, world, pair
<1> QED BY <1>1, <1>2, <1>3, <1>4

LEMMA UndoCurrentStep == ASSUME NEW p \in Processes, IInv, UndoCurrent(p) PROVE IInv'
<1> USE DEF IInv, Working, Notable, Undoing, Fallbacks
<1>1. TypeOK'
  BY DEF TypeOK, LockInv, OpInv, PointerInv, LockSteps, SelectedSteps, RestoredSteps, Steps,
      Operations, Jobs, UndoCurrent, Goto
<1>2. LockInv' /\ OpInv'
  BY DEF TypeOK, LockInv, OpInv, LockSteps, UndoCurrent, Goto
<1>3. PointerInv'
  BY DEF TypeOK, LockInv, OpInv, PointerInv, Resolve, KeptInv, Present, LockSteps,
      SelectedSteps, RestoredSteps, UndoCurrent, Goto
<1>4. Resolve' /\ KeptInv'
  BY DEF TypeOK, LockInv, OpInv, PointerInv, Resolve, KeptInv, Present, LockSteps,
      SelectedSteps, RestoredSteps, UndoCurrent, Goto
<1> QED BY <1>1, <1>2, <1>3, <1>4

LEMMA UndoPreviousStep == ASSUME NEW p \in Processes, IInv, UndoPrevious(p) PROVE IInv'
<1> USE DEF IInv, Working, Notable, Undoing, Fallbacks
<1>1. TypeOK'
  BY DEF TypeOK, LockInv, OpInv, PointerInv, LockSteps, SelectedSteps, RestoredSteps, Steps,
      Operations, Jobs, UndoPrevious, Goto, pair
<1>2. LockInv' /\ OpInv'
  BY DEF TypeOK, LockInv, OpInv, LockSteps, UndoPrevious, Goto, pair
<1>3. PointerInv'
  BY DEF TypeOK, LockInv, OpInv, PointerInv, Resolve, KeptInv, Present, LockSteps,
      SelectedSteps, RestoredSteps, UndoPrevious, Goto, pair
<1>4. Resolve' /\ KeptInv'
  BY DEF TypeOK, LockInv, OpInv, PointerInv, Resolve, KeptInv, Present, LockSteps,
      SelectedSteps, RestoredSteps, UndoPrevious, Goto, pair
<1> QED BY <1>1, <1>2, <1>3, <1>4

LEMMA CheckPairStep == ASSUME NEW p \in Processes, IInv, CheckPair(p) PROVE IInv'
<1> USE DEF IInv, Working, Notable, Undoing, Fallbacks
<1>1. TypeOK'
  BY DEF TypeOK, LockInv, OpInv, PointerInv, LockSteps, SelectedSteps, RestoredSteps, Steps,
      Operations, Jobs, CheckPair, FormerPair, Finish, Goto, End, NoOperation, world, pair
<1>2. LockInv' /\ OpInv'
  BY DEF TypeOK, LockInv, OpInv, LockSteps, CheckPair, FormerPair, Finish, Goto, End,
      NoOperation, world, pair
<1>3. PointerInv'
  BY DEF TypeOK, LockInv, OpInv, PointerInv, Resolve, KeptInv, Present, LockSteps,
      SelectedSteps, RestoredSteps, CheckPair, FormerPair, Finish, Goto, End, NoOperation,
      world, pair
<1>4. Resolve' /\ KeptInv'
  BY DEF TypeOK, LockInv, OpInv, PointerInv, Resolve, KeptInv, Present, LockSteps,
      SelectedSteps, RestoredSteps, CheckPair, FormerPair, Finish, Goto, End, NoOperation,
      world, pair
<1> QED BY <1>1, <1>2, <1>3, <1>4

LEMMA UndoRegisteredStep == ASSUME NEW p \in Processes, IInv, UndoRegistered(p) PROVE IInv'
<1> USE DEF IInv, Working, Notable, Undoing, Fallbacks
<1>1. TypeOK'
  BY DEF TypeOK, LockInv, OpInv, PointerInv, LockSteps, SelectedSteps, RestoredSteps, Steps,
      Operations, Jobs, UndoRegistered, RestoreRegistered, Candidate, Goto, Finish, End,
      NoOperation, pair
<1>2. LockInv' /\ OpInv'
  BY DEF TypeOK, LockInv, OpInv, LockSteps, UndoRegistered, RestoreRegistered, Candidate, Goto,
      Finish, End, NoOperation, pair
<1>3. PointerInv'
  BY DEF TypeOK, LockInv, OpInv, PointerInv, Resolve, KeptInv, Present, LockSteps,
      SelectedSteps, RestoredSteps, UndoRegistered, RestoreRegistered, Candidate, Goto, Finish,
      End, NoOperation, pair
<1>4. Resolve' /\ KeptInv'
  BY DEF TypeOK, LockInv, OpInv, PointerInv, Resolve, KeptInv, Present, LockSteps,
      SelectedSteps, RestoredSteps, UndoRegistered, RestoreRegistered, Candidate, Goto, Finish,
      End, NoOperation, pair
<1> QED BY <1>1, <1>2, <1>3, <1>4

LEMMA UndoAgentStep == ASSUME NEW p \in Processes, IInv, UndoAgent(p) PROVE IInv'
<1> USE DEF IInv, Working, Notable, Undoing, Fallbacks
<1>1. TypeOK'
  <2>1. CASE registered = op[p].before
    BY <2>1 DEF TypeOK, OpInv, LockInv, LockSteps, Steps, Operations, Jobs, UndoAgent, Goto,
        pair
  <2>2. CASE ~(registered = op[p].before)
    BY <2>2 DEF TypeOK, OpInv, LockInv, LockSteps, Steps, Operations, Jobs, UndoAgent, Finish,
        End, NoOperation, pair
  <2> QED BY <2>1, <2>2
<1>2. LockInv' /\ OpInv'
  BY DEF TypeOK, LockInv, OpInv, LockSteps, UndoAgent, Goto, Finish, End, NoOperation, pair
<1>3. PointerInv'
  BY DEF TypeOK, LockInv, OpInv, PointerInv, Resolve, KeptInv, Present, LockSteps,
      SelectedSteps, RestoredSteps, UndoAgent, Goto, Finish, End, NoOperation, pair
<1>4. Resolve' /\ KeptInv'
  BY DEF TypeOK, LockInv, OpInv, PointerInv, Resolve, KeptInv, Present, LockSteps,
      SelectedSteps, RestoredSteps, UndoAgent, Goto, Finish, End, NoOperation, pair
<1> QED BY <1>1, <1>2, <1>3, <1>4

LEMMA UndoStopStep == ASSUME NEW p \in Processes, IInv, UndoStop(p) PROVE IInv'
<1> USE DEF IInv, Working, Notable, Undoing, Fallbacks
<1>1. TypeOK'
  BY DEF TypeOK, LockInv, OpInv, PointerInv, LockSteps, SelectedSteps, RestoredSteps, Steps,
      Operations, Jobs, UndoStop, Missing, Goto, pair
<1>2. LockInv' /\ OpInv'
  BY DEF TypeOK, LockInv, OpInv, LockSteps, UndoStop, Missing, Goto, pair
<1>3. PointerInv'
  BY DEF TypeOK, LockInv, OpInv, PointerInv, Resolve, KeptInv, Present, LockSteps,
      SelectedSteps, RestoredSteps, UndoStop, Missing, Goto, pair
<1>4. Resolve' /\ KeptInv'
  BY DEF TypeOK, LockInv, OpInv, PointerInv, Resolve, KeptInv, Present, LockSteps,
      SelectedSteps, RestoredSteps, UndoStop, Missing, Goto, pair
<1> QED BY <1>1, <1>2, <1>3, <1>4

LEMMA UndoBootstrapStep == ASSUME NEW p \in Processes, IInv, UndoBootstrap(p) PROVE IInv'
<1> USE DEF IInv, Working, Notable, Undoing, Fallbacks
<1>1. TypeOK'
  BY DEF TypeOK, LockInv, OpInv, PointerInv, LockSteps, SelectedSteps, RestoredSteps, Steps,
      Operations, Jobs, UndoBootstrap, Started, Goto, pair
<1>2. LockInv' /\ OpInv'
  BY DEF TypeOK, LockInv, OpInv, LockSteps, UndoBootstrap, Started, Goto, pair
<1>3. PointerInv'
  BY DEF TypeOK, LockInv, OpInv, PointerInv, Resolve, KeptInv, Present, LockSteps,
      SelectedSteps, RestoredSteps, UndoBootstrap, Started, Goto, pair
<1>4. Resolve' /\ KeptInv'
  BY DEF TypeOK, LockInv, OpInv, PointerInv, Resolve, KeptInv, Present, LockSteps,
      SelectedSteps, RestoredSteps, UndoBootstrap, Started, Goto, pair
<1> QED BY <1>1, <1>2, <1>3, <1>4

LEMMA UndoHealthyStep == ASSUME NEW p \in Processes, IInv, UndoHealthy(p) PROVE IInv'
<1> USE DEF IInv, Working, Notable, Undoing, Fallbacks
<1>1. TypeOK'
  BY DEF TypeOK, LockInv, OpInv, PointerInv, LockSteps, SelectedSteps, RestoredSteps, Steps,
      Operations, Jobs, UndoHealthy, Recovered, Finish, End, NoOperation, world, pair
<1>2. LockInv' /\ OpInv'
  BY DEF TypeOK, LockInv, OpInv, LockSteps, UndoHealthy, Recovered, Finish, End, NoOperation,
      world, pair
<1>3. PointerInv'
  BY DEF TypeOK, LockInv, OpInv, PointerInv, Resolve, KeptInv, Present, LockSteps,
      SelectedSteps, RestoredSteps, UndoHealthy, Recovered, Finish, End, NoOperation, world,
      pair
<1>4. Resolve' /\ KeptInv'
  BY DEF TypeOK, LockInv, OpInv, PointerInv, Resolve, KeptInv, Present, LockSteps,
      SelectedSteps, RestoredSteps, UndoHealthy, Recovered, Finish, End, NoOperation, world,
      pair
<1> QED BY <1>1, <1>2, <1>3, <1>4

LEMMA UndoUnhealthyStep == ASSUME NEW p \in Processes, IInv, UndoUnhealthy(p) PROVE IInv'
<1> USE DEF IInv, Working, Notable, Undoing, Fallbacks
<1>1. TypeOK'
  BY DEF TypeOK, LockInv, OpInv, PointerInv, LockSteps, SelectedSteps, RestoredSteps, Steps,
      Operations, Jobs, UndoUnhealthy, Finish, End, NoOperation, world, pair
<1>2. LockInv' /\ OpInv'
  BY DEF TypeOK, LockInv, OpInv, LockSteps, UndoUnhealthy, Finish, End, NoOperation, world, pair
<1>3. PointerInv'
  BY DEF TypeOK, LockInv, OpInv, PointerInv, Resolve, KeptInv, Present, LockSteps,
      SelectedSteps, RestoredSteps, UndoUnhealthy, Finish, End, NoOperation, world, pair
<1>4. Resolve' /\ KeptInv'
  BY DEF TypeOK, LockInv, OpInv, PointerInv, Resolve, KeptInv, Present, LockSteps,
      SelectedSteps, RestoredSteps, UndoUnhealthy, Finish, End, NoOperation, world, pair
<1> QED BY <1>1, <1>2, <1>3, <1>4

LEMMA UndoPrunedStep == ASSUME NEW p \in Processes, IInv, UndoPruned(p) PROVE IInv'
<1> USE DEF IInv, Working, Notable, Undoing, Fallbacks
<1>1. TypeOK'
  BY DEF TypeOK, LockInv, OpInv, PointerInv, LockSteps, SelectedSteps, RestoredSteps, Steps,
      Operations, Jobs, UndoPruned, Stale, Recovered, Retained, Finish, End, NoOperation, world,
      pair
<1>2. LockInv' /\ OpInv'
  BY DEF TypeOK, LockInv, OpInv, LockSteps, UndoPruned, Stale, Recovered, Retained, Finish, End,
      NoOperation, world, pair
<1>3. PointerInv'
  BY DEF TypeOK, LockInv, OpInv, PointerInv, Resolve, KeptInv, Present, LockSteps,
      SelectedSteps, RestoredSteps, UndoPruned, Stale, Recovered, Retained, Finish, End,
      NoOperation, world, pair
<1>4. Resolve' /\ KeptInv'
  BY DEF TypeOK, LockInv, OpInv, PointerInv, Resolve, KeptInv, Present, LockSteps,
      SelectedSteps, RestoredSteps, UndoPruned, Stale, Recovered, Retained, Finish, End,
      NoOperation, world, pair
<1> QED BY <1>1, <1>2, <1>3, <1>4

\* A noted failure ends the operation or moves on to the next step of the recovery.
LEMMA NotedStep ==
    ASSUME NEW p \in Processes, IInv, pc[p] \in Undoing, Noted(p), UNCHANGED world,
           faults' \in Nat
    PROVE  IInv'
<1> USE DEF IInv, world, pair
<1>1. CASE End(p, "unrecovered")
  <2> USE <1>1 DEF End
  <2>1. TypeOK'
    BY DEF TypeOK, LockInv, LockSteps, Steps, Working, Notable, Undoing, Fallbacks, Operations, Jobs,
        NoOperation
  <2>2. LockInv' /\ OpInv'
    BY DEF TypeOK, LockInv, OpInv, LockSteps, Working, Notable
  <2>3. PointerInv' /\ Resolve' /\ KeptInv'
    BY DEF TypeOK, LockInv, PointerInv, Resolve, KeptInv, Present, LockSteps, SelectedSteps,
        RestoredSteps, Working, Notable
  <2> QED BY <2>1, <2>2, <2>3
<1>2. CASE ~End(p, "unrecovered")
  <2> DEFINE next == AfterNoted[pc[p]]
  <2>1. /\ pc[p] \in Notable /\ UNCHANGED lock
        /\ pc' = [pc EXCEPT ![p] = next]
        /\ op' = [op EXCEPT ![p].outcome = "noted"]
    BY <1>2 DEF Noted
  <2>2. /\ pc[p] = "undo-current" => next = "undo-previous"
        /\ pc[p] = "undo-previous" => next = "check-pair"
        /\ pc[p] \in {"undo-stop", "undo-bootstrap"} => next = "undo-prune"
    BY <2>1 DEF Notable, AfterNoted
  <2>3. op \in [Processes -> Operations] /\ pc \in [Processes -> Steps]
    BY DEF TypeOK
  <2>4. /\ op'[p] = [op[p] EXCEPT !.outcome = "noted"] /\ op' \in [Processes -> Operations]
        /\ \A q \in Processes : q # p => op'[q] = op[q]
    BY <2>1, <2>3 DEF Operations
  <2> HIDE DEF next
  <2>5. TypeOK'
    BY <2>1, <2>2, <2>4 DEF TypeOK, Steps, Working, Notable, Undoing, Fallbacks
  <2>6. LockInv' /\ OpInv'
    BY <2>1, <2>2, <2>3, <2>4 DEF LockInv, OpInv, LockSteps, Working, Notable, Operations
  <2>7. PointerInv' /\ Resolve' /\ KeptInv'
    BY <2>1, <2>2, <2>3, <2>4 DEF LockInv, PointerInv, Resolve, KeptInv, Present, LockSteps,
        SelectedSteps, RestoredSteps, Working, Notable, Operations
  <2> QED BY <2>5, <2>6, <2>7
<1> QED BY <1>1, <1>2

LEMMA UndoRefusedStep == ASSUME NEW p \in Processes, IInv, UndoRefused(p) PROVE IInv'
  BY NotedStep DEF UndoRefused, IInv, TypeOK, Undoing, Notable

LEMMA FallbackCheckStep == ASSUME NEW p \in Processes, IInv, FallbackCheck(p) PROVE IInv'
<1> USE DEF IInv, Working, Notable, Undoing, Fallbacks
<1>1. TypeOK'
  BY DEF TypeOK, LockInv, OpInv, PointerInv, LockSteps, SelectedSteps, RestoredSteps, Steps,
      Operations, Jobs, FallbackCheck, FormerPair, Finish, Goto, End, NoOperation, world, pair
<1>2. LockInv' /\ OpInv'
  BY DEF TypeOK, LockInv, OpInv, LockSteps, FallbackCheck, FormerPair, Finish, Goto, End,
      NoOperation, world, pair
<1>3. PointerInv'
  BY DEF TypeOK, LockInv, OpInv, PointerInv, Resolve, KeptInv, Present, LockSteps,
      SelectedSteps, RestoredSteps, FallbackCheck, FormerPair, Finish, Goto, End, NoOperation,
      world, pair
<1>4. Resolve' /\ KeptInv'
  BY DEF TypeOK, LockInv, OpInv, PointerInv, Resolve, KeptInv, Present, LockSteps,
      SelectedSteps, RestoredSteps, FallbackCheck, FormerPair, Finish, Goto, End, NoOperation,
      world, pair
<1> QED BY <1>1, <1>2, <1>3, <1>4

LEMMA UnpublishStep == ASSUME NEW p \in Processes, IInv, Unpublish(p) PROVE IInv'
<1> USE DEF IInv, Working, Notable, Undoing, Fallbacks
<1>1. TypeOK'
  BY DEF TypeOK, LockInv, OpInv, PointerInv, LockSteps, SelectedSteps, RestoredSteps, Steps,
      Operations, Jobs, Unpublish, Candidate, Finish, End, NoOperation, pair
<1>2. LockInv' /\ OpInv'
  BY DEF TypeOK, LockInv, OpInv, LockSteps, Unpublish, Candidate, Finish, End, NoOperation, pair
<1>3. PointerInv'
  BY DEF TypeOK, LockInv, OpInv, PointerInv, Resolve, KeptInv, Present, LockSteps,
      SelectedSteps, RestoredSteps, Unpublish, Candidate, Finish, End, NoOperation, pair
<1>4. Resolve' /\ KeptInv'
  BY DEF TypeOK, LockInv, OpInv, PointerInv, Resolve, KeptInv, Present, LockSteps,
      SelectedSteps, RestoredSteps, Unpublish, Candidate, Finish, End, NoOperation, pair
<1> QED BY <1>1, <1>2, <1>3, <1>4

LEMMA FallbackPublishStep == ASSUME NEW p \in Processes, IInv, FallbackPublish(p) PROVE IInv'
<1> USE DEF IInv, Working, Notable, Undoing, Fallbacks
<1>1. TypeOK'
  <2>1. CASE registered \in {op[p].before, Candidate(p)}
    BY <2>1 DEF TypeOK, OpInv, LockInv, LockSteps, Steps, Operations, Jobs, FallbackPublish,
        RestoreRegistered, Candidate, Goto, pair
  <2>2. CASE ~(registered \in {op[p].before, Candidate(p)})
    <3>1. End(p, "unrecovered") /\ UNCHANGED <<main, releases, pair, registered, agent, job, faults>>
      BY <2>2 DEF FallbackPublish, RestoreRegistered, Finish
    <3>2. pc' \in [Processes -> Steps] /\ op' \in [Processes -> Operations]
      BY <3>1 DEF TypeOK, OpInv, Steps, Operations, FallbackPublish, End, NoOperation
    <3>3. lock' \in Processes \cup {None} /\ (lock' # None => pc'[lock'] # "idle")
      BY <3>1 DEF TypeOK, LockInv, LockSteps, FallbackPublish, End
    <3> QED
      BY <3>1, <3>2, <3>3 DEF TypeOK, pair
  <2> QED BY <2>1, <2>2
<1>2. LockInv' /\ OpInv'
  BY DEF TypeOK, LockInv, OpInv, LockSteps, FallbackPublish, RestoreRegistered, Candidate, Goto,
      Finish, End, NoOperation, pair
<1>3. PointerInv'
  BY DEF TypeOK, LockInv, OpInv, PointerInv, Resolve, KeptInv, Present, LockSteps,
      SelectedSteps, RestoredSteps, FallbackPublish, RestoreRegistered, Candidate, Goto, Finish,
      End, NoOperation, pair
<1>4. Resolve' /\ KeptInv'
  BY DEF TypeOK, LockInv, OpInv, PointerInv, Resolve, KeptInv, Present, LockSteps,
      SelectedSteps, RestoredSteps, FallbackPublish, RestoreRegistered, Candidate, Goto, Finish,
      End, NoOperation, pair
<1> QED BY <1>1, <1>2, <1>3, <1>4

LEMMA FallbackInstallStep == ASSUME NEW p \in Processes, IInv, FallbackInstall(p) PROVE IInv'
<1> USE DEF IInv, Working, Notable, Undoing, Fallbacks
<1>1. TypeOK'
  BY DEF TypeOK, LockInv, OpInv, PointerInv, LockSteps, SelectedSteps, RestoredSteps, Steps,
      Operations, Jobs, FallbackInstall, Finish, End, NoOperation, pair
<1>2. LockInv' /\ OpInv'
  BY DEF TypeOK, LockInv, OpInv, LockSteps, FallbackInstall, Finish, End, NoOperation, pair
<1>3. PointerInv'
  BY DEF TypeOK, LockInv, OpInv, PointerInv, Resolve, KeptInv, Present, LockSteps,
      SelectedSteps, RestoredSteps, FallbackInstall, Finish, End, NoOperation, pair
<1>4. Resolve' /\ KeptInv'
  BY DEF TypeOK, LockInv, OpInv, PointerInv, Resolve, KeptInv, Present, LockSteps,
      SelectedSteps, RestoredSteps, FallbackInstall, Finish, End, NoOperation, pair
<1> QED BY <1>1, <1>2, <1>3, <1>4

-----------------------------------------------------------------------------
\* A step raises, or the process is killed.

LEMMA RaiseStep == ASSUME NEW p \in Processes, IInv, Raise(p) PROVE IInv'
<1> USE DEF IInv, Working, Notable, Undoing, Fallbacks
<1>1. TypeOK'
  BY DEF TypeOK, LockInv, OpInv, PointerInv, LockSteps, SelectedSteps, RestoredSteps, Steps,
      Operations, Jobs, Raise, RaiseTo, End, Recover, NoOperation, Switched, Unchanged, world,
      pair
<1>2. LockInv' /\ OpInv'
  BY DEF TypeOK, LockInv, OpInv, LockSteps, Raise, RaiseTo, End, Recover, NoOperation, Switched,
      Unchanged, world, pair
<1>3. PointerInv'
  BY DEF TypeOK, LockInv, OpInv, PointerInv, Resolve, KeptInv, Present, LockSteps,
      SelectedSteps, RestoredSteps, Raise, RaiseTo, End, Recover, NoOperation, Switched,
      Unchanged, world, pair
<1>4. Resolve' /\ KeptInv'
  BY DEF TypeOK, LockInv, OpInv, PointerInv, Resolve, KeptInv, Present, LockSteps,
      SelectedSteps, RestoredSteps, Raise, RaiseTo, End, Recover, NoOperation, Switched,
      Unchanged, world, pair
<1> QED BY <1>1, <1>2, <1>3, <1>4

LEMMA KillStep == ASSUME NEW p \in Processes, IInv, Kill(p) PROVE IInv'
<1> USE DEF IInv, Working, Notable, Undoing, Fallbacks
<1>1. TypeOK'
  BY DEF TypeOK, LockInv, OpInv, PointerInv, LockSteps, SelectedSteps, RestoredSteps, Steps,
      Operations, Jobs, Kill, End, NoOperation, world, pair
<1>2. LockInv' /\ OpInv'
  BY DEF TypeOK, LockInv, OpInv, LockSteps, Kill, End, NoOperation, world, pair
<1>3. PointerInv'
  BY DEF TypeOK, LockInv, OpInv, PointerInv, Resolve, KeptInv, Present, LockSteps,
      SelectedSteps, RestoredSteps, Kill, End, NoOperation, world, pair
<1>4. Resolve' /\ KeptInv'
  BY DEF TypeOK, LockInv, OpInv, PointerInv, Resolve, KeptInv, Present, LockSteps,
      SelectedSteps, RestoredSteps, Kill, End, NoOperation, world, pair
<1> QED BY <1>1, <1>2, <1>3, <1>4

LEMMA UndoRaisesStep == ASSUME NEW p \in Processes, IInv, UndoRaises(p) PROVE IInv'
  BY NotedStep DEF UndoRaises, IInv, TypeOK, Undoing, Notable

-----------------------------------------------------------------------------
\* The environment: main moves, and the job exits and is relaunched.

LEMMA AdvanceMainStep == ASSUME IInv, AdvanceMain PROVE IInv'
  BY DEF IInv, TypeOK, LockInv, OpInv, PointerInv, Resolve, KeptInv, Present, Jobs, AdvanceMain,
      Missing, pair

LEMMA JobExitsStep == ASSUME IInv, JobExits PROVE IInv'
  BY DEF IInv, TypeOK, LockInv, OpInv, PointerInv, Resolve, KeptInv, Present, Jobs, JobExits,
      Missing, pair

LEMMA RelaunchStep == ASSUME IInv, Relaunch PROVE IInv'
  BY DEF IInv, TypeOK, LockInv, OpInv, PointerInv, Resolve, KeptInv, Present, Jobs, Relaunch,
      Missing, pair

-----------------------------------------------------------------------------
(***************************************************************************)
(* The theorems.                                                           *)
(***************************************************************************)
LEMMA Initially == ASSUME Init PROVE IInv
  BY DEF Init, IInv, TypeOK, LockInv, OpInv, PointerInv, Resolve, KeptInv, Present, LockSteps,
      SelectedSteps, RestoredSteps, Steps, Working, Notable, Undoing, Fallbacks, Operations, Jobs,
      NoOperation, Missing

LEMMA Preserved == ASSUME IInv, [Next]_vars PROVE IInv'
<1>1. ASSUME NEW p \in Processes, Request(p) PROVE IInv'
  BY <1>1, DeployStep, PlanActivationStep, RollbackStep, PreviewMigrationStep DEF Request
<1>2. ASSUME NEW p \in Processes, Step(p) PROVE IInv'
  BY <1>2, ActivateStep, RefuseActivationStep, PublishCandidateStep, BeginMigrationStep,
      RefuseMigrationStep, InstallStep, BuildStep, SwitchStep, StopJobStep, BootstrapStep,
      HealthyStep, VerifyStep, SelectPreviousStep, PruneStep, PrunedStep, FinalStep,
      UnhealthyStep, UndoCurrentStep, UndoPreviousStep, CheckPairStep, UndoRegisteredStep,
      UndoAgentStep, UndoStopStep, UndoBootstrapStep, UndoHealthyStep, UndoUnhealthyStep,
      UndoPrunedStep, UndoRefusedStep, FallbackCheckStep, UnpublishStep, FallbackPublishStep,
      FallbackInstallStep
    DEF Step
<1>3. ASSUME NEW p \in Processes, Fault(p) PROVE IInv'
  BY <1>3, RaiseStep, KillStep, UndoRaisesStep DEF Fault
<1>4. CASE AdvanceMain \/ JobExits \/ Relaunch
  BY <1>4, AdvanceMainStep, JobExitsStep, RelaunchStep
<1>5. CASE UNCHANGED vars
  BY <1>5 DEF vars, world, pair, IInv, TypeOK, LockInv, OpInv, PointerInv, Resolve, KeptInv, Present
<1> QED BY <1>1, <1>2, <1>3, <1>4, <1>5 DEF Next

\* The strengthening the theorems below rest on: which step holds the lock, and
\* what the pointers and the former pair are at that step.
THEOREM InductiveInvariant == Spec => []IInv
<1> QED BY Initially, Preserved, PTL DEF Spec

\* Every variable keeps its kind of values; a holder of the lock is at work and a
\* job has a release and a command.
THEOREM DeploymentTypeOK == Spec => []TypeOK
<1>1. IInv => TypeOK BY DEF IInv
<1> QED BY <1>1, InductiveInvariant, PTL

\* A pointer never names a removed release, whatever was switched, rolled back,
\* pruned, interrupted or killed, by any number of processes.
THEOREM DeploymentPointersResolve == Spec => []PointersResolve
<1>1. IInv => PointersResolve BY DEF IInv, Resolve, Present, PointersResolve
<1> QED BY <1>1, InductiveInvariant, PTL

\* No prune removes a release of the pair the lock's holder may have to restore.
THEOREM DeploymentFormerPairKept == Spec => []FormerPairKept
<1>1. ASSUME IInv PROVE FormerPairKept
  BY <1>1 DEF IInv, TypeOK, LockInv, KeptInv, Present, FormerPairKept
<1> QED BY <1>1, InductiveInvariant, PTL

-----------------------------------------------------------------------------
(***************************************************************************)
(* How operations end.  An operation that has not yet switched, or had      *)
(* nothing to switch, stands on the pair it began with; one whose gates are  *)
(* checked has a job that runs what it selected.                             *)
(***************************************************************************)
CheckedSteps == {"health", "verify", "previous", "prune", "final"}

FormerInv ==
    \A p \in Processes :
        /\ pc[p] \in {"build", "switch", "previous", "prune"} => ~Unchanged(p)
        /\ pc[p] \in {"build", "switch"} => current = op[p].current
        /\ pc[p] = "install" => current \in {op[p].current, op[p].target}
        /\ pc[p] \in {"install", "build", "switch", "stop", "bootstrap", "health", "verify", "previous"}
              => previous = op[p].previous
        /\ pc[p] = "final" => previous = IF Unchanged(p) THEN op[p].previous ELSE op[p].current

JobInv ==
    /\ ~IsService => job.state = "missing"
    /\ \A p \in Processes :
          /\ pc[p] \in {"stop", "bootstrap", "undo-stop", "undo-bootstrap", "undo-health"} => IsService
          /\ pc[p] \in CheckedSteps /\ job.state = "running" => job.release = current

\* Which steps are a migration's, and what a migration started from.
KindInv ==
    \A p \in Processes :
        /\ pc[p] # "idle" /\ op[p].kind = "migrate" => IsService /\ op[p].current # None /\ p \in Migrators
        /\ pc[p] \in Fallbacks \cup {"publish", "migrate", "undo-registered", "undo-agent", "undo-health"}
              => op[p].kind = "migrate"
        /\ pc[p] = "undo-prune" => op[p].kind # "migrate"

SInv == FormerInv /\ JobInv /\ KindInv

\* What FailureRestoresPair and SuccessSelects ask of a step of p.
EndsWell(p) ==
    /\ lock = p /\ Ends(p, "failed") => pair' = FormerPair(p)
    /\ Ends(p, "done") =>
          /\ current' = op[p].target
          /\ Unchanged(p) \/ previous' = op[p].current
          /\ job'.state = "running" => job'.release = current'

\* Requests: what is recorded is what is there.
LEMMA RequestsKeepFormer ==
    ASSUME NEW p \in Processes, IInv, SInv, Deploy(p) \/ PlanActivation(p) \/ Rollback(p) \/ PreviewMigration(p)
    PROVE  SInv' /\ EndsWell(p)
BY DEF IInv, SInv, FormerInv, JobInv, KindInv, TypeOK, LockInv, OpInv, PointerInv, LockSteps,
    SelectedSteps, RestoredSteps, Operations, Jobs, Working, Notable, Undoing, Fallbacks,
    CheckedSteps, Unchanged, EndsWell, Ends, FormerPair, Deploy, Begin, Operation, Arrived,
    Start, world, pair, PlanActivation, Rollback, PreviewMigration

\* The lock is taken, or not.
LEMMA BeginningsKeepFormer ==
    ASSUME NEW p \in Processes, IInv, SInv,
           Activate(p) \/ RefuseActivation(p) \/ PublishCandidate(p) \/ BeginMigration(p) \/ RefuseMigration(p)
    PROVE  SInv' /\ EndsWell(p)
BY DEF IInv, SInv, FormerInv, JobInv, KindInv, TypeOK, LockInv, OpInv, PointerInv, LockSteps,
    SelectedSteps, RestoredSteps, Operations, Jobs, Working, Notable, Undoing, Fallbacks,
    CheckedSteps, Unchanged, EndsWell, Ends, FormerPair, Activate, Operation, Arrived, Start,
    world, pair, RefuseActivation, Finish, End, NoOperation, PublishCandidate, Candidate, Goto,
    BeginMigration, Admitted, RefuseMigration

\* The plist is written, the release built and selected.
LEMMA SelectionKeepFormer ==
    ASSUME NEW p \in Processes, IInv, SInv, Install(p) \/ Build(p) \/ Switch(p)
    PROVE  SInv' /\ EndsWell(p)
BY DEF IInv, SInv, FormerInv, JobInv, KindInv, TypeOK, LockInv, OpInv, PointerInv, LockSteps,
    SelectedSteps, RestoredSteps, Operations, Jobs, Working, Notable, Undoing, Fallbacks,
    CheckedSteps, Unchanged, EndsWell, Ends, FormerPair, Install, Candidate, Goto, Start, pair,
    Build, Switch, Deferred

\* The job is replaced and checked.
LEMMA GatesKeepFormer ==
    ASSUME NEW p \in Processes, IInv, SInv, StopJob(p) \/ Bootstrap(p) \/ Healthy(p) \/ Verify(p)
    PROVE  SInv' /\ EndsWell(p)
BY DEF IInv, SInv, FormerInv, JobInv, KindInv, TypeOK, LockInv, OpInv, PointerInv, LockSteps,
    SelectedSteps, RestoredSteps, Operations, Jobs, Working, Notable, Undoing, Fallbacks,
    CheckedSteps, Unchanged, EndsWell, Ends, FormerPair, StopJob, Missing, Goto, pair,
    Bootstrap, Started, Healthy, Finish, End, NoOperation, world, Verify, Candidate

\* The former release is kept and the others are pruned.
LEMMA CompletionKeepFormer ==
    ASSUME NEW p \in Processes, IInv, SInv, SelectPrevious(p) \/ Prune(p) \/ Pruned(p) \/ Final(p)
    PROVE  SInv' /\ EndsWell(p)
BY DEF IInv, SInv, FormerInv, JobInv, KindInv, TypeOK, LockInv, OpInv, PointerInv, LockSteps,
    SelectedSteps, RestoredSteps, Operations, Jobs, Working, Notable, Undoing, Fallbacks,
    CheckedSteps, Unchanged, EndsWell, Ends, FormerPair, SelectPrevious, Goto, Prune, Stale,
    Remove, Retained, pair, Pruned, Finish, End, NoOperation, world, Final, Candidate

\* A step fails.
LEMMA ErrorsKeepFormer ==
    ASSUME NEW p \in Processes, IInv, SInv, Unhealthy(p) \/ Raise(p) \/ Kill(p)
    PROVE  SInv' /\ EndsWell(p)
BY DEF IInv, SInv, FormerInv, JobInv, KindInv, TypeOK, LockInv, OpInv, PointerInv, LockSteps,
    SelectedSteps, RestoredSteps, Operations, Jobs, Working, Notable, Undoing, Fallbacks,
    CheckedSteps, Unchanged, EndsWell, Ends, FormerPair, Unhealthy, PlanChanged, Recover,
    Candidate, Switched, End, NoOperation, world, pair, Raise, RaiseTo, Kill

\* The pair and the job are restored.
LEMMA UndoKeepFormer ==
    ASSUME NEW p \in Processes, IInv, SInv,
           UndoCurrent(p) \/ UndoPrevious(p) \/ CheckPair(p) \/ UndoStop(p) \/ UndoBootstrap(p)
    PROVE  SInv' /\ EndsWell(p)
BY DEF IInv, SInv, FormerInv, JobInv, KindInv, TypeOK, LockInv, OpInv, PointerInv, LockSteps,
    SelectedSteps, RestoredSteps, Operations, Jobs, Working, Notable, Undoing, Fallbacks,
    CheckedSteps, Unchanged, EndsWell, Ends, FormerPair, UndoCurrent, Goto, UndoPrevious, pair,
    CheckPair, Finish, End, NoOperation, world, UndoStop, Missing, UndoBootstrap, Started

\* Profile and plist are restored, and the recovery ends.
LEMMA UndoneKeepFormer ==
    ASSUME NEW p \in Processes, IInv, SInv,
           UndoRegistered(p) \/ UndoAgent(p) \/ UndoHealthy(p) \/ UndoUnhealthy(p) \/ UndoPruned(p)
    PROVE  SInv' /\ EndsWell(p)
BY DEF IInv, SInv, FormerInv, JobInv, KindInv, TypeOK, LockInv, OpInv, PointerInv, LockSteps,
    SelectedSteps, RestoredSteps, Operations, Jobs, Working, Notable, Undoing, Fallbacks,
    CheckedSteps, Unchanged, EndsWell, Ends, FormerPair, UndoRegistered, RestoreRegistered,
    Candidate, Goto, Finish, End, NoOperation, pair, UndoAgent, UndoHealthy, Recovered, world,
    UndoUnhealthy, UndoPruned, Stale, Retained

\* A step of the recovery fails.
LEMMA NotingKeepFormer ==
    ASSUME NEW p \in Processes, IInv, SInv, UndoRefused(p) \/ UndoRaises(p)
    PROVE  SInv' /\ EndsWell(p)
BY DEF IInv, SInv, FormerInv, JobInv, KindInv, TypeOK, LockInv, OpInv, PointerInv, LockSteps,
    SelectedSteps, RestoredSteps, Operations, Jobs, Working, Notable, Undoing, Fallbacks,
    CheckedSteps, Unchanged, EndsWell, Ends, FormerPair, UndoRefused, Noted, AfterNoted, End,
    NoOperation, world, pair, UndoRaises

\* The fallbacks, outside the lock.
LEMMA FallbackKeepFormer ==
    ASSUME NEW p \in Processes, IInv, SInv,
           FallbackCheck(p) \/ Unpublish(p) \/ FallbackPublish(p) \/ FallbackInstall(p)
    PROVE  SInv' /\ EndsWell(p)
BY DEF IInv, SInv, FormerInv, JobInv, KindInv, TypeOK, LockInv, OpInv, PointerInv, LockSteps,
    SelectedSteps, RestoredSteps, Operations, Jobs, Working, Notable, Undoing, Fallbacks,
    CheckedSteps, Unchanged, EndsWell, Ends, FormerPair, FallbackCheck, Finish, Goto, End,
    NoOperation, world, pair, Unpublish, Candidate, FallbackPublish, RestoreRegistered,
    FallbackInstall

\* Only a step of its own ends an operation.
LEMMA OwnStep ==
    ASSUME IInv, [Next]_vars, NEW p \in Processes, NEW o \in {"done", "failed"}, Ends(p, o)
    PROVE  Request(p) \/ Step(p) \/ Fault(p)
<1>1. op'[p] # op[p]
  BY DEF Ends
<1>2. ASSUME NEW q \in Processes, Request(q) \/ Step(q) \/ Fault(q), q # p PROVE op'[p] = op[p]
  BY <1>2 DEF IInv, TypeOK, Operations, Request, Step, Fault, Deploy, Begin, Operation, Arrived,
      Start, world, pair, PlanActivation, Rollback, PreviewMigration, Activate,
      RefuseActivation, Finish, End, NoOperation, PublishCandidate, Candidate, Goto,
      BeginMigration, Admitted, Unchanged, FormerPair, RefuseMigration, Install, Build, Switch,
      Deferred, StopJob, Missing, Bootstrap, Started, Healthy, Verify, SelectPrevious, Prune,
      Stale, Remove, Retained, Pruned, Final, Unhealthy, PlanChanged, Recover, Switched, Raise,
      RaiseTo, Kill, UndoCurrent, UndoPrevious, CheckPair, UndoStop, UndoBootstrap,
      UndoRegistered, RestoreRegistered, UndoAgent, UndoHealthy, Recovered, UndoUnhealthy,
      UndoPruned, UndoRefused, Noted, AfterNoted, UndoRaises, FallbackCheck, Unpublish,
      FallbackPublish, FallbackInstall
<1>3. ~(AdvanceMain \/ JobExits \/ Relaunch \/ UNCHANGED vars)
  BY <1>1 DEF AdvanceMain, JobExits, Relaunch, vars
<1>4. QED BY <1>1, <1>2, <1>3 DEF Next

LEMMA OwnStepKeepsFormer ==
    ASSUME NEW p \in Processes, IInv, SInv, Request(p) \/ Step(p) \/ Fault(p)
    PROVE  SInv' /\ EndsWell(p)
<1>1. CASE Request(p)
  BY <1>1, RequestsKeepFormer DEF Request
<1>2. CASE Step(p)
  BY <1>2, BeginningsKeepFormer, SelectionKeepFormer, GatesKeepFormer, CompletionKeepFormer,
     ErrorsKeepFormer, UndoKeepFormer, UndoneKeepFormer, NotingKeepFormer, FallbackKeepFormer
  DEF Step
<1>3. CASE Fault(p)
  BY <1>3, ErrorsKeepFormer, NotingKeepFormer DEF Fault
<1>4. QED BY <1>1, <1>2, <1>3

LEMMA JobMoves ==
    ASSUME IInv, JobExits \/ Relaunch
    PROVE  /\ job.state # "missing" /\ UNCHANGED <<current, previous, agent, pc, op>>
           /\ job'.state = "running" => job'.release = current
           /\ job'.state # "missing" => job'.command = job.command
<1>1. job \in Jobs
  BY DEF IInv, TypeOK
<1>2. CASE JobExits
  BY <1>1, <1>2 DEF JobExits, Jobs, Missing, pair
<1>3. CASE Relaunch
  BY <1>1, <1>3 DEF Relaunch, Jobs, pair
<1>4. QED BY <1>2, <1>3

LEMMA EnvironmentKeepsFormer ==
    ASSUME IInv, SInv, AdvanceMain \/ JobExits \/ Relaunch \/ UNCHANGED vars
    PROVE  SInv'
<1>1. CASE AdvanceMain
  BY <1>1 DEF IInv, TypeOK, SInv, FormerInv, JobInv, KindInv, Unchanged, AdvanceMain, pair
<1>2. CASE JobExits \/ Relaunch
  BY <1>2, JobMoves DEF SInv, FormerInv, JobInv, KindInv, Unchanged
<1>3. CASE UNCHANGED vars
  BY <1>3 DEF SInv, FormerInv, JobInv, KindInv, Unchanged, vars, world, pair
<1>4. QED BY <1>1, <1>2, <1>3

LEMMA FormerKept == IInv /\ SInv /\ [Next]_vars => SInv'
BY OwnStepKeepsFormer, EnvironmentKeepsFormer DEF Next

LEMMA FormerInitially == Init => SInv
BY DEF Init, SInv, FormerInv, JobInv, KindInv, Unchanged, CheckedSteps, Fallbacks, NoOperation, Missing

\* At each step an operation knows the pair it may have to return to, and the job
\* whose gates it checks runs the release it selected.
THEOREM FormerInvariant == Spec => [](IInv /\ SInv)
<1>1. Init => IInv
  BY Initially
<1>2. IInv /\ [Next]_vars => IInv'
  BY Preserved
<1>3. QED BY <1>1, <1>2, FormerInitially, FormerKept, PTL DEF Spec

\* A deployment, rollback, activation or migration reported as failed leaves the exact
\* pair of pointers it began with, for any number of processes and faults.
THEOREM DeploymentFailureRestoresPair == Spec => FailureRestoresPair
<1>1. ASSUME IInv, SInv, [Next]_vars
      PROVE  [\A p \in Processes : lock = p /\ Ends(p, "failed") => pair' = FormerPair(p)]_vars
  BY <1>1, OwnStep, OwnStepKeepsFormer DEF EndsWell
<1>2. QED BY <1>1, FormerInvariant, PTL DEF Spec, FailureRestoresPair

\* One reported as successful selected its target, kept the release before it, and
\* a running job runs what it selected.
THEOREM DeploymentSuccessSelects == Spec => SuccessSelects
<1>1. ASSUME IInv, SInv, [Next]_vars
      PROVE  [\A p \in Processes : Ends(p, "done") =>
                 /\ current' = op[p].target
                 /\ Unchanged(p) \/ previous' = op[p].current
                 /\ job'.state = "running" => job'.release = current']_vars
  BY <1>1, OwnStep, OwnStepKeepsFormer DEF EndsWell
<1>2. QED BY <1>1, FormerInvariant, PTL DEF Spec, SuccessSelects

-----------------------------------------------------------------------------
(***************************************************************************)
(* The command of a migration.  The plist is written under the lock, but    *)
(* also by the fallback of a migration that has lost it: two migrators may  *)
(* undo each other, one cannot.                                             *)
(***************************************************************************)
SoleMigrator == \A p, q \in Migrators : p = q

\* Which command the plist has, and that the job was started with it.
CommandInv ==
    \A p \in Processes : op[p].kind = "migrate" =>
        /\ pc[p] \in SelectedSteps => agent = Candidate(p)
        /\ pc[p] \in {"undo-stop", "undo-bootstrap", "undo-health"} => agent = op[p].before
        /\ pc[p] \in CheckedSteps \cup {"undo-health"} /\ job.state # "missing" => job.command = agent

\* What MigrationIsAtomic asks of a step of p.
MigratesWhole(p) ==
    lock = p /\ op[p].kind = "migrate" =>
        /\ Ends(p, "done") => Settles(Candidate(p))
        /\ Ends(p, "failed") => Settles(op[p].before)

LEMMA RequestsKeepCommand ==
    ASSUME NEW p \in Processes, IInv, SInv, CommandInv, SoleMigrator,
           Deploy(p) \/ PlanActivation(p) \/ Rollback(p) \/ PreviewMigration(p)
    PROVE  CommandInv' /\ MigratesWhole(p)
BY DEF IInv, SInv, FormerInv, JobInv, KindInv, TypeOK, LockInv, OpInv, PointerInv, LockSteps,
    SelectedSteps, RestoredSteps, Operations, Jobs, Working, Notable, Undoing, Fallbacks,
    CheckedSteps, Unchanged, CommandInv, SoleMigrator, Candidate, MigratesWhole, Ends, Settles,
    Deploy, Begin, Operation, Arrived, Start, world, pair, PlanActivation, Rollback,
    PreviewMigration

LEMMA BeginningsKeepCommand ==
    ASSUME NEW p \in Processes, IInv, SInv, CommandInv, SoleMigrator,
           Activate(p) \/ RefuseActivation(p) \/ PublishCandidate(p) \/ BeginMigration(p) \/ RefuseMigration(p)
    PROVE  CommandInv' /\ MigratesWhole(p)
BY DEF IInv, SInv, FormerInv, JobInv, KindInv, TypeOK, LockInv, OpInv, PointerInv, LockSteps,
    SelectedSteps, RestoredSteps, Operations, Jobs, Working, Notable, Undoing, Fallbacks,
    CheckedSteps, Unchanged, CommandInv, SoleMigrator, Candidate, MigratesWhole, Ends, Settles,
    Activate, Operation, Arrived, Start, world, pair, RefuseActivation, Finish, End,
    NoOperation, PublishCandidate, Goto, BeginMigration, Admitted, FormerPair, RefuseMigration

LEMMA SelectionKeepCommand ==
    ASSUME NEW p \in Processes, IInv, SInv, CommandInv, SoleMigrator, Install(p) \/ Build(p) \/ Switch(p)
    PROVE  CommandInv' /\ MigratesWhole(p)
BY DEF IInv, SInv, FormerInv, JobInv, KindInv, TypeOK, LockInv, OpInv, PointerInv, LockSteps,
    SelectedSteps, RestoredSteps, Operations, Jobs, Working, Notable, Undoing, Fallbacks,
    CheckedSteps, Unchanged, CommandInv, SoleMigrator, Candidate, MigratesWhole, Ends, Settles,
    Install, Goto, Start, pair, Build, Switch, Deferred

LEMMA GatesKeepCommand ==
    ASSUME NEW p \in Processes, IInv, SInv, CommandInv, SoleMigrator,
           StopJob(p) \/ Bootstrap(p) \/ Healthy(p) \/ Verify(p)
    PROVE  CommandInv' /\ MigratesWhole(p)
BY DEF IInv, SInv, FormerInv, JobInv, KindInv, TypeOK, LockInv, OpInv, PointerInv, LockSteps,
    SelectedSteps, RestoredSteps, Operations, Jobs, Working, Notable, Undoing, Fallbacks,
    CheckedSteps, Unchanged, CommandInv, SoleMigrator, Candidate, MigratesWhole, Ends, Settles,
    StopJob, Missing, Goto, pair, Bootstrap, Started, Healthy, Finish, End, NoOperation, world,
    Verify

LEMMA CompletionKeepCommand ==
    ASSUME NEW p \in Processes, IInv, SInv, CommandInv, SoleMigrator,
           SelectPrevious(p) \/ Prune(p) \/ Pruned(p) \/ Final(p)
    PROVE  CommandInv' /\ MigratesWhole(p)
BY DEF IInv, SInv, FormerInv, JobInv, KindInv, TypeOK, LockInv, OpInv, PointerInv, LockSteps,
    SelectedSteps, RestoredSteps, Operations, Jobs, Working, Notable, Undoing, Fallbacks,
    CheckedSteps, Unchanged, CommandInv, SoleMigrator, Candidate, MigratesWhole, Ends, Settles,
    SelectPrevious, Goto, Prune, Stale, Remove, Retained, pair, Pruned, Finish, End,
    NoOperation, world, Final

LEMMA ErrorsKeepCommand ==
    ASSUME NEW p \in Processes, IInv, SInv, CommandInv, SoleMigrator, Unhealthy(p) \/ Raise(p) \/ Kill(p)
    PROVE  CommandInv' /\ MigratesWhole(p)
BY DEF IInv, SInv, FormerInv, JobInv, KindInv, TypeOK, LockInv, OpInv, PointerInv, LockSteps,
    SelectedSteps, RestoredSteps, Operations, Jobs, Working, Notable, Undoing, Fallbacks,
    CheckedSteps, Unchanged, CommandInv, SoleMigrator, Candidate, MigratesWhole, Ends, Settles,
    Unhealthy, PlanChanged, Recover, Switched, End, NoOperation, world, pair, Raise, RaiseTo,
    Kill

LEMMA UndoKeepCommand ==
    ASSUME NEW p \in Processes, IInv, SInv, CommandInv, SoleMigrator,
           UndoCurrent(p) \/ UndoPrevious(p) \/ CheckPair(p) \/ UndoStop(p) \/ UndoBootstrap(p)
    PROVE  CommandInv' /\ MigratesWhole(p)
BY DEF IInv, SInv, FormerInv, JobInv, KindInv, TypeOK, LockInv, OpInv, PointerInv, LockSteps,
    SelectedSteps, RestoredSteps, Operations, Jobs, Working, Notable, Undoing, Fallbacks,
    CheckedSteps, Unchanged, CommandInv, SoleMigrator, Candidate, MigratesWhole, Ends, Settles,
    UndoCurrent, Goto, UndoPrevious, pair, CheckPair, FormerPair, Finish, End, NoOperation,
    world, UndoStop, Missing, UndoBootstrap, Started

LEMMA UndoneKeepCommand ==
    ASSUME NEW p \in Processes, IInv, SInv, CommandInv, SoleMigrator,
           UndoRegistered(p) \/ UndoAgent(p) \/ UndoHealthy(p) \/ UndoUnhealthy(p) \/ UndoPruned(p)
    PROVE  CommandInv' /\ MigratesWhole(p)
BY DEF IInv, SInv, FormerInv, JobInv, KindInv, TypeOK, LockInv, OpInv, PointerInv, LockSteps,
    SelectedSteps, RestoredSteps, Operations, Jobs, Working, Notable, Undoing, Fallbacks,
    CheckedSteps, Unchanged, CommandInv, SoleMigrator, Candidate, MigratesWhole, Ends, Settles,
    UndoRegistered, RestoreRegistered, Goto, Finish, End, NoOperation, pair, UndoAgent,
    UndoHealthy, Recovered, world, UndoUnhealthy, UndoPruned, Stale, Retained

LEMMA NotingKeepCommand ==
    ASSUME NEW p \in Processes, IInv, SInv, CommandInv, SoleMigrator, UndoRefused(p) \/ UndoRaises(p)
    PROVE  CommandInv' /\ MigratesWhole(p)
BY DEF IInv, SInv, FormerInv, JobInv, KindInv, TypeOK, LockInv, OpInv, PointerInv, LockSteps,
    SelectedSteps, RestoredSteps, Operations, Jobs, Working, Notable, Undoing, Fallbacks,
    CheckedSteps, Unchanged, CommandInv, SoleMigrator, Candidate, MigratesWhole, Ends, Settles,
    UndoRefused, Noted, AfterNoted, End, NoOperation, world, pair, UndoRaises

LEMMA FallbackKeepCommand ==
    ASSUME NEW p \in Processes, IInv, SInv, CommandInv, SoleMigrator,
           FallbackCheck(p) \/ Unpublish(p) \/ FallbackPublish(p) \/ FallbackInstall(p)
    PROVE  CommandInv' /\ MigratesWhole(p)
BY DEF IInv, SInv, FormerInv, JobInv, KindInv, TypeOK, LockInv, OpInv, PointerInv, LockSteps,
    SelectedSteps, RestoredSteps, Operations, Jobs, Working, Notable, Undoing, Fallbacks,
    CheckedSteps, Unchanged, CommandInv, SoleMigrator, Candidate, MigratesWhole, Ends, Settles,
    FallbackCheck, FormerPair, Finish, Goto, End, NoOperation, world, pair, Unpublish,
    FallbackPublish, RestoreRegistered, FallbackInstall

LEMMA OwnStepKeepsCommand ==
    ASSUME NEW p \in Processes, IInv, SInv, CommandInv, SoleMigrator, Request(p) \/ Step(p) \/ Fault(p)
    PROVE  CommandInv' /\ MigratesWhole(p)
<1>1. CASE Request(p)
  BY <1>1, RequestsKeepCommand DEF Request
<1>2. CASE Step(p)
  BY <1>2, BeginningsKeepCommand, SelectionKeepCommand, GatesKeepCommand, CompletionKeepCommand,
     ErrorsKeepCommand, UndoKeepCommand, UndoneKeepCommand, NotingKeepCommand, FallbackKeepCommand
  DEF Step
<1>3. CASE Fault(p)
  BY <1>3, ErrorsKeepCommand, NotingKeepCommand DEF Fault
<1>4. QED BY <1>1, <1>2, <1>3

LEMMA EnvironmentKeepsCommand ==
    ASSUME IInv, SInv, CommandInv, AdvanceMain \/ JobExits \/ Relaunch \/ UNCHANGED vars
    PROVE  CommandInv'
<1>1. CASE AdvanceMain
  BY <1>1 DEF CommandInv, Candidate, AdvanceMain
<1>2. CASE JobExits \/ Relaunch
  BY <1>2, JobMoves DEF CommandInv, Candidate
<1>3. CASE UNCHANGED vars
  BY <1>3 DEF CommandInv, Candidate, vars, world
<1>4. QED BY <1>1, <1>2, <1>3

\* Among any processes of which one migrates, a migration that ends under the lock
\* moves profile, plist and job together, or none of them.
THEOREM DeploymentMigrationIsAtomic ==
    ASSUME SoleMigrator PROVE Spec => MigrationIsAtomic
<1>1. Init => CommandInv
  BY DEF Init, CommandInv, NoOperation
<1>2. IInv /\ SInv /\ CommandInv /\ [Next]_vars => CommandInv'
  BY OwnStepKeepsCommand, EnvironmentKeepsCommand DEF Next
<1>3. Spec => [](IInv /\ SInv /\ CommandInv)
  BY <1>1, <1>2, FormerInvariant, PTL DEF Spec
<1>4. ASSUME IInv, SInv, CommandInv, [Next]_vars
      PROVE  [\A p \in Processes : lock = p /\ op[p].kind = "migrate" =>
                 /\ Ends(p, "done") => Settles(Candidate(p))
                 /\ Ends(p, "failed") => Settles(op[p].before)]_vars
  BY <1>4, OwnStep, OwnStepKeepsCommand DEF MigratesWhole
<1>5. QED BY <1>3, <1>4, PTL DEF Spec, MigrationIsAtomic

=============================================================================
