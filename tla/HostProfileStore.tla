---------------------------- MODULE HostProfileStore ----------------------------
(***************************************************************************)
(* The private host profile: local_web_server/host_profile_store.py and    *)
(* host_profile_recovery.py.                                               *)
(*                                                                         *)
(* config/local holds the profile (apps.json), a history directory of      *)
(* immutable revisions, at most one transaction marker, three fixed        *)
(* temporaries and the recovery archive.  A client process takes the       *)
(* directory lock, checks the whole store, and then publishes in three     *)
(* file replacements (marker, revision, profile) before it unlinks the     *)
(* marker.  It may be killed between any two of these steps, or one of     *)
(* them may raise; a later `host recover' inspects the residue, announces  *)
(* one of three actions, and applies it by moving files into an archive    *)
(* batch, the marker last.                                                 *)
(*                                                                         *)
(* One action is one file-system step of the lock holder.  Checks made     *)
(* under the lock without a write in between are part of the next step.    *)
(***************************************************************************)
EXTENDS Integers, Sequences

CONSTANTS
    Clients,     \* processes using the store (CLI, installer, hooks)
    Registries,  \* exact profile bytes
    Stamps,      \* clock readings; two changes may read the same one
    Backups,     \* chains an operator may restore into an absent store
    MaxHistory,  \* bound of the model on the chain length
    MaxBatches,  \* _MAX_BATCHES: retained recovery batches
    MaxFaults,   \* bound of the model on crashes and raised errors
    None,        \* an absent file, value or lock holder
    Torn         \* a staged file holding a strict prefix of its content

Revisions ==
    [prev: Registries \cup {None}, cur: Registries, stamp: Stamps]

\* A marker of schema "publish" plans one revision, of "restore" a chain.
Markers ==
    [schema: {"publish", "restore"}, before: Registries \cup {None},
     after: Registries, records: Seq(Revisions)]

Tip(chain) == IF chain = <<>> THEN None ELSE chain[Len(chain)].cur

\* Continuity and unique identifiers; a revision is its own identifier,
\* because identifiers are digests of the whole envelope.
ChainValid(chain) ==
    /\ \A i \in 1..Len(chain) :
          chain[i].prev = IF i = 1 THEN None ELSE chain[i - 1].cur
    /\ \A i, j \in 1..Len(chain) : chain[i] = chain[j] => i = j

ASSUME Distinct ==
    /\ None \notin Registries /\ Torn \notin Registries \cup Revisions \cup Markers
    /\ None \notin Revisions \cup Markers \cup Clients /\ None # Torn
ASSUME Bounds == MaxHistory \in Nat /\ MaxBatches \in Nat /\ MaxFaults \in Nat
ASSUME BackupsAreChains ==
    \A chain \in Backups : chain \in Seq(Revisions) /\ chain # <<>> /\ ChainValid(chain)

Temporaries == {"transaction", "revision", "profile"}
Actions == {"remove-untouched-marker", "publish-candidate", "clear-marker"}

\* A batch of the recovery archive, as far as it was written.
Batches ==
    [manifest: {"empty", "torn", "staged", "published"}, action: Actions \cup {"none"},
     temps: SUBSET Temporaries, ids: Seq(Revisions),
     candidate: {"absent", "torn", "complete"}, swap: BOOLEAN]

ASSUME NoBatch == None \notin Batches

VARIABLES
    profile,  \* apps.json
    history,  \* revision files in sequence order
    marker,   \* .host-profile-transaction.json
    tmp,      \* the three fixed temporaries
    batch,    \* the archive batch of the pending marker
    retired,  \* number of completed batches
    lock,     \* holder of the directory lock
    stage,    \* next step of the lock holder
    file,     \* the file that step concerns
    txn,      \* the marker content the lock holder publishes
    view,     \* the chain each client last read
    plan,     \* the recovery plan each client last previewed
    acked,    \* revisions some operation has reported as published
    faults    \* crashes and raised errors so far

disk == <<profile, history, marker, tmp>>
archive == <<batch, retired>>
holder == <<lock, stage, file, txn>>
previews == <<view, plan>>
vars == <<disk, archive, holder, previews, acked, faults>>

-----------------------------------------------------------------------------
(***************************************************************************)
(* Inspection.  InspectState is _inspect_state / _inspect_restore: what    *)
(* the disk means, "clean", one of the three actions, or "unsafe".         *)
(***************************************************************************)
NoTemporaries == \A f \in Temporaries : tmp[f] = None

Has(chain, revision) == \E i \in 1..Len(chain) : chain[i] = revision
InitialChain(short, long) ==
    Len(short) <= Len(long) /\ \A i \in 1..Len(short) : short[i] = long[i]

\* The planned revision is the tip of the chain (publish marker).
Matching ==
    history # <<>> /\ history[Len(history)] = marker.records[1]

PriorTip ==
    IF Matching THEN history[Len(history)].prev ELSE Tip(history)

\* Every revision of the snapshot is in place (restore marker).
Complete == Len(history) = Len(marker.records)

Settled == IF marker.schema = "publish" THEN Matching ELSE Complete

ChainFits ==
    IF marker.schema = "publish"
      THEN /\ PriorTip = marker.before
           /\ Matching \/ ~Has(history, marker.records[1])
      ELSE /\ InitialChain(history, marker.records)
           /\ Complete => Tip(history) = marker.after

ProfileAction ==
    IF profile = marker.before
      THEN IF Settled THEN "publish-candidate" ELSE "remove-untouched-marker"
      ELSE IF profile = marker.after /\ Settled THEN "clear-marker" ELSE "unsafe"

\* A staged revision of a restore may be the last published or the next one.
NextRecords ==
    {marker.records[i] : i \in {n \in 1..Len(marker.records) :
                                   n = Len(history) \/ n = Len(history) + 1}}

\* Mutated form: allow_unpublished forgotten.
PublishResidueFitsStrict ==
    /\ tmp["transaction"] \in {None, marker}
    /\ tmp["profile"] \in {None, marker.after}
    /\ tmp["revision"] \in {None, marker.records[1]}

PublishResidueFits ==
    \/ ProfileAction = "remove-untouched-marker"     \* allow_unpublished
    \/ /\ tmp["transaction"] \in {None, marker}
       /\ tmp["profile"] \in {None, marker.after}
       /\ tmp["revision"] \in {None, marker.records[1]}

RestoreResidueFits ==
    /\ tmp["transaction"] \in {None, marker}
    /\ tmp["profile"] \in {None, marker.after}
    /\ tmp["revision"] \in {None} \cup NextRecords

ResidueFits ==
    IF marker.schema = "publish" THEN PublishResidueFits ELSE RestoreResidueFits

InspectState ==
    IF marker = None
      THEN IF NoTemporaries /\ ChainValid(history) /\ profile = Tip(history)
             THEN "clean" ELSE "unsafe"
      ELSE IF ChainValid(history) /\ ChainFits /\ ResidueFits
             THEN ProfileAction ELSE "unsafe"

-----------------------------------------------------------------------------
(***************************************************************************)
(* The recovery archive (RecoveryArchive).  A batch belongs to one marker  *)
(* file.  Its manifest lists the files to retire, in order: temporaries,   *)
(* for the rollback of a restore the revisions last to first, the marker.  *)
(* A listed file is in the batch exactly when it is no longer at its       *)
(* source.                                                                 *)
(***************************************************************************)
Order == [f \in Temporaries |->
             IF f = "profile" THEN 1 ELSE IF f = "transaction" THEN 2 ELSE 3]

NewBatch ==
    [manifest |-> "empty", action |-> "none", temps |-> {}, ids |-> <<>>,
     candidate |-> "absent", swap |-> FALSE]

\* _prepare: the manifest content for the store as it is.
Prepared(action, manifest) ==
    [manifest |-> manifest, action |-> action,
     temps |-> {f \in Temporaries : tmp[f] # None}, ids |-> history,
     candidate |-> "absent", swap |-> FALSE]

\* The manifest lists the revisions too.
RollsBackChain ==
    marker.schema = "restore" /\ batch.action = "remove-untouched-marker"

\* _pending: the manifest serves this action, nothing else is staged, what has
\* moved is a prefix of the list, and the chain is the one recorded.
Pending(action) ==
    /\ \/ batch.action = action
       \/ batch.action = "publish-candidate" /\ action = "clear-marker"
    /\ \A f \in Temporaries : tmp[f] # None =>
          /\ f \in batch.temps
          /\ \A g \in batch.temps : Order[f] < Order[g] => tmp[g] # None
          /\ Len(history) = Len(batch.ids)
    /\ IF RollsBackChain THEN InitialChain(history, batch.ids) ELSE history = batch.ids

\* Mutated form: an incomplete staged manifest is refused.
LoadsComplete(action) ==
    \/ batch.manifest = "empty"
    \/ /\ batch.manifest = "staged"
       /\ batch = Prepared(action, batch.manifest)
    \/ /\ batch.manifest = "published"
       /\ Pending(action)
       /\ batch.candidate = "torn" => action = "publish-candidate"

\* _load: what a batch interrupted at any point may contain.
Loads(action) ==
    \/ batch.manifest = "empty"
    \/ /\ batch.manifest \in {"torn", "staged"}
       /\ batch = Prepared(action, batch.manifest)
    \/ /\ batch.manifest = "published"
       /\ Pending(action)
       /\ batch.candidate = "torn" => action = "publish-candidate"

\* RecoveryArchive.inspect does not raise.
ArchiveAccepts(action) == IF batch = None THEN TRUE ELSE Loads(action)

\* _inspect: the plan announced, or that there is none.  The number of
\* retired batches stands for the identity (inode, ctime) of the marker file.
Inspection ==
    IF InspectState \in Actions /\ ArchiveAccepts(InspectState)
      THEN [action |-> InspectState, marker |-> marker, profile |-> profile,
            history |-> history, tmp |-> tmp, batch |-> batch, retired |-> retired]
      ELSE None

-----------------------------------------------------------------------------
(***************************************************************************)
(* Sessions.  _session takes the lock without waiting; a busy store is an  *)
(* error that changes nothing.                                             *)
(***************************************************************************)
Acquire(c, next, f, content) ==
    /\ lock = None
    /\ lock' = c /\ stage' = next /\ file' = f /\ txn' = content

Release == lock' = None /\ stage' = "idle" /\ file' = None /\ txn' = None

Continue(next, f) == stage' = next /\ file' = f /\ UNCHANGED <<lock, txn>>

\* Mutated form: a pending marker is not looked for.
NothingPendingUnmarked == NoTemporaries

\* _no_marker, _no_temporaries: the guard of every reader and publisher.
NothingPending == marker = None /\ NoTemporaries

\* _current_chain
CurrentChain ==
    NothingPending /\ ChainValid(history) /\ history # <<>> /\ profile = Tip(history)

Init ==
    /\ profile = None /\ history = <<>> /\ marker = None
    /\ tmp = [f \in Temporaries |-> None]
    /\ batch = None /\ retired = 0
    /\ lock = None /\ stage = "idle" /\ file = None /\ txn = None
    /\ view = [c \in Clients |-> <<>>] /\ plan = [c \in Clients |-> None]
    /\ acked = {} /\ faults = 0

\* read_current, read_snapshot and revisions: one coherent locked read.
Preview(c) ==
    /\ lock = None /\ CurrentChain
    /\ view' = [view EXCEPT ![c] = history]
    /\ UNCHANGED <<disk, archive, holder, plan, acked, faults>>

PublishMarker(before, after, stamp) ==
    [schema |-> "publish", before |-> before, after |-> after,
     records |-> <<[prev |-> before, cur |-> after, stamp |-> stamp]>>]

Initialise(c, after, stamp) ==
    /\ NothingPending /\ profile = None /\ history = <<>>
    /\ MaxHistory > 0
    /\ Acquire(c, "create", "transaction", PublishMarker(None, after, stamp))
    /\ UNCHANGED <<disk, archive, previews, acked, faults>>

\* Mutated form: the expected profile is not compared with the current one.
ChangeUnchecked(c, after, stamp, exact) ==
    LET before == Tip(view[c])
        content == PublishMarker(before, after, stamp)
    IN /\ CurrentChain /\ Len(history) < MaxHistory
       /\ view[c] # <<>> /\ (exact => history = view[c])
       /\ after # before
       /\ ~Has(history, content.records[1])
       /\ Acquire(c, "create", "transaction", content)
       /\ UNCHANGED <<disk, archive, previews, acked, faults>>

\* _change: `exact' is the expected_revisions argument of a restoration, which
\* binds the whole chain; other changes bind the profile bytes only.
Change(c, after, stamp, exact) ==
    LET before == Tip(view[c])
        content == PublishMarker(before, after, stamp)
    IN /\ CurrentChain /\ Len(history) < MaxHistory
       /\ view[c] # <<>> /\ profile = before /\ (exact => history = view[c])
       /\ after # before
       /\ ~Has(history, content.records[1])
       /\ Acquire(c, "create", "transaction", content)
       /\ UNCHANGED <<disk, archive, previews, acked, faults>>

RestoreSnapshot(c, chain) ==
    /\ NothingPending /\ profile = None /\ history = <<>>
    /\ Len(chain) <= MaxHistory
    /\ Acquire(c, "create", "transaction",
               [schema |-> "restore", before |-> None, after |-> Tip(chain),
                records |-> chain])
    /\ UNCHANGED <<disk, archive, previews, acked, faults>>

-----------------------------------------------------------------------------
(***************************************************************************)
(* _atomic: create the temporary exclusively, write it, put it in place.   *)
(* A publication replaces the destination by the temporary; a restore      *)
(* (_immutable) clones it to an absent destination and then unlinks it.    *)
(***************************************************************************)
NextRevision ==
    txn.records[IF txn.schema = "restore" THEN Len(history) + 1 ELSE 1]

Content ==
    CASE file = "transaction" -> txn
      [] file = "revision" -> NextRevision
      [] file = "profile" -> txn.after

PutInPlace ==
    \/ file = "transaction" /\ marker' = txn /\ UNCHANGED <<profile, history>>
    \/ file = "revision" /\ history' = Append(history, NextRevision) /\ UNCHANGED <<profile, marker>>
    \/ file = "profile" /\ profile' = txn.after /\ UNCHANGED <<history, marker>>

\* Mutated form: the marker is removed before the profile is replaced.
FileDoneEarly ==
    \/ file = "transaction" /\ Continue("create", "revision")
    \/ /\ file = "revision"
       /\ IF txn.schema = "restore" /\ Len(history') < Len(txn.records)
            THEN Continue("create", "revision") ELSE Continue("unlink-marker", None)
    \/ file = "profile" /\ Continue("inspect", None)

\* The order: marker, revisions, profile, then the marker is removed.
FileDone ==
    \/ file = "transaction" /\ Continue("create", "revision")
    \/ /\ file = "revision"
       /\ Continue("create", IF txn.schema = "restore" /\ Len(history') < Len(txn.records)
                               THEN "revision" ELSE "profile")
    \/ /\ file = "profile"
       /\ Continue(IF txn.schema = "restore" THEN "inspect" ELSE "unlink-marker", None)

CreateTemporary(c) ==
    /\ lock = c /\ stage = "create" /\ tmp[file] = None
    /\ tmp' = [tmp EXCEPT ![file] = Torn]
    /\ Continue("write", file)
    /\ UNCHANGED <<profile, history, marker, archive, previews, acked, faults>>

WriteTemporary(c) ==
    /\ lock = c /\ stage = "write"
    /\ tmp' = [tmp EXCEPT ![file] = Content]
    /\ Continue("place", file)
    /\ UNCHANGED <<profile, history, marker, archive, previews, acked, faults>>

Replace(c) ==
    /\ lock = c /\ stage = "place" /\ txn.schema = "publish"
    /\ PutInPlace
    /\ tmp' = [tmp EXCEPT ![file] = None]
    /\ FileDone
    /\ UNCHANGED <<archive, previews, acked, faults>>

ClonePlace(c) ==
    /\ lock = c /\ stage = "place" /\ txn.schema = "restore"
    /\ file = "transaction" => marker = None
    /\ file = "profile" => profile = None
    /\ PutInPlace
    /\ Continue("unlink", file)
    /\ UNCHANGED <<tmp, archive, previews, acked, faults>>

UnlinkTemporary(c) ==
    /\ lock = c /\ stage = "unlink"
    /\ tmp' = [tmp EXCEPT ![file] = None]
    /\ UNCHANGED history
    /\ FileDone
    /\ UNCHANGED <<profile, marker, archive, previews, acked, faults>>

Acknowledge(content) ==
    acked' = acked \cup {content.records[i] : i \in 1..Len(content.records)}

\* The last step of _publish.
UnlinkMarker(c) ==
    /\ lock = c /\ stage = "unlink-marker"
    /\ marker' = None
    /\ Acknowledge(txn)
    /\ Release
    /\ UNCHANGED <<profile, history, tmp, archive, previews, faults>>

\* restore_snapshot ends by retiring its own marker through the archive.
InspectRestored(c) ==
    /\ lock = c /\ stage = "inspect"
    /\ Inspection # None /\ Inspection.action = "clear-marker"
    /\ plan' = [plan EXCEPT ![c] = Inspection]
    /\ Continue("manifest", None)
    /\ UNCHANGED <<disk, archive, view, acked, faults>>

-----------------------------------------------------------------------------
(***************************************************************************)
(* Recovery.  A client previews a plan, then applies it under the lock if  *)
(* a fresh inspection gives exactly that plan.                             *)
(***************************************************************************)
InspectRecovery(c) ==
    /\ lock = None /\ Inspection # None
    /\ plan' = [plan EXCEPT ![c] = Inspection]
    /\ UNCHANGED <<disk, archive, holder, view, acked, faults>>

\* recover: the exact plan still holds.
Recover(c) ==
    /\ plan[c] # None /\ Inspection = plan[c]
    /\ Acquire(c, "manifest", None, None)
    /\ UNCHANGED <<disk, archive, previews, acked, faults>>

Steady == UNCHANGED <<previews, acked, faults>>

\* Mutated form: the limit is off by one.
OpenBatchOver(c) ==
    /\ lock = c /\ stage = "manifest" /\ batch = None
    /\ retired <= MaxBatches
    /\ batch' = NewBatch
    /\ UNCHANGED <<disk, retired, holder>> /\ Steady

\* apply: a new batch needs a free slot; nothing is ever pruned.
OpenBatch(c) ==
    /\ lock = c /\ stage = "manifest" /\ batch = None
    /\ retired < MaxBatches
    /\ batch' = NewBatch
    /\ UNCHANGED <<disk, retired, holder>> /\ Steady

\* _publish_manifest writes plan.tmp, completes its prefix, clones plan.json.
StageManifest(c) ==
    /\ lock = c /\ stage = "manifest" /\ batch # None
    /\ \/ /\ batch.manifest = "empty"
          /\ batch' = Prepared(plan[c].action, "torn")
       \/ /\ batch.manifest = "torn"
          /\ batch' = [batch EXCEPT !.manifest = "staged"]
    /\ UNCHANGED <<disk, retired, holder>> /\ Steady

PublishManifest(c) ==
    /\ lock = c /\ stage = "manifest" /\ batch # None
    /\ batch.manifest \in {"staged", "published"}
    /\ batch' = [batch EXCEPT !.manifest = "published"]
    /\ Continue("move", None)
    /\ UNCHANGED <<disk, retired>> /\ Steady

\* Files leave in manifest order, all but the marker.
MoveTemporary(c) ==
    /\ lock = c /\ stage = "move"
    /\ \E f \in batch.temps :
          /\ tmp[f] # None /\ \A g \in batch.temps : Order[g] < Order[f] => tmp[g] = None
          /\ tmp' = [tmp EXCEPT ![f] = None]
    /\ UNCHANGED <<profile, history, marker, archive, holder>> /\ Steady

TemporariesMoved == \A f \in batch.temps : tmp[f] = None

MoveRevision(c) ==
    /\ lock = c /\ stage = "move" /\ TemporariesMoved
    /\ RollsBackChain /\ history # <<>>
    /\ history' = SubSeq(history, 1, Len(history) - 1)
    /\ UNCHANGED <<profile, marker, tmp, archive, holder>> /\ Steady

\* Mutated form: publish-candidate goes to the marker without the profile.
FilesMovedUnpublished(c) ==
    /\ lock = c /\ stage = "move" /\ TemporariesMoved
    /\ RollsBackChain => history = <<>>
    /\ Continue("seal", None)
    /\ UNCHANGED <<disk, archive>> /\ Steady

FilesMoved(c) ==
    /\ lock = c /\ stage = "move" /\ TemporariesMoved
    /\ RollsBackChain => history = <<>>
    /\ Continue(IF plan[c].action = "publish-candidate" THEN "candidate" ELSE "seal", None)
    /\ UNCHANGED <<disk, archive>> /\ Steady

\* _publish_profile: candidate.tmp is staged, an interrupted prefix completed.
StageCandidate(c) ==
    /\ lock = c /\ stage = "candidate"
    /\ \/ batch.candidate = "absent" /\ batch' = [batch EXCEPT !.candidate = "torn"]
       \/ batch.candidate = "torn" /\ batch' = [batch EXCEPT !.candidate = "complete"]
    /\ UNCHANGED <<disk, retired, holder>> /\ Steady

\* An absent profile is cloned from the candidate directly.
CloneProfile(c) ==
    /\ lock = c /\ stage = "candidate" /\ batch.candidate = "complete"
    /\ plan[c].profile = None /\ profile = None
    /\ profile' = plan[c].marker.after
    /\ Continue("seal", None)
    /\ UNCHANGED <<history, marker, tmp, archive>> /\ Steady

\* An existing one is replaced by a second clone, candidate.publish.
CloneCandidate(c) ==
    /\ lock = c /\ stage = "candidate" /\ batch.candidate = "complete"
    /\ plan[c].profile # None /\ ~batch.swap
    /\ batch' = [batch EXCEPT !.swap = TRUE]
    /\ UNCHANGED <<disk, retired, holder>> /\ Steady

ReplaceProfile(c) ==
    /\ lock = c /\ stage = "candidate" /\ batch.swap
    /\ plan[c].profile # None /\ profile = plan[c].profile
    /\ profile' = plan[c].marker.after
    /\ batch' = [batch EXCEPT !.swap = FALSE]
    /\ Continue("seal", None)
    /\ UNCHANGED <<history, marker, tmp, retired>> /\ Steady

\* The commit point: the marker joins its batch if inspection still agrees.
RetireMarker(c) ==
    /\ lock = c /\ stage = "seal"
    /\ InspectState \in Actions /\ Pending(InspectState)
    /\ marker' = None
    /\ batch' = None /\ retired' = retired + 1
    /\ Continue("verify", None)
    /\ UNCHANGED <<profile, history, tmp>> /\ Steady

\* Mutated form: every recovery reports the planned revisions.
ReportRecoveredAlways(c) ==
    /\ lock = c /\ stage = "verify"
    /\ InspectState = "clean"
    /\ Acknowledge(plan[c].marker)
    /\ Release
    /\ UNCHANGED <<disk, archive, previews, faults>>

\* A recovery that removes the marker reports no revision.
ReportRecovered(c) ==
    /\ lock = c /\ stage = "verify"
    /\ InspectState = "clean"
    /\ IF plan[c].action = "remove-untouched-marker"
         THEN UNCHANGED acked ELSE Acknowledge(plan[c].marker)
    /\ Release
    /\ UNCHANGED <<disk, archive, previews, faults>>

-----------------------------------------------------------------------------
(***************************************************************************)
(* Interruption.  A raised error unwinds: the staged temporary of the      *)
(* failing step is unlinked, nothing else.  A killed process unwinds       *)
(* nothing and forgets its previews.  Either releases the lock.            *)
(***************************************************************************)
Staging == stage \in {"write", "place", "unlink"}

Raise(c) ==
    /\ lock = c /\ faults < MaxFaults
    /\ tmp' = IF Staging THEN [tmp EXCEPT ![file] = None] ELSE tmp
    /\ faults' = faults + 1
    /\ Release
    /\ UNCHANGED <<profile, history, marker, archive, previews, acked>>

Kill(c) ==
    /\ lock = c /\ faults < MaxFaults
    /\ view' = [view EXCEPT ![c] = <<>>] /\ plan' = [plan EXCEPT ![c] = None]
    /\ faults' = faults + 1
    /\ Release
    /\ UNCHANGED <<disk, archive, acked>>

\* A full archive is an error that leaves everything pending.
RefuseBatch(c) ==
    /\ lock = c /\ stage = "manifest" /\ batch = None /\ retired >= MaxBatches
    /\ Release
    /\ UNCHANGED <<disk, archive, previews, acked, faults>>

Publishing(c) ==
    \/ CreateTemporary(c) \/ WriteTemporary(c) \/ Replace(c) \/ ClonePlace(c)
    \/ UnlinkTemporary(c) \/ UnlinkMarker(c) \/ InspectRestored(c)

Archiving(c) ==
    \/ OpenBatch(c) \/ StageManifest(c) \/ PublishManifest(c) \/ MoveTemporary(c) \/ MoveRevision(c)
    \/ FilesMoved(c) \/ StageCandidate(c) \/ CloneProfile(c) \/ CloneCandidate(c)
    \/ ReplaceProfile(c) \/ RetireMarker(c) \/ ReportRecovered(c) \/ RefuseBatch(c)

Requests(c) ==
    \/ Preview(c) \/ InspectRecovery(c) \/ Recover(c)
    \/ \E after \in Registries, stamp \in Stamps :
          \/ Initialise(c, after, stamp)
          \/ \E exact \in BOOLEAN : Change(c, after, stamp, exact)
    \/ \E chain \in Backups : RestoreSnapshot(c, chain)

Next ==
    \E c \in Clients :
       Publishing(c) \/ Archiving(c) \/ Requests(c) \/ Raise(c) \/ Kill(c)

Spec == Init /\ [][Next]_vars

\* A running process keeps running; an operator retries the recovery preview
\* and its application.
Fairness ==
    \A c \in Clients :
       /\ WF_vars(Publishing(c)) /\ WF_vars(Archiving(c))
       /\ WF_vars(InspectRecovery(c)) /\ WF_vars(Recover(c))

FairSpec == Spec /\ Fairness

-----------------------------------------------------------------------------
(***************************************************************************)
(* Properties.                                                             *)
(***************************************************************************)
Stages == {"idle", "create", "write", "place", "unlink", "unlink-marker", "inspect",
           "manifest", "move", "candidate", "seal", "verify"}

Staged == [Temporaries -> {None, Torn} \cup Markers \cup Revisions \cup Registries]

Plans ==
    [action: Actions, marker: Markers, profile: Registries \cup {None},
     history: Seq(Revisions), tmp: Staged, batch: Batches \cup {None}, retired: Nat]

ASSUME NoPlan == None \notin Plans

\* Every file, the lock and each client's memory hold values of their kind.
TypeOK ==
    /\ profile \in Registries \cup {None} /\ history \in Seq(Revisions)
    /\ marker \in Markers \cup {None} /\ tmp \in Staged
    /\ batch \in Batches \cup {None} /\ retired \in 0..MaxBatches
    /\ lock \in Clients \cup {None} /\ stage \in Stages
    /\ file \in Temporaries \cup {None} /\ txn \in Markers \cup {None}
    /\ view \in [Clients -> Seq(Revisions)] /\ plan \in [Clients -> Plans \cup {None}]
    /\ acked \subseteq Revisions /\ faults \in Nat

\* Revisions chain by the digest of the one before and never repeat, whoever
\* publishes, restores, crashes or recovers: no change is lost.
HistoryIsChain == ChainValid(history)

\* Without a marker the profile is the tip of the chain: a reader that finds no
\* marker never sees half of a publication, whatever was interrupted before.
ProfileIsTip == marker = None => profile = Tip(history)

\* The residues inspect_recovery refuses: a file truncated while it was staged,
\* or a marker staged and not yet put in place.
TornStaging ==
    \/ marker = None /\ tmp["transaction"] # None
    \/ marker # None /\ tmp["profile"] = Torn
    \/ marker # None /\ marker.schema = "restore" /\ tmp["revision"] = Torn

\* Every other interruption of a publication, a restore or a recovery leaves a
\* store that is clean or has a plan.  (docs/operations/host-profile.md:126 has
\* recovery publish the candidate `when the previous profile remains current and
\* the complete planned revision exists': not when the staged profile is torn.)
UnsafeOnlyIfTorn ==
    lock = None /\ ~TornStaging =>
        \/ InspectState = "clean" /\ batch = None
        \/ Inspection # None

\* A marker is never replaced by another: no transaction starts over a pending one.
MarkerNotOverwritten == [][marker # None => marker' \in {marker, None}]_vars

\* A marker goes only with nothing left staged and the profile at the tip.
MarkerLast == [][marker # None /\ marker' = None => NoTemporaries' /\ profile' = Tip(history')]_vars

\* host recover, retried, ends every pending transaction that has a plan once
\* no further fault interrupts it, while the archive has room.
RecoveryTerminates ==
    (marker # None /\ lock = None /\ Inspection # None /\ retired < MaxBatches) ~> marker = None

\* The store implements a compare-and-append register.  A publication commits
\* when its revision is in place, a restore when its whole chain is.
Committed ==
    IF marker = None THEN history
    ELSE IF marker.schema = "restore" /\ ~Complete THEN <<>> ELSE history

Register ==
    INSTANCE ProfileRegister WITH log <- Committed, seen <- view, reported <- acked

\* Every behaviour of the store, with its crashes and recoveries, is a behaviour
\* of that register.
ImplementsRegister == Register!Spec

=============================================================================
