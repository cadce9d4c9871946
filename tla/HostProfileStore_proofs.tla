------------------------- MODULE HostProfileStore_proofs -------------------------
(***************************************************************************)
(* Proofs about HostProfileStore, for every set of clients, registries,    *)
(* clock readings and backup chains.                                       *)
(***************************************************************************)
EXTENDS HostProfileStore, SequenceTheorems, TLAPS

PublishStages == {"create", "write", "place", "unlink"}
ArchiveStages == {"manifest", "move", "candidate", "seal"}

\* Who is at which step, and what that client must know there.
ControlInv ==
    /\ lock = None <=> stage = "idle"
    /\ stage \in PublishStages => file \in Temporaries
    /\ stage \in PublishStages \cup {"unlink-marker", "inspect"} => txn \in Markers
    /\ stage \in ArchiveStages \cup {"verify"} => plan[lock] \in Plans

\* A marker the code may write.
WellFormed(m) ==
    IF m.schema = "publish"
      THEN /\ Len(m.records) = 1 /\ m.records[1].cur = m.after
           /\ m.records[1].prev = m.before /\ m.before # m.after
      ELSE /\ m.before = None /\ m.records # <<>>
           /\ ChainValid(m.records) /\ Tip(m.records) = m.after

\* The three mixtures of old and new a pending marker may stand beside.
Untouched(m) ==
    /\ profile = m.before
    /\ IF m.schema = "publish"
         THEN Tip(history) = m.before /\ ~Has(history, m.records[1])
         ELSE InitialChain(history, m.records) /\ Len(history) < Len(m.records)

Planned(m) ==
    IF m.schema = "publish"
      THEN history # <<>> /\ history[Len(history)] = m.records[1]
      ELSE history = m.records

DiskInv ==
    /\ ChainValid(history)
    /\ marker = None => profile = Tip(history)
    /\ marker # None =>
          /\ WellFormed(marker)
          /\ Untouched(marker) \/ (Planned(marker) /\ profile \in {marker.before, marker.after})

\* Where a publication or a restore stands.
PublishInv ==
    /\ stage \in PublishStages =>
          /\ WellFormed(txn) /\ batch = None
          /\ \A f \in Temporaries : f # file \/ stage = "create" => tmp[f] = None
          /\ stage = "unlink" => txn.schema = "restore"
          /\ file = "transaction" =>
                /\ marker = (IF stage = "unlink" THEN txn ELSE None)
                /\ Untouched(txn) /\ (txn.schema = "restore" => history = <<>>)
          /\ file = "revision" =>
                /\ marker = txn /\ profile = txn.before
                /\ IF stage = "unlink" THEN InitialChain(history, txn.records) ELSE Untouched(txn)
          /\ file = "profile" =>
                /\ marker = txn /\ Planned(txn)
                /\ profile = IF stage = "unlink" THEN txn.after ELSE txn.before
    /\ stage \in {"unlink-marker", "inspect"} =>
          /\ NoTemporaries /\ marker = txn /\ WellFormed(txn) /\ batch = None
          /\ Planned(txn) /\ profile = txn.after

Serves(made, action) ==
    made = action \/ (made = "publish-candidate" /\ action = "clear-marker")

\* What an announced action says of the disk.
PlanHolds(action, published) ==
    /\ action = "remove-untouched-marker" => Untouched(marker)
    /\ action = "publish-candidate" =>
          Planned(marker) /\ profile = IF published THEN marker.after ELSE marker.before
    /\ action = "clear-marker" => Planned(marker) /\ profile = marker.after

\* Where a recovery stands: the previewed action still describes the disk.
ArchiveInv ==
    /\ stage \in ArchiveStages =>
          /\ plan[lock].marker = marker /\ marker # None
          /\ PlanHolds(plan[lock].action, stage = "seal")
          /\ stage # "manifest" => batch # None /\ batch.manifest = "published"
          /\ batch # None /\ batch.manifest # "empty" => Serves(batch.action, plan[lock].action)
    /\ stage = "candidate" => plan[lock].action = "publish-candidate"
    /\ stage \in {"candidate", "seal"} => TemporariesMoved /\ (RollsBackChain => history = <<>>)
    /\ stage = "verify" =>
          /\ marker = None
          /\ plan[lock].action # "remove-untouched-marker" =>
                \A i \in 1..Len(plan[lock].marker.records) : Has(history, plan[lock].marker.records[i])
    /\ batch # None => retired < MaxBatches /\ marker # None

\* Acknowledged revisions are in the committed chain.
AckInv == \A revision \in acked : Has(Committed, revision)

IInv == TypeOK /\ ControlInv /\ DiskInv /\ PublishInv /\ ArchiveInv /\ AckInv

-----------------------------------------------------------------------------
(***************************************************************************)
(* Chains.                                                                 *)
(***************************************************************************)
\* A chain extended by a new revision that names its tip is a chain (_chain).
LEMMA AppendChain ==
    ASSUME NEW chain \in Seq(Revisions), NEW revision \in Revisions, ChainValid(chain),
           revision.prev = Tip(chain), ~Has(chain, revision)
    PROVE  /\ ChainValid(Append(chain, revision))
           /\ Tip(Append(chain, revision)) = revision.cur
<1> DEFINE longer == Append(chain, revision)
<1>1. /\ longer \in Seq(Revisions) /\ Len(longer) = Len(chain) + 1
      /\ \A i \in 1..Len(chain) : longer[i] = chain[i]
      /\ longer[Len(chain) + 1] = revision /\ longer # <<>>
  OBVIOUS
<1>2. ASSUME NEW i \in 1..Len(longer)
      PROVE  longer[i].prev = IF i = 1 THEN None ELSE longer[i - 1].cur
  <2>1. CASE i <= Len(chain)
    BY <1>1, <2>1 DEF ChainValid
  <2>2. CASE i = Len(chain) + 1
    BY <1>1, <2>2 DEF Tip
  <2>3. QED BY <1>1, <2>1, <2>2
<1>3. ASSUME NEW i \in 1..Len(longer), NEW j \in 1..Len(longer), longer[i] = longer[j]
      PROVE  i = j
  BY <1>1, <1>3 DEF ChainValid, Has
<1>4. QED
  BY <1>1, <1>2, <1>3 DEF ChainValid, Tip

\* An initial part of a chain is a chain.
LEMMA InitialChainValid ==
    ASSUME NEW long \in Seq(Revisions), NEW short \in Seq(Revisions),
           ChainValid(long), InitialChain(short, long)
    PROVE  ChainValid(short)
<1>1. Len(short) <= Len(long) /\ \A i \in 1..Len(short) : i \in 1..Len(long) /\ short[i] = long[i]
  BY DEF InitialChain
<1>2. ASSUME NEW i \in 1..Len(short)
      PROVE  short[i].prev = IF i = 1 THEN None ELSE short[i - 1].cur
  <2>1. i # 1 => i - 1 \in 1..Len(short)
    OBVIOUS
  <2>2. QED BY <1>1, <2>1 DEF ChainValid
<1>3. ASSUME NEW i \in 1..Len(short), NEW j \in 1..Len(short), short[i] = short[j]
      PROVE  i = j
  BY <1>1, <1>3 DEF ChainValid
<1>4. QED
  BY <1>2, <1>3 DEF ChainValid

\* A restore that places its next revision stays an initial part of the snapshot.
LEMMA ExtendInitialChain ==
    ASSUME NEW long \in Seq(Revisions), NEW short \in Seq(Revisions),
           ChainValid(long), InitialChain(short, long), Len(short) < Len(long)
    PROVE  /\ long[Len(short) + 1] \in Revisions
           /\ long[Len(short) + 1].prev = Tip(short)
           /\ ~Has(short, long[Len(short) + 1])
           /\ InitialChain(Append(short, long[Len(short) + 1]), long)
           /\ Len(short) + 1 = Len(long) => Append(short, long[Len(short) + 1]) = long
<1> DEFINE next == long[Len(short) + 1]
<1>1. next \in Revisions /\ Len(short) + 1 \in 1..Len(long)
  OBVIOUS
<1>2. next.prev = Tip(short)
  BY <1>1 DEF ChainValid, InitialChain, Tip
<1>3. ~Has(short, next)
  BY <1>1 DEF ChainValid, InitialChain, Has
<1>4. InitialChain(Append(short, next), long)
  BY <1>1 DEF InitialChain
<1>5. Len(short) + 1 = Len(long) => Append(short, next) = long
  BY <1>1, <1>4 DEF InitialChain
<1>6. QED
  BY <1>1, <1>2, <1>3, <1>4, <1>5

LEMMA FrontFacts ==
    ASSUME NEW S, NEW s \in Seq(S), s # <<>>
    PROVE  /\ SubSeq(s, 1, Len(s) - 1) \in Seq(S)
           /\ Len(SubSeq(s, 1, Len(s) - 1)) = Len(s) - 1
           /\ \A i \in 1..(Len(s) - 1) : SubSeq(s, 1, Len(s) - 1)[i] = s[i]
<1> DEFINE n == Len(s)
<1>1. n \in Nat \ {0} /\ \A i \in 1..(n - 1) : s[i] \in S
  OBVIOUS
<1> HIDE DEF n
<1>2. Len(SubSeq(s, 1, n - 1)) = IF 1 <= n - 1 THEN n - 1 - 1 + 1 ELSE 0
  BY <1>1, SubSeqProperties
<1>3. ASSUME NEW m, m = IF 1 <= n - 1 THEN n - 1 - 1 + 1 ELSE 0 PROVE m = n - 1
  BY <1>1, <1>3
<1>4. Len(SubSeq(s, 1, n - 1)) = n - 1
  BY <1>2, <1>3
<1>5. SubSeq(s, 1, Len(s) - 1) \in Seq(S)
  OBVIOUS
<1>6. \A i \in 1..(Len(s) - 1) : SubSeq(s, 1, Len(s) - 1)[i] = s[i]
  OBVIOUS
<1>7. QED
  BY <1>4, <1>5, <1>6 DEF n

\* The rollback of a restore removes the last revision.
LEMMA FrontChain ==
    ASSUME NEW chain \in Seq(Revisions), chain # <<>>, ChainValid(chain)
    PROVE  /\ SubSeq(chain, 1, Len(chain) - 1) \in Seq(Revisions)
           /\ Len(SubSeq(chain, 1, Len(chain) - 1)) = Len(chain) - 1
           /\ InitialChain(SubSeq(chain, 1, Len(chain) - 1), chain)
           /\ ChainValid(SubSeq(chain, 1, Len(chain) - 1))
<1>1. /\ SubSeq(chain, 1, Len(chain) - 1) \in Seq(Revisions)
      /\ Len(SubSeq(chain, 1, Len(chain) - 1)) = Len(chain) - 1
      /\ \A i \in 1..(Len(chain) - 1) : SubSeq(chain, 1, Len(chain) - 1)[i] = chain[i]
  BY FrontFacts
<1>2. InitialChain(SubSeq(chain, 1, Len(chain) - 1), chain)
  BY <1>1 DEF InitialChain
<1>3. QED
  BY <1>1, <1>2, InitialChainValid

LEMMA TipTyped ==
    ASSUME NEW chain \in Seq(Revisions), chain # <<>>
    PROVE  Tip(chain) \in Registries
<1>1. chain[Len(chain)] \in Revisions
  OBVIOUS
<1>2. QED
  BY <1>1 DEF Tip, Revisions

LEMMA InitialChainTransitive ==
    ASSUME NEW a \in Seq(Revisions), NEW b \in Seq(Revisions), NEW c \in Seq(Revisions),
           InitialChain(a, b), InitialChain(b, c)
    PROVE  InitialChain(a, c)
BY DEF InitialChain

LEMMA WholeInitialChain ==
    ASSUME NEW short \in Seq(Revisions), NEW long \in Seq(Revisions),
           InitialChain(short, long), Len(short) >= Len(long)
    PROVE  short = long
BY DEF InitialChain

-----------------------------------------------------------------------------
(***************************************************************************)
(* What an inspection says of the disk.                                    *)
(***************************************************************************)
LEMMA InspectionTyped ==
    ASSUME TypeOK, Inspection # None
    PROVE  Inspection \in Plans
<1>1. /\ Inspection = [action |-> InspectState, marker |-> marker, profile |-> profile,
            history |-> history, tmp |-> tmp, batch |-> batch, retired |-> retired]
      /\ InspectState \in Actions
  BY DEF Inspection
<1>2. marker # None
  BY <1>1 DEF InspectState, Actions
<1>3. QED
  BY <1>1, <1>2 DEF TypeOK, Plans

LEMMA InspectionMeans ==
    ASSUME IInv, Inspection # None
    PROVE  /\ marker # None /\ Inspection.marker = marker
           /\ PlanHolds(Inspection.action, FALSE)
           /\ batch # None /\ batch.manifest # "empty" => Serves(batch.action, Inspection.action)
<1>1. /\ Inspection.action = InspectState /\ Inspection.marker = marker
      /\ InspectState \in Actions /\ ArchiveAccepts(InspectState)
  BY DEF Inspection
<1>2. marker # None /\ InspectState = ProfileAction
  BY <1>1 DEF InspectState, Actions
<1>3. marker \in Markers /\ WellFormed(marker) /\ (Untouched(marker) \/ Planned(marker))
      /\ history \in Seq(Revisions)
  BY <1>2 DEF IInv, DiskInv, TypeOK
<1>4. /\ marker.schema \in {"publish", "restore"} /\ Len(history) \in Nat
      /\ marker.records \in Seq(Revisions)
  BY <1>3 DEF Markers
<1>5. Planned(marker) => Settled
  BY <1>4 DEF Planned, Settled, Matching, Complete
<1>6. Untouched(marker) => ~Settled
  BY <1>4 DEF Untouched, Settled, Matching, Complete, Has
<1>7. PlanHolds(Inspection.action, FALSE)
  BY <1>1, <1>2, <1>3, <1>5, <1>6 DEF ProfileAction, PlanHolds
<1>8. batch # None /\ batch.manifest # "empty" => Serves(batch.action, Inspection.action)
  <2>1. ASSUME batch # None, batch.manifest # "empty" PROVE Loads(InspectState)
    BY <1>1, <2>1 DEF ArchiveAccepts
  <2>2. ASSUME NEW a, Loads(a), batch # None, batch.manifest # "empty"
        PROVE  Serves(batch.action, a)
    BY <2>2 DEF Loads, Pending, Prepared, Serves
  <2>3. QED BY <1>1, <2>1, <2>2
<1>9. QED BY <1>1, <1>2, <1>7, <1>8

-----------------------------------------------------------------------------
(***************************************************************************)
(* Frames: what a step that leaves some of the store alone keeps.          *)
(***************************************************************************)
LEMMA DiskFrame ==
    ASSUME IInv, UNCHANGED disk
    PROVE  DiskInv'
BY DEF IInv, DiskInv, disk, Untouched, Planned

LEMMA AckFrame ==
    ASSUME IInv, UNCHANGED <<history, marker, acked>>
    PROVE  AckInv'
BY DEF IInv, AckInv, Committed, Complete

-----------------------------------------------------------------------------
(***************************************************************************)
(* Every action keeps the invariant.  First the requests of a client.      *)
(***************************************************************************)
LEMMA PreviewStep ==
    ASSUME IInv, NEW c \in Clients, Preview(c)
    PROVE  IInv'
<1>1. /\ view' = [view EXCEPT ![c] = history]
      /\ UNCHANGED <<profile, history, marker, tmp, batch, retired, lock, stage, file, txn,
                     plan, acked, faults>>
  BY DEF Preview, disk, archive, holder
<1>2. TypeOK'
  BY <1>1 DEF IInv, TypeOK
<1>3. ControlInv'
  BY <1>1 DEF IInv, ControlInv
<1>4. DiskInv' /\ AckInv'
  BY <1>1, DiskFrame, AckFrame DEF disk
<1>5. PublishInv'
  BY <1>1 DEF IInv, PublishInv, NoTemporaries, Untouched, Planned
<1>6. ArchiveInv'
  BY <1>1 DEF IInv, ArchiveInv, PlanHolds, Untouched, Planned, TemporariesMoved, RollsBackChain
<1>7. QED
  BY <1>2, <1>3, <1>4, <1>5, <1>6 DEF IInv

LEMMA InspectRecoveryStep ==
    ASSUME IInv, NEW c \in Clients, InspectRecovery(c)
    PROVE  IInv'
<1>1. /\ stage = "idle" /\ Inspection # None
      /\ plan' = [plan EXCEPT ![c] = Inspection]
      /\ UNCHANGED <<profile, history, marker, tmp, batch, retired, lock, stage, file, txn,
                     view, acked, faults>>
  BY DEF InspectRecovery, disk, archive, holder, IInv, ControlInv
<1>2. TypeOK'
  <2>1. Inspection \in Plans
    BY <1>1, InspectionTyped DEF IInv
  <2>2. plan' \in [Clients -> Plans \cup {None}]
    BY <1>1, <2>1 DEF IInv, TypeOK
  <2>3. QED BY <1>1, <2>2 DEF IInv, TypeOK
<1>3. ControlInv'
  BY <1>1 DEF IInv, ControlInv, PublishStages, ArchiveStages
<1>4. DiskInv' /\ AckInv'
  BY <1>1, DiskFrame, AckFrame DEF disk
<1>5. PublishInv'
  BY <1>1 DEF PublishInv, PublishStages
<1>6. ArchiveInv'
  BY <1>1 DEF IInv, ArchiveInv, ArchiveStages
<1>7. QED
  BY <1>2, <1>3, <1>4, <1>5, <1>6 DEF IInv

\* A publication or a restore begins: the common part of _publish's callers.
LEMMA BeginStep ==
    ASSUME IInv, NEW c \in Clients, NEW content \in Markers, WellFormed(content),
           Untouched(content), content.schema = "restore" => history = <<>>,
           NothingPending, Acquire(c, "create", "transaction", content),
           UNCHANGED <<disk, archive, previews, acked, faults>>
    PROVE  IInv'
<1>1. /\ lock' = c /\ stage' = "create" /\ file' = "transaction" /\ txn' = content
      /\ c # None /\ marker = None /\ NoTemporaries
      /\ UNCHANGED <<profile, history, marker, tmp, batch, retired, view, plan, acked, faults>>
  BY Distinct DEF Acquire, NothingPending, disk, archive, previews
<1>2. TypeOK'
  BY <1>1 DEF IInv, TypeOK, Stages, Temporaries
<1>3. ControlInv'
  BY <1>1 DEF ControlInv, Temporaries, PublishStages, ArchiveStages
<1>4. DiskInv' /\ AckInv'
  BY <1>1, DiskFrame, AckFrame DEF disk
<1>5. PublishInv'
  BY <1>1 DEF IInv, ArchiveInv, PublishInv, NoTemporaries, Untouched, PublishStages
<1>6. ArchiveInv'
  BY <1>1 DEF IInv, ArchiveInv, ArchiveStages
<1>7. QED
  BY <1>2, <1>3, <1>4, <1>5, <1>6 DEF IInv

LEMMA InitialiseStep ==
    ASSUME IInv, NEW c \in Clients, NEW after \in Registries, NEW stamp \in Stamps,
           Initialise(c, after, stamp)
    PROVE  IInv'
<1> DEFINE content == PublishMarker(None, after, stamp)
<1>1. content \in Markers
  BY DEF PublishMarker, Markers, Revisions
<1>2. WellFormed(content) /\ content.schema = "publish"
  BY Distinct DEF PublishMarker, WellFormed
<1>3. Untouched(content)
  BY DEF Initialise, Untouched, PublishMarker, Tip, Has
<1>4. QED
  BY <1>1, <1>2, <1>3, BeginStep DEF Initialise

LEMMA ChangeStep ==
    ASSUME IInv, NEW c \in Clients, NEW after \in Registries, NEW stamp \in Stamps,
           NEW exact \in BOOLEAN, Change(c, after, stamp, exact)
    PROVE  IInv'
<1> DEFINE before == Tip(view[c])
           content == PublishMarker(before, after, stamp)
<1>1. view[c] \in Seq(Revisions) /\ view[c] # <<>>
  BY DEF IInv, TypeOK, Change
<1>2. before \in Registries
  BY <1>1, TipTyped
<1>3. content \in Markers
  BY <1>2 DEF PublishMarker, Markers, Revisions
<1>4. WellFormed(content) /\ content.schema = "publish"
  BY DEF PublishMarker, WellFormed, Change
<1>5. Untouched(content)
  BY DEF Change, CurrentChain, Untouched, PublishMarker
<1>6. QED
  BY <1>3, <1>4, <1>5, BeginStep DEF Change, CurrentChain

LEMMA RestoreSnapshotStep ==
    ASSUME IInv, NEW c \in Clients, NEW chain \in Backups, RestoreSnapshot(c, chain)
    PROVE  IInv'
<1> DEFINE content == [schema |-> "restore", before |-> None, after |-> Tip(chain),
                       records |-> chain]
<1>1. chain \in Seq(Revisions) /\ chain # <<>> /\ ChainValid(chain)
  BY BackupsAreChains
<1>2. content \in Markers
  BY <1>1, TipTyped DEF Markers
<1>3. WellFormed(content)
  BY <1>1 DEF WellFormed
<1>4. Untouched(content) /\ history = <<>>
  BY <1>1 DEF RestoreSnapshot, Untouched, InitialChain
<1>5. QED
  BY <1>2, <1>3, <1>4, BeginStep DEF RestoreSnapshot

LEMMA RecoverStep ==
    ASSUME IInv, NEW c \in Clients, Recover(c)
    PROVE  IInv'
<1>1. /\ lock' = c /\ stage' = "manifest" /\ file' = None /\ txn' = None
      /\ plan[c] # None /\ Inspection = plan[c] /\ c # None
      /\ UNCHANGED <<profile, history, marker, tmp, batch, retired, view, plan, acked, faults>>
  BY Distinct DEF Recover, Acquire, disk, archive, previews
<1>2. TypeOK'
  BY <1>1 DEF IInv, TypeOK, Stages
<1>3. ControlInv'
  BY <1>1 DEF IInv, TypeOK, ControlInv, PublishStages
<1>4. DiskInv' /\ AckInv'
  BY <1>1, DiskFrame, AckFrame DEF disk
<1>5. PublishInv'
  BY <1>1 DEF PublishInv, PublishStages
<1>6. ArchiveInv'
  BY <1>1, InspectionMeans
  DEF IInv, ArchiveInv, PlanHolds, Untouched, Planned, Serves
<1>7. QED
  BY <1>2, <1>3, <1>4, <1>5, <1>6 DEF IInv

-----------------------------------------------------------------------------
(***************************************************************************)
(* The steps of a publication.                                             *)
(***************************************************************************)
\* A complete plan: its last revision ends at the planned profile, and all its
\* revisions are in history.
LEMMA PlannedTip ==
    ASSUME TypeOK, NEW m \in Markers, WellFormed(m), Planned(m)
    PROVE  /\ Tip(history) = m.after
           /\ \A i \in 1..Len(m.records) : Has(history, m.records[i])
<1>1. history \in Seq(Revisions) /\ m.records \in Seq(Revisions)
  BY DEF TypeOK, Markers
<1>2. CASE m.schema = "publish"
  <2>1. history # <<>> /\ history[Len(history)] = m.records[1] /\ Len(m.records) = 1
    BY <1>2 DEF Planned, WellFormed
  <2>2. Len(history) \in 1..Len(history)
    BY <1>1, <2>1
  <2>3. QED BY <1>2, <2>1, <2>2 DEF WellFormed, Tip, Has
<1>3. CASE m.schema # "publish"
  BY <1>1, <1>3 DEF Planned, WellFormed, Has
<1>4. QED BY <1>2, <1>3

LEMMA ContentTyped ==
    ASSUME IInv, stage \in PublishStages, stage # "unlink"
    PROVE  /\ Content \in Markers \cup Revisions \cup Registries
           /\ file = "revision" => NextRevision \in Revisions
<1>1. /\ txn \in Markers /\ file \in Temporaries /\ WellFormed(txn)
      /\ file = "revision" => Untouched(txn)
      /\ history \in Seq(Revisions) /\ txn.records \in Seq(Revisions)
      /\ txn.after \in Registries /\ txn.schema \in {"publish", "restore"}
  BY DEF IInv, TypeOK, ControlInv, PublishInv, Markers
<1>2. ASSUME file = "revision" PROVE NextRevision \in Revisions
  BY <1>1, <1>2 DEF NextRevision, Untouched, WellFormed
<1>3. QED
  BY <1>1, <1>2 DEF Content, Temporaries

LEMMA CreateTemporaryStep ==
    ASSUME IInv, NEW c \in Clients, CreateTemporary(c)
    PROVE  IInv'
<1>1. /\ lock = c /\ stage = "create" /\ stage' = "write" /\ file \in Temporaries
      /\ tmp' = [tmp EXCEPT ![file] = Torn]
      /\ UNCHANGED <<profile, history, marker, batch, retired, lock, file, txn, view, plan,
                     acked, faults>>
  BY DEF CreateTemporary, Continue, archive, previews, IInv, ControlInv, PublishStages
<1>2. TypeOK'
  BY <1>1 DEF IInv, TypeOK, Stages, Staged
<1>3. ControlInv'
  BY <1>1 DEF IInv, ControlInv, PublishStages, ArchiveStages
<1>4. DiskInv' /\ AckInv'
  BY <1>1, AckFrame DEF IInv, DiskInv, Untouched, Planned
<1>5. PublishInv'
  BY <1>1 DEF IInv, TypeOK, Staged, PublishInv, PublishStages, Untouched, Planned
<1>6. ArchiveInv'
  BY <1>1 DEF IInv, ArchiveInv, ArchiveStages
<1>7. QED
  BY <1>2, <1>3, <1>4, <1>5, <1>6 DEF IInv

LEMMA WriteTemporaryStep ==
    ASSUME IInv, NEW c \in Clients, WriteTemporary(c)
    PROVE  IInv'
<1>1. /\ lock = c /\ stage = "write" /\ stage' = "place" /\ file \in Temporaries
      /\ tmp' = [tmp EXCEPT ![file] = Content]
      /\ UNCHANGED <<profile, history, marker, batch, retired, lock, file, txn, view, plan,
                     acked, faults>>
  BY DEF WriteTemporary, Continue, archive, previews, IInv, ControlInv, PublishStages
<1>2. TypeOK'
  <2>1. Content \in Markers \cup Revisions \cup Registries
    BY <1>1, ContentTyped DEF PublishStages
  <2>2. tmp' \in Staged
    BY <1>1, <2>1 DEF IInv, TypeOK, Staged
  <2>3. QED BY <1>1, <2>2 DEF IInv, TypeOK, Stages
<1>3. ControlInv'
  BY <1>1 DEF IInv, ControlInv, PublishStages, ArchiveStages
<1>4. DiskInv' /\ AckInv'
  BY <1>1, AckFrame DEF IInv, DiskInv, Untouched, Planned
<1>5. PublishInv'
  BY <1>1 DEF IInv, TypeOK, Staged, PublishInv, PublishStages, Untouched, Planned
<1>6. ArchiveInv'
  BY <1>1 DEF IInv, ArchiveInv, ArchiveStages
<1>7. QED
  BY <1>2, <1>3, <1>4, <1>5, <1>6 DEF IInv

\* The next revision in place: history grows by one link of the marker's plan.
LEMMA RevisionPlaced ==
    ASSUME IInv, stage = "place", file = "revision",
           history' = Append(history, NextRevision),
           UNCHANGED <<profile, marker, txn, acked>>
    PROVE  /\ history' \in Seq(Revisions) /\ DiskInv' /\ AckInv'
           /\ txn.schema = "publish" => Planned(txn)'
           /\ txn.schema = "restore" => InitialChain(history', txn.records)
<1>1. /\ marker = txn /\ txn \in Markers /\ marker # None /\ profile = txn.before
      /\ WellFormed(txn) /\ Untouched(txn) /\ ChainValid(history)
      /\ history \in Seq(Revisions) /\ txn.records \in Seq(Revisions)
      /\ txn.schema \in {"publish", "restore"}
      /\ NextRevision \in Revisions
  BY ContentTyped, Distinct
  DEF IInv, TypeOK, ControlInv, DiskInv, PublishInv, PublishStages, Markers
<1>2. CASE txn.schema = "publish"
  <2>1. /\ NextRevision = txn.records[1] /\ NextRevision.prev = Tip(history)
        /\ ~Has(history, NextRevision)
    BY <1>1, <1>2 DEF NextRevision, Untouched, WellFormed
  <2>2. ChainValid(history')
    BY <1>1, <2>1, AppendChain
  <2>3. history' # <<>> /\ history'[Len(history')] = txn.records[1]
    BY <1>1, <2>1
  <2>4. DiskInv'
    BY <1>1, <1>2, <2>2, <2>3 DEF DiskInv, Planned
  <2>5. ASSUME NEW r \in acked PROVE Has(history', r)
    <3>1. Has(history, r)
      BY <1>1, <1>2 DEF IInv, AckInv, Committed
    <3>2. QED BY <1>1, <3>1 DEF Has
  <2>6. QED
    BY <1>1, <1>2, <2>3, <2>4, <2>5 DEF AckInv, Committed, Planned, IInv, TypeOK
<1>3. CASE txn.schema = "restore"
  <2>1. /\ ChainValid(txn.records) /\ InitialChain(history, txn.records)
        /\ Len(history) < Len(txn.records) /\ txn.before = None
        /\ NextRevision = txn.records[Len(history) + 1]
    BY <1>1, <1>3 DEF WellFormed, Untouched, NextRevision
  <2>2. /\ InitialChain(history', txn.records)
        /\ Len(history) + 1 = Len(txn.records) => history' = txn.records
    BY <1>1, <2>1, ExtendInitialChain
  <2>3. history' \in Seq(Revisions) /\ Len(history') = Len(history) + 1
    BY <1>1
  <2>4. DiskInv'
    <3>1. ChainValid(history')
      BY <1>1, <2>1, <2>2, <2>3, InitialChainValid
    <3>2. Untouched(marker)' \/ Planned(marker)'
      BY <1>1, <1>3, <2>1, <2>2, <2>3 DEF Planned, Untouched, InitialChain
    <3>3. QED
      BY <1>1, <3>1, <3>2 DEF DiskInv
  <2>5. acked = {}
    BY <1>1, <1>3, <2>1 DEF IInv, AckInv, Committed, Complete, Has
  <2>6. QED
    BY <1>1, <1>3, <2>2, <2>3, <2>4, <2>5 DEF AckInv
<1>4. QED BY <1>1, <1>2, <1>3

LEMMA ReplaceStep ==
    ASSUME IInv, NEW c \in Clients, Replace(c)
    PROVE  IInv'
<1>1. /\ lock = c /\ stage = "place" /\ file \in Temporaries /\ PutInPlace
      /\ txn \in Markers /\ txn.schema = "publish" /\ batch = None
      /\ tmp' = [tmp EXCEPT ![file] = None] /\ NoTemporaries'
      /\ UNCHANGED <<batch, retired, lock, txn, view, plan, acked, faults>>
  BY DEF Replace, FileDone, Continue, archive, previews, IInv, TypeOK, Staged, ControlInv,
         PublishInv, PublishStages, NoTemporaries
<1>2. CASE file = "transaction"
  <2>1. /\ marker' = txn /\ stage' = "create" /\ file' = "revision" /\ marker = None
        /\ WellFormed(txn) /\ Untouched(txn)
        /\ UNCHANGED <<profile, history>>
    BY <1>1, <1>2 DEF Replace, PutInPlace, FileDone, Continue, IInv, PublishInv, PublishStages
  <2>2. TypeOK'
    BY <1>1, <2>1 DEF IInv, TypeOK, Stages, Staged, Temporaries
  <2>3. ControlInv'
    BY <1>1, <2>1 DEF IInv, ControlInv, PublishStages, ArchiveStages, Temporaries
  <2>4. DiskInv'
    BY <1>1, <2>1 DEF IInv, DiskInv, Untouched
  <2>5. PublishInv'
    BY <1>1, <2>1 DEF PublishInv, PublishStages, NoTemporaries, Untouched
  <2>6. ArchiveInv'
    BY <1>1, <2>1 DEF ArchiveInv, ArchiveStages
  <2>7. AckInv'
    BY <1>1, <2>1 DEF IInv, AckInv, Committed
  <2>8. QED BY <2>2, <2>3, <2>4, <2>5, <2>6, <2>7 DEF IInv
<1>3. CASE file = "revision"
  <2>1. /\ history' = Append(history, NextRevision) /\ stage' = "create" /\ file' = "profile"
        /\ marker = txn /\ marker # None /\ WellFormed(txn) /\ profile = txn.before
        /\ UNCHANGED <<profile, marker>>
    BY <1>1, <1>3, Distinct
    DEF Replace, PutInPlace, FileDone, Continue, IInv, PublishInv, PublishStages
  <2>2. history' \in Seq(Revisions) /\ DiskInv' /\ AckInv' /\ Planned(txn)'
    BY <1>1, <1>3, <2>1, RevisionPlaced
  <2>3. TypeOK'
    BY <1>1, <2>1, <2>2 DEF IInv, TypeOK, Stages, Staged, Temporaries
  <2>4. ControlInv'
    BY <1>1, <2>1 DEF IInv, ControlInv, PublishStages, ArchiveStages, Temporaries
  <2>5. PublishInv'
    BY <1>1, <2>1, <2>2 DEF PublishInv, PublishStages, NoTemporaries
  <2>6. ArchiveInv'
    BY <1>1, <2>1 DEF ArchiveInv, ArchiveStages
  <2>7. QED BY <2>2, <2>3, <2>4, <2>5, <2>6 DEF IInv
<1>4. CASE file = "profile"
  <2>1. /\ profile' = txn.after /\ stage' = "unlink-marker" /\ file' = None
        /\ marker = txn /\ marker # None /\ WellFormed(txn) /\ Planned(txn)
        /\ UNCHANGED <<history, marker>>
    BY <1>1, <1>4, Distinct
    DEF Replace, PutInPlace, FileDone, Continue, IInv, PublishInv, PublishStages
  <2>2. TypeOK'
    BY <1>1, <2>1 DEF IInv, TypeOK, Stages, Staged, Temporaries, Markers
  <2>3. ControlInv'
    BY <1>1, <2>1 DEF IInv, ControlInv, PublishStages, ArchiveStages
  <2>4. DiskInv'
    BY <1>1, <2>1 DEF IInv, DiskInv, Planned
  <2>5. PublishInv'
    BY <1>1, <2>1 DEF PublishInv, PublishStages, Planned
  <2>6. ArchiveInv'
    BY <1>1, <2>1 DEF ArchiveInv, ArchiveStages
  <2>7. AckInv'
    BY <1>1, <2>1, AckFrame
  <2>8. QED BY <2>2, <2>3, <2>4, <2>5, <2>6, <2>7 DEF IInv
<1>5. QED
  BY <1>1, <1>2, <1>3, <1>4 DEF Temporaries

LEMMA ClonePlaceStep ==
    ASSUME IInv, NEW c \in Clients, ClonePlace(c)
    PROVE  IInv'
<1>1. /\ lock = c /\ stage = "place" /\ stage' = "unlink" /\ file \in Temporaries /\ PutInPlace
      /\ txn \in Markers /\ txn.schema = "restore" /\ WellFormed(txn) /\ batch = None
      /\ \A f \in Temporaries : f # file => tmp[f] = None
      /\ UNCHANGED <<tmp, batch, retired, lock, file, txn, view, plan, acked, faults>>
  BY DEF ClonePlace, Continue, archive, previews, IInv, ControlInv, PublishInv, PublishStages
<1>2. ControlInv'
  BY <1>1 DEF IInv, ControlInv, PublishStages, ArchiveStages
<1>3. CASE file = "transaction"
  <2>1. /\ marker' = txn /\ marker = None /\ history = <<>> /\ Untouched(txn)
        /\ UNCHANGED <<profile, history>>
    BY <1>1, <1>3 DEF PutInPlace, IInv, PublishInv, PublishStages
  <2>2. TypeOK'
    BY <1>1, <2>1 DEF IInv, TypeOK, Stages
  <2>3. DiskInv'
    BY <1>1, <2>1 DEF IInv, DiskInv, Untouched
  <2>4. PublishInv'
    BY <1>1, <1>3, <2>1 DEF PublishInv, PublishStages, Untouched
  <2>5. ArchiveInv'
    BY <1>1, <2>1 DEF ArchiveInv, ArchiveStages
  <2>6. AckInv'
    BY <1>1, <2>1 DEF IInv, AckInv, Committed, Complete
  <2>7. QED BY <1>2, <2>2, <2>3, <2>4, <2>5, <2>6 DEF IInv
<1>4. CASE file = "revision"
  <2>1. /\ history' = Append(history, NextRevision)
        /\ marker = txn /\ profile = txn.before
        /\ UNCHANGED <<profile, marker>>
    BY <1>1, <1>4 DEF PutInPlace, IInv, PublishInv, PublishStages
  <2>2. history' \in Seq(Revisions) /\ DiskInv' /\ AckInv' /\ InitialChain(history', txn.records)
    BY <1>1, <1>4, <2>1, RevisionPlaced
  <2>3. TypeOK'
    BY <1>1, <2>1, <2>2 DEF IInv, TypeOK, Stages
  <2>4. PublishInv'
    BY <1>1, <1>4, <2>1, <2>2 DEF PublishInv, PublishStages
  <2>5. ArchiveInv'
    BY <1>1, <2>1 DEF ArchiveInv, ArchiveStages
  <2>6. QED BY <1>2, <2>2, <2>3, <2>4, <2>5 DEF IInv
<1>5. CASE file = "profile"
  <2>1. /\ profile' = txn.after /\ marker = txn /\ marker # None /\ Planned(txn)
        /\ UNCHANGED <<history, marker>>
    BY <1>1, <1>5, Distinct DEF PutInPlace, IInv, PublishInv, PublishStages
  <2>2. TypeOK'
    BY <1>1, <2>1 DEF IInv, TypeOK, Stages, Markers
  <2>3. DiskInv'
    BY <1>1, <2>1 DEF IInv, DiskInv, Planned
  <2>4. PublishInv'
    BY <1>1, <1>5, <2>1 DEF PublishInv, PublishStages, Planned
  <2>5. ArchiveInv'
    BY <1>1, <2>1 DEF ArchiveInv, ArchiveStages
  <2>6. AckInv'
    BY <1>1, <2>1, AckFrame
  <2>7. QED BY <1>2, <2>2, <2>3, <2>4, <2>5, <2>6 DEF IInv
<1>6. QED
  BY <1>1, <1>3, <1>4, <1>5 DEF Temporaries

LEMMA UnlinkTemporaryStep ==
    ASSUME IInv, NEW c \in Clients, UnlinkTemporary(c)
    PROVE  IInv'
<1>1. /\ lock = c /\ stage = "unlink" /\ file \in Temporaries
      /\ txn \in Markers /\ txn.schema = "restore" /\ WellFormed(txn) /\ batch = None
      /\ marker = txn /\ marker # None
      /\ tmp' = [tmp EXCEPT ![file] = None] /\ NoTemporaries'
      /\ UNCHANGED <<profile, history, marker, batch, retired, lock, txn, view, plan, acked,
                     faults>>
  BY Distinct
  DEF UnlinkTemporary, FileDone, Continue, archive, previews, IInv, TypeOK, Staged, ControlInv,
      PublishInv, PublishStages, NoTemporaries, Temporaries
<1>2. history \in Seq(Revisions) /\ txn.records \in Seq(Revisions)
  BY <1>1 DEF IInv, TypeOK, Markers
<1>3. /\ stage' \in {"create", "inspect"}
      /\ stage' = "create" =>
            \/ file' = "revision" /\ Untouched(txn)
            \/ file' = "profile" /\ Planned(txn) /\ profile = txn.before
      /\ stage' = "inspect" => file' = None /\ Planned(txn) /\ profile = txn.after
  <2>1. CASE file = "transaction"
    BY <1>1, <2>1 DEF UnlinkTemporary, FileDone, Continue, IInv, PublishInv, PublishStages
  <2>2. CASE file = "revision"
    <3>1. InitialChain(history, txn.records) /\ profile = txn.before
      BY <1>1, <2>2 DEF IInv, PublishInv, PublishStages
    <3>2. CASE Len(history) < Len(txn.records)
      BY <1>1, <2>2, <3>1, <3>2 DEF UnlinkTemporary, FileDone, Continue, Untouched
    <3>3. CASE ~(Len(history) < Len(txn.records))
      <4>1. history = txn.records
        BY <1>2, <3>1, <3>3, WholeInitialChain
      <4>2. stage' = "create" /\ file' = "profile"
        BY <1>1, <2>2, <3>3 DEF UnlinkTemporary, FileDone, Continue
      <4>3. QED BY <1>1, <3>1, <4>1, <4>2 DEF Planned
    <3>4. QED BY <3>2, <3>3
  <2>3. CASE file = "profile"
    BY <1>1, <2>3 DEF UnlinkTemporary, FileDone, Continue, IInv, PublishInv, PublishStages
  <2>4. QED BY <1>1, <2>1, <2>2, <2>3 DEF Temporaries
<1>4. TypeOK'
  BY <1>1, <1>3 DEF IInv, TypeOK, Stages, Staged, Temporaries
<1>5. ControlInv'
  BY <1>1, <1>3 DEF IInv, ControlInv, PublishStages, ArchiveStages, Temporaries
<1>6. DiskInv' /\ AckInv'
  BY <1>1, AckFrame DEF IInv, DiskInv, Untouched, Planned
<1>7. PublishInv'
  BY <1>1, <1>3 DEF PublishInv, PublishStages, NoTemporaries, Untouched, Planned
<1>8. ArchiveInv'
  BY <1>1, <1>3 DEF ArchiveInv, ArchiveStages
<1>9. QED
  BY <1>4, <1>5, <1>6, <1>7, <1>8 DEF IInv

\* Revisions reported by a step are in history when no marker is left.
LEMMA AcknowledgeStep ==
    ASSUME IInv, NEW m \in Markers, Acknowledge(m), UNCHANGED history, marker' = None,
           \A i \in 1..Len(m.records) : Has(history, m.records[i])
    PROVE  AckInv' /\ acked' \subseteq Revisions
<1>1. m.records \in Seq(Revisions)
  BY DEF Markers
<1>2. ASSUME NEW r \in acked PROVE Has(history, r)
  BY <1>2 DEF IInv, AckInv, Committed, Has
<1>3. QED
  BY <1>1, <1>2 DEF Acknowledge, AckInv, Committed, IInv, TypeOK

LEMMA UnlinkMarkerStep ==
    ASSUME IInv, NEW c \in Clients, UnlinkMarker(c)
    PROVE  IInv'
<1>1. /\ stage = "unlink-marker" /\ txn \in Markers /\ WellFormed(txn) /\ Planned(txn)
      /\ profile = txn.after /\ batch = None
      /\ marker' = None /\ lock' = None /\ stage' = "idle" /\ file' = None /\ txn' = None
      /\ Acknowledge(txn)
      /\ UNCHANGED <<profile, history, tmp, batch, retired, view, plan, faults>>
  BY DEF UnlinkMarker, Release, archive, previews, IInv, ControlInv, PublishInv
<1>2. /\ Tip(history) = txn.after
      /\ \A i \in 1..Len(txn.records) : Has(history, txn.records[i])
  BY <1>1, PlannedTip DEF IInv
<1>3. AckInv' /\ acked' \subseteq Revisions
  BY <1>1, <1>2, AcknowledgeStep
<1>4. TypeOK'
  BY <1>1, <1>3 DEF IInv, TypeOK, Stages
<1>5. ControlInv'
  BY <1>1 DEF ControlInv, PublishStages, ArchiveStages
<1>6. DiskInv'
  BY <1>1, <1>2 DEF IInv, DiskInv
<1>7. PublishInv' /\ ArchiveInv'
  BY <1>1 DEF PublishInv, ArchiveInv, PublishStages, ArchiveStages
<1>8. QED
  BY <1>3, <1>4, <1>5, <1>6, <1>7 DEF IInv

LEMMA InspectRestoredStep ==
    ASSUME IInv, NEW c \in Clients, InspectRestored(c)
    PROVE  IInv'
<1>1. /\ lock = c /\ c # None /\ stage = "inspect" /\ stage' = "manifest" /\ file' = None
      /\ Inspection # None /\ plan' = [plan EXCEPT ![c] = Inspection]
      /\ UNCHANGED <<profile, history, marker, tmp, batch, retired, lock, txn, view, acked,
                     faults>>
  BY Distinct DEF InspectRestored, Continue, disk, archive
<1>2. Inspection \in Plans
  BY <1>1, InspectionTyped DEF IInv
<1>3. plan' \in [Clients -> Plans \cup {None}] /\ plan'[lock'] = Inspection
  BY <1>1, <1>2 DEF IInv, TypeOK
<1>4. TypeOK'
  BY <1>1, <1>3 DEF IInv, TypeOK, Stages
<1>5. ControlInv'
  BY <1>1, <1>2, <1>3 DEF IInv, ControlInv, PublishStages
<1>6. DiskInv' /\ AckInv'
  BY <1>1, DiskFrame, AckFrame DEF disk
<1>7. PublishInv'
  BY <1>1 DEF PublishInv, PublishStages
<1>8. ArchiveInv'
  BY <1>1, <1>3, InspectionMeans
  DEF IInv, ArchiveInv, PlanHolds, Untouched, Planned, Serves
<1>9. QED
  BY <1>4, <1>5, <1>6, <1>7, <1>8 DEF IInv

-----------------------------------------------------------------------------
(***************************************************************************)
(* The steps of a recovery.                                                *)
(***************************************************************************)
\* A step of the archive that changes only the pending batch.
LEMMA BatchStep ==
    ASSUME IInv, stage \in {"manifest", "candidate"}, stage' \in {stage, "move"},
           batch' \in Batches, retired < MaxBatches,
           stage' = "move" => stage = "manifest",
           stage' # "manifest" => batch'.manifest = "published",
           batch'.manifest # "empty" => Serves(batch'.action, plan[lock].action),
           stage = "candidate" => batch'.temps = batch.temps /\ batch'.action = batch.action,
           file' \in {file, None},
           UNCHANGED <<disk, retired, lock, txn, previews, acked, faults>>
    PROVE  IInv'
<1>1. /\ stage \in ArchiveStages /\ stage' \in {"manifest", "candidate", "move"}
      /\ stage' = "candidate" <=> stage = "candidate"
      /\ marker # None
      /\ UNCHANGED <<profile, history, marker, tmp, retired, lock, txn, view, plan, acked, faults>>
  BY DEF ArchiveStages, IInv, ArchiveInv, disk, previews
<1>2. TypeOK'
  BY <1>1 DEF IInv, TypeOK, Stages
<1>3. ControlInv'
  BY <1>1 DEF IInv, ControlInv, PublishStages, ArchiveStages
<1>4. DiskInv' /\ AckInv'
  BY <1>1, DiskFrame, AckFrame DEF disk
<1>5. PublishInv'
  BY <1>1 DEF PublishInv, PublishStages
<1>6. batch' # None
  BY NoBatch
<1>7. ArchiveInv'
  BY <1>1, <1>6
  DEF IInv, ArchiveInv, ArchiveStages, PlanHolds, Untouched, Planned, TemporariesMoved,
      RollsBackChain
<1>8. QED
  BY <1>2, <1>3, <1>4, <1>5, <1>7 DEF IInv

LEMMA OpenBatchStep ==
    ASSUME IInv, NEW c \in Clients, OpenBatch(c)
    PROVE  IInv'
<1>1. /\ stage = "manifest" /\ stage' = stage /\ retired < MaxBatches
      /\ batch' = NewBatch /\ batch'.manifest = "empty"
      /\ UNCHANGED <<disk, retired, lock, file, txn, previews, acked, faults>>
  BY DEF OpenBatch, Steady, holder, NewBatch
<1>2. batch' \in Batches
  BY <1>1 DEF NewBatch, Batches
<1>3. QED
  BY <1>1, <1>2, BatchStep

LEMMA StageManifestStep ==
    ASSUME IInv, NEW c \in Clients, StageManifest(c)
    PROVE  IInv'
<1>1. /\ lock = c /\ stage = "manifest" /\ stage' = stage /\ batch # None
      /\ UNCHANGED <<disk, retired, lock, file, txn, previews, acked, faults>>
  BY DEF StageManifest, Steady, holder
<1>2. /\ plan[c].action \in Actions /\ retired < MaxBatches /\ batch \in Batches
      /\ history \in Seq(Revisions)
  BY <1>1 DEF IInv, TypeOK, ControlInv, ArchiveInv, ArchiveStages, Plans
<1>3. CASE batch.manifest = "empty"
  <2>1. batch' = Prepared(plan[c].action, "torn")
    BY <1>3 DEF StageManifest
  <2>2. batch' \in Batches /\ batch'.action = plan[c].action
    BY <1>2, <2>1 DEF Prepared, Batches
  <2>3. QED BY <1>1, <1>2, <2>2, BatchStep DEF Serves
<1>4. CASE batch.manifest # "empty"
  <2>1. batch' = [batch EXCEPT !.manifest = "staged"]
    BY <1>4 DEF StageManifest
  <2>2. batch' \in Batches /\ batch'.action = batch.action
    BY <1>2, <2>1 DEF Batches
  <2>3. Serves(batch.action, plan[c].action)
    BY <1>1, <1>4 DEF IInv, ArchiveInv, ArchiveStages
  <2>4. QED BY <1>1, <1>2, <2>2, <2>3, BatchStep
<1>5. QED BY <1>3, <1>4

LEMMA PublishManifestStep ==
    ASSUME IInv, NEW c \in Clients, PublishManifest(c)
    PROVE  IInv'
<1>1. /\ lock = c /\ stage = "manifest" /\ stage' = "move" /\ batch # None
      /\ batch.manifest # "empty" /\ batch' = [batch EXCEPT !.manifest = "published"]
      /\ UNCHANGED <<disk, retired, lock, txn, previews, acked, faults>>
      /\ file' = None
  BY DEF PublishManifest, Steady, Continue
<1>2. /\ retired < MaxBatches /\ batch \in Batches /\ Serves(batch.action, plan[c].action)
  BY <1>1 DEF IInv, TypeOK, ArchiveInv, ArchiveStages
<1>3. /\ batch' \in Batches /\ batch'.action = batch.action /\ batch'.manifest = "published"
  BY <1>1, <1>2 DEF Batches
<1>4. QED BY <1>1, <1>2, <1>3, BatchStep

LEMMA StageCandidateStep ==
    ASSUME IInv, NEW c \in Clients, StageCandidate(c)
    PROVE  IInv'
<1>1. /\ lock = c /\ stage = "candidate" /\ stage' = stage
      /\ \/ batch' = [batch EXCEPT !.candidate = "torn"]
         \/ batch' = [batch EXCEPT !.candidate = "complete"]
      /\ UNCHANGED <<disk, retired, lock, file, txn, previews, acked, faults>>
  BY DEF StageCandidate, Steady, holder
<1>2. /\ retired < MaxBatches /\ batch \in Batches /\ batch.manifest = "published"
      /\ Serves(batch.action, plan[c].action)
  BY <1>1 DEF IInv, TypeOK, ArchiveInv, ArchiveStages
<1>3. /\ batch' \in Batches /\ batch'.action = batch.action /\ batch'.temps = batch.temps
      /\ batch'.manifest = "published"
  BY <1>1, <1>2 DEF Batches
<1>4. QED BY <1>1, <1>2, <1>3, BatchStep

LEMMA CloneCandidateStep ==
    ASSUME IInv, NEW c \in Clients, CloneCandidate(c)
    PROVE  IInv'
<1>1. /\ lock = c /\ stage = "candidate" /\ stage' = stage
      /\ batch' = [batch EXCEPT !.swap = TRUE]
      /\ UNCHANGED <<disk, retired, lock, file, txn, previews, acked, faults>>
  BY DEF CloneCandidate, Steady, holder
<1>2. /\ retired < MaxBatches /\ batch \in Batches /\ batch.manifest = "published"
      /\ Serves(batch.action, plan[c].action)
  BY <1>1 DEF IInv, TypeOK, ArchiveInv, ArchiveStages
<1>3. /\ batch' \in Batches /\ batch'.action = batch.action /\ batch'.temps = batch.temps
      /\ batch'.manifest = "published"
  BY <1>1, <1>2 DEF Batches
<1>4. QED BY <1>1, <1>2, <1>3, BatchStep

LEMMA MoveTemporaryStep ==
    ASSUME IInv, NEW c \in Clients, MoveTemporary(c)
    PROVE  IInv'
<1>1. /\ lock = c /\ stage = "move"
      /\ UNCHANGED <<profile, history, marker, batch, retired, lock, stage, file, txn, view,
                     plan, acked, faults>>
  BY DEF MoveTemporary, Steady, archive, holder, previews
<1>2. PICK f \in batch.temps : tmp' = [tmp EXCEPT ![f] = None]
  BY DEF MoveTemporary
<1>3. batch \in Batches
  BY <1>1 DEF IInv, TypeOK, ArchiveInv, ArchiveStages
<1>4. tmp' \in Staged
  BY <1>2, <1>3 DEF IInv, TypeOK, Staged, Batches
<1>5. TypeOK'
  BY <1>1, <1>4 DEF IInv, TypeOK
<1>6. ControlInv'
  BY <1>1 DEF IInv, ControlInv
<1>7. DiskInv' /\ AckInv'
  BY <1>1, AckFrame DEF IInv, DiskInv, Untouched, Planned
<1>8. PublishInv'
  BY <1>1 DEF PublishInv, PublishStages
<1>9. ArchiveInv'
  BY <1>1 DEF IInv, ArchiveInv, ArchiveStages, PlanHolds, Untouched, Planned
<1>10. QED
  BY <1>5, <1>6, <1>7, <1>8, <1>9 DEF IInv

LEMMA MoveRevisionStep ==
    ASSUME IInv, NEW c \in Clients, MoveRevision(c)
    PROVE  IInv'
<1>1. /\ lock = c /\ stage = "move" /\ marker.schema = "restore"
      /\ batch.action = "remove-untouched-marker" /\ history # <<>>
      /\ history' = SubSeq(history, 1, Len(history) - 1)
      /\ UNCHANGED <<profile, marker, tmp, batch, retired, lock, stage, file, txn, view, plan,
                     acked, faults>>
  BY DEF MoveRevision, RollsBackChain, Steady, archive, holder, previews
<1>2. /\ marker # None /\ marker \in Markers /\ history \in Seq(Revisions) /\ ChainValid(history)
      /\ plan[c].action = "remove-untouched-marker" /\ Untouched(marker) /\ WellFormed(marker)
      /\ marker.records \in Seq(Revisions)
  BY <1>1 DEF IInv, TypeOK, DiskInv, ArchiveInv, ArchiveStages, Serves, PlanHolds, Markers
<1>3. /\ history' \in Seq(Revisions) /\ Len(history') = Len(history) - 1
      /\ InitialChain(history', history) /\ ChainValid(history')
  BY <1>1, <1>2, FrontChain
<1>4. Untouched(marker)'
  <2>1. InitialChain(history, marker.records) /\ Len(history) < Len(marker.records)
    BY <1>1, <1>2 DEF Untouched
  <2>2. InitialChain(history', marker.records)
    BY <1>2, <1>3, <2>1, InitialChainTransitive
  <2>3. Len(history') < Len(marker.records)
    BY <1>2, <1>3, <2>1
  <2>4. QED BY <1>1, <1>2, <2>2, <2>3 DEF Untouched
<1>5. TypeOK'
  BY <1>1, <1>3 DEF IInv, TypeOK
<1>6. ControlInv'
  BY <1>1 DEF IInv, ControlInv
<1>7. DiskInv'
  BY <1>1, <1>2, <1>3, <1>4 DEF DiskInv
<1>8. PublishInv'
  BY <1>1 DEF PublishInv, PublishStages
<1>9. ArchiveInv'
  BY <1>1, <1>2, <1>4 DEF IInv, ArchiveInv, ArchiveStages, PlanHolds
<1>10. AckInv'
  BY <1>1, <1>2 DEF IInv, AckInv, Committed, Complete, Untouched, Has
<1>11. QED
  BY <1>5, <1>6, <1>7, <1>8, <1>9, <1>10 DEF IInv

LEMMA FilesMovedStep ==
    ASSUME IInv, NEW c \in Clients, FilesMoved(c)
    PROVE  IInv'
<1>1. /\ lock = c /\ stage = "move" /\ TemporariesMoved /\ (RollsBackChain => history = <<>>)
      /\ stage' = (IF plan[c].action = "publish-candidate" THEN "candidate" ELSE "seal")
      /\ file' = None
      /\ UNCHANGED <<profile, history, marker, tmp, batch, retired, lock, txn, view, plan, acked,
                     faults>>
  BY DEF FilesMoved, Continue, Steady, disk, archive, previews
<1>2. TypeOK'
  BY <1>1 DEF IInv, TypeOK, Stages
<1>3. ControlInv'
  BY <1>1 DEF IInv, ControlInv, PublishStages, ArchiveStages
<1>4. DiskInv' /\ AckInv'
  BY <1>1, DiskFrame, AckFrame DEF disk
<1>5. PublishInv'
  BY <1>1 DEF PublishInv, PublishStages
<1>6. ArchiveInv'
  BY <1>1
  DEF IInv, ArchiveInv, ArchiveStages, PlanHolds, Untouched, Planned, TemporariesMoved,
      RollsBackChain
<1>7. QED
  BY <1>2, <1>3, <1>4, <1>5, <1>6 DEF IInv

\* The candidate becomes the profile: CloneProfile and ReplaceProfile.
LEMMA CandidateStep ==
    ASSUME IInv, stage = "candidate", stage' = "seal", file' = None,
           profile' = plan[lock].marker.after,
           batch' \in Batches, batch'.temps = batch.temps, batch'.action = batch.action,
           batch'.manifest = batch.manifest,
           UNCHANGED <<history, marker, tmp, retired, lock, txn, previews, acked, faults>>
    PROVE  IInv'
<1>1. /\ plan[lock].marker = marker /\ marker # None /\ marker \in Markers
      /\ plan[lock].action = "publish-candidate" /\ Planned(marker) /\ WellFormed(marker)
      /\ profile' = marker.after /\ marker.after \in Registries
      /\ UNCHANGED <<history, marker, tmp, retired, lock, txn, view, plan, acked, faults>>
  BY DEF IInv, TypeOK, DiskInv, ArchiveInv, ArchiveStages, PlanHolds, Markers, previews
<1>2. TypeOK'
  BY <1>1 DEF IInv, TypeOK, Stages
<1>3. ControlInv'
  BY <1>1 DEF IInv, ControlInv, PublishStages, ArchiveStages
<1>4. DiskInv' /\ AckInv'
  BY <1>1, AckFrame DEF IInv, DiskInv, Planned
<1>5. PublishInv'
  BY DEF PublishInv, PublishStages
<1>6. ArchiveInv'
  BY <1>1, NoBatch
  DEF IInv, ArchiveInv, ArchiveStages, PlanHolds, Planned, TemporariesMoved, RollsBackChain
<1>7. QED
  BY <1>2, <1>3, <1>4, <1>5, <1>6 DEF IInv

LEMMA CloneProfileStep ==
    ASSUME IInv, NEW c \in Clients, CloneProfile(c)
    PROVE  IInv'
<1>1. /\ lock = c /\ stage = "candidate" /\ stage' = "seal" /\ file' = None
      /\ profile' = plan[c].marker.after
      /\ UNCHANGED <<history, marker, tmp, batch, retired, lock, txn, previews, acked, faults>>
  BY DEF CloneProfile, Continue, Steady, archive
<1>2. batch \in Batches
  BY <1>1 DEF IInv, TypeOK, ArchiveInv, ArchiveStages
<1>3. QED BY <1>1, <1>2, CandidateStep

LEMMA ReplaceProfileStep ==
    ASSUME IInv, NEW c \in Clients, ReplaceProfile(c)
    PROVE  IInv'
<1>1. /\ lock = c /\ stage = "candidate" /\ stage' = "seal" /\ file' = None
      /\ profile' = plan[c].marker.after /\ batch' = [batch EXCEPT !.swap = FALSE]
      /\ UNCHANGED <<history, marker, tmp, retired, lock, txn, previews, acked, faults>>
  BY DEF ReplaceProfile, Continue, Steady
<1>2. batch \in Batches
  BY <1>1 DEF IInv, TypeOK, ArchiveInv, ArchiveStages
<1>3. /\ batch' \in Batches /\ batch'.temps = batch.temps /\ batch'.action = batch.action
      /\ batch'.manifest = batch.manifest
  BY <1>1, <1>2 DEF Batches
<1>4. QED BY <1>1, <1>3, CandidateStep

\* Whatever the action was, the profile is the tip when the marker goes.
LEMMA SealedTip ==
    ASSUME IInv, stage = "seal"
    PROVE  /\ profile = Tip(history)
           /\ plan[lock].action # "remove-untouched-marker" =>
                 \A i \in 1..Len(marker.records) : Has(history, marker.records[i])
<1>1. /\ plan[lock].action \in Actions /\ marker \in Markers /\ WellFormed(marker)
      /\ PlanHolds(plan[lock].action, TRUE) /\ (RollsBackChain => history = <<>>)
      /\ Serves(batch.action, plan[lock].action) /\ TypeOK
  BY DEF IInv, TypeOK, ControlInv, DiskInv, ArchiveInv, ArchiveStages, Plans
<1>2. CASE plan[lock].action = "remove-untouched-marker"
  <2>1. Untouched(marker) /\ batch.action = "remove-untouched-marker"
    BY <1>1, <1>2 DEF PlanHolds, Serves
  <2>2. CASE marker.schema = "publish"
    BY <1>2, <2>1, <2>2 DEF Untouched
  <2>3. CASE marker.schema # "publish"
    BY <1>1, <1>2, <2>1, <2>3 DEF Untouched, WellFormed, RollsBackChain, Markers, Tip
  <2>4. QED BY <2>2, <2>3
<1>3. CASE plan[lock].action # "remove-untouched-marker"
  <2>1. Planned(marker) /\ profile = marker.after
    BY <1>1, <1>3 DEF PlanHolds, Actions
  <2>2. QED BY <1>1, <2>1, PlannedTip
<1>4. QED BY <1>2, <1>3

LEMMA RetireMarkerStep ==
    ASSUME IInv, NEW c \in Clients, RetireMarker(c)
    PROVE  IInv'
<1>1. /\ lock = c /\ stage = "seal" /\ stage' = "verify" /\ file' = None
      /\ marker' = None /\ batch' = None /\ retired' = retired + 1
      /\ UNCHANGED <<profile, history, tmp, lock, txn, view, plan, acked, faults>>
  BY DEF RetireMarker, Continue, Steady, previews
<1>2. /\ retired < MaxBatches /\ retired \in Nat /\ plan[c].marker = marker
  BY <1>1 DEF IInv, TypeOK, ArchiveInv, ArchiveStages
<1>3. TypeOK'
  <2>1. retired' \in 0..MaxBatches
    BY <1>1, <1>2, Bounds
  <2>2. QED BY <1>1, <2>1 DEF IInv, TypeOK, Stages
<1>4. ControlInv'
  BY <1>1 DEF IInv, ControlInv, PublishStages, ArchiveStages
<1>5. DiskInv'
  BY <1>1, SealedTip DEF IInv, DiskInv
<1>6. PublishInv'
  BY <1>1 DEF PublishInv, PublishStages
<1>7. ArchiveInv'
  BY <1>1, <1>2, SealedTip DEF ArchiveInv, ArchiveStages
<1>8. AckInv'
  BY <1>1 DEF IInv, AckInv, Committed, Has
<1>9. QED
  BY <1>3, <1>4, <1>5, <1>6, <1>7, <1>8 DEF IInv

-----------------------------------------------------------------------------
(***************************************************************************)
(* The end of a session, orderly or not.                                   *)
(***************************************************************************)
\* A holder lets go: nothing is in flight, so only the disk matters.
LEMMA ReleaseStep ==
    ASSUME IInv, Release, TypeOK', AckInv', marker # None \/ marker' = marker,
           UNCHANGED <<profile, history, marker, batch, retired>>
    PROVE  IInv'
<1>1. lock' = None /\ stage' = "idle"
  BY DEF Release
<1>2. ControlInv' /\ PublishInv' /\ ArchiveInv'
  BY <1>1 DEF IInv, ControlInv, PublishInv, ArchiveInv, PublishStages, ArchiveStages
<1>3. DiskInv'
  BY DEF IInv, DiskInv, Untouched, Planned
<1>4. QED
  BY <1>2, <1>3 DEF IInv

LEMMA ReportRecoveredStep ==
    ASSUME IInv, NEW c \in Clients, ReportRecovered(c)
    PROVE  IInv'
<1>1. /\ lock = c /\ stage = "verify" /\ Release /\ marker = None
      /\ plan[c] \in Plans
      /\ UNCHANGED <<profile, history, marker, tmp, batch, retired, view, plan, faults>>
  BY DEF ReportRecovered, disk, archive, previews, IInv, ControlInv, ArchiveInv
<1>2. AckInv' /\ acked' \subseteq Revisions
  <2>1. CASE plan[c].action = "remove-untouched-marker"
    BY <1>1, <2>1, AckFrame DEF ReportRecovered, IInv, TypeOK
  <2>2. CASE plan[c].action # "remove-untouched-marker"
    <3>1. Acknowledge(plan[c].marker) /\ plan[c].marker \in Markers
      BY <1>1, <2>2 DEF ReportRecovered, Plans
    <3>2. \A i \in 1..Len(plan[c].marker.records) : Has(history, plan[c].marker.records[i])
      BY <1>1, <2>2 DEF IInv, ArchiveInv
    <3>3. QED BY <1>1, <3>1, <3>2, AcknowledgeStep
  <2>3. QED BY <2>1, <2>2
<1>3. TypeOK'
  BY <1>1, <1>2 DEF IInv, TypeOK, Release, Stages
<1>4. QED
  BY <1>1, <1>2, <1>3, ReleaseStep

LEMMA RefuseBatchStep ==
    ASSUME IInv, NEW c \in Clients, RefuseBatch(c)
    PROVE  IInv'
<1>1. Release /\ UNCHANGED <<profile, history, marker, tmp, batch, retired, view, plan, acked, faults>>
  BY DEF RefuseBatch, disk, archive, previews
<1>2. TypeOK'
  BY <1>1 DEF IInv, TypeOK, Release, Stages
<1>3. QED
  BY <1>1, <1>2, AckFrame, ReleaseStep

LEMMA RaiseStep ==
    ASSUME IInv, NEW c \in Clients, Raise(c)
    PROVE  IInv'
<1>1. /\ Release /\ faults' = faults + 1
      /\ tmp' = IF Staging THEN [tmp EXCEPT ![file] = None] ELSE tmp
      /\ UNCHANGED <<profile, history, marker, batch, retired, view, plan, acked>>
  BY DEF Raise, archive, previews
<1>2. tmp' \in Staged
  BY <1>1 DEF IInv, TypeOK, Staged
<1>3. TypeOK'
  BY <1>1, <1>2 DEF IInv, TypeOK, Release, Stages
<1>4. QED
  BY <1>1, <1>3, AckFrame, ReleaseStep

LEMMA KillStep ==
    ASSUME IInv, NEW c \in Clients, Kill(c)
    PROVE  IInv'
<1>1. /\ Release /\ faults' = faults + 1
      /\ view' = [view EXCEPT ![c] = <<>>] /\ plan' = [plan EXCEPT ![c] = None]
      /\ UNCHANGED <<profile, history, marker, tmp, batch, retired, acked>>
  BY DEF Kill, disk, archive
<1>2. TypeOK'
  BY <1>1 DEF IInv, TypeOK, Release, Stages
<1>3. QED
  BY <1>1, <1>2, AckFrame, ReleaseStep

-----------------------------------------------------------------------------
(***************************************************************************)
(* The theorems.                                                           *)
(***************************************************************************)
LEMMA InitIInv == Init => IInv
<1>1. ASSUME Init PROVE TypeOK
  BY <1>1, Bounds DEF Init, TypeOK, Stages, Staged
<1>2. ASSUME Init PROVE ControlInv /\ DiskInv /\ PublishInv /\ ArchiveInv /\ AckInv
  BY <1>2
  DEF Init, ControlInv, DiskInv, PublishInv, ArchiveInv, AckInv, ChainValid, Tip,
      PublishStages, ArchiveStages
<1>3. QED
  BY <1>1, <1>2 DEF IInv

LEMMA StutterIInv == IInv /\ UNCHANGED vars => IInv'
<1> SUFFICES ASSUME IInv, UNCHANGED vars PROVE IInv'
  OBVIOUS
<1>1. UNCHANGED <<profile, history, marker, tmp, batch, retired, lock, stage, file, txn, view,
                  plan, acked, faults>>
  BY DEF vars, disk, archive, holder, previews
<1>2. TypeOK' /\ ControlInv'
  BY <1>1 DEF IInv, TypeOK, ControlInv
<1>3. DiskInv' /\ AckInv'
  BY <1>1, DiskFrame, AckFrame DEF disk
<1>4. PublishInv'
  BY <1>1 DEF IInv, PublishInv, NoTemporaries, Untouched, Planned
<1>5. ArchiveInv'
  BY <1>1 DEF IInv, ArchiveInv, PlanHolds, Untouched, Planned, TemporariesMoved, RollsBackChain
<1>6. QED
  BY <1>2, <1>3, <1>4, <1>5 DEF IInv

\* The invariant is inductive.
LEMMA NextIInv == IInv /\ [Next]_vars => IInv'
<1> SUFFICES ASSUME IInv, [Next]_vars PROVE IInv'
  OBVIOUS
<1>1. CASE UNCHANGED vars
  BY <1>1, StutterIInv
<1>2. CASE Next
  <2>1. PICK c \in Clients :
           Publishing(c) \/ Archiving(c) \/ Requests(c) \/ Raise(c) \/ Kill(c)
    BY <1>2 DEF Next
  <2>2. CASE Publishing(c)
    BY <2>2, CreateTemporaryStep, WriteTemporaryStep, ReplaceStep, ClonePlaceStep,
       UnlinkTemporaryStep, UnlinkMarkerStep, InspectRestoredStep
    DEF Publishing
  <2>3. CASE Archiving(c)
    BY <2>3, OpenBatchStep, StageManifestStep, PublishManifestStep, MoveTemporaryStep,
       MoveRevisionStep, FilesMovedStep, StageCandidateStep, CloneProfileStep,
       CloneCandidateStep, ReplaceProfileStep, RetireMarkerStep, ReportRecoveredStep,
       RefuseBatchStep
    DEF Archiving
  <2>4. CASE Requests(c)
    BY <2>4, PreviewStep, InspectRecoveryStep, RecoverStep, InitialiseStep, ChangeStep,
       RestoreSnapshotStep
    DEF Requests
  <2>5. CASE Raise(c) \/ Kill(c)
    BY <2>5, RaiseStep, KillStep
  <2>6. QED BY <2>1, <2>2, <2>3, <2>4, <2>5
<1>3. QED BY <1>1, <1>2

THEOREM InductiveInvariant == Spec => []IInv
BY InitIInv, NextIInv, PTL DEF Spec

\* Type correctness of the store, its lock and the clients' memory.
THEOREM StoreTypeOK == Spec => []TypeOK
<1>1. IInv => TypeOK
  BY DEF IInv
<1>2. QED BY <1>1, InductiveInvariant, PTL

\* Whatever publications, restores, crashes and recoveries happen, the revision
\* files form one chain: no change is lost and none is recorded twice.
THEOREM StoreHistoryIsChain == Spec => []HistoryIsChain
<1>1. IInv => HistoryIsChain
  BY DEF IInv, DiskInv, HistoryIsChain
<1>2. QED BY <1>1, InductiveInvariant, PTL

\* A store without a marker has the profile of its last revision.
THEOREM StoreProfileIsTip == Spec => []ProfileIsTip
<1>1. IInv => ProfileIsTip
  BY DEF IInv, DiskInv, ProfileIsTip
<1>2. QED BY <1>1, InductiveInvariant, PTL

\* A publisher puts its marker where there is none (_no_marker under the lock).
LEMMA MarkerPlacedOnce ==
    ASSUME IInv, stage = "place", PutInPlace, marker # None
    PROVE  marker' \in {marker, None}
BY DEF PutInPlace, IInv, PublishInv, PublishStages

\* No transaction starts over a pending one.
THEOREM StoreMarkerNotOverwritten == Spec => MarkerNotOverwritten
<1>1. ASSUME IInv, [Next]_vars, marker # None PROVE marker' \in {marker, None}
  <2>1. CASE UNCHANGED vars
    BY <2>1 DEF vars, disk
  <2>2. ASSUME NEW c \in Clients, Publishing(c) PROVE marker' \in {marker, None}
    BY <1>1, <2>2, MarkerPlacedOnce
    DEF Publishing, CreateTemporary, WriteTemporary, Replace, ClonePlace, UnlinkTemporary,
        UnlinkMarker, InspectRestored, disk
  <2>3. ASSUME NEW c \in Clients, Archiving(c) PROVE marker' \in {marker, None}
    BY <2>3
    DEF Archiving, OpenBatch, StageManifest, PublishManifest, MoveTemporary, MoveRevision,
        FilesMoved, StageCandidate, CloneProfile, CloneCandidate, ReplaceProfile, RetireMarker,
        ReportRecovered, RefuseBatch, disk
  <2>4. ASSUME NEW c \in Clients, Requests(c) \/ Raise(c) \/ Kill(c)
        PROVE  marker' \in {marker, None}
    BY <2>4
    DEF Requests, Preview, InspectRecovery, Recover, Initialise, Change, RestoreSnapshot, Raise,
        Kill, disk
  <2>5. QED BY <1>1, <2>1, <2>2, <2>3, <2>4 DEF Next
<1>2. QED
  BY <1>1, InductiveInvariant, PTL DEF Spec, MarkerNotOverwritten

\* The two steps that remove a marker leave nothing staged and the profile at the tip.
LEMMA MarkerRemoved ==
    ASSUME IInv, NEW c \in Clients, UnlinkMarker(c) \/ RetireMarker(c)
    PROVE  NoTemporaries' /\ profile' = Tip(history')
<1>1. CASE UnlinkMarker(c)
  <2>1. /\ NoTemporaries /\ txn \in Markers /\ WellFormed(txn) /\ Planned(txn) /\ TypeOK
        /\ profile = txn.after /\ UNCHANGED <<profile, history, tmp>>
    BY <1>1 DEF UnlinkMarker, IInv, ControlInv, PublishInv
  <2>2. QED BY <2>1, PlannedTip DEF NoTemporaries
<1>2. CASE RetireMarker(c)
  <2>1. /\ stage = "seal" /\ (\A f \in Temporaries : tmp[f] # None => f \in batch.temps)
        /\ UNCHANGED <<profile, history, tmp>>
    BY <1>2 DEF RetireMarker, Pending
  <2>2. \A f \in batch.temps : tmp[f] = None
    BY <2>1 DEF IInv, ArchiveInv, TemporariesMoved
  <2>3. QED BY <2>1, <2>2, SealedTip DEF NoTemporaries
<1>3. QED BY <1>1, <1>2

\* A marker goes last, from a store with one meaning.
THEOREM StoreMarkerLast == Spec => MarkerLast
<1>1. ASSUME IInv, [Next]_vars, marker # None, marker' = None
      PROVE  NoTemporaries' /\ profile' = Tip(history')
  <2>1. CASE UNCHANGED vars
    BY <1>1, <2>1 DEF vars, disk
  <2>2. ASSUME NEW c \in Clients, Publishing(c) PROVE UnlinkMarker(c)
    <3>1. ASSUME stage = "place", PutInPlace PROVE FALSE
      BY <1>1, <3>1, Distinct DEF PutInPlace, IInv, ControlInv, PublishStages
    <3>2. QED
      BY <1>1, <2>2, <3>1
      DEF Publishing, CreateTemporary, WriteTemporary, Replace, ClonePlace, UnlinkTemporary,
          InspectRestored, disk
  <2>3. ASSUME NEW c \in Clients, Archiving(c) PROVE RetireMarker(c)
    BY <1>1, <2>3
    DEF Archiving, OpenBatch, StageManifest, PublishManifest, MoveTemporary, MoveRevision,
        FilesMoved, StageCandidate, CloneProfile, CloneCandidate, ReplaceProfile,
        ReportRecovered, RefuseBatch, disk
  <2>4. ASSUME NEW c \in Clients, Requests(c) \/ Raise(c) \/ Kill(c) PROVE FALSE
    BY <1>1, <2>4
    DEF Requests, Preview, InspectRecovery, Recover, Initialise, Change, RestoreSnapshot, Raise,
        Kill, disk
  <2>5. QED BY <1>1, <2>1, <2>2, <2>3, <2>4, MarkerRemoved DEF Next
<1>2. QED
  BY <1>1, InductiveInvariant, PTL DEF Spec, MarkerLast

-----------------------------------------------------------------------------
(***************************************************************************)
(* The store implements ProfileRegister.                                   *)
(***************************************************************************)
\* A change in flight is based on what its client read, a restore on a backup.
ReadInv ==
    /\ stage \in {"create", "write", "place"} /\ txn.schema = "publish" /\ file # "profile" =>
          (history # <<>> => view[lock] # <<>> /\ Tip(view[lock]) = txn.before)
    /\ stage \in PublishStages /\ txn.schema = "restore" => txn.records \in Backups

LEMMA InitReadInv == Init => ReadInv
BY DEF Init, ReadInv, PublishStages

LEMMA NextReadInv == IInv /\ ReadInv /\ [Next]_vars => ReadInv'
<1> SUFFICES ASSUME IInv, ReadInv, [Next]_vars PROVE ReadInv'
  OBVIOUS
<1>1. CASE UNCHANGED vars
  BY <1>1 DEF ReadInv, vars, disk, holder, previews
<1>2. ASSUME NEW c \in Clients, Requests(c) PROVE ReadInv'
  <2>1. CASE Preview(c) \/ InspectRecovery(c) \/ Recover(c)
    BY <2>1
    DEF Preview, InspectRecovery, Recover, Acquire, ReadInv, PublishStages, IInv, ControlInv,
        disk, holder
  <2>2. ASSUME NEW after \in Registries, NEW stamp \in Stamps, Initialise(c, after, stamp)
        PROVE  ReadInv'
    BY <2>2 DEF Initialise, Acquire, PublishMarker, ReadInv, disk
  <2>3. ASSUME NEW after \in Registries, NEW stamp \in Stamps, NEW exact \in BOOLEAN,
               Change(c, after, stamp, exact)
        PROVE  ReadInv'
    BY <2>3 DEF Change, Acquire, PublishMarker, ReadInv, disk, previews
  <2>4. ASSUME NEW chain \in Backups, RestoreSnapshot(c, chain) PROVE ReadInv'
    BY <2>4 DEF RestoreSnapshot, Acquire, ReadInv, disk
  <2>5. QED BY <1>2, <2>1, <2>2, <2>3, <2>4 DEF Requests
<1>3. ASSUME NEW c \in Clients, Publishing(c) PROVE ReadInv'
  <2>1. CASE CreateTemporary(c) \/ WriteTemporary(c)
    BY <2>1 DEF CreateTemporary, WriteTemporary, Continue, ReadInv, PublishStages, previews
  <2>2. CASE Replace(c)
    BY <2>2 DEF Replace, PutInPlace, FileDone, Continue, ReadInv, PublishStages, previews
  <2>3. CASE ClonePlace(c)
    BY <2>3 DEF ClonePlace, Continue, ReadInv, PublishStages
  <2>4. CASE UnlinkTemporary(c)
    <3>1. stage = "unlink" /\ txn.schema = "restore" /\ txn' = txn
      BY <2>4 DEF UnlinkTemporary, FileDone, Continue, IInv, PublishInv, PublishStages
    <3>2. QED BY <3>1 DEF ReadInv, PublishStages
  <2>5. CASE UnlinkMarker(c) \/ InspectRestored(c)
    BY <2>5 DEF UnlinkMarker, InspectRestored, Release, Continue, ReadInv, PublishStages
  <2>6. QED BY <1>3, <2>1, <2>2, <2>3, <2>4, <2>5 DEF Publishing
<1>4. ASSUME NEW c \in Clients, Archiving(c) PROVE ReadInv'
  <2>1. stage' \notin PublishStages
    BY <1>4
    DEF Archiving, OpenBatch, StageManifest, PublishManifest, MoveTemporary, MoveRevision,
        FilesMoved, StageCandidate, CloneProfile, CloneCandidate, ReplaceProfile, RetireMarker,
        ReportRecovered, RefuseBatch, Continue, Release, holder, PublishStages
  <2>2. QED BY <2>1 DEF ReadInv, PublishStages
<1>5. ASSUME NEW c \in Clients, Raise(c) \/ Kill(c) PROVE ReadInv'
  BY <1>5 DEF Raise, Kill, Release, ReadInv, PublishStages
<1>6. QED BY <1>1, <1>2, <1>3, <1>4, <1>5 DEF Next

\* A complete plan is committed.
LEMMA PlannedCommitted ==
    ASSUME marker \in Markers, Planned(marker)
    PROVE  Committed = history
BY DEF Planned, Committed, Complete

\* A step that leaves the chain, the reads and the reports alone is invisible.
LEMMA Invisible ==
    ASSUME UNCHANGED <<Committed, view, acked>>
    PROVE  UNCHANGED Register!vars
BY DEF Register!vars

LEMMA SameCommitted ==
    ASSUME UNCHANGED <<history, marker>>
    PROVE  UNCHANGED Committed
BY DEF Committed, Complete

LEMMA RequestSimulated ==
    ASSUME IInv, NEW c \in Clients, Requests(c)
    PROVE  [Register!Next]_Register!vars
<1>1. UNCHANGED Committed /\ UNCHANGED acked
  BY SameCommitted
  DEF Requests, Preview, InspectRecovery, Recover, Initialise, Change, RestoreSnapshot, disk
<1>2. CASE Preview(c)
  <2>1. Committed = history /\ history # <<>> /\ view' = [view EXCEPT ![c] = history]
    BY <1>2 DEF Preview, CurrentChain, NothingPending, Committed
  <2>2. Register!Read(c)
    BY <1>1, <2>1 DEF Register!Read
  <2>3. QED BY <2>2 DEF Register!Next
<1>3. CASE ~Preview(c)
  <2>1. UNCHANGED view
    BY <1>3 DEF Requests, InspectRecovery, Recover, Initialise, Change, RestoreSnapshot, previews
  <2>2. QED BY <1>1, <2>1, Invisible
<1>4. QED BY <1>2, <1>3

\* Reporting the revisions of a committed plan.
LEMMA ReportSimulated ==
    ASSUME IInv, NEW m \in Markers, Acknowledge(m), UNCHANGED <<Committed, view>>,
           \A i \in 1..Len(m.records) : Has(Committed, m.records[i])
    PROVE  Register!Next
<1> DEFINE revisions == {m.records[i] : i \in 1..Len(m.records)}
<1>1. revisions \in SUBSET Revisions
  <2>1. m.records \in Seq(Revisions)
    BY DEF Markers
  <2>2. QED BY <2>1
<1>2. \A r \in revisions : Register!Logged(r)
  BY DEF Register!Logged, Has
<1>3. Register!Report(revisions)
  BY <1>2 DEF Register!Report, Acknowledge
<1>4. QED BY <1>1, <1>3 DEF Register!Next

LEMMA ReplaceSimulated ==
    ASSUME IInv, ReadInv, NEW c \in Clients, Replace(c)
    PROVE  [Register!Next]_Register!vars
<1>1. /\ lock = c /\ stage = "place" /\ txn \in Markers /\ txn.schema = "publish" /\ PutInPlace
      /\ file \in Temporaries /\ WellFormed(txn)
      /\ UNCHANGED <<txn, view, acked>>
  BY DEF Replace, FileDone, Continue, previews, IInv, ControlInv, PublishInv, PublishStages
<1>2. CASE file = "transaction"
  <2>1. UNCHANGED Committed
    BY <1>1, <1>2 DEF PutInPlace, Committed, IInv, PublishInv, PublishStages
  <2>2. QED BY <1>1, <2>1, Invisible
<1>3. CASE file = "profile"
  BY <1>1, <1>3, SameCommitted, Invisible DEF PutInPlace
<1>4. CASE file = "revision"
  <2>1. /\ marker = txn /\ marker # None /\ marker' = marker
        /\ history' = Append(history, NextRevision)
        /\ NextRevision = txn.records[1] /\ NextRevision \in Revisions
        /\ NextRevision.prev = Tip(history) /\ ~Has(history, NextRevision)
        /\ txn.before = Tip(history)
    BY <1>1, <1>4, Distinct, ContentTyped
    DEF PutInPlace, NextRevision, IInv, ControlInv, PublishInv, PublishStages, Untouched,
        WellFormed
  <2>2. Committed = history /\ Committed' = history'
    BY <1>1, <2>1 DEF Committed
  <2>3. history # <<>> => view[c] # <<>> /\ Tip(view[c]) = Tip(history)
    BY <1>1, <1>4, <2>1 DEF ReadInv
  <2>4. Register!CompareAndAppend(c, NextRevision)
    BY <1>1, <2>1, <2>2, <2>3 DEF Register!CompareAndAppend, Register!LogTip, Register!Logged, Tip, Has
  <2>5. QED BY <2>1, <2>4 DEF Register!Next
<1>5. QED BY <1>1, <1>2, <1>3, <1>4 DEF Temporaries

LEMMA ClonePlaceSimulated ==
    ASSUME IInv, ReadInv, NEW c \in Clients, ClonePlace(c)
    PROVE  [Register!Next]_Register!vars
<1>1. /\ stage = "place" /\ txn \in Markers /\ txn.schema = "restore" /\ PutInPlace
      /\ file \in Temporaries /\ WellFormed(txn) /\ txn.records \in Backups
      /\ UNCHANGED <<txn, view, acked>>
  BY DEF ClonePlace, Continue, previews, IInv, ControlInv, PublishInv, PublishStages, ReadInv
<1>2. CASE file = "transaction"
  <2>1. UNCHANGED Committed
    BY <1>1, <1>2 DEF PutInPlace, Committed, Complete, IInv, PublishInv, PublishStages
  <2>2. QED BY <1>1, <2>1, Invisible
<1>3. CASE file = "profile"
  BY <1>1, <1>3, SameCommitted, Invisible DEF PutInPlace
<1>4. CASE file = "revision"
  <2>1. /\ marker = txn /\ marker # None /\ marker' = marker
        /\ history' = Append(history, NextRevision)
        /\ Len(history) < Len(txn.records) /\ InitialChain(history, txn.records)
        /\ history \in Seq(Revisions) /\ txn.records \in Seq(Revisions)
        /\ NextRevision = txn.records[Len(history) + 1]
        /\ ChainValid(txn.records)
    BY <1>1, <1>4, Distinct
    DEF PutInPlace, NextRevision, IInv, TypeOK, PublishInv, PublishStages, Untouched,
        WellFormed, Markers
  <2>2. Committed = <<>>
    BY <1>1, <2>1 DEF Committed, Complete
  <2>3. Len(history') = Len(history) + 1
    BY <2>1
  <2>4. CASE Len(history) + 1 = Len(txn.records)
    <3>1. history' = txn.records
      BY <2>1, <2>4, ExtendInitialChain
    <3>2. Committed' = txn.records
      BY <1>1, <2>1, <3>1 DEF Committed, Complete
    <3>3. Register!Install(txn.records)
      BY <1>1, <2>2, <3>2 DEF Register!Install
    <3>4. QED BY <1>1, <3>3 DEF Register!Next
  <2>5. CASE Len(history) + 1 # Len(txn.records)
    <3>1. Committed' = <<>>
      BY <1>1, <2>1, <2>3, <2>5 DEF Committed, Complete
    <3>2. QED BY <1>1, <2>2, <3>1, Invisible
  <2>6. QED BY <2>4, <2>5
<1>5. QED BY <1>1, <1>2, <1>3, <1>4 DEF Temporaries

LEMMA PublishingSimulated ==
    ASSUME IInv, ReadInv, NEW c \in Clients, Publishing(c)
    PROVE  [Register!Next]_Register!vars
<1>1. CASE CreateTemporary(c) \/ WriteTemporary(c) \/ UnlinkTemporary(c) \/ InspectRestored(c)
  <2>1. UNCHANGED <<history, marker, view, acked>>
    BY <1>1 DEF CreateTemporary, WriteTemporary, UnlinkTemporary, InspectRestored, previews, disk
  <2>2. QED BY <2>1, SameCommitted, Invisible
<1>2. CASE UnlinkMarker(c)
  <2>1. /\ marker = txn /\ txn \in Markers /\ WellFormed(txn) /\ Planned(txn) /\ TypeOK
        /\ marker' = None /\ Acknowledge(txn) /\ UNCHANGED <<history, view>>
    BY <1>2 DEF UnlinkMarker, previews, IInv, ControlInv, PublishInv
  <2>2. Committed = history /\ Committed' = history
    BY <2>1, PlannedCommitted DEF Committed
  <2>3. \A i \in 1..Len(txn.records) : Has(Committed, txn.records[i])
    BY <2>1, <2>2, PlannedTip
  <2>4. QED BY <2>1, <2>2, <2>3, ReportSimulated
<1>3. QED BY <1>1, <1>2, ReplaceSimulated, ClonePlaceSimulated DEF Publishing

LEMMA ArchivingSimulated ==
    ASSUME IInv, NEW c \in Clients, Archiving(c)
    PROVE  [Register!Next]_Register!vars
<1>1. CASE MoveRevision(c)
  <2>1. /\ marker # None /\ marker.schema = "restore" /\ marker' = marker
        /\ history \in Seq(Revisions) /\ history # <<>>
        /\ history' = SubSeq(history, 1, Len(history) - 1)
        /\ Untouched(marker) /\ marker \in Markers
        /\ UNCHANGED <<view, acked>>
    BY <1>1
    DEF MoveRevision, RollsBackChain, Steady, previews, IInv, TypeOK, ArchiveInv, ArchiveStages,
        Serves, PlanHolds
  <2>2. Len(history') = Len(history) - 1 /\ Len(history) < Len(marker.records)
    BY <2>1, FrontFacts DEF Untouched
  <2>3. Committed = <<>> /\ Committed' = <<>>
    BY <2>1, <2>2 DEF Committed, Complete, Markers
  <2>4. QED BY <2>1, <2>3, Invisible
<1>2. CASE RetireMarker(c)
  <2>1. /\ stage = "seal" /\ marker' = None /\ UNCHANGED <<history, view, acked>>
        /\ plan[lock].action \in Actions /\ PlanHolds(plan[lock].action, TRUE)
        /\ marker \in Markers /\ marker # None /\ WellFormed(marker)
        /\ Serves(batch.action, plan[lock].action) /\ (RollsBackChain => history = <<>>)
    BY <1>2
    DEF RetireMarker, Steady, previews, IInv, TypeOK, ControlInv, DiskInv, ArchiveInv,
        ArchiveStages, Plans
  <2>2. Committed = history
    <3>1. CASE plan[lock].action = "remove-untouched-marker"
      BY <2>1, <3>1 DEF Serves, RollsBackChain, Committed
    <3>2. CASE plan[lock].action # "remove-untouched-marker"
      BY <2>1, <3>2, PlannedCommitted DEF PlanHolds, Actions
    <3>3. QED BY <3>1, <3>2
  <2>3. Committed' = history
    BY <2>1 DEF Committed
  <2>4. QED BY <2>1, <2>2, <2>3, Invisible
<1>3. CASE ReportRecovered(c)
  <2>1. /\ lock = c /\ stage = "verify" /\ marker = None /\ plan[c] \in Plans
        /\ UNCHANGED <<history, marker, view>>
    BY <1>3 DEF ReportRecovered, disk, previews, IInv, ControlInv, ArchiveInv
  <2>2. Committed = history /\ UNCHANGED Committed
    BY <2>1, SameCommitted DEF Committed
  <2>3. CASE plan[c].action = "remove-untouched-marker"
    BY <1>3, <2>1, <2>2, <2>3, Invisible DEF ReportRecovered
  <2>4. CASE plan[c].action # "remove-untouched-marker"
    <3>1. Acknowledge(plan[c].marker) /\ plan[c].marker \in Markers
      BY <1>3, <2>1, <2>4 DEF ReportRecovered, Plans
    <3>2. \A i \in 1..Len(plan[c].marker.records) : Has(Committed, plan[c].marker.records[i])
      BY <2>1, <2>2, <2>4 DEF IInv, ArchiveInv
    <3>3. QED BY <2>1, <2>2, <3>1, <3>2, ReportSimulated
  <2>5. QED BY <2>3, <2>4
<1>4. CASE ~(MoveRevision(c) \/ RetireMarker(c) \/ ReportRecovered(c))
  <2>1. UNCHANGED <<history, marker, view, acked>>
    BY <1>4
    DEF Archiving, OpenBatch, StageManifest, PublishManifest, MoveTemporary, FilesMoved,
        StageCandidate, CloneProfile, CloneCandidate, ReplaceProfile, RefuseBatch, Steady,
        previews, disk
  <2>2. QED BY <2>1, SameCommitted, Invisible
<1>5. QED BY <1>1, <1>2, <1>3, <1>4

LEMMA FaultSimulated ==
    ASSUME NEW c \in Clients, Raise(c) \/ Kill(c)
    PROVE  [Register!Next]_Register!vars
<1>1. CASE Raise(c)
  BY <1>1, SameCommitted, Invisible DEF Raise, previews
<1>2. CASE Kill(c)
  <2>1. UNCHANGED Committed
    BY <1>2, SameCommitted DEF Kill, disk
  <2>2. Register!Forget(c)
    BY <1>2, <2>1 DEF Kill, Register!Forget
  <2>3. QED BY <2>2 DEF Register!Next
<1>3. QED BY <1>1, <1>2

\* Each step of the store is one of the register, or invisible to its readers.
LEMMA StepSimulated == IInv /\ ReadInv /\ [Next]_vars => [Register!Next]_Register!vars
<1> SUFFICES ASSUME IInv, ReadInv, [Next]_vars PROVE [Register!Next]_Register!vars
  OBVIOUS
<1>1. CASE UNCHANGED vars
  BY <1>1, SameCommitted, Invisible DEF vars, disk, previews
<1>2. CASE Next
  BY <1>2, RequestSimulated, PublishingSimulated, ArchivingSimulated, FaultSimulated DEF Next
<1>3. QED BY <1>1, <1>2

\* Every behaviour of the store, crashes and recoveries included, is one of an
\* append-only log extended by compare-and-append: no update is lost, none is
\* applied to a registry its client had not read, none reported is undone.
THEOREM StoreImplementsRegister == Spec => ImplementsRegister
<1>1. Init => Register!Init
  BY DEF Init, Register!Init, Committed
<1>2. QED
  BY <1>1, StepSimulated, InitIInv, NextIInv, InitReadInv, NextReadInv, PTL
  DEF Spec, ImplementsRegister, Register!Spec

\* Seen through its marker the history only grows: no crash, recovery, restore
\* or later publication undoes or reorders a revision that was committed.
THEOREM StoreHistoryOnlyGrows == Spec => [][InitialChain(Committed, Committed')]_vars
<1>1. ASSUME IInv, ReadInv, [Next]_vars PROVE InitialChain(Committed, Committed')
  <2>1. Committed \in Seq(Revisions)
    BY <1>1 DEF IInv, TypeOK, Committed
  <2>2. CASE UNCHANGED Committed
    BY <2>1, <2>2 DEF InitialChain
  <2>3. CASE Committed = <<>> /\ Committed' \in Backups
    <3>1. Committed' \in Seq(Revisions)
      BY <2>3, BackupsAreChains
    <3>2. QED BY <2>3, <3>1 DEF InitialChain
  <2>4. CASE \E revision : Committed' = Append(Committed, revision)
    BY <2>1, <2>4 DEF InitialChain
  <2>5. QED
    BY <1>1, <2>2, <2>3, <2>4, StepSimulated
    DEF Register!Next, Register!Read, Register!Forget, Register!CompareAndAppend,
        Register!Install, Register!Report, Register!vars
<1>2. QED
  BY <1>1, InitIInv, NextIInv, InitReadInv, NextReadInv, PTL DEF Spec

\* A publication, restore or recovery that was reported as successful stays in
\* the history, whatever is killed and recovered afterwards.
THEOREM StoreReportedIsKept == Spec => [](\A revision \in acked : Has(Committed, revision))
<1>1. IInv => \A revision \in acked : Has(Committed, revision)
  BY DEF IInv, AckInv
<1>2. QED
  BY <1>1, InductiveInvariant, PTL

-----------------------------------------------------------------------------
(***************************************************************************)
(* What an interruption leaves (UnsafeOnlyIfTorn).  IInv says which mixture *)
(* of old and new a marker stands beside; it remains what is staged, and    *)
(* what a pending batch lists.                                              *)
(***************************************************************************)
Upcoming(m) ==
    {m.records[i] : i \in {n \in 1..Len(m.records) : n = Len(history) \/ n = Len(history) + 1}}

\* What the temporaries beside a marker hold.
WhatIsStaged(m) ==
    /\ tmp["transaction"] \in {None, m}
    /\ tmp["profile"] \in {None, Torn, m.after}
    /\ IF m.schema = "publish" THEN Planned(m) => tmp["revision"] = None
       ELSE tmp["revision"] \in {None, Torn} \cup Upcoming(m)

ResidueInv ==
    /\ stage = "write" => tmp[file] = Torn
    /\ stage = "place" => tmp[file] = Content
    /\ marker # None => WhatIsStaged(marker)
    /\ marker = None /\ stage \notin PublishStages => tmp["revision"] = None /\ tmp["profile"] = None

\* Until its manifest is published a batch is what _prepare made of the store.
AsPrepared ==
    /\ batch.temps = {f \in Temporaries : tmp[f] # None} /\ batch.ids = history
    /\ batch.candidate = "absent" /\ ~batch.swap

\* A batch lists what there was, and holds what is no longer there.
ManifestInv ==
    batch # None =>
      /\ batch.manifest \in {"torn", "staged"} => AsPrepared
      /\ batch.manifest = "published" => Pending(batch.action)
      /\ batch.manifest # "empty" =>
            /\ batch.action \in Actions
            /\ batch.action = "remove-untouched-marker" => Untouched(marker)
            /\ batch.action = "publish-candidate" =>
                  /\ Planned(marker)
                  /\ profile = marker.before \/ (profile = marker.after /\ batch.candidate = "complete")
            /\ batch.action = "clear-marker" => Planned(marker) /\ profile = marker.after
            /\ batch.candidate # "absent" => batch.action = "publish-candidate"
            /\ batch.swap => batch.candidate = "complete"

RInv == ResidueInv /\ ManifestInv

LEMMA ManifestFrame ==
    ASSUME RInv, UNCHANGED <<profile, history, marker, tmp, batch>>
    PROVE  ManifestInv'
BY DEF RInv, ManifestInv, AsPrepared, Pending, RollsBackChain, Untouched, Planned

LEMMA StagedFrame ==
    ASSUME NEW m, NEW f, tmp \in Staged, WhatIsStaged(m), UNCHANGED history,
           tmp' \in {tmp, [tmp EXCEPT ![f] = None]}
    PROVE  WhatIsStaged(m)'
<1>1. \A g \in Temporaries : tmp'[g] \in {tmp[g], None}
  BY DEF Staged
<1>2. tmp'["transaction"] \in {tmp["transaction"], None} /\ tmp'["profile"] \in {tmp["profile"], None}
      /\ tmp'["revision"] \in {tmp["revision"], None}
  BY <1>1 DEF Temporaries
<1>3. Planned(m)' = Planned(m) /\ Upcoming(m)' = Upcoming(m)
  BY DEF Planned, Upcoming
<1>4. QED
  BY <1>2, <1>3 DEF WhatIsStaged

\* Whoever does not write a temporary, or removes one, leaves less.
LEMMA ResidueFrame ==
    ASSUME IInv, RInv, stage' \notin {"write", "place"}, NEW f \in Temporaries \cup {None},
           tmp' \in {tmp, [tmp EXCEPT ![f] = None]}, UNCHANGED <<history, marker>>,
           stage \in PublishStages /\ marker = None => file = "transaction"
    PROVE  ResidueInv'
<1>1. marker # None => WhatIsStaged(marker)'
  BY StagedFrame DEF RInv, ResidueInv, IInv, TypeOK
<1>2. marker = None => tmp["revision"] = None /\ tmp["profile"] = None
  BY DEF RInv, ResidueInv, IInv, PublishInv, PublishStages, Temporaries
<1>3. marker = None => tmp'["revision"] = None /\ tmp'["profile"] = None
  BY <1>2 DEF IInv, TypeOK, Staged, Temporaries
<1>4. QED
  BY <1>1, <1>3 DEF ResidueInv, WhatIsStaged, Upcoming, Planned

LEMMA OnlyItsMarker ==
    ASSUME IInv, stage \in PublishStages, marker = None
    PROVE  file = "transaction"
BY Distinct DEF IInv, PublishInv, ControlInv, Temporaries

LEMMA LessIsLeft ==
    ASSUME IInv, RInv, stage' \notin {"write", "place"}, NEW f \in Temporaries \cup {None},
           tmp' = tmp \/ (tmp' = [tmp EXCEPT ![f] = None] /\ batch = None),
           UNCHANGED <<profile, history, marker, batch>>
    PROVE  RInv'
<1>1. ResidueInv'
  BY ResidueFrame, OnlyItsMarker
<1>2. ManifestInv'
  <2>1. CASE batch = None
    BY <2>1 DEF ManifestInv
  <2>2. CASE batch # None
    BY <2>2, ManifestFrame
  <2>3. QED BY <2>1, <2>2
<1>3. QED BY <1>1, <1>2 DEF RInv

\* Requests, the steps between two stages, and the ends of a session.
LEMMA QuietSteps ==
    ASSUME IInv, RInv, NEW c \in Clients,
           \/ Requests(c) \/ InspectRestored(c) \/ UnlinkTemporary(c) \/ FilesMoved(c)
           \/ ReportRecovered(c) \/ RefuseBatch(c) \/ Raise(c) \/ Kill(c)
    PROVE  RInv'
<1>1. c # None
  BY Distinct
<1>2. ASSUME Requests(c) PROVE RInv'
  <2>1. stage = "idle" /\ stage' \in {"idle", "create", "manifest"} /\ UNCHANGED <<disk, archive>>
    BY <1>2
    DEF Requests, Preview, InspectRecovery, Recover, Initialise, Change, RestoreSnapshot, Acquire, holder,
        IInv, ControlInv
  <2>2. QED BY <2>1, LessIsLeft DEF disk, archive
<1>3. ASSUME InspectRestored(c) \/ FilesMoved(c) \/ ReportRecovered(c) \/ RefuseBatch(c) \/ Kill(c) PROVE RInv'
  <2>1. stage' \in {"manifest", "candidate", "seal", "idle"} /\ UNCHANGED <<disk, archive>>
    BY <1>3 DEF InspectRestored, FilesMoved, ReportRecovered, RefuseBatch, Kill, Continue, Release
  <2>2. QED BY <2>1, LessIsLeft DEF disk, archive
<1>4. ASSUME UnlinkTemporary(c) PROVE RInv'
  <2>1. /\ stage = "unlink" /\ stage' \in {"create", "inspect", "unlink-marker"} /\ tmp' = [tmp EXCEPT ![file] = None]
        /\ UNCHANGED <<profile, history, marker, batch>>
    BY <1>4 DEF UnlinkTemporary, FileDone, Continue, archive
  <2>2. batch = None /\ file \in Temporaries
    BY <2>1 DEF IInv, PublishInv, ControlInv, PublishStages
  <2>3. QED BY <2>1, <2>2, LessIsLeft
<1>5. ASSUME Raise(c) PROVE RInv'
  <2>1. /\ stage' = "idle" /\ UNCHANGED <<profile, history, marker, batch>>
        /\ tmp' = IF Staging THEN [tmp EXCEPT ![file] = None] ELSE tmp
    BY <1>5 DEF Raise, Release, archive
  <2>2. Staging => batch = None /\ file \in Temporaries
    BY DEF Staging, IInv, PublishInv, ControlInv, PublishStages
  <2>3. QED BY <2>1, <2>2, LessIsLeft
<1>6. QED BY <1>2, <1>3, <1>4, <1>5

-----------------------------------------------------------------------------
(***************************************************************************)
(* A publication: a temporary is created, written and put in place.        *)
(***************************************************************************)
LEMMA NoManifest ==
    ASSUME IInv, stage \in PublishStages \cup {"unlink-marker"}, UNCHANGED batch
    PROVE  ManifestInv'
BY DEF IInv, PublishInv, ManifestInv

LEMMA CreateTemporaryResidue ==
    ASSUME IInv, RInv, NEW c \in Clients, CreateTemporary(c)
    PROVE  RInv'
<1>1. /\ stage = "create" /\ stage' = "write" /\ file' = file /\ tmp' = [tmp EXCEPT ![file] = Torn]
      /\ UNCHANGED <<profile, history, marker, batch>>
  BY DEF CreateTemporary, Continue, archive
<1>2. /\ file \in Temporaries /\ tmp \in Staged /\ \A f \in Temporaries : tmp[f] = None
      /\ file = "transaction" => marker = None
      /\ file = "revision" => marker = txn /\ Untouched(txn)
      /\ file = "profile" => marker = txn /\ Planned(txn)
  BY <1>1 DEF IInv, TypeOK, PublishInv, ControlInv, PublishStages
<1>3. marker # None => WhatIsStaged(marker)'
  <2>1. marker # None => file # "transaction"
    BY <1>2
  <2>2. CASE marker # None /\ marker.schema = "publish"
    <3>1. file = "revision" => ~Planned(marker)
      BY <1>2, <2>2 DEF Untouched, Planned, Has, IInv, TypeOK
    <3>2. Planned(marker)' = Planned(marker)
      BY <1>1 DEF Planned
    <3>3. QED BY <1>1, <1>2, <2>1, <2>2, <3>1, <3>2 DEF WhatIsStaged, Staged, Temporaries
  <2>3. CASE marker # None /\ marker.schema # "publish"
    BY <1>1, <1>2, <2>1, <2>3 DEF WhatIsStaged, Staged, Temporaries
  <2>4. QED BY <2>2, <2>3
<1>4. ResidueInv'
  BY <1>1, <1>2, <1>3 DEF ResidueInv, PublishStages, Staged, WhatIsStaged, Upcoming, Planned
<1>5. QED BY <1>1, <1>4, NoManifest DEF RInv, PublishStages

\* What is written is what is about to be put in place.
LEMMA WriteTemporaryResidue ==
    ASSUME IInv, RInv, NEW c \in Clients, WriteTemporary(c)
    PROVE  RInv'
<1>1. /\ stage = "write" /\ stage' = "place" /\ file' = file /\ txn' = txn
      /\ tmp' = [tmp EXCEPT ![file] = Content] /\ UNCHANGED <<profile, history, marker, batch>>
  BY DEF WriteTemporary, Continue, archive
<1>2. /\ file \in Temporaries /\ tmp \in Staged /\ txn \in Markers
      /\ \A f \in Temporaries : f # file => tmp[f] = None
      /\ file = "transaction" => marker = None
      /\ file = "revision" => marker = txn /\ Untouched(txn)
      /\ file = "profile" => marker = txn /\ Planned(txn)
  BY <1>1 DEF IInv, TypeOK, PublishInv, ControlInv, PublishStages
<1>3. tmp'[file] = Content /\ Content' = Content
  BY <1>1, <1>2 DEF Staged, Content, NextRevision
<1>4. marker # None => WhatIsStaged(marker)'
  <2>1. marker # None => file # "transaction"
    BY <1>2
  <2>2. \A f \in Temporaries : f # file => tmp'[f] = None
    BY <1>1, <1>2 DEF Staged
  <2>3. Planned(marker)' = Planned(marker) /\ Upcoming(marker)' = Upcoming(marker)
    BY <1>1 DEF Planned, Upcoming
  <2>4. CASE file = "profile"
    BY <1>1, <1>2, <1>3, <2>2, <2>4 DEF WhatIsStaged, Content, Temporaries
  <2>5. CASE file = "revision" /\ txn.schema = "publish"
    <3>1. ~Planned(marker)
      BY <1>2, <2>5 DEF Untouched, Planned, Has, IInv, TypeOK
    <3>2. QED BY <1>1, <1>2, <2>2, <2>3, <2>5, <3>1 DEF WhatIsStaged, Temporaries
  <2>6. CASE file = "revision" /\ txn.schema = "restore"
    <3>1. Len(history) + 1 \in 1..Len(txn.records)
      BY <1>2, <2>6 DEF Untouched, IInv, TypeOK, Markers
    <3>2. Content \in Upcoming(marker)
      BY <1>2, <2>6, <3>1 DEF Content, NextRevision, Upcoming
    <3>3. QED BY <1>1, <1>2, <1>3, <2>2, <2>3, <2>6, <3>2 DEF WhatIsStaged, Temporaries
  <2>7. QED BY <1>2, <2>1, <2>4, <2>5, <2>6 DEF Temporaries, Markers
<1>5. ResidueInv'
  BY <1>1, <1>3, <1>4 DEF ResidueInv, PublishStages, WhatIsStaged, Upcoming, Planned
<1>6. QED BY <1>1, <1>5, NoManifest DEF RInv, PublishStages

LEMMA ReplaceResidue ==
    ASSUME IInv, RInv, NEW c \in Clients, Replace(c)
    PROVE  RInv'
<1>1. /\ stage = "place" /\ txn.schema = "publish" /\ PutInPlace
      /\ tmp' = [tmp EXCEPT ![file] = None] /\ stage' \in {"create", "inspect", "unlink-marker"}
      /\ UNCHANGED <<batch, txn>>
  BY DEF Replace, FileDone, Continue, archive
<1>2. /\ file \in Temporaries /\ tmp \in Staged /\ \A f \in Temporaries : f # file => tmp[f] = None
      /\ file # "transaction" => marker = txn
  BY <1>1 DEF IInv, TypeOK, PublishInv, ControlInv, PublishStages, Temporaries
<1>3. \A f \in Temporaries : tmp'[f] = None
  BY <1>1, <1>2 DEF Staged
<1>4. marker' = txn
  BY <1>1, <1>2 DEF PutInPlace
<1>5. WhatIsStaged(marker)'
  BY <1>1, <1>3, <1>4 DEF WhatIsStaged, Temporaries
<1>6. txn # None
  BY <1>1, Distinct DEF IInv, ControlInv, PublishStages
<1>7. ResidueInv'
  BY <1>1, <1>4, <1>5, <1>6 DEF ResidueInv, WhatIsStaged, Upcoming, Planned
<1>8. QED BY <1>1, <1>7, NoManifest DEF RInv, PublishStages

\* A clone leaves its temporary beside what it was cloned to.
LEMMA ClonePlaceResidue ==
    ASSUME IInv, RInv, NEW c \in Clients, ClonePlace(c)
    PROVE  RInv'
<1>1. /\ stage = "place" /\ txn.schema = "restore" /\ PutInPlace
      /\ stage' = "unlink" /\ file' = file /\ UNCHANGED <<tmp, batch, txn>>
  BY DEF ClonePlace, Continue, archive
<1>2. /\ file \in Temporaries /\ tmp \in Staged /\ txn \in Markers /\ history \in Seq(Revisions)
      /\ \A f \in Temporaries : f # file => tmp[f] = None
      /\ file # "transaction" => marker = txn
      /\ file = "revision" => Untouched(txn)
      /\ tmp[file] = Content
  BY <1>1 DEF IInv, TypeOK, PublishInv, ControlInv, PublishStages, Temporaries, RInv, ResidueInv
<1>3. marker' = txn /\ txn # None
  BY <1>1, <1>2, Distinct DEF PutInPlace
<1>4. WhatIsStaged(txn)'
  <2>1. CASE file = "revision"
    <3>1. /\ Len(history) + 1 \in 1..Len(txn.records) /\ Len(history') = Len(history) + 1
      BY <1>1, <1>2, <2>1 DEF Untouched, PutInPlace, Markers
    <3>2. Content = txn.records[Len(history')]
      BY <1>1, <2>1, <3>1 DEF Content, NextRevision
    <3>3. Content \in Upcoming(txn)'
      BY <1>1, <3>1, <3>2 DEF Upcoming
    <3>4. QED BY <1>1, <1>2, <2>1, <3>3 DEF WhatIsStaged, Temporaries
  <2>2. CASE file # "revision"
    BY <1>1, <1>2, <2>2 DEF WhatIsStaged, Temporaries, Content
  <2>3. QED BY <2>1, <2>2
<1>5. ResidueInv'
  BY <1>1, <1>3, <1>4 DEF ResidueInv, WhatIsStaged, Upcoming, Planned
<1>6. QED BY <1>1, <1>5, NoManifest DEF RInv, PublishStages

LEMMA UnlinkMarkerResidue ==
    ASSUME IInv, RInv, NEW c \in Clients, UnlinkMarker(c)
    PROVE  RInv'
<1>1. stage = "unlink-marker" /\ stage' = "idle" /\ marker' = None /\ UNCHANGED <<tmp, batch>>
  BY DEF UnlinkMarker, Release, archive
<1>2. NoTemporaries
  BY <1>1 DEF IInv, PublishInv
<1>3. ResidueInv'
  BY <1>1, <1>2 DEF ResidueInv, NoTemporaries, Temporaries
<1>4. QED BY <1>1, <1>3, NoManifest DEF RInv

-----------------------------------------------------------------------------
(***************************************************************************)
(* A recovery: the batch is opened, written, filled and closed.            *)
(***************************************************************************)
LEMMA BatchResidue ==
    ASSUME IInv, RInv, stage \in ArchiveStages, stage' \in ArchiveStages, UNCHANGED disk, ManifestInv'
    PROVE  RInv'
<1>1. UNCHANGED <<profile, history, marker, tmp>> /\ marker # None
  BY DEF disk, IInv, ArchiveInv
<1>2. ResidueInv'
  BY <1>1, ResidueFrame DEF ArchiveStages, PublishStages
<1>3. QED BY <1>2 DEF RInv

LEMMA BatchTyped ==
    ASSUME IInv, batch # None
    PROVE  batch \in Batches /\ marker \in Markers /\ WellFormed(marker) /\ history \in Seq(Revisions) /\ tmp \in Staged
BY DEF IInv, TypeOK, ArchiveInv, DiskInv

LEMMA OpenBatchResidue ==
    ASSUME IInv, RInv, NEW c \in Clients, OpenBatch(c)
    PROVE  RInv'
<1>1. stage = "manifest" /\ stage' = "manifest" /\ batch' = NewBatch /\ UNCHANGED disk
  BY DEF OpenBatch, holder
<1>2. ManifestInv'
  BY <1>1 DEF ManifestInv, NewBatch
<1>3. QED BY <1>1, <1>2, BatchResidue DEF ArchiveStages

LEMMA StageManifestResidue ==
    ASSUME IInv, RInv, NEW c \in Clients, StageManifest(c)
    PROVE  RInv'
<1>1. /\ lock = c /\ stage = "manifest" /\ stage' = "manifest" /\ batch # None
      /\ UNCHANGED <<profile, history, marker, tmp>>
  BY DEF StageManifest, holder, disk
<1>2. plan[c].action \in Actions /\ PlanHolds(plan[c].action, FALSE) /\ Serves(plan[c].action, plan[c].action)
  BY <1>1 DEF IInv, ControlInv, ArchiveInv, ArchiveStages, Plans, Serves
<1>3. ManifestInv'
  <2>1. CASE batch.manifest = "empty"
    <3>1. batch' = Prepared(plan[c].action, "torn")
      BY <2>1 DEF StageManifest
    <3>2. /\ batch'.manifest = "torn" /\ batch'.action = plan[c].action
          /\ batch'.temps = {f \in Temporaries : tmp[f] # None} /\ batch'.ids = history
          /\ batch'.candidate = "absent" /\ ~batch'.swap
      BY <3>1 DEF Prepared
    <3>3. AsPrepared'
      BY <1>1, <3>2 DEF AsPrepared
    <3>4. QED BY <1>1, <1>2, <3>2, <3>3 DEF ManifestInv, PlanHolds, Untouched, Planned
  <2>2. CASE batch.manifest # "empty"
    <3>1. batch.manifest = "torn" /\ batch' = [batch EXCEPT !.manifest = "staged"]
      BY <2>2 DEF StageManifest
    <3>2. /\ batch'.manifest = "staged" /\ batch'.action = batch.action /\ batch'.temps = batch.temps
          /\ batch'.ids = batch.ids /\ batch'.candidate = batch.candidate /\ (batch'.swap <=> batch.swap)
      BY <1>1, <3>1, BatchTyped DEF Batches
    <3>3. AsPrepared'
      BY <1>1, <3>1, <3>2 DEF RInv, ManifestInv, AsPrepared
    <3>4. QED BY <1>1, <3>1, <3>2, <3>3 DEF RInv, ManifestInv, AsPrepared, Untouched, Planned
  <2>3. QED BY <2>1, <2>2
<1>4. QED BY <1>1, <1>3, BatchResidue DEF ArchiveStages, disk

LEMMA PublishManifestResidue ==
    ASSUME IInv, RInv, NEW c \in Clients, PublishManifest(c)
    PROVE  RInv'
<1>1. /\ stage = "manifest" /\ stage' = "move" /\ batch # None /\ batch.manifest \in {"staged", "published"}
      /\ batch' = [batch EXCEPT !.manifest = "published"]
      /\ UNCHANGED <<profile, history, marker, tmp>>
  BY DEF PublishManifest, Continue, disk
<1>2. /\ batch'.manifest = "published" /\ batch'.action = batch.action /\ batch'.temps = batch.temps
      /\ batch'.ids = batch.ids /\ batch'.candidate = batch.candidate /\ (batch'.swap <=> batch.swap)
  BY <1>1, BatchTyped DEF Batches
<1>3. Pending(batch.action)
  <2>1. CASE batch.manifest = "staged"
    <3>1. batch.temps = {f \in Temporaries : tmp[f] # None} /\ batch.ids = history
      BY <1>1, <2>1 DEF RInv, ManifestInv, AsPrepared
    <3>2. InitialChain(history, history)
      BY <1>1, BatchTyped DEF InitialChain
    <3>3. QED BY <3>1, <3>2 DEF Pending
  <2>2. CASE batch.manifest = "published"
    BY <1>1, <2>2 DEF RInv, ManifestInv
  <2>3. QED BY <1>1, <2>1, <2>2
<1>4. Pending(batch.action)'
  BY <1>1, <1>2, <1>3 DEF Pending, RollsBackChain
<1>5. ManifestInv'
  BY <1>1, <1>2, <1>4 DEF RInv, ManifestInv, Untouched, Planned
<1>6. QED BY <1>1, <1>5, BatchResidue DEF ArchiveStages, disk

\* The candidate is staged: nothing that a manifest lists changes.
LEMMA CandidateResidue ==
    ASSUME IInv, RInv, NEW c \in Clients, StageCandidate(c) \/ CloneCandidate(c)
    PROVE  RInv'
<1>1. /\ lock = c /\ stage = "candidate" /\ stage' = "candidate" /\ UNCHANGED <<profile, history, marker, tmp>>
      /\ \/ batch.candidate = "absent" /\ batch' = [batch EXCEPT !.candidate = "torn"]
         \/ batch.candidate = "torn" /\ batch' = [batch EXCEPT !.candidate = "complete"]
         \/ batch.candidate = "complete" /\ batch' = [batch EXCEPT !.swap = TRUE]
  BY DEF StageCandidate, CloneCandidate, holder, disk
<1>2. /\ batch # None /\ batch.manifest = "published" /\ Planned(marker) /\ profile = marker.before
      /\ batch.action = "publish-candidate"
  BY <1>1 DEF IInv, ArchiveInv, ArchiveStages, PlanHolds, Serves
<1>3. /\ batch'.manifest = "published" /\ batch'.action = batch.action /\ batch'.temps = batch.temps
      /\ batch'.ids = batch.ids
  BY <1>1, <1>2, BatchTyped DEF Batches
<1>4. batch'.swap => batch'.candidate = "complete"
  <2>1. batch.swap => batch.candidate = "complete"
    BY <1>2 DEF RInv, ManifestInv
  <2>2. QED BY <1>1, <1>2, <2>1, BatchTyped DEF Batches
<1>5. Pending(batch.action)
  BY <1>2 DEF RInv, ManifestInv
<1>6. Pending(batch.action)'
  BY <1>1, <1>3, <1>5 DEF Pending, RollsBackChain
<1>7. ManifestInv'
  BY <1>1, <1>2, <1>3, <1>4, <1>6 DEF ManifestInv, Planned, Actions
<1>8. QED BY <1>1, <1>7, BatchResidue DEF ArchiveStages, disk

LEMMA MoveTemporaryResidue ==
    ASSUME IInv, RInv, NEW c \in Clients, MoveTemporary(c)
    PROVE  RInv'
<1>1. /\ stage = "move" /\ stage' = "move" /\ UNCHANGED <<profile, history, marker, batch>>
  BY DEF MoveTemporary, archive, holder
<1>2. batch # None /\ batch.manifest = "published" /\ marker # None
  BY <1>1 DEF IInv, ArchiveInv, ArchiveStages
<1>3. PICK f \in batch.temps :
        /\ tmp[f] # None /\ \A g \in batch.temps : Order[g] < Order[f] => tmp[g] = None
        /\ tmp' = [tmp EXCEPT ![f] = None]
  BY DEF MoveTemporary
<1>4. f \in Temporaries /\ batch.temps \subseteq Temporaries /\ tmp \in Staged
  BY <1>2, BatchTyped DEF Batches
<1>5. ResidueInv'
  BY <1>1, <1>2, <1>3, <1>4, ResidueFrame
<1>6. Pending(batch.action)
  BY <1>2 DEF RInv, ManifestInv
<1>7. \A h \in Temporaries : tmp'[h] = IF h = f THEN None ELSE tmp[h]
  BY <1>3, <1>4 DEF Staged
<1>8. Pending(batch.action)'
  <2>1. ASSUME NEW h \in Temporaries, tmp'[h] # None
        PROVE  /\ h \in batch.temps /\ Len(history) = Len(batch.ids)
               /\ \A g \in batch.temps : Order[h] < Order[g] => tmp'[g] # None
    <3>1. h # f /\ tmp[h] # None
      BY <1>7, <2>1
    <3>2. h \in batch.temps /\ Len(history) = Len(batch.ids)
          /\ \A g \in batch.temps : Order[h] < Order[g] => tmp[g] # None
      BY <1>6, <3>1 DEF Pending
    <3>3. ~(Order[h] < Order[f])
      BY <1>3, <3>1, <3>2
    <3>4. QED BY <1>4, <1>7, <3>2, <3>3
  <2>2. QED BY <1>1, <1>6, <2>1 DEF Pending, RollsBackChain
<1>9. ManifestInv'
  BY <1>1, <1>2, <1>8 DEF RInv, ManifestInv, Untouched, Planned
<1>10. QED BY <1>5, <1>9 DEF RInv

\* Once all listed files have moved, there is no temporary at all.
LEMMA AllMoved ==
    ASSUME IInv, RInv, stage \in {"move", "candidate", "seal"}, TemporariesMoved
    PROVE  NoTemporaries /\ batch # None /\ batch.manifest = "published" /\ Pending(batch.action)
<1>1. batch # None /\ batch.manifest = "published"
  BY DEF IInv, ArchiveInv, ArchiveStages
<1>2. Pending(batch.action)
  BY <1>1 DEF RInv, ManifestInv
<1>3. QED BY <1>1, <1>2 DEF Pending, NoTemporaries, TemporariesMoved

LEMMA NoResidue ==
    ASSUME NoTemporaries, UNCHANGED tmp, stage' \notin {"write", "place"}
    PROVE  ResidueInv'
BY DEF NoTemporaries, ResidueInv, WhatIsStaged, Temporaries

LEMMA MoveRevisionResidue ==
    ASSUME IInv, RInv, NEW c \in Clients, MoveRevision(c)
    PROVE  RInv'
<1>1. /\ lock = c /\ stage = "move" /\ stage' = "move" /\ TemporariesMoved /\ RollsBackChain /\ history # <<>>
      /\ history' = SubSeq(history, 1, Len(history) - 1) /\ UNCHANGED <<profile, marker, tmp, batch>>
  BY DEF MoveRevision, archive, holder
<1>2. NoTemporaries /\ batch # None /\ batch.manifest = "published" /\ Pending(batch.action)
  BY <1>1, AllMoved
<1>3. /\ history \in Seq(Revisions) /\ ChainValid(history) /\ batch.ids \in Seq(Revisions)
      /\ marker.records \in Seq(Revisions) /\ marker.schema = "restore" /\ batch.action = "remove-untouched-marker"
  BY <1>1, <1>2, BatchTyped DEF RollsBackChain, Batches, Markers, IInv, DiskInv
<1>4. /\ history' \in Seq(Revisions) /\ Len(history') = Len(history) - 1 /\ InitialChain(history', history)
  BY <1>1, <1>3, FrontChain
<1>5. InitialChain(history', batch.ids)
  <2>1. InitialChain(history, batch.ids)
    BY <1>1, <1>2 DEF Pending
  <2>2. QED BY <1>3, <1>4, <2>1, InitialChainTransitive
<1>6. Pending(batch.action)'
  BY <1>1, <1>2, <1>5 DEF Pending, RollsBackChain, NoTemporaries
<1>7. Untouched(marker)'
  <2>1. Untouched(marker)
    BY <1>2, <1>3 DEF RInv, ManifestInv
  <2>2. InitialChain(history, marker.records) /\ Len(history) < Len(marker.records)
    BY <1>3, <2>1 DEF Untouched
  <2>3. InitialChain(history', marker.records)
    BY <1>3, <1>4, <2>2, InitialChainTransitive
  <2>4. Len(history') < Len(marker.records)
    BY <1>3, <1>4, <2>2
  <2>5. QED BY <1>1, <1>3, <2>1, <2>3, <2>4 DEF Untouched
<1>8. ManifestInv'
  BY <1>1, <1>2, <1>3, <1>6, <1>7 DEF RInv, ManifestInv
<1>9. ResidueInv'
  BY <1>1, <1>2, NoResidue
<1>10. QED BY <1>8, <1>9 DEF RInv

\* The profile becomes the candidate, which is complete.
LEMMA CandidatePublishedResidue ==
    ASSUME IInv, RInv, NEW c \in Clients, CloneProfile(c) \/ ReplaceProfile(c)
    PROVE  RInv'
<1>1. /\ lock = c /\ stage = "candidate" /\ stage' = "seal" /\ UNCHANGED <<history, marker, tmp>>
      /\ profile' = plan[c].marker.after
      /\ \/ batch.candidate = "complete" /\ batch' = batch
         \/ batch.swap /\ batch' = [batch EXCEPT !.swap = FALSE]
  BY DEF CloneProfile, ReplaceProfile, Continue, archive
<1>2. /\ plan[c].marker = marker /\ marker # None /\ batch # None /\ batch.manifest = "published"
      /\ Planned(marker) /\ batch.action = "publish-candidate" /\ TemporariesMoved
  BY <1>1 DEF IInv, ArchiveInv, ArchiveStages, PlanHolds, Serves
<1>3. batch.candidate = "complete"
  BY <1>1, <1>2 DEF RInv, ManifestInv
<1>4. /\ batch'.manifest = "published" /\ batch'.action = batch.action /\ batch'.temps = batch.temps
      /\ batch'.ids = batch.ids /\ batch'.candidate = "complete"
  BY <1>1, <1>2, <1>3, BatchTyped DEF Batches
<1>5. NoTemporaries /\ Pending(batch.action)
  BY <1>1, <1>2, AllMoved
<1>6. Pending(batch.action)'
  BY <1>1, <1>4, <1>5 DEF Pending, RollsBackChain
<1>7. ManifestInv'
  BY <1>1, <1>2, <1>4, <1>6 DEF ManifestInv, Planned, Actions
<1>8. ResidueInv'
  BY <1>1, <1>5, NoResidue
<1>9. QED BY <1>7, <1>8 DEF RInv

LEMMA RetireMarkerResidue ==
    ASSUME IInv, RInv, NEW c \in Clients, RetireMarker(c)
    PROVE  RInv'
<1>1. stage = "seal" /\ stage' = "verify" /\ batch' = None /\ UNCHANGED tmp
  BY DEF RetireMarker, Continue
<1>2. NoTemporaries
  BY <1>1, AllMoved DEF IInv, ArchiveInv, ArchiveStages
<1>3. QED BY <1>1, <1>2, NoResidue DEF RInv, ManifestInv

LEMMA InitRInv == Init => RInv
BY DEF Init, RInv, ResidueInv, ManifestInv, Temporaries

LEMMA NextRInv == IInv /\ RInv /\ [Next]_vars => RInv'
<1> SUFFICES ASSUME IInv, RInv, [Next]_vars PROVE RInv'
  OBVIOUS
<1>1. CASE UNCHANGED vars
  BY <1>1, ManifestFrame
  DEF vars, disk, archive, holder, RInv, ResidueInv, WhatIsStaged, Upcoming, Planned, Content, NextRevision
<1>2. ASSUME NEW c \in Clients, Publishing(c) PROVE RInv'
  BY <1>2, CreateTemporaryResidue, WriteTemporaryResidue, ReplaceResidue, ClonePlaceResidue,
     UnlinkMarkerResidue, QuietSteps
  DEF Publishing
<1>3. ASSUME NEW c \in Clients, Archiving(c) PROVE RInv'
  BY <1>3, OpenBatchResidue, StageManifestResidue, PublishManifestResidue, MoveTemporaryResidue,
     MoveRevisionResidue, CandidateResidue, CandidatePublishedResidue, RetireMarkerResidue, QuietSteps
  DEF Archiving
<1>4. ASSUME NEW c \in Clients, Requests(c) \/ Raise(c) \/ Kill(c) PROVE RInv'
  BY <1>4, QuietSteps
<1>5. QED BY <1>1, <1>2, <1>3, <1>4 DEF Next

\* The action an inspection announces is that of the mixture on the disk.
LEMMA MixtureIsAction ==
    ASSUME IInv, marker # None
    PROVE  /\ Untouched(marker) => ProfileAction = "remove-untouched-marker"
           /\ Planned(marker) /\ profile = marker.before => ProfileAction = "publish-candidate"
           /\ Planned(marker) /\ profile = marker.after => ProfileAction = "clear-marker"
<1>1. /\ marker \in Markers /\ WellFormed(marker) /\ history \in Seq(Revisions)
      /\ marker.records \in Seq(Revisions)
  BY DEF IInv, TypeOK, DiskInv, Markers
<1>2. marker.before # marker.after /\ marker.schema \in {"publish", "restore"}
  BY <1>1, Distinct DEF WellFormed, Markers
<1>3. Planned(marker) => Settled
  BY <1>1, <1>2 DEF Planned, Settled, Matching, Complete
<1>4. Untouched(marker) => ~Settled /\ profile = marker.before
  BY <1>1, <1>2 DEF Untouched, Settled, Matching, Complete, Has
<1>5. QED BY <1>2, <1>3, <1>4 DEF ProfileAction

LEMMA ChainIsPlanned ==
    ASSUME IInv, marker # None
    PROVE  ChainFits
<1>1. /\ marker \in Markers /\ WellFormed(marker) /\ ChainValid(history) /\ history \in Seq(Revisions)
      /\ Untouched(marker) \/ Planned(marker)
  BY DEF IInv, TypeOK, DiskInv, Markers
<1>2. marker.records \in Seq(Revisions) /\ marker.schema \in {"publish", "restore"}
  BY <1>1 DEF Markers
<1>3. CASE marker.schema = "publish"
  <2>1. CASE Planned(marker)
    BY <1>1, <1>3, <2>1 DEF Planned, ChainFits, Matching, PriorTip, WellFormed
  <2>2. CASE Untouched(marker)
    BY <1>1, <1>3, <2>2 DEF Untouched, ChainFits, Matching, PriorTip, Has
  <2>3. QED BY <1>1, <2>1, <2>2
<1>4. CASE marker.schema = "restore"
  <2>1. CASE Planned(marker)
    BY <1>1, <1>2, <1>4, <2>1 DEF Planned, ChainFits, Complete, InitialChain, WellFormed
  <2>2. CASE Untouched(marker)
    BY <1>1, <1>2, <1>4, <2>2 DEF Untouched, ChainFits, Complete
  <2>3. QED BY <1>1, <2>1, <2>2
<1>5. QED BY <1>2, <1>3, <1>4

\* Outside of a session, unless a file was torn, what is staged fits.
LEMMA StagedFits ==
    ASSUME IInv, RInv, marker # None, ~TornStaging
    PROVE  ResidueFits
<1>1. WhatIsStaged(marker) /\ tmp["profile"] # Torn /\ marker.schema \in {"publish", "restore"}
  BY DEF RInv, ResidueInv, TornStaging, IInv, TypeOK, Markers
<1>2. CASE marker.schema = "publish"
  <2>1. Untouched(marker) \/ Planned(marker)
    BY DEF IInv, DiskInv
  <2>2. Untouched(marker) => PublishResidueFits
    BY MixtureIsAction DEF PublishResidueFits
  <2>3. Planned(marker) => PublishResidueFits
    BY <1>1, <1>2 DEF WhatIsStaged, PublishResidueFits
  <2>4. QED BY <1>2, <2>1, <2>2, <2>3 DEF ResidueFits
<1>3. CASE marker.schema = "restore"
  <2>1. tmp["revision"] # Torn
    BY <1>3 DEF TornStaging
  <2>2. QED BY <1>1, <1>3, <2>1 DEF WhatIsStaged, ResidueFits, RestoreResidueFits, NextRecords, Upcoming
<1>4. QED BY <1>1, <1>2, <1>3

LEMMA SameBatch ==
    ASSUME NEW x \in Batches, NEW y \in Batches, x.manifest = y.manifest, x.action = y.action,
           x.temps = y.temps, x.ids = y.ids, x.candidate = y.candidate, x.swap <=> y.swap
    PROVE  x = y
BY DEF Batches

\* The pending batch, wherever it was interrupted, serves the action announced.
LEMMA BatchFits ==
    ASSUME IInv, RInv, marker # None, InspectState = ProfileAction
    PROVE  ArchiveAccepts(InspectState)
<1> SUFFICES ASSUME batch # None, batch.manifest # "empty" PROVE Loads(InspectState)
  BY DEF ArchiveAccepts, Loads
<1>1. batch \in Batches /\ batch.manifest \in {"torn", "staged", "published"} /\ batch.action \in Actions \cup {"none"}
  BY BatchTyped DEF Batches
<1>2. /\ \/ batch.action = InspectState
         \/ batch.action = "publish-candidate" /\ InspectState = "clear-marker" /\ batch.candidate = "complete"
      /\ batch.candidate = "torn" => InspectState = "publish-candidate"
  BY MixtureIsAction DEF RInv, ManifestInv, Actions
<1>3. CASE batch.manifest \in {"torn", "staged"}
  <2>1. AsPrepared
    BY <1>3 DEF RInv, ManifestInv
  <2>2. batch.action = InspectState /\ batch.action \in Actions
    BY <1>2, <1>3, <2>1 DEF AsPrepared, RInv, ManifestInv
  <2>3. batch = Prepared(batch.action, batch.manifest)
    <3>1. Prepared(batch.action, batch.manifest) \in Batches
      BY <1>1, <2>2, BatchTyped DEF Prepared, Batches
    <3>2. ~Prepared(batch.action, batch.manifest).swap
      BY DEF Prepared
    <3>3. /\ batch.manifest = Prepared(batch.action, batch.manifest).manifest
          /\ batch.action = Prepared(batch.action, batch.manifest).action
          /\ batch.temps = Prepared(batch.action, batch.manifest).temps
          /\ batch.ids = Prepared(batch.action, batch.manifest).ids
          /\ batch.candidate = Prepared(batch.action, batch.manifest).candidate
      BY <2>1 DEF Prepared, AsPrepared
    <3>4. QED BY <1>1, <2>1, <3>1, <3>2, <3>3, SameBatch DEF AsPrepared
  <2>4. QED BY <1>3, <2>2, <2>3 DEF Loads
<1>4. CASE batch.manifest = "published"
  <2>1. Pending(batch.action)
    BY <1>4 DEF RInv, ManifestInv
  <2>2. Pending(InspectState)
    BY <1>2, <2>1 DEF Pending
  <2>3. QED BY <1>2, <1>4, <2>2 DEF Loads
<1>5. QED BY <1>1, <1>3, <1>4

LEMMA UnsafeIsTorn == IInv /\ RInv => UnsafeOnlyIfTorn
<1> SUFFICES ASSUME IInv, RInv, lock = None, ~TornStaging
             PROVE  (InspectState = "clean" /\ batch = None) \/ Inspection # None
  BY DEF UnsafeOnlyIfTorn
<1>1. stage \notin PublishStages
  BY DEF IInv, ControlInv, PublishStages
<1>2. CASE marker = None
  <2>1. NoTemporaries
    BY <1>1, <1>2 DEF TornStaging, RInv, ResidueInv, NoTemporaries, Temporaries
  <2>2. batch = None /\ ChainValid(history) /\ profile = Tip(history)
    BY <1>2 DEF IInv, ArchiveInv, DiskInv
  <2>3. QED BY <1>2, <2>1, <2>2 DEF InspectState
<1>3. CASE marker # None
  <2>1. InspectState = ProfileAction
    BY <1>3, ChainIsPlanned, StagedFits DEF InspectState, IInv, DiskInv
  <2>2. InspectState \in Actions
    BY <1>3, <2>1, MixtureIsAction DEF Actions, IInv, DiskInv, Untouched
  <2>3. ArchiveAccepts(InspectState)
    BY <1>3, <2>1, BatchFits
  <2>4. Inspection = [action |-> InspectState, marker |-> marker, profile |-> profile,
            history |-> history, tmp |-> tmp, batch |-> batch, retired |-> retired]
    BY <2>2, <2>3 DEF Inspection
  <2>5. Inspection \in Plans
    BY <1>3, <2>2, <2>4 DEF IInv, TypeOK, Plans
  <2>6. QED BY <2>5, NoPlan
<1>4. QED BY <1>2, <1>3

\* Wherever a publication, a restore or a recovery is interrupted, the store it
\* leaves is clean or has a plan, unless a file was torn while it was staged.
THEOREM StoreUnsafeOnlyIfTorn == Spec => []UnsafeOnlyIfTorn
<1>1. Spec => [](IInv /\ RInv)
  BY InductiveInvariant, InitRInv, NextRInv, PTL DEF Spec
<1>2. QED BY <1>1, UnsafeIsTorn, PTL

=============================================================================
