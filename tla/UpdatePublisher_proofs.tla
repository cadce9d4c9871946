------------------------ MODULE UpdatePublisher_proofs ------------------------
(***************************************************************************)
(* Proofs about UpdatePublisher for any files, bytes, releases and bounds: *)
(* its state keeps its types, and one process, killed and repeated at any  *)
(* step, publishes its plans as a compare-and-swap of several files, puts  *)
(* everything back when it fails and leaves nothing staged behind.         *)
(***************************************************************************)
EXTENDS UpdatePublisher, TLAPS

Change == [before: Contents, after: Contents]

\* A plan the process is working on, or may undo, and a pending marker have files.
Active == {"check", "prepare", "mark", "replace", "verify", "clear"}
Restoring == {"restore", "clean", "unmark"}

HasFiles ==
    /\ marker # None => DOMAIN marker.before # {}
    /\ \A p \in Processes :
          /\ pc[p] \in Active \/ op[p].outcome = "published" => DOMAIN Plan(p) # {}
          /\ pc[p] \in (Active \ {"check"}) \cup Restoring => DOMAIN State(p).before # {}
          /\ pc[p] \in {"prepare", "replace"} => op[p].todo \subseteq DOMAIN Plan(p)
          /\ pc[p] = "restore" => op[p].todo \subseteq DOMAIN State(p).before

TInv == TypeOK /\ HasFiles

USE Parameters

-----------------------------------------------------------------------------
\* Functions on sets of paths are the plans and the recorded bytes.

LEMMA PlanShape ==
    ASSUME NEW x \in Plans
    PROVE  DOMAIN x \subseteq Paths /\ x \in [DOMAIN x -> Change]
BY DEF Plans, Change

LEMMA MakePlan ==
    ASSUME NEW S \in SUBSET Paths, NEW x \in [S -> Change]
    PROVE  x \in Plans
BY DEF Plans, Change

LEMMA BeforeShape ==
    ASSUME NEW s \in States
    PROVE  DOMAIN s.before \subseteq Paths /\ s.before \in [DOMAIN s.before -> Contents]
BY DEF States

LEMMA MakeState ==
    ASSUME NEW S \in SUBSET Paths, NEW b \in [S -> Contents], NEW t \in SUBSET Temps, NEW m \in BOOLEAN
    PROVE  [before |-> b, temps |-> t, made |-> m] \in States
BY DEF States

LEMMA NoStateType == NoFiles \in Plans /\ NoState \in States
<1>1. NoFiles \in [{} -> Change] /\ NoFiles \in [{} -> Contents]
  BY DEF NoFiles
<1>2. NoFiles \in Plans
  BY <1>1, MakePlan
<1>3. NoState \in States
  BY <1>1, MakeState DEF NoState
<1> QED
  BY <1>2, <1>3

-----------------------------------------------------------------------------
LEMMA InitTyped == Init => TInv
<1> SUFFICES ASSUME Init PROVE TInv
  OBVIOUS
<1>1. head \in Trees /\ tree \in Trees
  BY DEF Init
<1>2. op \in [Processes -> Ops]
  BY NoStateType DEF Init, Ops, Outcomes
<1>3. pc = [q \in Processes |-> "idle"] /\ \A q \in Processes : op[q].todo = {}
  BY DEF Init
<1>5. edits \in 0..MaxEdits /\ errors \in 0..MaxErrors /\ kills \in 0..MaxKills
  BY DEF Init
<1>6. TypeOK
  BY <1>1, <1>2, <1>3, <1>5 DEF Init, TypeOK, Handling
<1>4. HasFiles
  BY DEF Init, HasFiles, Active, Restoring
<1> QED
  BY <1>4, <1>6 DEF TInv

LEMMA EndTyped ==
    ASSUME TInv, NEW p \in Processes, NEW o \in Outcomes \ {"published"}, End(p, o),
           marker' = marker \/ (marker' # None => DOMAIN marker'.before # {})
    PROVE  /\ pc' \in [Processes -> Handling \cup
                  {"idle", "preview", "read", "check", "mark", "verify", "clear", "clean", "unmark"}]
           /\ op' \in [Processes -> Ops]
           /\ \A q \in Processes : op'[q].todo # {} <=> pc'[q] \in Handling
           /\ HasFiles'
<1>0. op \in [Processes -> Ops] /\ NoState \in States
  BY NoStateType DEF TInv, TypeOK
<1>1. op' \in [Processes -> Ops]
  BY <1>0 DEF Ops, End, Remember, Remember
<1>2. \A q \in Processes : op'[q].todo # {} <=> pc'[q] \in Handling
  BY DEF TInv, TypeOK, Ops, End, Remember, Goto, Handling
<1>3. HasFiles'
  BY DEF TInv, TypeOK, Ops, End, Remember, Goto, HasFiles, Active, Restoring, Plan, State
<1> QED
  BY <1>1, <1>2, <1>3 DEF TInv, TypeOK, End, Remember, Goto

LEMMA BeginRestoreTyped ==
    ASSUME TInv, NEW p \in Processes, NEW s \in States, NEW r \in BOOLEAN,
           DOMAIN s.before # {}, BeginRestore(p, s, r),
           marker' = marker \/ (marker' # None => DOMAIN marker'.before # {})
    PROVE  /\ pc' \in [Processes -> Handling \cup
                  {"idle", "preview", "read", "check", "mark", "verify", "clear", "clean", "unmark"}]
           /\ op' \in [Processes -> Ops]
           /\ \A q \in Processes : op'[q].todo # {} <=> pc'[q] \in Handling
           /\ HasFiles'
<1>1. DOMAIN s.before \in SUBSET Paths
  BY BeforeShape
<1>2. op' \in [Processes -> Ops]
  <2> DEFINE record == [op[p] EXCEPT !.state = s, !.todo = DOMAIN s.before,
                                     !.recovering = r, !.outcome = "running"]
  <2>1. op \in [Processes -> Ops]
    BY DEF TInv, TypeOK
  <2>2. record \in Ops
    BY <1>1, <2>1 DEF Ops, Outcomes
  <2>3. Remember(p, record)
    BY DEF BeginRestore
  <2> HIDE DEF record
  <2> QED
    BY <2>1, <2>2, <2>3 DEF Remember
<1>3. \A q \in Processes : op'[q].todo # {} <=> pc'[q] \in Handling
  BY DEF TInv, TypeOK, Ops, BeginRestore, Remember, Goto, Handling
<1>4. HasFiles'
  BY DEF TInv, TypeOK, Ops, BeginRestore, Remember, Goto, HasFiles, Active, Restoring, Plan, State
<1> QED
  BY <1>2, <1>3, <1>4 DEF TInv, TypeOK, BeginRestore, Remember, Goto, Handling

\* A step that only moves a process on.
LEMMA MoveTyped ==
    ASSUME TInv, NEW p \in Processes, NEW next \in Active \cup Restoring \cup {"preview", "read"},
           NEW record \in Ops, Goto(p, next), Remember(p, record),
           marker' = marker \/ (marker' # None => DOMAIN marker'.before # {}),
           record.todo # {} <=> next \in Handling,
           next \in Active \/ record.outcome = "published" => DOMAIN record.plan # {},
           next \in (Active \ {"check"}) \cup Restoring => DOMAIN record.state.before # {},
           next \in {"prepare", "replace"} => record.todo \subseteq DOMAIN record.plan,
           next = "restore" => record.todo \subseteq DOMAIN record.state.before
    PROVE  /\ pc' \in [Processes -> Handling \cup
                  {"idle", "preview", "read", "check", "mark", "verify", "clear", "clean", "unmark"}]
           /\ op' \in [Processes -> Ops]
           /\ \A q \in Processes : op'[q].todo # {} <=> pc'[q] \in Handling
           /\ HasFiles'
<1>1. op \in [Processes -> Ops]
  BY DEF TInv, TypeOK
<1>2. op' \in [Processes -> Ops] /\ op'[p] = record /\ \A q \in Processes \ {p} : op'[q] = op[q]
  BY <1>1 DEF Remember
<1>3. pc' \in [Processes -> Handling \cup
          {"idle", "preview", "read", "check", "mark", "verify", "clear", "clean", "unmark"}]
      /\ pc'[p] = next /\ \A q \in Processes \ {p} : pc'[q] = pc[q]
  BY DEF TInv, TypeOK, Goto, Handling, Active, Restoring
<1>4. HasFiles'
  BY <1>2, <1>3 DEF TInv, HasFiles, Plan, State
<1> QED
  BY <1>2, <1>3, <1>4 DEF TInv, TypeOK

LEMMA OpTyped ==
    ASSUME TInv, NEW p \in Processes
    PROVE  /\ op[p] \in Ops /\ Plan(p) \in Plans /\ State(p) \in States
           /\ op[p].todo \subseteq Paths
BY DEF TInv, TypeOK, Ops, Plan, State

-----------------------------------------------------------------------------
\* An update begins.

LEMMA UpdateTyped == ASSUME NEW p \in Processes, TInv, Update(p) PROVE TInv'
<1>1. CASE marker # None
  <2>1. marker \in States /\ DOMAIN marker.before # {}
    BY <1>1 DEF TInv, TypeOK, HasFiles
  <2> QED
    BY <1>1, <2>1, BeginRestoreTyped DEF TInv, TypeOK, Update, repository, counts
<1>2. CASE marker = None
  <2>1. [op[p] EXCEPT !.outcome = "running"] \in Ops
    BY OpTyped DEF Ops, Outcomes
  <2>2. op[p].todo = {}
    BY DEF TInv, TypeOK, Update, Handling
  <2> QED
    BY <1>2, <2>1, <2>2, MoveTyped, OpTyped
    DEF TInv, TypeOK, Update, repository, counts, Active, Restoring, Handling, Ops
<1> QED
  BY <1>1, <1>2

LEMMA UpdateExpectedTyped == ASSUME NEW p \in Processes, TInv, UpdateExpected(p) PROVE TInv'
<1>1. CASE marker # None
  BY <1>1, EndTyped DEF TInv, TypeOK, UpdateExpected, repository, counts, Outcomes
<1>2. CASE marker = None
  <2>1. [op[p] EXCEPT !.outcome = "running"] \in Ops
    BY OpTyped DEF Ops, Outcomes
  <2>2. op[p].todo = {}
    BY DEF TInv, TypeOK, UpdateExpected, Handling
  <2> QED
    BY <1>2, <2>1, <2>2, MoveTyped, OpTyped
    DEF TInv, TypeOK, UpdateExpected, repository, counts, Active, Restoring, Handling, Ops
<1> QED
  BY <1>1, <1>2

LEMMA PublishInverseTyped == ASSUME NEW p \in Processes, TInv, PublishInverse(p) PROVE TInv'
<1> DEFINE inverse == Inverse(Plan(p))
           record == [op[p] EXCEPT !.plan = inverse, !.outcome = "running"]
<1>1. DOMAIN Plan(p) \subseteq Paths /\ Plan(p) \in [DOMAIN Plan(p) -> Change]
  BY OpTyped, PlanShape
<1>2. inverse \in [DOMAIN Plan(p) -> Change]
  BY <1>1 DEF Inverse, Change
<1>3. inverse \in Plans
  BY <1>1, <1>2, MakePlan
<1>4. DOMAIN inverse # {}
  BY DEF TInv, HasFiles, PublishInverse, Inverse
<1>5. record \in Ops /\ record.plan = inverse /\ record.outcome = "running" /\ record.todo = op[p].todo
  <2> HIDE DEF inverse
  <2> QED
    BY <1>3, OpTyped DEF Ops, Outcomes
<1>6. op[p].todo = {}
  BY DEF TInv, TypeOK, PublishInverse, Handling
<1>7. Goto(p, "check") /\ Remember(p, record) /\ UNCHANGED <<repository, counts>>
  <2>1. record = [op[p] EXCEPT !.plan = Inverse(op[p].plan), !.outcome = "running"]
    BY DEF Plan
  <2> QED
    BY <2>1, OpTyped DEF PublishInverse, Ops
<1> HIDE DEF inverse, record
<1> QED
  BY <1>4, <1>5, <1>6, <1>7, MoveTyped
  DEF TInv, TypeOK, repository, counts, Active, Restoring, Handling

-----------------------------------------------------------------------------
\* It plans and checks.

LEMMA PreviewTyped == ASSUME NEW p \in Processes, TInv, Preview(p) PROVE TInv'
<1>1. op[p].todo = {}
  BY DEF TInv, TypeOK, Preview, Handling
<1>2. Remember(p, op[p])
  BY DEF TInv, TypeOK, Preview, Remember
<1> QED
  BY <1>1, <1>2, MoveTyped, OpTyped
  DEF TInv, TypeOK, HasFiles, Preview, Plan, State, repository, counts, Active, Restoring, Handling

LEMMA ReadTyped == ASSUME NEW p \in Processes, TInv, Read(p) PROVE TInv'
<1>1. PICK release \in Releases :
        IF tree = release THEN End(p, "current")
        ELSE Goto(p, "check") /\ Remember(p, [op[p] EXCEPT !.plan = Changes(release)])
  BY DEF Read
<1>2. CASE tree = release
  BY <1>1, <1>2, EndTyped DEF TInv, TypeOK, Read, repository, counts, Outcomes
<1>3. CASE tree # release
  <2> DEFINE changed == {g \in Paths : tree[g] # release[g]}
             record == [op[p] EXCEPT !.plan = Changes(release)]
  <2>1. tree \in [Paths -> Contents] /\ release \in [Paths -> Contents]
    BY DEF TInv, TypeOK, Trees, Contents
  <2>2. changed # {}
    BY <1>3, <2>1
  <2>3. Changes(release) \in [changed -> Change]
    BY <2>1 DEF Changes, Change
  <2>4. Changes(release) \in Plans /\ DOMAIN Changes(release) # {}
    BY <2>2, <2>3, MakePlan
  <2>5. record \in Ops /\ record.plan = Changes(release) /\ record.todo = op[p].todo
    BY <2>4, OpTyped DEF Ops
  <2>6. op[p].todo = {}
    BY DEF TInv, TypeOK, Read, Handling
  <2> HIDE DEF changed, record
  <2> QED
    BY <1>1, <1>3, <2>4, <2>5, <2>6, MoveTyped
    DEF TInv, TypeOK, Read, record, repository, counts, Active, Restoring, Handling
<1> QED
  BY <1>2, <1>3

LEMMA CheckTyped == ASSUME NEW p \in Processes, TInv, Check(p) PROVE TInv'
<1> DEFINE before == [f \in DOMAIN Plan(p) |-> Plan(p)[f].before]
           state == [before |-> before, temps |-> {}, made |-> FALSE]
<1>1. PICK n \in Names :
        Remember(p, [op[p] EXCEPT !.name = n, !.todo = DOMAIN Plan(p), !.state = state])
  BY DEF Check
<1> DEFINE record == [op[p] EXCEPT !.name = n, !.todo = DOMAIN Plan(p), !.state = state]
<1>2. DOMAIN Plan(p) \in SUBSET Paths /\ Plan(p) \in [DOMAIN Plan(p) -> Change]
  BY OpTyped, PlanShape
<1>3. before \in [DOMAIN Plan(p) -> Contents]
  BY <1>2 DEF Change
<1>4. state \in States
  BY <1>2, <1>3, MakeState
<1>5. DOMAIN Plan(p) # {} /\ DOMAIN state.before = DOMAIN Plan(p)
  BY DEF TInv, HasFiles, Check, Active
<1>6. record \in Ops /\ record.plan = Plan(p) /\ record.todo = DOMAIN Plan(p) /\ record.state = state
  <2> HIDE DEF state
  <2> QED
    BY <1>2, <1>4, OpTyped DEF Ops, Plan
<1>7. Goto(p, "prepare") /\ Remember(p, record) /\ UNCHANGED <<repository, counts>>
  BY <1>1 DEF Check
<1> HIDE DEF before, state, record
<1> QED
  BY <1>5, <1>6, <1>7, MoveTyped DEF TInv, TypeOK, repository, counts, Active, Restoring, Handling

LEMMA RefuseTyped == ASSUME NEW p \in Processes, TInv, Refuse(p) PROVE TInv'
BY EndTyped DEF TInv, TypeOK, Refuse, repository, counts, Outcomes

-----------------------------------------------------------------------------
\* It stages, publishes and clears.

LEMMA PrepareTyped == ASSUME NEW p \in Processes, TInv, Prepare(p) PROVE TInv'
<1>1. PICK f \in Paths :
        LET makes == f \in Nested /\ ~folder
            staged == IF Plan(p)[f].after = None THEN {} ELSE {<<op[p].name, f>>} IN
        /\ NextFile(p, f)
        /\ folder' = (folder \/ makes) /\ temps' = temps \cup staged
        /\ Remember(p, [op[p] EXCEPT !.todo = @ \ {f},
              !.state = [before |-> State(p).before, temps |-> State(p).temps \cup staged,
                         made |-> State(p).made \/ makes]])
        /\ Goto(p, IF op[p].todo = {f} THEN "mark" ELSE "prepare")
  BY DEF Prepare
<1> DEFINE staged == IF Plan(p)[f].after = None THEN {} ELSE {<<op[p].name, f>>}
           makes == f \in Nested /\ ~folder
           state == [before |-> State(p).before, temps |-> State(p).temps \cup staged,
                     made |-> State(p).made \/ makes]
           record == [op[p] EXCEPT !.todo = @ \ {f}, !.state = state]
           next == IF op[p].todo = {f} THEN "mark" ELSE "prepare"
<1>2. staged \subseteq Temps /\ makes \in BOOLEAN
  BY OpTyped DEF Ops, Temps, TInv, TypeOK
<1> HIDE DEF staged, makes
<1>3. State(p).before \in [DOMAIN State(p).before -> Contents] /\ DOMAIN State(p).before \in SUBSET Paths
      /\ State(p).temps \subseteq Temps /\ State(p).made \in BOOLEAN
  BY OpTyped, BeforeShape DEF States
<1>4. state \in States
  BY <1>2, <1>3, MakeState
<1>5. record \in Ops /\ record.plan = Plan(p) /\ record.todo = op[p].todo \ {f} /\ record.state = state
      /\ record.outcome = op[p].outcome
  <2> HIDE DEF state
  <2> QED
    BY <1>4, OpTyped DEF Ops, Plan
<1>6. DOMAIN state.before # {} /\ DOMAIN Plan(p) # {} /\ op[p].todo \subseteq DOMAIN Plan(p)
      /\ f \in op[p].todo
  BY <1>1 DEF TInv, HasFiles, Prepare, Active, NextFile
<1>7. Goto(p, next) /\ Remember(p, record) /\ folder' = (folder \/ makes) /\ temps' = temps \cup staged
      /\ UNCHANGED <<tree, head, stray, marker, counts>>
  BY <1>1 DEF Prepare, staged, makes
<1> HIDE DEF state, record
<1>8. next \in {"mark", "prepare"} /\ (record.todo # {} <=> next \in Handling)
  BY <1>5, <1>6 DEF Handling
<1> QED
  <2>1. folder' \in BOOLEAN /\ temps' \subseteq Temps
    BY <1>2, <1>7 DEF TInv, TypeOK
  <2> HIDE DEF next
  <2> QED
    BY <1>5, <1>6, <1>7, <1>8, <2>1, MoveTyped DEF TInv, TypeOK, counts, Active, Restoring

LEMMA CleanTyped ==
    ASSUME TInv, NEW state, CleanPrepared(state)
    PROVE  temps' \subseteq Temps /\ folder' \in BOOLEAN
BY DEF TInv, TypeOK, CleanPrepared

LEMMA FailsTyped ==
    ASSUME TInv, NEW must \in BOOLEAN, Fails(must)
    PROVE  edits' \in 0..MaxEdits /\ errors' \in 0..MaxErrors /\ kills' \in 0..MaxKills
BY DEF TInv, TypeOK, Fails

LEMMA PrepareFailsTyped == ASSUME NEW p \in Processes, TInv, PrepareFails(p) PROVE TInv'
<1> DEFINE must == \E f \in op[p].todo : NextFile(p, f) /\ ~Stageable(p, f)
<1>1. must \in BOOLEAN /\ Fails(must) /\ CleanPrepared(State(p)) /\ End(p, "failed")
      /\ UNCHANGED <<tree, head, stray, marker>>
  BY DEF PrepareFails
<1> HIDE DEF must
<1> QED
  BY <1>1, EndTyped, CleanTyped, FailsTyped DEF TInv, TypeOK, Outcomes

LEMMA MarkTyped == ASSUME NEW p \in Processes, TInv, Mark(p) PROVE TInv'
<1> DEFINE record == [op[p] EXCEPT !.todo = DOMAIN Plan(p)]
<1>1. DOMAIN Plan(p) # {} /\ DOMAIN State(p).before # {}
  BY DEF TInv, HasFiles, Mark, Active
<1>2. record \in Ops /\ record.plan = Plan(p) /\ record.todo = DOMAIN Plan(p) /\ record.state = State(p)
  BY OpTyped, PlanShape DEF Ops, Plan, State
<1>3. Goto(p, "replace") /\ Remember(p, record) /\ marker' = State(p)
      /\ UNCHANGED <<tree, head, folder, stray, temps, counts>>
  BY DEF Mark
<1> HIDE DEF record
<1> QED
  BY <1>1, <1>2, <1>3, MoveTyped, OpTyped DEF TInv, TypeOK, counts, Active, Handling

LEMMA MarkFailsTyped == ASSUME NEW p \in Processes, TInv, MarkFails(p) PROVE TInv'
<1>1. DOMAIN State(p).before # {} /\ State(p) \in States
  BY OpTyped DEF TInv, HasFiles, MarkFails, Active
<1>2. Fails(FALSE) /\ UNCHANGED <<tree, head, stray, marker>>
  BY DEF MarkFails
<1>3. CASE marker = None
  BY <1>2, <1>3, EndTyped, CleanTyped, FailsTyped DEF MarkFails, TInv, TypeOK, Outcomes
<1>4. CASE marker # None
  BY <1>1, <1>2, <1>4, BeginRestoreTyped, FailsTyped DEF MarkFails, TInv, TypeOK
<1> QED
  BY <1>3, <1>4

LEMMA HandledTyped ==
    ASSUME TInv, NEW p \in Processes, NEW f, NEW step \in Handling \ {"prepare"},
           NEW after \in {"verify", "clean"}, pc[p] = step, step = "replace" <=> after = "verify",
           NextFile(p, f), Handled(p, f, step, after), UNCHANGED marker
    PROVE  /\ pc' \in [Processes -> Handling \cup
                  {"idle", "preview", "read", "check", "mark", "verify", "clear", "clean", "unmark"}]
           /\ op' \in [Processes -> Ops]
           /\ \A q \in Processes : op'[q].todo # {} <=> pc'[q] \in Handling
           /\ HasFiles'
<1> DEFINE record == [op[p] EXCEPT !.todo = @ \ {f}]
           next == IF op[p].todo = {f} THEN after ELSE step
<1>1. record \in Ops /\ record.plan = Plan(p) /\ record.todo = op[p].todo \ {f} /\ record.state = State(p)
      /\ record.outcome = op[p].outcome
  BY OpTyped DEF Ops, Plan, State
<1>2. f \in op[p].todo /\ Goto(p, next) /\ Remember(p, record)
  BY DEF NextFile, Handled
<1>3. next \in Active \cup Restoring \cup {"preview", "read"} /\ (record.todo # {} <=> next \in Handling)
  BY <1>1, <1>2 DEF Active, Restoring, Handling
<1>4. /\ next \in Active \/ op[p].outcome = "published" => DOMAIN Plan(p) # {}
      /\ DOMAIN State(p).before # {}
      /\ next = "replace" => op[p].todo \subseteq DOMAIN Plan(p)
      /\ next = "restore" => op[p].todo \subseteq DOMAIN State(p).before
      /\ next # "prepare"
  BY DEF TInv, HasFiles, Active, Restoring, Handling
<1> HIDE DEF record, next
<1> QED
  BY <1>1, <1>2, <1>3, <1>4, MoveTyped

LEMMA TreeTyped ==
    ASSUME TInv, NEW f \in Paths, NEW c \in Contents, tree' = [tree EXCEPT ![f] = c]
    PROVE  tree' \in Trees
BY DEF TInv, TypeOK, Trees

LEMMA ReplaceTyped == ASSUME NEW p \in Processes, TInv, Replace(p) PROVE TInv'
<1>1. PICK f \in Paths :
        /\ NextFile(p, f) /\ tree' = [tree EXCEPT ![f] = Plan(p)[f].after]
        /\ temps' = temps \ {<<op[p].name, f>>} /\ Handled(p, f, "replace", "verify")
  BY DEF Replace
<1>2. tree' \in Trees
  <2>1. Plan(p)[f].after \in Contents \/ f \notin DOMAIN Plan(p)
    BY OpTyped, PlanShape DEF Change
  <2>2. f \in DOMAIN Plan(p)
    BY <1>1 DEF TInv, HasFiles, Replace, NextFile
  <2> QED
    BY <1>1, <2>1, <2>2, TreeTyped
<1> QED
  BY <1>1, <1>2, HandledTyped DEF TInv, TypeOK, Replace, counts, Handling

LEMMA VerifyTyped == ASSUME NEW p \in Processes, TInv, Verify(p) PROVE TInv'
<1>1. op[p].todo = {}
  BY DEF TInv, TypeOK, Verify, Handling
<1>2. Remember(p, op[p])
  BY DEF TInv, TypeOK, Verify, Remember
<1>3. DOMAIN Plan(p) # {} /\ DOMAIN State(p).before # {}
  BY DEF TInv, HasFiles, Verify, Active
<1> QED
  BY <1>1, <1>2, <1>3, MoveTyped, OpTyped
  DEF TInv, TypeOK, Verify, Plan, State, repository, counts, Active, Restoring, Handling

LEMMA PublishFailsTyped == ASSUME NEW p \in Processes, TInv, PublishFails(p) PROVE TInv'
<1> DEFINE must == \/ \E f \in op[p].todo : NextFile(p, f) /\ ~Replaceable(p, f)
                   \/ pc[p] = "verify" /\ ~Published(p)
<1>1. must \in BOOLEAN /\ Fails(must) /\ BeginRestore(p, State(p), FALSE) /\ UNCHANGED repository
  BY DEF PublishFails
<1>2. DOMAIN State(p).before # {} /\ State(p) \in States
  BY OpTyped DEF TInv, HasFiles, PublishFails, Active
<1> HIDE DEF must
<1> QED
  BY <1>1, <1>2, BeginRestoreTyped, FailsTyped DEF TInv, TypeOK, repository

LEMMA ClearTyped == ASSUME NEW p \in Processes, TInv, Clear(p) PROVE TInv'
<1> DEFINE record == [op[p] EXCEPT !.outcome = "published", !.todo = {}, !.state = NoState, !.recovering = FALSE]
<1>1. record \in Ops /\ record.plan = Plan(p) /\ record.todo = {}
  BY OpTyped, NoStateType DEF Ops, Outcomes, Plan
<1>2. Goto(p, "idle") /\ Remember(p, record) /\ marker' = None
      /\ UNCHANGED <<tree, head, folder, stray, temps, counts>>
  BY DEF Clear, End
<1>3. DOMAIN Plan(p) # {}
  BY DEF TInv, HasFiles, Clear, Active
<1> HIDE DEF record
<1>4. op' \in [Processes -> Ops] /\ op'[p] = record /\ \A q \in Processes \ {p} : op'[q] = op[q]
  BY <1>1, <1>2 DEF TInv, TypeOK, Remember
<1>5. HasFiles'
  BY <1>1, <1>2, <1>3, <1>4 DEF TInv, TypeOK, HasFiles, Goto, Plan, State, Active, Restoring
<1>6. TypeOK'
  BY <1>1, <1>2, <1>4 DEF TInv, TypeOK, Goto, Handling, counts
<1> QED
  BY <1>5, <1>6 DEF TInv

-----------------------------------------------------------------------------
\* It restores, or is killed.

LEMMA RestoreTyped == ASSUME NEW p \in Processes, TInv, Restore(p) PROVE TInv'
<1>1. PICK f \in Paths :
        /\ NextFile(p, f) /\ tree' = [tree EXCEPT ![f] = State(p).before[f]]
        /\ Handled(p, f, "restore", "clean")
  BY DEF Restore
<1>2. tree' \in Trees
  <2>1. f \in DOMAIN State(p).before
    BY <1>1 DEF TInv, HasFiles, Restore, NextFile
  <2>2. State(p).before[f] \in Contents
    BY <2>1, OpTyped, BeforeShape
  <2> QED
    BY <1>1, <2>2, TreeTyped
<1> QED
  BY <1>1, <1>2, HandledTyped DEF TInv, TypeOK, Restore, counts, Handling

LEMMA CleanStepTyped == ASSUME NEW p \in Processes, TInv, Clean(p) PROVE TInv'
<1>1. CleanPrepared(State(p)) /\ UNCHANGED <<tree, head, stray, marker, counts>>
  BY DEF Clean
<1>2. CASE State(p).made /\ folder'
  BY <1>1, <1>2, EndTyped, CleanTyped DEF Clean, TInv, TypeOK, Outcomes, counts
<1>3. CASE ~(State(p).made /\ folder')
  <2>1. Goto(p, "unmark") /\ Remember(p, op[p])
    BY <1>3 DEF Clean, TInv, TypeOK, Remember
  <2>2. op[p].todo = {} /\ DOMAIN State(p).before # {} /\ (op[p].outcome = "published" => DOMAIN Plan(p) # {})
    BY DEF TInv, TypeOK, HasFiles, Clean, Restoring, Handling
  <2> QED
    BY <1>1, <2>1, <2>2, MoveTyped, OpTyped, CleanTyped
    DEF TInv, TypeOK, Plan, State, counts, Active, Restoring, Handling
<1> QED
  BY <1>2, <1>3

LEMMA UnmarkTyped == ASSUME NEW p \in Processes, TInv, Unmark(p) PROVE TInv'
<1>1. marker' = None /\ UNCHANGED <<tree, head, folder, stray, temps, counts>>
  BY DEF Unmark
<1>2. CASE ~op[p].recovering
  BY <1>1, <1>2, EndTyped DEF Unmark, TInv, TypeOK, Outcomes, counts
<1>3. CASE op[p].recovering
  <2> DEFINE record == [op[p] EXCEPT !.state = NoState, !.recovering = FALSE]
  <2>1. record \in Ops /\ record.plan = Plan(p) /\ record.todo = op[p].todo /\ record.outcome = op[p].outcome
    BY OpTyped, NoStateType DEF Ops, Plan
  <2>2. op[p].todo = {} /\ (op[p].outcome = "published" => DOMAIN Plan(p) # {})
    BY DEF TInv, TypeOK, HasFiles, Unmark, Handling
  <2>3. Goto(p, "preview") /\ Remember(p, record)
    BY <1>3 DEF Unmark
  <2> HIDE DEF record
  <2> QED
    BY <1>1, <2>1, <2>2, <2>3, MoveTyped
    DEF TInv, TypeOK, counts, Active, Restoring, Handling
<1> QED
  BY <1>2, <1>3

LEMMA RestoreFailsTyped == ASSUME NEW p \in Processes, TInv, RestoreFails(p) PROVE TInv'
<1> DEFINE must == \E f \in op[p].todo : NextFile(p, f) /\ ~Restorable(p, f)
<1>1. must \in BOOLEAN /\ Fails(must) /\ End(p, "unrecovered") /\ UNCHANGED repository
  BY DEF RestoreFails
<1> HIDE DEF must
<1> QED
  BY <1>1, EndTyped, FailsTyped DEF TInv, TypeOK, Outcomes, repository

LEMMA KillTyped == ASSUME NEW p \in Processes, TInv, Kill(p) PROVE TInv'
<1>1. temps' \subseteq Temps
  BY DEF TInv, TypeOK, Kill, Temps
<1>2. kills' \in 0..MaxKills
  BY DEF TInv, TypeOK, Kill
<1> QED
  BY <1>1, <1>2, EndTyped DEF TInv, TypeOK, Kill, Outcomes

\* The author's steps.
LEMMA AuthorTyped == ASSUME TInv, (\E f \in Paths : Edit(f)) \/ EditFolder \/ Commit PROVE TInv'
<1>1. ASSUME NEW f \in Paths, Edit(f) PROVE TypeOK'
  <2>1. tree' \in Trees
    BY <1>1, TreeTyped DEF Edit
  <2> QED
    BY <1>1, <2>1 DEF TInv, TypeOK, Edit, Edited
<1>2. ASSUME EditFolder PROVE TypeOK'
  BY <1>2 DEF TInv, TypeOK, EditFolder, Edited
<1>3. ASSUME Commit PROVE TypeOK'
  BY <1>3 DEF TInv, TypeOK, Commit, counts
<1>4. UNCHANGED <<marker, pc, op>>
  BY DEF Edit, Edited, EditFolder, Commit
<1>5. HasFiles'
  BY <1>4 DEF TInv, HasFiles, Plan, State
<1> QED
  BY <1>1, <1>2, <1>3, <1>5 DEF TInv

-----------------------------------------------------------------------------
LEMMA StepTyped == ASSUME TInv, [Next]_vars PROVE TInv'
<1>1. ASSUME NEW p \in Processes, Begins(p) \/ Steps(p) \/ Kill(p) PROVE TInv'
  <2>1. CASE Begins(p)
    BY <2>1, UpdateTyped, UpdateExpectedTyped, PublishInverseTyped DEF Begins
  <2>2. CASE Steps(p)
    BY <2>2, PreviewTyped, ReadTyped, CheckTyped, RefuseTyped, PrepareTyped, PrepareFailsTyped,
       MarkTyped, MarkFailsTyped, ReplaceTyped, VerifyTyped, PublishFailsTyped, ClearTyped,
       RestoreTyped, CleanStepTyped, UnmarkTyped, RestoreFailsTyped DEF Steps
  <2> QED
    BY <1>1, <2>1, <2>2, KillTyped
<1>2. CASE UNCHANGED vars
  BY <1>2 DEF TInv, TypeOK, HasFiles, Plan, State, vars, repository, counts
<1> QED
  BY <1>1, <1>2, AuthorTyped DEF Next

\* Every variable keeps its kind of values, whatever is killed and edited, with
\* any number of processes.
THEOREM PublisherTypeOK == Spec => []TypeOK
<1>1. TInv => TypeOK
  BY DEF TInv
<1> QED
  BY <1>1, InitTyped, StepTyped, PTL DEF Spec

-----------------------------------------------------------------------------
\* One process at a time: what it knows about the tree and the marker.

Single == \A p, q \in Processes : p = q

Before(p) == [f \in DOMAIN Plan(p) |-> Plan(p)[f].before]
PutBack(p, files) == \A f \in files : tree[f] = State(p).before[f]

Knows(p) ==
    /\ pc[p] = "idle" <=> op[p].outcome # "running"
    /\ pc[p] \in {"prepare", "mark"} => marker = None
    /\ pc[p] \in Active \ {"check"} => State(p).before = Before(p)
    /\ pc[p] \in {"prepare", "mark"} => AsPlanned(p)
    /\ pc[p] \in {"replace", "verify", "clear"} \cup Restoring =>
          marker # None /\ marker.before = State(p).before
    /\ pc[p] = "clear" => Published(p)
    /\ pc[p] = "restore" => PutBack(p, DOMAIN State(p).before \ op[p].todo)
    /\ pc[p] \in {"clean", "unmark"} => PutBack(p, DOMAIN State(p).before)

IInv == TInv /\ \A p \in Processes : Knows(p)

LEMMA InitKnows == Init => IInv
BY InitTyped DEF Init, IInv, Knows, Active, Restoring

\* What an action leaves to a process that ends is all it has to know.
LEMMA EndKnows ==
    ASSUME TInv, NEW p \in Processes, NEW o \in Outcomes \ {"running"}, End(p, o)
    PROVE  Knows(p)'
BY DEF TInv, TypeOK, End, Goto, Remember, Knows, Active, Restoring, Ops

\* What the three ways to go on leave in memory.
LEMMA Remembers ==
    ASSUME TypeOK, NEW p \in Processes, NEW record, Remember(p, record)
    PROVE  op'[p] = record /\ \A q \in Processes \ {p} : op'[q] = op[q]
BY DEF TypeOK, Remember

LEMMA Goes ==
    ASSUME TypeOK, NEW p \in Processes, NEW next, Goto(p, next)
    PROVE  pc'[p] = next /\ \A q \in Processes \ {p} : pc'[q] = pc[q]
BY DEF TypeOK, Goto

LEMMA BeginsRestore ==
    ASSUME TInv, NEW p \in Processes, NEW s, NEW r, BeginRestore(p, s, r)
    PROVE  /\ pc'[p] = "restore" /\ op'[p].state = s /\ op'[p].todo = DOMAIN s.before
           /\ op'[p].outcome = "running" /\ op'[p].plan = op[p].plan
<1>1. op'[p] = [op[p] EXCEPT !.state = s, !.todo = DOMAIN s.before, !.recovering = r, !.outcome = "running"]
  BY Remembers DEF TInv, BeginRestore
<1>2. op[p] \in Ops
  BY OpTyped
<1>3. pc'[p] = "restore"
  BY Goes DEF TInv, BeginRestore
<1> QED
  BY <1>1, <1>2, <1>3 DEF Ops

LEMMA RestoreKnows ==
    ASSUME TInv, NEW p \in Processes, NEW s \in States, NEW r, BeginRestore(p, s, r),
           marker' # None, marker'.before = s.before
    PROVE  Knows(p)'
<1>1. DOMAIN s.before \ DOMAIN s.before = {}
  OBVIOUS
<1> QED
  BY <1>1, BeginsRestore DEF Knows, Active, Restoring, State, PutBack

LEMMA UpdateKnows ==
    ASSUME NEW p \in Processes, IInv, Begins(p)
    PROVE  Knows(p)'
<1>1. TypeOK /\ TInv /\ op[p] \in Ops
  BY OpTyped DEF IInv, TInv
<1>2. CASE marker # None /\ ~PublishInverse(p)
  <2>1. CASE UpdateExpected(p)
    BY <1>1, <1>2, <2>1, EndKnows DEF UpdateExpected, Outcomes
  <2>2. CASE Update(p)
    BY <1>1, <1>2, <2>2, RestoreKnows DEF Update, repository, TypeOK
  <2> QED
    BY <1>2, <2>1, <2>2 DEF Begins
<1>3. CASE marker = None /\ ~PublishInverse(p)
  <2>1. pc'[p] = "preview" /\ op'[p] = [op[p] EXCEPT !.outcome = "running"]
    BY <1>1, <1>3, Goes, Remembers DEF Begins, Update, UpdateExpected
  <2> QED
    BY <1>1, <2>1 DEF Knows, Active, Restoring, Ops
<1>4. CASE PublishInverse(p)
  <2>1. pc'[p] = "check" /\ op'[p] = [op[p] EXCEPT !.plan = Inverse(@), !.outcome = "running"]
    BY <1>1, <1>4, Goes, Remembers DEF PublishInverse
  <2> QED
    BY <1>1, <2>1 DEF Knows, Active, Restoring, Ops
<1> QED
  BY <1>2, <1>3, <1>4

LEMMA PlanKnows ==
    ASSUME NEW p \in Processes, IInv, Preview(p) \/ Read(p) \/ Refuse(p)
    PROVE  Knows(p)'
<1>1. TypeOK /\ TInv /\ op[p] \in Ops
  BY OpTyped DEF IInv, TInv
<1>2. CASE Preview(p)
  <2>1. pc'[p] = "read" /\ op' = op /\ op[p].outcome = "running"
    BY <1>1, <1>2, Goes DEF Preview, IInv, Knows
  <2> QED
    BY <2>1 DEF Knows, Active, Restoring
<1>3. CASE Read(p)
  <2>1. PICK release \in Releases :
          IF tree = release THEN End(p, "current")
          ELSE Goto(p, "check") /\ Remember(p, [op[p] EXCEPT !.plan = Changes(release)])
    BY <1>3 DEF Read
  <2>2. CASE tree = release
    BY <1>1, <2>1, <2>2, EndKnows DEF Outcomes
  <2>3. CASE tree # release
    <3>1. pc'[p] = "check" /\ op'[p] = [op[p] EXCEPT !.plan = Changes(release)]
      BY <1>1, <2>1, <2>3, Goes, Remembers
    <3> QED
      BY <1>1, <1>3, <3>1 DEF Read, IInv, Knows, Active, Restoring, Ops
  <2> QED
    BY <2>2, <2>3
<1>4. CASE Refuse(p)
  BY <1>1, <1>4, EndKnows DEF Refuse, Outcomes
<1> QED
  BY <1>2, <1>3, <1>4

LEMMA CheckKnows == ASSUME NEW p \in Processes, IInv, Check(p) PROVE Knows(p)'
<1>1. TypeOK /\ TInv /\ op[p] \in Ops
  BY OpTyped DEF IInv, TInv
<1> DEFINE state == [before |-> Before(p), temps |-> {}, made |-> FALSE]
<1>2. PICK n \in Names : Remember(p, [op[p] EXCEPT !.name = n, !.todo = DOMAIN Plan(p), !.state = state])
  BY DEF Check, Before
<1>3. pc'[p] = "prepare" /\ op'[p] = [op[p] EXCEPT !.name = n, !.todo = DOMAIN Plan(p), !.state = state]
  BY <1>1, <1>2, Goes, Remembers DEF Check
<1>4. op'[p].plan = Plan(p) /\ op'[p].state = state /\ op'[p].outcome = op[p].outcome
  <2> HIDE DEF state
  <2> QED
    BY <1>1, <1>3 DEF Ops, Plan
<1>5. Before(p)' = Before(p) /\ AsPlanned(p)' /\ marker' = None /\ op[p].outcome = "running"
  BY <1>4 DEF Before, Plan, AsPlanned, Check, repository, IInv, Knows
<1> QED
  BY <1>3, <1>4, <1>5 DEF Knows, Active, Restoring, State

LEMMA PrepareKnows == ASSUME NEW p \in Processes, IInv, Prepare(p) PROVE Knows(p)'
<1>1. TypeOK /\ TInv /\ op[p] \in Ops
  BY OpTyped DEF IInv, TInv
<1>2. PICK f \in Paths :
        LET makes == f \in Nested /\ ~folder
            staged == IF Plan(p)[f].after = None THEN {} ELSE {<<op[p].name, f>>} IN
        /\ Remember(p, [op[p] EXCEPT !.todo = @ \ {f},
              !.state = [before |-> State(p).before, temps |-> State(p).temps \cup staged,
                         made |-> State(p).made \/ makes]])
        /\ Goto(p, IF op[p].todo = {f} THEN "mark" ELSE "prepare")
  BY DEF Prepare
<1> DEFINE staged == IF Plan(p)[f].after = None THEN {} ELSE {<<op[p].name, f>>}
           makes == f \in Nested /\ ~folder
           state == [before |-> State(p).before, temps |-> State(p).temps \cup staged,
                     made |-> State(p).made \/ makes]
<1>3. pc'[p] \in {"mark", "prepare"} /\ op'[p] = [op[p] EXCEPT !.todo = @ \ {f}, !.state = state]
  BY <1>1, <1>2, Goes, Remembers
<1>4. op'[p].plan = Plan(p) /\ op'[p].state = state /\ op'[p].outcome = op[p].outcome
  <2> HIDE DEF state
  <2> QED
    BY <1>1, <1>3 DEF Ops, Plan
<1>5. state.before = State(p).before
  OBVIOUS
<1> HIDE DEF state, staged, makes
<1>6. Before(p)' = Before(p) /\ AsPlanned(p)' /\ marker' = None
      /\ op[p].outcome = "running" /\ State(p).before = Before(p)
  BY <1>4 DEF Before, Plan, AsPlanned, Prepare, IInv, Knows, Active
<1> QED
  BY <1>3, <1>4, <1>5, <1>6 DEF Knows, Active, Restoring, State

LEMMA FailKnows ==
    ASSUME NEW p \in Processes, IInv, PrepareFails(p) \/ MarkFails(p) \/ RestoreFails(p) \/ Kill(p)
    PROVE  Knows(p)'
<1>1. TInv
  BY DEF IInv
<1>2. CASE PrepareFails(p)
  BY <1>1, <1>2, EndKnows DEF PrepareFails, Outcomes
<1>3. CASE MarkFails(p)
  <2>1. marker = None
    BY <1>3 DEF IInv, Knows, MarkFails
  <2> QED
    BY <1>1, <1>3, <2>1, EndKnows DEF MarkFails, Outcomes
<1>4. CASE RestoreFails(p)
  BY <1>1, <1>4, EndKnows DEF RestoreFails, Outcomes
<1>5. CASE Kill(p)
  BY <1>1, <1>5, EndKnows DEF Kill, Outcomes
<1> QED
  BY <1>2, <1>3, <1>4, <1>5

LEMMA MarkKnows == ASSUME NEW p \in Processes, IInv, Mark(p) PROVE Knows(p)'
<1>1. TypeOK /\ TInv /\ op[p] \in Ops
  BY OpTyped DEF IInv, TInv
<1>2. pc'[p] = "replace" /\ op'[p] = [op[p] EXCEPT !.todo = DOMAIN Plan(p)]
  BY <1>1, Goes, Remembers DEF Mark
<1>3. op'[p].plan = Plan(p) /\ op'[p].state = State(p) /\ op'[p].outcome = op[p].outcome
  BY <1>1, <1>2 DEF Ops, Plan, State
<1>4. marker' = State(p) /\ State(p) # None
  BY <1>1, Parameters DEF Mark, Ops, State
<1>5. Before(p)' = Before(p) /\ State(p).before = Before(p) /\ op[p].outcome = "running"
  BY <1>3 DEF Before, Plan, Mark, IInv, Knows, Active
<1> QED
  BY <1>2, <1>3, <1>4, <1>5 DEF Knows, Active, Restoring, State

\* A file is replaced, or put back: the plan and the marker stay.
LEMMA HandledKnows ==
    ASSUME TInv, NEW p \in Processes, NEW f, NEW step, NEW after, Handled(p, f, step, after)
    PROVE  /\ op'[p].plan = Plan(p) /\ op'[p].state = State(p)
           /\ op'[p].outcome = op[p].outcome /\ op'[p].todo = op[p].todo \ {f}
           /\ pc'[p] = IF op[p].todo = {f} THEN after ELSE step
<1>1. op[p] \in Ops
  BY OpTyped
<1>2. op'[p] = [op[p] EXCEPT !.todo = @ \ {f}]
  BY Remembers DEF TInv, Handled
<1>3. pc'[p] = IF op[p].todo = {f} THEN after ELSE step
  BY Goes DEF TInv, Handled
<1> QED
  BY <1>1, <1>2, <1>3 DEF Ops, Plan, State

LEMMA ReplaceKnows == ASSUME NEW p \in Processes, IInv, Replace(p) PROVE Knows(p)'
<1>1. PICK f \in Paths : Handled(p, f, "replace", "verify")
  BY DEF Replace
<1>2. /\ op'[p].plan = Plan(p) /\ op'[p].state = State(p)
      /\ op'[p].outcome = op[p].outcome /\ pc'[p] \in {"replace", "verify"}
  BY <1>1, HandledKnows DEF IInv
<1>3. marker' # None /\ marker'.before = State(p).before
  BY DEF Replace, IInv, Knows
<1>4. Before(p)' = Before(p) /\ State(p).before = Before(p) /\ op[p].outcome = "running"
  BY <1>2 DEF Before, Plan, Replace, IInv, Knows, Active
<1> QED
  BY <1>2, <1>3, <1>4 DEF Knows, Active, Restoring, State

LEMMA VerifyKnows == ASSUME NEW p \in Processes, IInv, Verify(p) PROVE Knows(p)'
<1>1. pc'[p] = "clear" /\ Published(p) /\ UNCHANGED <<tree, marker, op>>
  BY Goes DEF IInv, TInv, Verify, repository
<1>2. Published(p)' /\ Before(p)' = Before(p) /\ State(p)' = State(p)
  BY <1>1 DEF Published, Before, Plan, State
<1> QED
  BY <1>1, <1>2 DEF Verify, IInv, Knows, Active, Restoring

LEMMA PublishFailsKnows == ASSUME NEW p \in Processes, IInv, PublishFails(p) PROVE Knows(p)'
<1>1. TInv /\ State(p) \in States /\ marker' # None /\ marker'.before = State(p).before
  BY OpTyped DEF PublishFails, IInv, Knows, repository
<1> QED
  BY <1>1, RestoreKnows DEF PublishFails

LEMMA ClearKnows == ASSUME NEW p \in Processes, IInv, Clear(p) PROVE Knows(p)'
BY EndKnows DEF Clear, IInv, Outcomes

LEMMA PutsBack ==
    ASSUME NEW p \in Processes, IInv, NEW f \in Paths, NextFile(p, f), pc[p] = "restore",
           tree' = [tree EXCEPT ![f] = State(p).before[f]], State(p)' = State(p),
           op'[p].todo = op[p].todo \ {f}
    PROVE  PutBack(p, DOMAIN State(p).before \ op[p].todo)'
<1>1. PutBack(p, DOMAIN State(p).before \ op[p].todo)
  BY DEF IInv, Knows
<1>2. DOMAIN State(p).before \subseteq Paths /\ tree \in Trees
  BY BeforeShape, OpTyped DEF IInv, TInv, TypeOK
<1>3. SUFFICES ASSUME NEW g \in DOMAIN State(p).before \ (op[p].todo \ {f})
               PROVE  tree'[g] = State(p).before[g]
  BY DEF PutBack
<1>4. g \in Paths
  BY <1>2
<1> QED
  BY <1>1, <1>2, <1>4 DEF PutBack, Trees

LEMMA RestoreStepKnows == ASSUME NEW p \in Processes, IInv, Restore(p) PROVE Knows(p)'
<1>1. PICK f \in Paths :
        /\ NextFile(p, f) /\ tree' = [tree EXCEPT ![f] = State(p).before[f]]
        /\ Handled(p, f, "restore", "clean")
  BY DEF Restore
<1>2. /\ op'[p].plan = Plan(p) /\ op'[p].state = State(p)
      /\ op'[p].outcome = op[p].outcome /\ op'[p].todo = op[p].todo \ {f}
      /\ pc'[p] = IF op[p].todo = {f} THEN "clean" ELSE "restore"
  BY <1>1, HandledKnows DEF IInv
<1>3. marker' # None /\ marker'.before = State(p).before /\ op[p].outcome = "running"
  BY DEF Restore, IInv, Knows, Restoring
<1>4. State(p)' = State(p)
  BY <1>2 DEF State
<1>5. PutBack(p, DOMAIN State(p).before \ op[p].todo)'
  BY <1>1, <1>2, <1>4, PutsBack DEF Restore
<1>6. op'[p].todo = {} => PutBack(p, DOMAIN State(p).before)'
  BY <1>5 DEF PutBack
<1>7. pc'[p] = "clean" => op'[p].todo = {}
  BY <1>2
<1> QED
  BY <1>2, <1>3, <1>4, <1>5, <1>6, <1>7 DEF Knows, Active, Restoring, State

LEMMA CleanKnows == ASSUME NEW p \in Processes, IInv, Clean(p) PROVE Knows(p)'
<1>1. CASE State(p).made /\ folder'
  BY <1>1, EndKnows DEF Clean, IInv, Outcomes
<1>2. CASE ~(State(p).made /\ folder')
  <2>1. pc'[p] = "unmark" /\ UNCHANGED <<tree, marker, op>>
    BY <1>2, Goes DEF IInv, TInv, Clean
  <2>2. PutBack(p, DOMAIN State(p).before)' /\ marker # None /\ marker.before = State(p).before
        /\ op[p].outcome = "running"
    BY <2>1 DEF PutBack, State, Clean, IInv, Knows, Restoring
  <2> QED
    BY <2>1, <2>2 DEF Knows, Active, Restoring, State
<1> QED
  BY <1>1, <1>2

LEMMA UnmarkKnows == ASSUME NEW p \in Processes, IInv, Unmark(p) PROVE Knows(p)'
<1>1. CASE ~op[p].recovering
  BY <1>1, EndKnows DEF Unmark, IInv, Outcomes
<1>2. CASE op[p].recovering
  <2>1. op[p] \in Ops /\ op[p].outcome = "running"
    BY OpTyped DEF Unmark, IInv, Knows
  <2>2. pc'[p] = "preview" /\ op'[p] = [op[p] EXCEPT !.state = NoState, !.recovering = FALSE]
    BY <1>2, Goes, Remembers DEF IInv, TInv, Unmark
  <2>3. op'[p].outcome = "running"
    BY <2>1, <2>2 DEF Ops
  <2> QED
    BY <2>2, <2>3 DEF Knows, Active, Restoring
<1> QED
  BY <1>1, <1>2

\* The author works while every process is idle.
LEMMA AuthorKnows ==
    ASSUME IInv, (\E f \in Paths : Edit(f)) \/ EditFolder \/ Commit, NEW p \in Processes
    PROVE  Knows(p)'
<1>1. pc[p] = "idle" /\ op[p].outcome # "running" /\ UNCHANGED <<pc, op>>
  BY DEF Edit, EditFolder, Commit, Quiet, Edited, IInv, Knows
<1> QED
  BY <1>1 DEF Knows, Active, Restoring

LEMMA StepKnows == ASSUME Single, IInv, [Next]_vars PROVE IInv'
<1>1. TInv'
  BY StepTyped DEF IInv
<1>2. ASSUME NEW p \in Processes, Begins(p) \/ Steps(p) \/ Kill(p) PROVE Knows(p)'
  <2>1. CASE Begins(p)
    BY <2>1, UpdateKnows
  <2>2. CASE Kill(p)
    BY <2>2, FailKnows
  <2>3. CASE Steps(p)
    BY <2>3, PlanKnows, CheckKnows, PrepareKnows, FailKnows, MarkKnows, ReplaceKnows, VerifyKnows,
       PublishFailsKnows, ClearKnows, RestoreStepKnows, CleanKnows, UnmarkKnows DEF Steps
  <2> QED
    BY <1>2, <2>1, <2>2, <2>3
<1>3. ASSUME UNCHANGED vars, NEW p \in Processes PROVE Knows(p)'
  BY <1>3 DEF IInv, Knows, vars, repository, Active, Restoring, State, Before, Plan, AsPlanned,
     Published, PutBack
<1> QED
  BY <1>1, <1>2, <1>3, AuthorKnows DEF Next, IInv, Single

-----------------------------------------------------------------------------
\* The publisher implements the compare-and-swap: a reader is entitled to the
\* bytes of the marker, and only removing it after the last check changes them.

LEMMA EffectiveType == ASSUME TypeOK PROVE Effective \in Trees
<1>1. ASSUME marker # None, NEW f \in DOMAIN marker.before PROVE marker.before[f] \in Contents
  BY <1>1, BeforeShape DEF TypeOK
<1> QED
  BY <1>1 DEF Effective, TypeOK, Trees

LEMMA PlanMap == ASSUME TypeOK PROVE [q \in Processes |-> Plan(q)] \in [Processes -> Plans]
BY DEF TypeOK, Ops, Plan

LEMMA OutcomeMap == ASSUME TypeOK PROVE [q \in Processes |-> op[q].outcome] \in [Processes -> Outcomes]
BY DEF TypeOK, Ops

LEMMA SamePlans == Atomic!Plans = Plans
BY DEF Atomic!Plans, Atomic!Contents, Plans, Contents

LEMMA InitRefines == Init => Atomic!Init
<1> SUFFICES ASSUME Init PROVE Atomic!Init
  OBVIOUS
<1>1. TypeOK
  BY InitTyped DEF TInv
<1>2. Effective \in Atomic!Trees
  BY <1>1, EffectiveType DEF Atomic!Trees, Atomic!Contents, Trees, Contents
<1>3. [q \in Processes |-> op[q].outcome] \in [Processes -> {"none"}]
  BY DEF Init
<1> QED
  BY <1>1, <1>2, <1>3, PlanMap, SamePlans DEF Atomic!Init

\* A step that keeps the entitled bytes and does not end in `published'.
LEMMA Keeps ==
    ASSUME Single, TypeOK, TypeOK', NEW p \in Processes, Effective' = Effective,
           \/ op'[p].outcome = "running"
           \/ op'[p].outcome # "published" /\ op'[p].plan = op[p].plan
    PROVE  Atomic!Next
<1>1. [q \in Processes |-> Plan(q)]' \in [Processes -> Plans]
  BY DEF TypeOK, Ops, Plan
<1>2. [q \in Processes |-> op[q].outcome]' \in [Processes -> Outcomes]
  BY DEF TypeOK, Ops
<1>3. Processes = {p}
  BY DEF Single
<1>4. CASE op'[p].outcome = "running"
  BY <1>1, <1>3, <1>4, SamePlans DEF Atomic!Next, Atomic!Intend
<1>5. CASE op'[p].outcome \notin {"running", "published"} /\ op'[p].plan = op[p].plan
  BY <1>2, <1>3, <1>5 DEF Atomic!Next, Atomic!Abandon, Outcomes, Plan
<1> QED
  BY <1>4, <1>5

LEMMA SameBytes == ASSUME UNCHANGED <<tree, marker>> PROVE Effective' = Effective
BY DEF Effective

LEMMA EndsAs ==
    ASSUME TypeOK, NEW p \in Processes, NEW o, End(p, o)
    PROVE  op'[p].outcome = o /\ op'[p].plan = op[p].plan
<1>1. op'[p] = [op[p] EXCEPT !.outcome = o, !.todo = {}, !.state = NoState, !.recovering = FALSE]
  BY Remembers DEF End
<1> QED
  BY <1>1 DEF TypeOK, Ops

LEMMA BeginsRefine == ASSUME Single, IInv, IInv', NEW p \in Processes, Begins(p) PROVE Atomic!Next
<1>1. TypeOK /\ TypeOK' /\ TInv /\ op[p] \in Ops /\ Effective' = Effective
  BY OpTyped, SameBytes DEF IInv, TInv, Begins, Update, UpdateExpected, PublishInverse, repository
<1>2. \/ op'[p].outcome = "running"
      \/ op'[p].outcome # "published" /\ op'[p].plan = op[p].plan
  <2>1. CASE UpdateExpected(p) /\ marker # None
    BY <1>1, <2>1, EndsAs DEF UpdateExpected
  <2>2. CASE Update(p) /\ marker # None
    BY <1>1, <2>2, BeginsRestore DEF Update
  <2>3. CASE (Update(p) \/ UpdateExpected(p)) /\ marker = None
    <3>1. op'[p] = [op[p] EXCEPT !.outcome = "running"]
      BY <1>1, <2>3, Remembers DEF Update, UpdateExpected
    <3> QED
      BY <1>1, <3>1 DEF Ops
  <2>4. CASE PublishInverse(p)
    <3> DEFINE inverse == Inverse(op[p].plan)
    <3>1. op'[p] = [op[p] EXCEPT !.plan = inverse, !.outcome = "running"]
      BY <1>1, <2>4, Remembers DEF PublishInverse
    <3> HIDE DEF inverse
    <3> QED
      BY <1>1, <3>1 DEF Ops
  <2> QED
    BY <2>1, <2>2, <2>3, <2>4 DEF Begins
<1> QED
  BY <1>1, <1>2, Keeps

\* Steps on the way to an end, and ends that change no bytes.
LEMMA EndsRefine ==
    ASSUME Single, IInv, IInv', NEW p \in Processes, NEW o \in Outcomes \ {"published"}, End(p, o),
           UNCHANGED <<tree, marker>>
    PROVE  Atomic!Next
BY EndsAs, SameBytes, Keeps DEF IInv, TInv

LEMMA GoesOnRefine ==
    ASSUME Single, IInv, IInv', NEW p \in Processes, pc'[p] # "idle", Effective' = Effective
    PROVE  Atomic!Next
<1>1. op'[p].outcome = "running"
  BY DEF IInv, Knows
<1> QED
  BY <1>1, Keeps DEF IInv, TInv

LEMMA PlanRefines ==
    ASSUME Single, IInv, IInv', NEW p \in Processes,
           Preview(p) \/ Read(p) \/ Check(p) \/ Refuse(p) \/ Prepare(p) \/ PrepareFails(p) \/ Verify(p)
    PROVE  Atomic!Next
<1>1. UNCHANGED <<tree, marker>>
  BY DEF Preview, Read, Check, Refuse, Prepare, PrepareFails, Verify, repository
<1>2. CASE pc'[p] # "idle"
  BY <1>1, <1>2, SameBytes, GoesOnRefine
<1>3. CASE pc'[p] = "idle"
  <2>1. Refuse(p) \/ PrepareFails(p) \/ Read(p)
    <3>1. Preview(p) \/ Check(p) \/ Prepare(p) \/ Verify(p) =>
            \E next : next # "idle" /\ Goto(p, next)
      BY DEF Preview, Check, Prepare, Verify
    <3> QED
      BY <1>3, <3>1, Goes DEF IInv, TInv
  <2>2. (\E o \in Outcomes \ {"published"} : End(p, o)) \/ Goto(p, "check")
    BY <2>1 DEF Refuse, PrepareFails, Read, Outcomes
  <2>3. ~Goto(p, "check")
    BY <1>3, Goes DEF IInv, TInv
  <2> QED
    BY <1>1, <2>2, <2>3, EndsRefine
<1> QED
  BY <1>2, <1>3

\* The marker records the bytes that are there when it is put in place.
LEMMA MarkRefines == ASSUME Single, IInv, IInv', NEW p \in Processes, Mark(p) PROVE Atomic!Next
<1>1. marker = None /\ marker' = State(p) /\ tree' = tree /\ AsPlanned(p) /\ State(p).before = Before(p)
  BY DEF Mark, IInv, Knows, Active
<1>2. \A f \in DOMAIN marker'.before : marker'.before[f] = tree[f]
  BY <1>1 DEF Before, AsPlanned
<1>3. Effective' = Effective
  BY <1>1, <1>2 DEF Effective
<1>4. pc'[p] = "replace"
  BY Goes DEF Mark, IInv, TInv
<1> QED
  BY <1>3, <1>4, GoesOnRefine

LEMMA MarkFailsRefines == ASSUME Single, IInv, IInv', NEW p \in Processes, MarkFails(p) PROVE Atomic!Next
<1>1. marker = None
  BY DEF MarkFails, IInv, Knows
<1>2. \E o \in Outcomes \ {"published"} : End(p, o)
  BY <1>1 DEF MarkFails, Outcomes
<1> QED
  BY <1>2, EndsRefine DEF MarkFails

\* Behind the marker the tree may be anything.
LEMMA BehindMarker ==
    ASSUME TypeOK, marker # None, marker' = marker, NEW f \in DOMAIN marker.before,
           NEW c, tree' = [tree EXCEPT ![f] = c]
    PROVE  Effective' = Effective
<1>1. \A g \in Paths \ DOMAIN marker.before : tree'[g] = tree[g]
  BY DEF TypeOK, Trees
<1> QED
  BY <1>1 DEF Effective

LEMMA ReplaceRefines == ASSUME Single, IInv, IInv', NEW p \in Processes, Replace(p) PROVE Atomic!Next
<1>1. PICK f \in Paths : /\ NextFile(p, f) /\ tree' = [tree EXCEPT ![f] = Plan(p)[f].after]
                         /\ Handled(p, f, "replace", "verify")
  BY DEF Replace
<1>2. marker # None /\ marker' = marker /\ marker.before = Before(p) /\ f \in DOMAIN Plan(p)
  BY <1>1 DEF Replace, IInv, Knows, TInv, HasFiles, NextFile, Active
<1>3. f \in DOMAIN marker.before
  BY <1>2 DEF Before
<1>4. Effective' = Effective
  BY <1>1, <1>2, <1>3, BehindMarker DEF IInv, TInv
<1>5. pc'[p] # "idle"
  BY <1>1, HandledKnows DEF IInv
<1> QED
  BY <1>4, <1>5, GoesOnRefine

LEMMA PublishFailsRefines ==
    ASSUME Single, IInv, IInv', NEW p \in Processes, PublishFails(p) PROVE Atomic!Next
<1>1. pc'[p] = "restore" /\ UNCHANGED <<tree, marker>>
  BY BeginsRestore DEF PublishFails, IInv, repository
<1> QED
  BY <1>1, SameBytes, GoesOnRefine

\* Removing the marker publishes: every file of the plan has its planned bytes.
LEMMA ClearRefines == ASSUME Single, IInv, IInv', NEW p \in Processes, Clear(p) PROVE Atomic!Publish(p)
<1>1. /\ marker # None /\ marker' = None /\ tree' = tree /\ marker.before = Before(p)
      /\ Published(p) /\ op[p].outcome = "running"
  BY DEF Clear, IInv, Knows, Active
<1>2. op'[p].outcome = "published" /\ op'[p].plan = op[p].plan
  BY EndsAs DEF Clear, IInv, TInv
<1>3. DOMAIN marker.before = DOMAIN Plan(p) /\ DOMAIN Plan(p) \subseteq Paths
  BY <1>1, PlanShape, OpTyped DEF Before, IInv
<1>4. \A f \in DOMAIN Plan(p) : Effective[f] = Plan(p)[f].before
  BY <1>1, <1>3 DEF Effective, Before
<1>5. Effective' = [f \in Paths |-> IF f \in DOMAIN Plan(p) THEN Plan(p)[f].after ELSE Effective[f]]
  BY <1>1, <1>3 DEF Effective, Published
<1>6. Processes = {p}
  BY DEF Single
<1> QED
  BY <1>1, <1>2, <1>4, <1>5, <1>6 DEF Atomic!Publish, Plan

LEMMA RestoreRefines == ASSUME Single, IInv, IInv', NEW p \in Processes, Restore(p) PROVE Atomic!Next
<1>1. PICK f \in Paths : /\ NextFile(p, f) /\ tree' = [tree EXCEPT ![f] = State(p).before[f]]
                         /\ Handled(p, f, "restore", "clean")
  BY DEF Restore
<1>2. marker # None /\ marker' = marker /\ f \in DOMAIN marker.before
  BY <1>1 DEF Restore, IInv, Knows, TInv, HasFiles, NextFile, Restoring
<1>3. Effective' = Effective
  BY <1>1, <1>2, BehindMarker DEF IInv, TInv
<1>4. pc'[p] # "idle"
  BY <1>1, HandledKnows DEF IInv
<1> QED
  BY <1>3, <1>4, GoesOnRefine

LEMMA CleanRefines == ASSUME Single, IInv, IInv', NEW p \in Processes, Clean(p) PROVE Atomic!Next
<1>1. UNCHANGED <<tree, marker>>
  BY DEF Clean
<1>2. CASE State(p).made /\ folder'
  BY <1>1, <1>2, EndsRefine DEF Clean, Outcomes
<1>3. CASE ~(State(p).made /\ folder')
  <2>1. pc'[p] = "unmark"
    BY <1>3, Goes DEF Clean, IInv, TInv
  <2> QED
    BY <1>1, <2>1, SameBytes, GoesOnRefine
<1> QED
  BY <1>2, <1>3

\* So does removing it after a restoration: every recorded file is back.
LEMMA UnmarkRefines == ASSUME Single, IInv, IInv', NEW p \in Processes, Unmark(p) PROVE Atomic!Next
<1>1. marker # None /\ marker' = None /\ tree' = tree /\ PutBack(p, DOMAIN marker.before)
      /\ marker.before = State(p).before
  BY DEF Unmark, IInv, Knows, Restoring
<1>2. Effective' = Effective
  BY <1>1 DEF Effective, PutBack
<1>3. CASE op[p].recovering
  <2>1. pc'[p] = "preview"
    BY <1>3, Goes DEF Unmark, IInv, TInv
  <2> QED
    BY <1>2, <2>1, GoesOnRefine
<1>4. CASE ~op[p].recovering
  BY <1>2, <1>4, EndsAs, Keeps DEF Unmark, IInv, TInv
<1> QED
  BY <1>3, <1>4

LEMMA EndedRefines ==
    ASSUME Single, IInv, IInv', NEW p \in Processes, RestoreFails(p) \/ Kill(p) PROVE Atomic!Next
<1>1. \E o \in Outcomes \ {"published"} : End(p, o)
  BY DEF RestoreFails, Kill, Outcomes
<1> QED
  BY <1>1, EndsRefine DEF RestoreFails, Kill, repository

\* An edit behind the marker is undone by the recovery; any other is an edit.
LEMMA EditRefines ==
    ASSUME Single, IInv, IInv', NEW f \in Paths, Edit(f)
    PROVE  Atomic!Next \/ UNCHANGED <<Effective, op>>
<1>1. PICK c \in Contents : tree' = [tree EXCEPT ![f] = c]
  BY DEF Edit
<1>2. UNCHANGED <<marker, op>> /\ \A q \in Processes : op[q].outcome # "running"
  BY DEF Edit, Edited, Quiet, IInv, Knows
<1>3. CASE marker # None /\ f \in DOMAIN marker.before
  BY <1>1, <1>2, <1>3, BehindMarker DEF IInv, TInv
<1>4. CASE ~(marker # None /\ f \in DOMAIN marker.before)
  <2>1. Effective' = [Effective EXCEPT ![f] = c]
    BY <1>1, <1>2, <1>4 DEF Effective, IInv, TInv, TypeOK, Trees
  <2>2. \A q \in Processes : [r \in Processes |-> op[r].outcome][q] # "running"
    BY <1>2
  <2>3. Atomic!Edit(f)
    BY <1>2, <2>1, <2>2 DEF Atomic!Edit, Atomic!Contents, Contents, Plan
  <2> QED
    BY <2>3 DEF Atomic!Next
<1> QED
  BY <1>3, <1>4

LEMMA StepRefines ==
    ASSUME Single, IInv, IInv', [Next]_vars
    PROVE  Atomic!Next \/ UNCHANGED <<Effective, op>>
<1>1. ASSUME NEW p \in Processes, Begins(p) \/ Steps(p) \/ Kill(p) PROVE Atomic!Next
  <2>1. CASE Clear(p)
    BY <2>1, ClearRefines DEF Atomic!Next
  <2>2. CASE ~Clear(p)
    BY <1>1, <2>2, BeginsRefine, PlanRefines, MarkRefines, MarkFailsRefines, ReplaceRefines,
       PublishFailsRefines, RestoreRefines, CleanRefines, UnmarkRefines, EndedRefines DEF Steps
  <2> QED
    BY <2>1, <2>2
<1>2. CASE EditFolder \/ Commit \/ UNCHANGED vars
  BY <1>2, SameBytes DEF EditFolder, Edited, Commit, vars, repository
<1> QED
  BY <1>1, <1>2, EditRefines DEF Next

\* With one command at a time every update is atomic, whatever fails, is killed
\* or is edited in between: for any files, contents, releases and bounds.
THEOREM PublisherIsAtomic == ASSUME Single PROVE Spec => UpdateIsAtomic
<1>1. IInv /\ [Next]_vars => IInv'
  BY StepKnows
<1>2. IInv /\ IInv' /\ [Next]_vars => [Atomic!Next]_Atomic!vars
  <2>1. UNCHANGED <<Effective, op>> => UNCHANGED Atomic!vars
    BY DEF Atomic!vars, Plan
  <2> QED
    BY <2>1, StepRefines
<1> QED
  BY <1>1, <1>2, InitKnows, InitRefines, PTL DEF Spec, UpdateIsAtomic, Atomic!Spec

-----------------------------------------------------------------------------
\* What an update leaves behind: the folder, the temporaries and the marker.

\* A missing folder holds nothing: no file of the author's, of a plan or staged.
FolderInv ==
    ~folder =>
        /\ ~stray /\ \A f \in Nested : tree[f] = None
        /\ \A t \in temps : t[2] \notin Nested

\* What each step has left to undo: the marker is the state in memory; what is
\* staged is listed there; a folder that was made holds nothing else; what a
\* restoration has cleaned is gone.
Leaves(p) ==
    /\ pc[p] \in {"replace", "verify", "clear"} \cup Restoring => marker = State(p)
    /\ pc[p] \in Restoring /\ ~op[p].recovering => State(p).before = Before(p)
    /\ pc[p] \in {"prepare", "mark"} =>
          /\ State(p).temps \subseteq {op[p].name} \X DOMAIN Plan(p)
          /\ State(p).made =>
                /\ \A f \in Nested : tree[f] = None
                /\ \A t \in temps : t[2] \in Nested => t \in State(p).temps
    /\ pc[p] = "unmark" =>
          /\ State(p).temps \cap temps = {}
          /\ State(p).made => ~folder

\* Without a kill every temporary is listed by a process that stages it or by the
\* marker, and goes with the replacement of its file.
Listed ==
    kills = 0 =>
        /\ marker # None => temps \subseteq marker.temps
        /\ marker = None => \A t \in temps :
              \E p \in Processes : pc[p] \in {"prepare", "mark"} /\ t \in State(p).temps
        /\ \A p \in Processes :
              /\ pc[p] = "replace" => temps \subseteq {op[p].name} \X op[p].todo
              /\ pc[p] \in {"verify", "clear"} => temps = {}

LInv == IInv /\ FolderInv /\ Listed /\ \A p \in Processes : Leaves(p)

-----------------------------------------------------------------------------
\* One step keeps it.
LEMMA InitLeaves == Init => LInv
<1> SUFFICES ASSUME Init PROVE FolderInv /\ Listed /\ \A p \in Processes : Leaves(p)
  BY InitKnows DEF LInv
<1> QED
  BY DEF Init, FolderInv, Listed, Leaves, Restoring

\* An end asks nothing of the process.
LEMMA EndLeaves ==
    ASSUME IInv, NEW p \in Processes, NEW o, End(p, o)
    PROVE  Leaves(p)' /\ pc'[p] = "idle"
<1>1. pc'[p] = "idle"
  BY Goes DEF End, IInv, TInv
<1> QED
  BY <1>1 DEF Leaves, Restoring

\* A step that leaves the files alone, outside staging and publication.
LEMMA SameFiles ==
    ASSUME Single, LInv, NEW p \in Processes, UNCHANGED <<repository, kills>>,
           pc[p] \notin {"prepare", "mark"}, pc'[p] \notin {"replace", "verify", "clear"}
    PROVE  FolderInv' /\ Listed'
<1>1. UNCHANGED <<tree, folder, stray, temps, marker, kills>> /\ \A q \in Processes : q = p
  BY DEF repository, Single
<1> QED
  BY <1>1 DEF LInv, FolderInv, Listed

LEMMA PlanLeaves ==
    ASSUME Single, LInv, NEW p \in Processes, Begins(p) \/ Preview(p) \/ Read(p) \/ Refuse(p)
    PROVE  FolderInv' /\ Listed' /\ Leaves(p)'
<1>1. IInv /\ TypeOK /\ TInv /\ op[p] \in Ops
  BY OpTyped DEF LInv, IInv, TInv
<1>2. UNCHANGED <<repository, kills>> /\ pc[p] \notin {"prepare", "mark"}
  BY DEF Begins, Update, UpdateExpected, PublishInverse, Preview, Read, Refuse, counts
<1>3. CASE Update(p) /\ marker # None
  <2>1. pc'[p] = "restore" /\ State(p)' = marker /\ op'[p].recovering = TRUE
    <3>1. op'[p] = [op[p] EXCEPT !.state = marker, !.todo = DOMAIN marker.before,
                                 !.recovering = TRUE, !.outcome = "running"]
      BY <1>1, <1>3, Remembers DEF Update, BeginRestore
    <3> QED
      BY <1>1, <1>3, <3>1, BeginsRestore DEF Update, State, Ops
  <2> QED
    BY <1>2, <2>1, SameFiles DEF Leaves, Restoring, repository
<1>4. CASE ~(Update(p) /\ marker # None)
  <2>1. (\E o : End(p, o)) \/ \E next \in {"preview", "read", "check"} : Goto(p, next)
    BY <1>4 DEF Begins, Update, UpdateExpected, PublishInverse, Preview, Read, Refuse
  <2>2. pc'[p] \in {"idle", "preview", "read", "check"}
    BY <1>1, <2>1, EndLeaves, Goes
  <2> QED
    BY <1>2, <2>2, SameFiles DEF Leaves, Restoring
<1> QED
  BY <1>3, <1>4

\* Nothing is pending, so that nothing is staged either.
LEMMA CheckLeaves ==
    ASSUME Single, LInv, NEW p \in Processes, Check(p)
    PROVE  FolderInv' /\ Listed' /\ Leaves(p)'
<1>1. IInv /\ TypeOK /\ TInv /\ op[p] \in Ops
  BY OpTyped DEF LInv, IInv, TInv
<1> DEFINE state == [before |-> Before(p), temps |-> {}, made |-> FALSE]
<1>2. PICK n \in Names : Remember(p, [op[p] EXCEPT !.name = n, !.todo = DOMAIN Plan(p), !.state = state])
  BY DEF Check, Before
<1>3. pc'[p] = "prepare" /\ op'[p] = [op[p] EXCEPT !.name = n, !.todo = DOMAIN Plan(p), !.state = state]
  BY <1>1, <1>2, Goes, Remembers DEF Check
<1>4. op'[p].state = state
  <2> HIDE DEF state
  <2> QED
    BY <1>1, <1>3 DEF Ops
<1>5. State(p)'.temps = {} /\ State(p)'.made = FALSE
  BY <1>4 DEF State
<1>6. UNCHANGED <<repository, kills>>
  BY DEF Check, counts
<1>7. FolderInv' /\ Listed'
  BY <1>3, <1>6, SameFiles DEF Check
<1> QED
  BY <1>3, <1>5, <1>7 DEF Leaves, Restoring

LEMMA PrepareLeaves ==
    ASSUME Single, LInv, NEW p \in Processes, Prepare(p)
    PROVE  FolderInv' /\ Listed' /\ Leaves(p)'
<1>1. IInv /\ TypeOK /\ TInv /\ op[p] \in Ops
  BY OpTyped DEF LInv, IInv, TInv
<1>2. PICK f \in Paths :
        LET makes == f \in Nested /\ ~folder
            staged == IF Plan(p)[f].after = None THEN {} ELSE {<<op[p].name, f>>} IN
        /\ NextFile(p, f) /\ folder' = (folder \/ makes) /\ temps' = temps \cup staged
        /\ Remember(p, [op[p] EXCEPT !.todo = @ \ {f},
              !.state = [before |-> State(p).before, temps |-> State(p).temps \cup staged,
                         made |-> State(p).made \/ makes]])
        /\ Goto(p, IF op[p].todo = {f} THEN "mark" ELSE "prepare")
  BY DEF Prepare
<1> DEFINE staged == IF Plan(p)[f].after = None THEN {} ELSE {<<op[p].name, f>>}
           makes == f \in Nested /\ ~folder
           state == [before |-> State(p).before, temps |-> State(p).temps \cup staged,
                     made |-> State(p).made \/ makes]
<1>3. pc'[p] \in {"mark", "prepare"} /\ op'[p] = [op[p] EXCEPT !.todo = @ \ {f}, !.state = state]
  BY <1>1, <1>2, Goes, Remembers
<1>4. op'[p].plan = Plan(p) /\ op'[p].state = state /\ op'[p].name = op[p].name
  <2> HIDE DEF state
  <2> QED
    BY <1>1, <1>3 DEF Ops, Plan
<1>5. State(p)'.temps = State(p).temps \cup staged /\ (State(p)'.made <=> State(p).made \/ makes)
      /\ Plan(p)' = Plan(p)
  <2>1. state.temps = State(p).temps \cup staged /\ (state.made <=> State(p).made \/ makes)
    OBVIOUS
  <2> HIDE DEF state, staged, makes
  <2> QED
    BY <1>4, <2>1 DEF State, Plan
<1>6. f \in DOMAIN Plan(p) /\ staged \subseteq {<<op[p].name, f>>}
  BY <1>2 DEF Prepare, IInv, LInv, TInv, HasFiles, NextFile
<1>7. /\ folder' = (folder \/ makes) /\ temps' = temps \cup staged
      /\ UNCHANGED <<tree, stray, marker, kills>> /\ marker = None /\ pc[p] = "prepare"
  BY <1>2 DEF Prepare, counts, IInv, LInv, Knows
<1> HIDE DEF state, staged
<1>8. FolderInv'
  <2>1. SUFFICES ASSUME ~folder' PROVE FolderInv'
    BY DEF FolderInv
  <2>2. ~folder /\ f \notin Nested
    BY <1>7, <2>1
  <2>3. \A t \in temps' : t \in temps \/ t = <<op[p].name, f>>
    BY <1>6, <1>7
  <2> QED
    BY <1>7, <2>2, <2>3 DEF LInv, FolderInv
<1>9. Listed'
  <2>1. kills' = 0 => \A t \in temps : t \in State(p).temps
    BY <1>7 DEF LInv, Listed, Single
  <2> QED
    BY <1>3, <1>5, <1>7, <2>1 DEF Listed, Single
<1>10. State(p)'.temps \subseteq ({op[p].name} \X DOMAIN Plan(p))'
  BY <1>4, <1>5, <1>6, <1>7 DEF LInv, Leaves
<1>11. State(p)'.made => /\ \A g \in Nested : tree'[g] = None
                         /\ \A t \in temps' : t[2] \in Nested => t \in State(p)'.temps
  BY <1>5, <1>6, <1>7 DEF LInv, Leaves, FolderInv
<1> QED
  BY <1>3, <1>8, <1>9, <1>10, <1>11 DEF Leaves, Restoring

\* What is staged is removed, and with it the folder that was made for it.
LEMMA CleansPrepared ==
    ASSUME Single, LInv, NEW p \in Processes, CleanPrepared(State(p)), UNCHANGED <<tree, stray, marker>>
    PROVE  /\ FolderInv' /\ State(p).temps \cap temps' = {}
           /\ kills = 0 /\ (pc[p] \in {"prepare", "mark"} \/ marker = State(p)) => temps' = {}
           /\ pc[p] \in {"prepare", "mark"} /\ State(p).made => ~folder' \/ stray'
<1>1. temps' = temps \ State(p).temps /\ folder' = (folder /\ (State(p).made => ~Empty(tree, temps')))
  BY DEF CleanPrepared
<1>2. marker # None \/ pc[p] \notin {"prepare", "mark"} \/ marker = None
  OBVIOUS
<1>3. State(p) # None
  BY OpTyped, Parameters DEF LInv, IInv
<1>4. pc[p] \in {"prepare", "mark"} => marker = None
  BY DEF LInv, IInv, Knows
<1>5. FolderInv'
  BY <1>1 DEF LInv, FolderInv, Empty
<1>6. kills = 0 /\ (pc[p] \in {"prepare", "mark"} \/ marker = State(p)) => temps \subseteq State(p).temps
  BY <1>3, <1>4 DEF LInv, Listed, Single
<1>7. pc[p] \in {"prepare", "mark"} /\ State(p).made => ~folder' \/ stray'
  BY <1>1 DEF LInv, Leaves, Empty
<1> QED
  BY <1>1, <1>5, <1>6, <1>7

LEMMA NoTemps ==
    ASSUME Single, NEW p \in Processes, pc'[p] = "idle", kills' = 0 => temps' = {}
    PROVE  Listed'
BY DEF Listed, Single

LEMMA PrepareFailsLeaves ==
    ASSUME Single, LInv, NEW p \in Processes, PrepareFails(p) \/ (MarkFails(p) /\ marker = None)
    PROVE  FolderInv' /\ Listed' /\ Leaves(p)'
<1>1. /\ CleanPrepared(State(p)) /\ UNCHANGED <<tree, stray, marker, kills>>
      /\ pc[p] \in {"prepare", "mark"} /\ \E o : End(p, o)
  BY DEF PrepareFails, MarkFails, Fails
<1>2. Leaves(p)' /\ pc'[p] = "idle"
  BY <1>1, EndLeaves DEF LInv
<1> QED
  BY <1>1, <1>2, CleansPrepared, NoTemps

LEMMA MarkLeaves ==
    ASSUME Single, LInv, NEW p \in Processes, Mark(p)
    PROVE  FolderInv' /\ Listed' /\ Leaves(p)'
<1>1. IInv /\ TypeOK /\ TInv /\ op[p] \in Ops /\ State(p) # None
  BY OpTyped, Parameters DEF LInv, IInv, TInv
<1>2. pc'[p] = "replace" /\ op'[p] = [op[p] EXCEPT !.todo = DOMAIN Plan(p)]
  BY <1>1, Goes, Remembers DEF Mark
<1>3. op'[p].plan = Plan(p) /\ op'[p].state = State(p) /\ op'[p].name = op[p].name
      /\ op'[p].todo = DOMAIN Plan(p)
  BY <1>1, <1>2 DEF Ops, Plan, State
<1>4. marker = None /\ marker' = State(p) /\ State(p)' = State(p) /\ pc[p] = "mark"
      /\ UNCHANGED <<tree, folder, stray, temps, kills>>
  BY <1>1, <1>3 DEF Mark, IInv, Knows, State, counts
<1>5. kills = 0 => temps \subseteq State(p).temps /\ temps \subseteq {op[p].name} \X DOMAIN Plan(p)
  BY <1>4 DEF LInv, Listed, Leaves, Single
<1> QED
  BY <1>1, <1>2, <1>3, <1>4, <1>5 DEF LInv, FolderInv, Listed, Leaves, Restoring, Single

\* A file of the plan is replaced by its temporary, which is in the folder.
LEMMA ReplaceLeaves ==
    ASSUME Single, LInv, NEW p \in Processes, Replace(p)
    PROVE  FolderInv' /\ Listed' /\ Leaves(p)'
<1>1. PICK f \in Paths :
        /\ Replaceable(p, f) /\ Handled(p, f, "replace", "verify")
        /\ tree' = [tree EXCEPT ![f] = Plan(p)[f].after] /\ temps' = temps \ {<<op[p].name, f>>}
  BY DEF Replace
<1>2. /\ State(p)' = State(p) /\ op'[p].todo = op[p].todo \ {f} /\ op'[p].name = op[p].name
      /\ pc'[p] = IF op[p].todo = {f} THEN "verify" ELSE "replace"
  <2>1. op'[p] = [op[p] EXCEPT !.todo = @ \ {f}] /\ op[p] \in Ops
    BY <1>1, OpTyped, Remembers DEF LInv, IInv, TInv, Handled
  <2> QED
    BY <1>1, <2>1, HandledKnows DEF LInv, IInv, State, Ops
<1>3. UNCHANGED <<folder, stray, marker, kills>> /\ pc[p] = "replace" /\ marker = State(p)
  BY DEF Replace, counts, LInv, Leaves
<1>4. FolderInv'
  <2>1. SUFFICES ASSUME ~folder PROVE \A g \in Nested : tree'[g] = None
    BY <1>1, <1>3 DEF LInv, FolderInv
  <2>2. f \in Nested => Plan(p)[f].after = None
    <3>1. f \in Nested => <<op[p].name, f>> \notin temps
      BY <2>1 DEF LInv, FolderInv
    <3> QED
      BY <1>1, <3>1 DEF Replaceable
  <2> QED
    BY <1>1, <2>1, <2>2 DEF LInv, IInv, TInv, TypeOK, Trees, FolderInv
<1>5. kills = 0 => temps \subseteq {op[p].name} \X op[p].todo
  BY <1>3 DEF LInv, Listed
<1>6. kills = 0 => temps' \subseteq {op[p].name} \X (op[p].todo \ {f})
  BY <1>1, <1>5
<1>7. Listed'
  BY <1>1, <1>2, <1>3, <1>6 DEF Listed, LInv, Single
<1> QED
  BY <1>2, <1>3, <1>4, <1>7 DEF Leaves, Restoring

LEMMA VerifyLeaves ==
    ASSUME Single, LInv, NEW p \in Processes, Verify(p)
    PROVE  FolderInv' /\ Listed' /\ Leaves(p)'
<1>1. /\ pc[p] = "verify" /\ pc'[p] = "clear" /\ UNCHANGED <<op, tree, folder, stray, temps, marker, kills>>
      /\ \A q \in Processes : q = p
  BY Goes DEF Verify, repository, counts, LInv, IInv, TInv, Single
<1> QED
  BY <1>1 DEF LInv, FolderInv, Listed, Leaves, Restoring, State

\* A restoration begins with what is in memory, which the marker holds as well.
LEMMA PublishFailsLeaves ==
    ASSUME Single, LInv, NEW p \in Processes, PublishFails(p)
    PROVE  FolderInv' /\ Listed' /\ Leaves(p)'
<1>1. /\ pc'[p] = "restore" /\ State(p)' = State(p) /\ Plan(p)' = Plan(p)
      /\ UNCHANGED <<repository, kills>>
  BY BeginsRestore DEF PublishFails, LInv, IInv, State, Plan, Fails
<1>2. pc[p] \in {"replace", "verify", "clear"}
  BY DEF PublishFails
<1>3. marker' = State(p)' /\ State(p)'.before = Before(p)'
  BY <1>1, <1>2 DEF LInv, IInv, Knows, Active, Leaves, repository, Before
<1>4. FolderInv' /\ Listed'
  BY <1>1, <1>2, SameFiles
<1> QED
  BY <1>1, <1>3, <1>4 DEF Leaves, Restoring

LEMMA ClearLeaves ==
    ASSUME Single, LInv, NEW p \in Processes, Clear(p)
    PROVE  FolderInv' /\ Listed' /\ Leaves(p)'
<1>1. Leaves(p)' /\ pc'[p] = "idle"
  BY EndLeaves DEF Clear, LInv
<1>2. UNCHANGED <<tree, folder, stray, temps, kills>> /\ pc[p] = "clear"
  BY DEF Clear, counts
<1>3. FolderInv' /\ (kills' = 0 => temps' = {})
  BY <1>2 DEF LInv, FolderInv, Listed
<1> QED
  BY <1>1, <1>3, NoTemps

\* A recorded file of the folder comes back only into the folder.
LEMMA RestoreLeaves ==
    ASSUME Single, LInv, NEW p \in Processes, Restore(p)
    PROVE  FolderInv' /\ Listed' /\ Leaves(p)'
<1>1. PICK f \in Paths :
        /\ Restorable(p, f) /\ Handled(p, f, "restore", "clean")
        /\ tree' = [tree EXCEPT ![f] = State(p).before[f]]
  BY DEF Restore
<1>2. /\ State(p)' = State(p) /\ Plan(p)' = Plan(p) /\ op'[p].recovering = op[p].recovering
      /\ pc'[p] \in {"restore", "clean"}
  <2>1. op'[p] = [op[p] EXCEPT !.todo = @ \ {f}] /\ op[p] \in Ops
    BY <1>1, OpTyped, Remembers DEF LInv, IInv, TInv, Handled
  <2> QED
    BY <1>1, <2>1, HandledKnows DEF LInv, IInv, State, Plan, Ops
<1>3. UNCHANGED <<folder, stray, temps, marker, kills>> /\ pc[p] = "restore"
  BY DEF Restore, counts
<1>4. FolderInv'
  BY <1>1, <1>3 DEF LInv, FolderInv, Restorable, IInv, TInv, TypeOK, Trees
<1>5. Listed'
  BY <1>2, <1>3 DEF LInv, Listed, Single
<1>6. marker' = State(p)' /\ (~op'[p].recovering => State(p)'.before = Before(p)')
  BY <1>2, <1>3 DEF LInv, Leaves, Restoring, Before
<1> QED
  BY <1>2, <1>4, <1>5, <1>6 DEF Leaves, Restoring

LEMMA CleanLeaves ==
    ASSUME Single, LInv, NEW p \in Processes, Clean(p)
    PROVE  FolderInv' /\ Listed' /\ Leaves(p)'
<1>1. /\ pc[p] = "clean" /\ CleanPrepared(State(p)) /\ UNCHANGED <<tree, stray, marker, kills>>
      /\ marker = State(p)
  BY DEF Clean, counts, LInv, Leaves, Restoring
<1>2. FolderInv' /\ State(p).temps \cap temps' = {} /\ (kills = 0 => temps' = {})
  BY <1>1, CleansPrepared
<1>3. CASE State(p).made /\ folder'
  <2>1. Leaves(p)' /\ pc'[p] = "idle"
    BY <1>3, EndLeaves DEF Clean, LInv
  <2> QED
    BY <1>1, <1>2, <2>1, NoTemps
<1>4. CASE ~(State(p).made /\ folder')
  <2>1. pc'[p] = "unmark" /\ op' = op /\ State(p)' = State(p) /\ Before(p)' = Before(p)
    BY <1>4, Goes DEF Clean, LInv, IInv, TInv, State, Before, Plan
  <2>2. Listed'
    BY <1>1, <1>2, <2>1 DEF Listed, Single
  <2>3. ~op[p].recovering => State(p).before = Before(p)
    BY <1>1 DEF LInv, Leaves, Restoring
  <2> QED
    BY <1>1, <1>2, <1>4, <2>1, <2>2, <2>3 DEF Leaves, Restoring
<1> QED
  BY <1>3, <1>4

LEMMA UnmarkLeaves ==
    ASSUME Single, LInv, NEW p \in Processes, Unmark(p)
    PROVE  FolderInv' /\ Listed' /\ Leaves(p)'
<1>1. /\ pc[p] = "unmark" /\ marker' = None /\ UNCHANGED <<tree, folder, stray, temps, kills>>
      /\ marker = State(p) /\ State(p).temps \cap temps = {} /\ marker # None
  BY DEF Unmark, counts, LInv, Leaves, Restoring, IInv, Knows
<1>2. kills = 0 => temps = {}
  BY <1>1 DEF LInv, Listed
<1>3. pc'[p] \in {"idle", "preview"}
  BY Goes DEF Unmark, End, LInv, IInv, TInv
<1> QED
  BY <1>1, <1>2, <1>3 DEF LInv, FolderInv, Listed, Leaves, Restoring, Single

LEMMA EndedLeaves ==
    ASSUME Single, LInv, NEW p \in Processes, RestoreFails(p) \/ Kill(p)
    PROVE  FolderInv' /\ Listed' /\ Leaves(p)'
<1>1. Leaves(p)' /\ pc'[p] = "idle"
  BY EndLeaves DEF RestoreFails, Kill, LInv
<1>2. CASE RestoreFails(p)
  BY <1>1, <1>2, SameFiles DEF RestoreFails, Fails
<1>3. CASE Kill(p)
  <2>1. UNCHANGED <<tree, folder, stray, marker>> /\ kills' = kills + 1 /\ kills \in Nat
    BY <1>3 DEF Kill, LInv, IInv, TInv, TypeOK
  <2>2. Listed'
    BY <2>1 DEF Listed
  <2>3. FolderInv'
    <3>1. ASSUME ~folder, NEW t \in temps' PROVE t[2] \notin Nested
      BY <1>3, <3>1 DEF Kill, Restorable, LInv, FolderInv
    <3> QED
      BY <2>1, <3>1 DEF LInv, FolderInv
  <2> QED
    BY <1>1, <2>2, <2>3
<1> QED
  BY <1>2, <1>3

\* The author works while every process is idle.
LEMMA AuthorLeaves ==
    ASSUME LInv, (\E f \in Paths : Edit(f)) \/ EditFolder \/ Commit
    PROVE  FolderInv' /\ Listed' /\ \A p \in Processes : Leaves(p)'
<1>1. UNCHANGED <<pc, op, temps, marker, kills>> /\ \A p \in Processes : pc[p] = "idle"
  BY DEF Edit, EditFolder, Commit, Quiet, Edited, counts
<1>2. FolderInv'
  <2>1. ASSUME NEW f \in Paths, Edit(f) PROVE FolderInv'
    BY <1>1, <2>1 DEF Edit, Edited, LInv, FolderInv, IInv, TInv, TypeOK, Trees
  <2>2. CASE EditFolder \/ Commit
    BY <1>1, <2>2 DEF EditFolder, Edited, Commit, LInv, FolderInv
  <2> QED
    BY <2>1, <2>2
<1> QED
  BY <1>1, <1>2 DEF LInv, Listed, Leaves, Restoring, State

LEMMA StepLeaves == ASSUME Single, LInv, [Next]_vars PROVE LInv'
<1>1. IInv'
  BY StepKnows DEF LInv
<1>2. ASSUME NEW p \in Processes, Begins(p) \/ Steps(p) \/ Kill(p)
      PROVE  FolderInv' /\ Listed' /\ Leaves(p)'
  <2>1. MarkFails(p) => marker = None
    BY DEF MarkFails, LInv, IInv, Knows
  <2>2. CASE Begins(p) \/ Kill(p)
    BY <2>2, PlanLeaves, EndedLeaves
  <2>3. CASE Steps(p)
    BY <2>1, <2>3, PlanLeaves, CheckLeaves, PrepareLeaves, PrepareFailsLeaves, MarkLeaves, ReplaceLeaves,
       VerifyLeaves, PublishFailsLeaves, ClearLeaves, RestoreLeaves, CleanLeaves, UnmarkLeaves,
       EndedLeaves DEF Steps
  <2> QED
    BY <1>2, <2>2, <2>3
<1>3. ASSUME UNCHANGED vars PROVE FolderInv' /\ Listed' /\ \A p \in Processes : Leaves(p)'
  BY <1>3 DEF vars, repository, counts, LInv, FolderInv, Listed, Leaves, Restoring, State, Before, Plan
<1> QED
  BY <1>1, <1>2, <1>3, AuthorLeaves DEF Next, LInv, Single

\* With one command at a time no error leaves anything of what it staged: without
\* a kill the temporaries are gone, or a pending marker lists them.
THEOREM PublisherLeavesNothing == ASSUME Single PROVE Spec => []NothingLeftBehind
<1>1. LInv => NothingLeftBehind
  BY DEF LInv, Listed, NothingLeftBehind, Quiet
<1>2. LInv /\ [Next]_vars => LInv'
  BY StepLeaves
<1> QED
  BY <1>1, <1>2, InitLeaves, PTL DEF Spec

-----------------------------------------------------------------------------

-----------------------------------------------------------------------------
\* How a running update ends: `failed' is said in three places, `published' in one.

LEMMA NoEnd ==
    ASSUME IInv, IInv', NEW p \in Processes, pc[p] = "idle" \/ pc'[p] # "idle" \/ op' = op, NEW o, o # "running"
    PROVE  ~Ends(p, o)
BY DEF Ends, IInv, Knows

LEMMA PlanEnds ==
    ASSUME IInv, IInv', NEW p \in Processes, NEW o \in {"failed", "published"},
           \/ Begins(p) \/ Preview(p) \/ Read(p) \/ Refuse(p) \/ Check(p) \/ Prepare(p)
           \/ Mark(p) \/ Verify(p)
    PROVE  ~Ends(p, o)
<1>1. TypeOK
  BY DEF IInv, TInv
<1>2. CASE Begins(p)
  BY <1>2, NoEnd DEF Begins, Update, UpdateExpected, PublishInverse
<1>3. CASE Read(p) \/ Refuse(p)
  <2>1. (\E e \in {"current", "refused"} : End(p, e)) \/ Goto(p, "check")
    BY <1>3 DEF Read, Refuse
  <2> QED
    BY <1>1, <2>1, EndsAs, Goes, NoEnd DEF Ends
<1>4. CASE Preview(p) \/ Check(p) \/ Prepare(p) \/ Mark(p) \/ Verify(p)
  <2>1. \E next : next # "idle" /\ Goto(p, next)
    BY <1>4 DEF Preview, Check, Prepare, Mark, Verify
  <2> QED
    BY <1>1, <2>1, Goes, NoEnd
<1> QED
  BY <1>2, <1>3, <1>4

LEMMA RestoreEnds ==
    ASSUME IInv, IInv', NEW p \in Processes, NEW o \in {"failed", "published"},
           Replace(p) \/ PublishFails(p) \/ Restore(p) \/ Clean(p) \/ RestoreFails(p) \/ Kill(p)
    PROVE  ~Ends(p, o)
<1>1. TypeOK /\ TInv
  BY DEF IInv, TInv
<1>2. CASE Replace(p) \/ PublishFails(p) \/ Restore(p)
  <2>1. \E next : next # "idle" /\ Goto(p, next)
    BY <1>2 DEF Replace, PublishFails, Restore, Handled, BeginRestore
  <2> QED
    BY <1>1, <2>1, Goes, NoEnd
<1>3. CASE Clean(p) \/ RestoreFails(p) \/ Kill(p)
  <2>1. (\E e \in {"unrecovered", "killed"} : End(p, e)) \/ Goto(p, "unmark")
    BY <1>3 DEF Clean, RestoreFails, Kill
  <2> QED
    BY <1>1, <2>1, EndsAs, Goes, NoEnd DEF Ends
<1> QED
  BY <1>2, <1>3

Restored(p) ==
    /\ marker' = None
    /\ \A f \in DOMAIN Plan(p) : tree'[f] = Plan(p)[f].before
    /\ State(p).temps \cap temps' = {}
    /\ State(p).made => ~folder' \/ stray'

\* Nothing was replaced yet: what was staged is removed.
LEMMA StagingRestored ==
    ASSUME Single, LInv, NEW p \in Processes, PrepareFails(p) \/ MarkFails(p)
    PROVE  Restored(p)
<1>1. marker = None /\ AsPlanned(p) /\ pc[p] \in {"prepare", "mark"}
  BY DEF LInv, IInv, Knows, PrepareFails, MarkFails
<1>2. CleanPrepared(State(p)) /\ UNCHANGED <<tree, stray, marker>>
  BY <1>1 DEF PrepareFails, MarkFails
<1> QED
  BY <1>1, <1>2, CleansPrepared DEF Restored, AsPlanned

\* The restoration has put back and removed everything before the marker.
LEMMA UnmarkRestored ==
    ASSUME LInv, NEW p \in Processes, Unmark(p), ~op[p].recovering
    PROVE  Restored(p)
<1>1. /\ marker' = None /\ UNCHANGED <<tree, folder, stray, temps>>
      /\ PutBack(p, DOMAIN State(p).before) /\ State(p).before = Before(p)
      /\ State(p).temps \cap temps = {} /\ (State(p).made => ~folder)
  BY DEF Unmark, LInv, IInv, Knows, Leaves, Restoring
<1> QED
  BY <1>1 DEF Restored, PutBack, Before

LEMMA FailureRestores ==
    ASSUME Single, LInv, IInv', [Next]_vars, NEW p \in Processes, Ends(p, "failed")
    PROVE  Restored(p)
<1>1. IInv /\ TypeOK
  BY DEF LInv, IInv, TInv
<1>2. Begins(p) \/ Steps(p) \/ Kill(p)
  <2>1. op' # op
    BY <1>1, NoEnd
  <2> QED
    BY <2>1 DEF Next, Edit, EditFolder, Edited, Commit, vars, Single
<1>3. ~Clear(p)
  BY <1>1, EndsAs DEF Clear, Ends
<1>4. PrepareFails(p) \/ MarkFails(p) \/ Unmark(p)
  BY <1>1, <1>2, <1>3, PlanEnds, RestoreEnds DEF Steps
<1>5. Unmark(p) => ~op[p].recovering
  <2>1. Unmark(p) /\ op[p].recovering => Goto(p, "preview")
    BY DEF Unmark
  <2> QED
    BY <1>1, <2>1, Goes, NoEnd
<1> QED
  BY <1>4, <1>5, StagingRestored, UnmarkRestored

\* With one command at a time a failure that asks for no recovery has put back the
\* bytes, removed the temporaries and the folder, and left no marker, whichever
\* step failed and whatever was edited or killed before.
THEOREM PublisherFailureRestores == ASSUME Single PROVE Spec => FailureRestoresFiles
<1>1. LInv /\ LInv' /\ [Next]_vars =>
        [\A p \in Processes : Ends(p, "failed") =>
            /\ marker' = None
            /\ \A f \in DOMAIN Plan(p) : tree'[f] = Plan(p)[f].before
            /\ State(p).temps \cap temps' = {}
            /\ State(p).made => ~folder' \/ stray']_vars
  BY FailureRestores DEF LInv, Restored
<1>2. LInv /\ [Next]_vars => LInv'
  BY StepLeaves
<1> QED
  BY <1>1, <1>2, InitLeaves, PTL DEF Spec, FailureRestoresFiles

\* With one command at a time `published' is said only of planned bytes that are
\* there: a second command is what the test's promise does not survive.
THEOREM PublisherSuccessIsPublished == ASSUME Single PROVE Spec => SuccessIsPublished
<1>1. ASSUME IInv, IInv', [Next]_vars, NEW p \in Processes, Ends(p, "published")
      PROVE  \A f \in DOMAIN Plan(p) : tree'[f] = Plan(p)[f].after
  <2>1. TypeOK
    BY <1>1 DEF IInv, TInv
  <2>2. Begins(p) \/ Steps(p) \/ Kill(p)
    <3>1. op' # op
      BY <1>1, NoEnd
    <3> QED
      BY <1>1, <3>1 DEF Next, Edit, EditFolder, Edited, Commit, vars, Single
  <2>3. ~PrepareFails(p) /\ ~MarkFails(p)
    <3>1. PrepareFails(p) \/ MarkFails(p) => \E o : o # "published" /\ End(p, o)
      BY <1>1 DEF PrepareFails, MarkFails, IInv, Knows
    <3> QED
      BY <1>1, <2>1, <3>1, EndsAs DEF Ends
  <2>4. ~Unmark(p)
    <3>1. Unmark(p) => End(p, "failed") \/ Goto(p, "preview")
      BY DEF Unmark
    <3> QED
      BY <1>1, <2>1, <3>1, EndsAs, Goes, NoEnd DEF Ends
  <2>5. Clear(p)
    BY <1>1, <2>2, <2>3, <2>4, PlanEnds, RestoreEnds DEF Steps
  <2> QED
    BY <1>1, <2>5 DEF Clear, IInv, Knows, Published
<1>2. IInv /\ IInv' /\ [Next]_vars =>
        [\A p \in Processes : Ends(p, "published") =>
            \A f \in DOMAIN Plan(p) : tree'[f] = Plan(p)[f].after]_vars
  BY <1>1
<1>3. IInv /\ [Next]_vars => IInv'
  BY StepKnows
<1> QED
  BY <1>2, <1>3, InitKnows, PTL DEF Spec, SuccessIsPublished

=============================================================================
