-------------------------- MODULE FleetUpdate_proofs --------------------------
(***************************************************************************)
(* Proofs about FleetUpdate for any applications, contents, plans and      *)
(* bounds: every variable keeps its kind, a status that was reported tells *)
(* the truth, and at most one application is left unsettled.               *)
(***************************************************************************)
EXTENDS FleetUpdate, UpdatePlan_proofs

\* A torn tree has a recovery pending.
TornPending == \A a \in Apps : tree[a] = Torn => marker[a] # None

\* What is still to handle has no result, and a failed recovery ended the run.
ResultKnown ==
    /\ pc # "idle" => \A a \in todo : result[a] = "none"
    /\ pc = "preview" => \A a \in Apps : result[a] = "none"
    /\ \A a \in Apps : result[a] = "RECOVERY_FAILED" => a = app /\ pc = "idle"

OriginKnown ==
    origin \in [Apps -> [tree: Contents \cup {Torn}, clean: BOOLEAN, commits: Seq(Contents), live: Nat]]

\* Until its turn an application nobody touches is what it was.
RestKnown ==
    \A a \in Apps \ touched :
        result[a] = "none" /\ (a # app \/ pc \in {"preview", "turn"}) => Observed(a) = origin[a]

\* A READY application was settled, and has a plan that changes its files.
PlanKnown ==
    \A a \in Apps :
        /\ plan[a].status = "READY" =>
              /\ plan[a].before \in Contents /\ Target(plan[a].before) \in Contents \ {plan[a].before}
              /\ plan[a].source > 0
              /\ a \notin touched =>
                    /\ origin[a].tree = plan[a].before /\ origin[a].clean
                    /\ origin[a].live = plan[a].source
                    /\ Len(origin[a].commits) = plan[a].source
                    /\ origin[a].commits[plan[a].source] = plan[a].before
        /\ plan[a].status = "CURRENT" /\ a \notin touched =>
              /\ origin[a].clean /\ origin[a].live = Len(origin[a].commits)
              /\ Target(origin[a].tree) = origin[a].tree

\* How many commits a turn has made at each step, by what it is trying to do.
Source == plan[app].source
TurnShape ==
    /\ pc \in {"repeat", "update"} => goal = "UPDATED" /\ commit = Source
    /\ pc \in {"commit", "intent", "git-commit", "verify-commit"} =>
          \/ goal = "UPDATED" /\ commit = Source
          \/ goal = "FAILED_RECOVERED" /\ commit = Source + 1
    /\ pc \in {"check", "activate"} =>
          \/ goal = "UPDATED" /\ commit = Source + 1
          \/ goal = "FAILED_RECOVERED" /\ commit = Source + 2
    /\ pc = "inspect-live" => goal = "UPDATED" /\ commit = Source + 1
    /\ pc = "inverse" => goal = "FAILED_RECOVERED" /\ commit \in {Source, Source + 1}
    /\ pc \in {"verify-state", "verify-live"} =>
          \/ goal = "UPDATED" /\ commit = Source + 1
          \/ goal = "BLOCKED" /\ commit = Source
          \/ goal = "FAILED_RECOVERED" /\ commit \in {Source, Source + 2}

\* The commits a turn has made, if nobody else has made any.
Published(was) ==
    {was, Append(was, Wanted), Append(Append(was, Wanted), Before)}
TurnKnown ==
    pc \in Turns /\ app \notin touched =>
        /\ commits[app] \in Published(origin[app].commits)
        /\ pc \in {"repeat", "update"} => Observed(app) = origin[app]
        /\ pc \in {"intent", "git-commit"} => Tip(app) = commit /\ tree[app] = To
        /\ pc = "verify-live" => Clean(app) /\ Tip(app) = commit

\* The inductive invariant.
IInv ==
    /\ TypeOK /\ TornPending /\ ResultKnown /\ OriginKnown /\ RestKnown /\ PlanKnown
    /\ TurnShape /\ TurnKnown /\ ReportsAreTrue

\* What a status claims of an application, and what a step leaves alone.
Claim(a, status) ==
    /\ status = "UPDATED" =>
          /\ Settled(a) /\ commits[a] = Append(origin[a].commits, Target(origin[a].tree))
          /\ tree[a] \in Compatible /\ Target(tree[a]) = tree[a]
          /\ LET f == Files[tree[a]] IN {f.provenance.ui, f.artifact, f.lock} = {Platform}
    /\ status = "FAILED_RECOVERED" =>
          /\ Settled(a) /\ tree[a] = origin[a].tree
          /\ commits[a] \in {origin[a].commits,
                             origin[a].commits \o <<Target(origin[a].tree), origin[a].tree>>}
    /\ status \in {"CURRENT", "SKIPPED", "BLOCKED"} => Observed(a) = origin[a]
    /\ status = "CURRENT" => Settled(a) /\ Target(tree[a]) = tree[a]

Unchanged(a) ==
    /\ tree'[a] = tree[a] /\ other'[a] = other[a] /\ intent'[a] = intent[a]
    /\ commits'[a] = commits[a] /\ live'[a] = live[a]

RepositoriesOK ==
    /\ tree \in [Apps -> Contents \cup {Torn}] /\ marker \in [Apps -> Contents \cup {None}]
    /\ other \in [Apps -> BOOLEAN] /\ intent \in [Apps -> BOOLEAN]
    /\ commits \in [Apps -> Seq(Contents)] /\ \A a \in Apps : commits[a] # <<>>
    /\ live \in [Apps -> Nat] /\ stale \subseteq Apps

USE Parameters
USE DEF deployed

-----------------------------------------------------------------------------
\* What the tables and the state functions give.

LEMMA ReportsAreClaims == ReportsAreTrue <=> \A a \in Apps \ touched : Claim(a, result[a])
  BY DEF ReportsAreTrue, Claim

LEMMA ReportsAreClaimsNext ==
  ReportsAreTrue' <=> \A a \in Apps \ touched' : Claim(a, result[a])'
  BY DEF ReportsAreTrue, Claim

LEMMA PlanIsKnown ==
  ASSUME NEW c \in Contents, NEW request \in Requests \cup {{}}, NEW foundation \in BOOLEAN
  PROVE  /\ Plan[c][request][foundation] \in Contents \cup {None}
         /\ Plan[c][request][foundation] # None =>
               Files[Plan[c][request][foundation]] = Planned(Files[c], request, foundation)
  <1> DEFINE f == Planned(Files[c], request, foundation)
  <1>1. f \in {Files[d] : d \in Contents} \cup {None}
    OBVIOUS
  <1>2. Plan[c][request][foundation] = Bytes(f)
    BY DEF Plan
  <1> HIDE DEF f
  <1>3. CASE f = None
    BY <1>2, <1>3 DEF Bytes
  <1>4. CASE f # None
    <2>1. PICK d \in Contents : Files[d] = f
      BY <1>1, <1>4
    <2>2. Bytes(f) \in Contents /\ Files[Bytes(f)] = f
      BY <2>1, <1>4 DEF Bytes
    <2> QED  BY <1>2, <2>2 DEF f
  <1> QED  BY <1>3, <1>4

\* What an update made is accepted, of one build, and its own plan.
LEMMA TargetSettles ==
  ASSUME NEW c \in Contents
  PROVE  /\ Target(c) \in Contents \cup {None}
         /\ Target(c) # None =>
               /\ Target(Target(c)) = Target(c) /\ Target(c) \in Compatible
               /\ LET f == Files[Target(c)] IN {f.provenance.ui, f.artifact, f.lock} = {Platform}
  <1>1. Target(c) \in Contents \cup {None}
    BY PlanIsKnown DEF Target
  <1>2. SUFFICES ASSUME Target(c) # None
        PROVE  /\ Target(Target(c)) = Target(c) /\ Target(c) \in Compatible
               /\ LET f == Files[Target(c)] IN {f.provenance.ui, f.artifact, f.lock} = {Platform}
    BY <1>1
  <1> DEFINE f == Files[c]
             g == Candidate(f, {})
  <1>3. Target(c) = Bytes(Planned(f, {}, FALSE)) /\ Target(c) \in Contents
    BY <1>1, <1>2 DEF Target, Plan
  <1>4. Planned(f, {}, FALSE) # None
    BY <1>2, <1>3 DEF Bytes
  <1>5. Plannable(f, {}) /\ Planned(f, {}, FALSE) = g
    BY <1>4 DEF Planned
  <1>6. Files[Target(c)] = g
    BY <1>2, <1>5, PlanIsKnown DEF Target
  <1>7. Planned(g, {}, FALSE) = g
    BY <1>5, UpdateSettles DEF Planned
  <1>8. Target(Target(c)) = Target(c)
    BY <1>3, <1>5, <1>6, <1>7 DEF Target, Plan
  <1>9. Target(c) \in Compatible
    BY <1>3, <1>5, <1>6 DEF Compatible, Plannable
  <1>10. g.provenance.ui = Platform /\ g.artifact = Platform /\ g.lock = Platform
    BY DEF Candidate, ProvenanceCandidate, LockCandidate
  <1> QED  BY <1>6, <1>8, <1>9, <1>10

\* The tip of a branch is a commit of known contents.
LEMMA TipIsKnown ==
  ASSUME TypeOK, NEW a \in Apps
  PROVE  Tip(a) \in Nat \ {0} /\ TipBytes(a) \in Contents
  BY DEF TypeOK, Tip, TipBytes

LEMMA UnchangedIsSame ==
  ASSUME NEW a \in Apps, Unchanged(a)
  PROVE  Observed(a)' = Observed(a) /\ Clean(a)' = Clean(a) /\ Settled(a)' = Settled(a)
  BY DEF Unchanged, Observed, Clean, Settled, Unedited, Tip, TipBytes

LEMMA ObservedParts ==
  ASSUME NEW a, NEW seen, Observed(a) = seen
  PROVE  /\ seen.tree = tree[a] /\ (Clean(a) <=> seen.clean)
         /\ seen.commits = commits[a] /\ seen.live = live[a]
  BY DEF Observed

LEMMA ClaimIsKept ==
  ASSUME NEW a \in Apps, NEW status, Unchanged(a), origin' = origin, Claim(a, status)
  PROVE  Claim(a, status)'
  BY UnchangedIsSame DEF Claim, Unchanged

LEMMA InitIInv == Init => IInv
  <1> SUFFICES ASSUME Init PROVE IInv
    OBVIOUS
  <1> USE DEF Init, NoPlan
  <1>1. \A a \in Apps : tree[a] \in Contents /\ Observed(a) = [tree |-> tree[a], clean |-> TRUE, commits |-> <<tree[a]>>, live |-> 1]
    BY DEF Observed, Clean, Unedited, TipBytes, Tip
  <1>2. TypeOK
    BY DEF TypeOK, Statuses, Goals, Results, Idle, Turns, Before
  <1>3. TornPending /\ ResultKnown /\ RestKnown /\ PlanKnown /\ TurnShape /\ TurnKnown
    BY <1>1 DEF TornPending, ResultKnown, RestKnown, PlanKnown, TurnShape, TurnKnown, Turns
  <1>4. OriginKnown
    <2>1. \A a \in Apps : <<tree[a]>> \in Seq(Contents)
      BY <1>1
    <2>2. \A a \in Apps : Observed(a) \in
            [tree: Contents \cup {Torn}, clean: BOOLEAN, commits: Seq(Contents), live: Nat]
      <3>1. TAKE a \in Apps
      <3>2. Observed(a) = [tree |-> tree[a], clean |-> TRUE, commits |-> <<tree[a]>>, live |-> 1]
        BY <1>1
      <3>3. <<tree[a]>> \in Seq(Contents) /\ tree[a] \in Contents
        BY <1>1, <2>1
      <3> HIDE DEF Init
      <3> QED  BY <3>2, <3>3
    <2> HIDE DEF Init, NoPlan
    <2>3. origin = [a \in Apps |-> Observed(a)]
      BY DEF Init
    <2> QED  BY <2>2, <2>3 DEF OriginKnown
  <1>5. ReportsAreTrue
    BY DEF ReportsAreTrue
  <1> QED  BY <1>2, <1>3, <1>4, <1>5 DEF IInv

-----------------------------------------------------------------------------
(***************************************************************************)
(* The shapes of a step of a turn: it goes on, it ends with a status, or   *)
(* it ends the run; and others touch an application.                       *)
(***************************************************************************)
\* What is known of an application while it has its turn.
LEMMA TurnFacts ==
  ASSUME IInv, pc \in Turns
  PROVE  /\ app \in Apps /\ app \in todo /\ result[app] = "none" /\ goal \in Goals
         /\ plan[app].status = "READY" /\ Source \in Nat \ {0}
         /\ Before \in Contents /\ Wanted \in Contents \ {Before}
         /\ app \notin touched =>
               /\ origin[app] = [tree |-> Before, clean |-> TRUE,
                                commits |-> origin[app].commits, live |-> Source]
               /\ origin[app].commits \in Seq(Contents) /\ Len(origin[app].commits) = Source
               /\ origin[app].commits[Source] = Before
  <1>1. /\ app \in Apps /\ app \in todo /\ result[app] = "none" /\ goal \in Goals
        /\ plan[app].status = "READY" /\ Source \in Nat /\ Before \in Contents
    BY DEF IInv, TypeOK, Source
  <1>2. Source > 0 /\ Wanted \in Contents \ {Before}
    BY <1>1 DEF IInv, PlanKnown, Source, Before, Wanted
  <1>3. origin[app] \in [tree: Contents \cup {Torn}, clean: BOOLEAN, commits: Seq(Contents), live: Nat]
    BY <1>1 DEF IInv, OriginKnown
  <1>4. app \notin touched =>
          /\ origin[app].tree = Before /\ origin[app].clean /\ origin[app].live = Source
          /\ Len(origin[app].commits) = Source /\ origin[app].commits[Source] = Before
    BY <1>1 DEF IInv, PlanKnown, Source, Before
  <1>5. origin[app] = [tree |-> origin[app].tree, clean |-> origin[app].clean,
                       commits |-> origin[app].commits, live |-> origin[app].live]
        /\ origin[app].clean \in BOOLEAN /\ origin[app].commits \in Seq(Contents)
    BY <1>3
  <1>6. app \notin touched => origin[app].clean = TRUE
    BY <1>4, <1>5
  <1>7. app \notin touched =>
          origin[app] = [tree |-> Before, clean |-> TRUE, commits |-> origin[app].commits, live |-> Source]
    <2>1. SUFFICES ASSUME app \notin touched
          PROVE  origin[app] = [tree |-> Before, clean |-> TRUE,
                                commits |-> origin[app].commits, live |-> Source]
      OBVIOUS
    <2>2. origin[app].tree = Before /\ origin[app].clean = TRUE /\ origin[app].live = Source
      BY <1>4, <1>6, <2>1
    <2> QED  BY <1>5, <2>2
  <1> QED  BY <1>1, <1>2, <1>4, <1>5, <1>7

LEMMA GoOn ==
  ASSUME IInv, pc \in Turns, pc' \in Turns, UNCHANGED <<plan, todo, app, result, history>>,
         \A a \in Apps \ {app} : Unchanged(a),
         goal' \in Goals, commit' \in Nat, former' \in Nat,
         RepositoriesOK', TornPending', TurnShape', TurnKnown'
  PROVE  IInv'
  <1>1. TypeOK'
    BY DEF IInv, TypeOK, RepositoriesOK, Before, history
  <1>2. ResultKnown' /\ OriginKnown' /\ PlanKnown'
    BY DEF IInv, ResultKnown, OriginKnown, PlanKnown, history, Turns
  <1>3. RestKnown'
    BY UnchangedIsSame DEF IInv, RestKnown, history, Turns
  <1>4. \A a \in Apps \ touched : Claim(a, result[a])'
    <2>1. TAKE a \in Apps \ touched
    <2>2. CASE a = app
      BY <2>2, TurnFacts DEF Claim
    <2>3. CASE a # app
      BY <2>3, ClaimIsKept, ReportsAreClaims DEF IInv, history
    <2> QED  BY <2>2, <2>3
  <1>5. ReportsAreTrue'
    BY <1>4, ReportsAreClaimsNext DEF history
  <1> QED  BY <1>1, <1>2, <1>3, <1>5 DEF IInv

LEMMA EndTurn ==
  ASSUME IInv, pc \in Turns, NEW status \in Goals, Reported(app, status), Same,
         UNCHANGED <<plan, history>>, app \notin touched => Claim(app, status)
  PROVE  IInv'
  <1> USE DEF Reported, Same, turn, history, repositories
  <1>1. TypeOK'
    BY TurnFacts DEF IInv, TypeOK, Idle, Turns, Results, Goals
  <1>2. TornPending' /\ OriginKnown' /\ PlanKnown' /\ TurnShape' /\ TurnKnown'
    BY DEF IInv, TornPending, OriginKnown, PlanKnown, TurnShape, TurnKnown, Turns
  <1>3. status # "none" /\ status # "RECOVERY_FAILED" /\ app \in Apps /\ result \in [Apps -> Results]
    BY TurnFacts DEF Goals, IInv, TypeOK
  <1>4. ResultKnown'
    BY <1>3 DEF IInv, ResultKnown, Turns
  <1>5. \A a \in Apps : Unchanged(a)
    BY DEF Unchanged
  <1>6. RestKnown'
    BY <1>3, <1>5, UnchangedIsSame DEF IInv, RestKnown, Turns
  <1>7. \A a \in Apps \ touched : Claim(a, result[a])'
    <2>1. TAKE a \in Apps \ touched
    <2>2. CASE a = app
      BY <1>3, <1>5, <2>2, ClaimIsKept
    <2>3. CASE a # app
      BY <1>3, <1>5, <2>3, ClaimIsKept, ReportsAreClaims DEF IInv
    <2> QED  BY <2>2, <2>3
  <1>8. ReportsAreTrue'
    BY <1>7, ReportsAreClaimsNext
  <1> QED  BY <1>1, <1>2, <1>4, <1>6, <1>8 DEF IInv

LEMMA StopRun ==
  ASSUME IInv, pc \in Turns, Stop, UNCHANGED <<plan, turn, history>>,
         \A a \in Apps \ {app} : Unchanged(a), RepositoriesOK', TornPending'
  PROVE  IInv'
  <1> USE DEF Stop, turn, history
  <1>1. TypeOK'
    BY TurnFacts DEF IInv, TypeOK, RepositoriesOK, Idle, Turns, Results, Statuses
  <1>2. OriginKnown' /\ PlanKnown' /\ TurnShape' /\ TurnKnown'
    BY DEF IInv, OriginKnown, PlanKnown, TurnShape, TurnKnown, Turns
  <1>3. app \in Apps /\ result' \in [Apps -> Results] /\ result'[app] = "RECOVERY_FAILED"
    BY <1>1, TurnFacts DEF TypeOK
  <1>4. \A a \in Apps \ {app} : result'[a] # "RECOVERY_FAILED"
    BY DEF IInv, ResultKnown, TypeOK, Turns, Statuses
  <1>5. ResultKnown'
    BY <1>4 DEF ResultKnown
  <1>6. \A a \in Apps \ touched : a # app /\ result[a] = "none" =>
          Observed(a)' = Observed(a) /\ Observed(a) = origin[a]
    BY UnchangedIsSame DEF IInv, RestKnown
  <1>7. \A a \in Apps \ {app} : a \in todo => result[a] = "none"
    BY DEF IInv, ResultKnown, Turns
  <1>8. RestKnown'
    BY <1>6, <1>7 DEF RestKnown
  <1>9. \A a \in Apps \ touched : Claim(a, result[a])'
    <2>1. TAKE a \in Apps \ touched
    <2>2. CASE a = app
      BY <1>3, <2>2 DEF Claim
    <2>3. CASE a # app /\ a \notin todo
      BY <2>3, ClaimIsKept, ReportsAreClaims DEF IInv
    <2>4. CASE a # app /\ a \in todo
      <3>1. Unchanged(a) /\ Observed(a) = origin[a] /\ origin' = origin
        BY <1>6, <1>7, <2>4
      <3>2. plan[a].status = "CURRENT" => Settled(a) /\ Target(tree[a]) = tree[a]
        BY <3>1 DEF IInv, PlanKnown, Observed, Settled, Tip
      <3>3. /\ result'[a] \in {"none", "BLOCKED", "SKIPPED", "CURRENT"}
            /\ result'[a] = "CURRENT" => plan[a].status = "CURRENT"
        BY <2>4 DEF IInv, TypeOK, Statuses
      <3>4. Claim(a, result'[a])
        BY <3>1, <3>2, <3>3 DEF Claim
      <3> QED  BY <3>1, <3>4, ClaimIsKept
    <2> QED  BY <2>2, <2>3, <2>4
  <1>10. ReportsAreTrue'
    BY <1>9, ReportsAreClaimsNext
  <1> QED  BY <1>1, <1>2, <1>5, <1>8, <1>10 DEF IInv

LEMMA TouchStep ==
  ASSUME IInv, NEW a \in Apps, Touch(a), \A b \in Apps \ {a} : Unchanged(b),
         RepositoriesOK', TornPending'
  PROVE  IInv'
  <1> USE DEF Touch, turn
  <1>1. TypeOK'
    BY DEF IInv, TypeOK, RepositoriesOK, Before
  <1>2. ResultKnown' /\ OriginKnown' /\ TurnShape'
    BY DEF IInv, ResultKnown, OriginKnown, TurnShape, Source
  <1>3. PlanKnown'
    BY DEF IInv, PlanKnown
  <1>4. RestKnown'
    BY UnchangedIsSame DEF IInv, RestKnown
  <1>5. TurnKnown'
    <2>1. SUFFICES ASSUME pc \in Turns, app \notin touched' PROVE TurnKnown'
      BY DEF TurnKnown
    <2>2. Unchanged(app) /\ app \in Apps /\ app \notin touched
      BY <2>1, TurnFacts
    <2>3. Observed(app)' = Observed(app) /\ Clean(app)' = Clean(app)
      BY <2>2, UnchangedIsSame
    <2> QED  BY <2>1, <2>2, <2>3 DEF IInv, TurnKnown, Unchanged, Published, Before, Wanted, To, Restoring, Tip
  <1>6. \A b \in Apps \ touched' : Claim(b, result[b])'
    BY ClaimIsKept, ReportsAreClaims DEF IInv
  <1>7. ReportsAreTrue'
    BY <1>6, ReportsAreClaimsNext
  <1> QED  BY <1>1, <1>2, <1>3, <1>4, <1>5, <1>7 DEF IInv

-----------------------------------------------------------------------------
(***************************************************************************)
(* One lemma for each action.                                              *)
(***************************************************************************)
\* The number of commits tells which a turn has made.
LEMMA TipTells ==
  ASSUME IInv, pc \in Turns, app \notin touched
  PROVE  LET was == origin[app].commits IN
         /\ Tip(app) = Source => commits[app] = was
         /\ Tip(app) = Source + 1 => commits[app] = Append(was, Wanted) /\ TipBytes(app) = Wanted
         /\ Tip(app) = Source + 2 =>
               commits[app] = Append(Append(was, Wanted), Before) /\ TipBytes(app) = Before
  <1> DEFINE was == origin[app].commits
  <1>1. was \in Seq(Contents) /\ Len(was) = Source /\ Source \in Nat \ {0} /\ Before \in Contents /\ Wanted \in Contents
    BY TurnFacts
  <1>2. commits[app] \in {was, Append(was, Wanted), Append(Append(was, Wanted), Before)}
    BY DEF IInv, TurnKnown, Published
  <1>3. Append(was, Wanted) \in Seq(Contents) /\ Len(Append(was, Wanted)) = Source + 1
        /\ Append(was, Wanted)[Source + 1] = Wanted
    BY <1>1
  <1> DEFINE more == Append(was, Wanted)
  <1>4. Len(Append(more, Before)) = Source + 2 /\ Append(more, Before)[Source + 2] = Before
    BY <1>1, <1>3
  <1> HIDE DEF was, more
  <1>5. commits[app] \in {was, more, Append(more, Before)}
    BY <1>2 DEF more
  <1>6. /\ Tip(app) = Source => commits[app] = was
        /\ Tip(app) = Source + 1 => commits[app] = more /\ TipBytes(app) = Wanted
        /\ Tip(app) = Source + 2 => commits[app] = Append(more, Before) /\ TipBytes(app) = Before
    BY <1>1, <1>3, <1>4, <1>5 DEF Tip, TipBytes, more
  <1> QED  BY <1>6 DEF was, more

LEMMA StartStep == ASSUME IInv, Start PROVE IInv'
  <1> USE DEF Start, repositories, turn
  <1>1. TypeOK'
    BY DEF IInv, TypeOK, NoPlan, Statuses, Results, Idle, Turns, Before
  <1>2. \A a \in Apps : Observed(a) \in
          [tree: Contents \cup {Torn}, clean: BOOLEAN, commits: Seq(Contents), live: Nat]
    BY DEF IInv, TypeOK, Observed, Clean, Unedited
  <1>3. \A a \in Apps : Observed(a)' = Observed(a) /\ origin'[a] = Observed(a)
    BY UnchangedIsSame DEF Unchanged
  <1>4. OriginKnown'
    BY <1>2 DEF OriginKnown
  <1>5. TornPending' /\ ResultKnown'
    BY DEF IInv, TornPending, ResultKnown
  <1>6. RestKnown'
    BY <1>3 DEF RestKnown
  <1>7. PlanKnown' /\ TurnShape' /\ TurnKnown' /\ ReportsAreTrue'
    BY DEF PlanKnown, NoPlan, TurnShape, TurnKnown, Turns, ReportsAreTrue
  <1> QED  BY <1>1, <1>4, <1>5, <1>6, <1>7 DEF IInv

\* A preview tells what it saw.
LEMMA PreviewedStep ==
  ASSUME IInv, NEW a \in Apps, NEW status \in {Status(a), "BLOCKED"}, Previewed(a, status)
  PROVE  IInv'
  <1> USE DEF Previewed, repositories, turn, history
  <1>1. status \in Statuses /\ tree[a] \in Contents \cup {Torn} /\ Tip(a) \in Nat \ {0} /\ TipBytes(a) \in Contents
    BY TipIsKnown DEF Status, Statuses, IInv, TypeOK
  <1>2. status # "BLOCKED" => Clean(a) /\ tree[a] \in Contents
    BY <1>1 DEF Status, Clean, Unedited
  <1>3. status \in {"READY", "CURRENT"} => live[a] = Tip(a) /\ Target(tree[a]) \in Contents
    BY <1>2, TargetSettles DEF Status
  <1>4. /\ status = "READY" => Target(tree[a]) # tree[a]
        /\ status = "CURRENT" => Target(tree[a]) = tree[a]
    BY DEF Status
  <1>5. TypeOK'
    BY <1>1, <1>2 DEF IInv, TypeOK, Statuses, Idle, Turns
  <1>6. ResultKnown'
    BY DEF IInv, ResultKnown
  <1>7. TornPending' /\ OriginKnown' /\ TurnShape' /\ TurnKnown'
    BY DEF IInv, TornPending, OriginKnown, TurnShape, TurnKnown, Turns
  <1>8. \A b \in Apps : Unchanged(b)
    BY DEF Unchanged
  <1>9. \A b \in Apps \ touched : Observed(b) = origin[b]
    BY DEF IInv, RestKnown, ResultKnown
  <1>10. RestKnown'
    BY <1>8, <1>9, UnchangedIsSame DEF RestKnown
  <1>11. PlanKnown'
    <2>1. \A b \in Apps \ {a} : plan'[b] = plan[b]
      BY DEF IInv, TypeOK
    <2>2. plan'[a] = [status |-> status, source |-> Tip(a), before |-> IF status = "READY" THEN tree[a] ELSE None]
      BY DEF IInv, TypeOK
    <2>3. a \notin touched => /\ origin[a].tree = tree[a] /\ (Clean(a) => origin[a].clean)
                              /\ origin[a].live = live[a] /\ origin[a].commits = commits[a]
      BY <1>9, ObservedParts
    <2>4. status \in {"READY", "CURRENT"} => tree[a] = TipBytes(a)
      BY <1>2 DEF Clean, Unedited
    <2> QED  BY <1>1, <1>2, <1>3, <1>4, <2>1, <2>2, <2>3, <2>4 DEF IInv, PlanKnown, Tip, TipBytes
  <1>12. ReportsAreTrue'
    BY DEF IInv, ResultKnown, ReportsAreTrue
  <1> QED  BY <1>5, <1>6, <1>7, <1>10, <1>11, <1>12 DEF IInv

LEMMA TurnStep == ASSUME IInv, NEW a \in Apps, Turn(a) PROVE IInv'
  <1> USE DEF Turn, repositories, history
  <1>1. a \in todo /\ result[a] = "none" /\ pc = "turn"
    BY DEF InOrder, IInv, ResultKnown
  <1>2. \A b \in Apps : Unchanged(b)
    BY DEF Unchanged
  <1>3. \A b \in Apps \ touched : result[b] = "none" => Observed(b) = origin[b] /\ Observed(b)' = origin[b]
    BY <1>1, <1>2, UnchangedIsSame DEF IInv, RestKnown
  <1>4. TornPending' /\ OriginKnown' /\ PlanKnown'
    BY DEF IInv, TornPending, OriginKnown, PlanKnown
  <1>5. CASE plan[a].status = "READY"
    <2> USE DEF Before
    <2>1. pc' = "repeat" /\ app' = a /\ commit' = plan[a].source /\ goal' = "UPDATED"
          /\ UNCHANGED <<todo, result>>
      BY <1>5
    <2>2. TypeOK'
      BY <1>1, <1>5, <2>1 DEF IInv, TypeOK, PlanKnown, Goals, Idle, Turns, turn
    <2>3. ResultKnown' /\ TurnShape'
      BY <1>1, <2>1 DEF IInv, ResultKnown, TurnShape, Source
    <2>4. RestKnown'
      BY <1>3, <2>1 DEF RestKnown
    <2>5. a \notin touched => commits[a] = origin[a].commits
      BY <1>1, <1>3, ObservedParts
    <2>6. TurnKnown'
      BY <1>1, <1>3, <2>1, <2>5 DEF TurnKnown, Published
    <2>7. \A b \in Apps \ touched : Claim(b, result[b])'
      BY <1>2, <2>1, ClaimIsKept, ReportsAreClaims DEF IInv
    <2>8. ReportsAreTrue'
      BY <2>7, ReportsAreClaimsNext
    <2> QED  BY <1>4, <2>2, <2>3, <2>4, <2>6, <2>8 DEF IInv
  <1>6. CASE plan[a].status # "READY"
    <2>1. /\ result' = [result EXCEPT ![a] = plan[a].status] /\ todo' = todo \ {a}
          /\ pc' \in {"idle", "turn"} /\ UNCHANGED <<repositories, deployed, turn, plan, history>>
      BY <1>6 DEF Reported
    <2> HIDE DEF Turn
    <2> USE DEF turn
    <2>2. plan[a].status \in {"none", "BLOCKED", "SKIPPED", "CURRENT"} /\ result \in [Apps -> Results]
      BY <1>6 DEF IInv, TypeOK, Statuses
    <2>3. TypeOK' /\ TurnShape' /\ TurnKnown'
      BY <2>2, <2>1 DEF IInv, TypeOK, TurnShape, TurnKnown, Idle, Turns, Results, Statuses
    <2>4. \A b \in Apps : result'[b] = IF b = a THEN plan[a].status ELSE result[b]
      BY <2>2, <2>1
    <2>5. /\ \A b \in todo : result[b] = "none"
          /\ \A b \in Apps : result[b] # "RECOVERY_FAILED" /\ result'[b] # "RECOVERY_FAILED"
      BY <1>1, <2>2, <2>4 DEF IInv, ResultKnown
    <2>6. ResultKnown'
      BY <2>1, <2>4, <2>5 DEF ResultKnown, IInv, TypeOK
    <2>7. RestKnown'
      <3>1. SUFFICES ASSUME NEW b \in Apps \ touched', result'[b] = "none"
                    PROVE  Observed(b)' = origin'[b]
        BY DEF RestKnown
      <3>2. b \in Apps \ touched /\ origin' = origin
        BY <2>1
      <3>3. CASE b = a
        BY <1>1, <1>3, <3>2, <3>3
      <3>4. CASE b # a
        BY <1>3, <2>4, <3>1, <3>2, <3>4
      <3> QED  BY <3>3, <3>4
    <2>8. \A b \in Apps \ touched : Claim(b, result[b])'
      <3>1. TAKE b \in Apps \ touched
      <3>2. CASE b = a
        <4>1. /\ origin[a].tree = tree[a] /\ (Clean(a) <=> origin[a].clean)
              /\ origin[a].commits = commits[a] /\ origin[a].live = live[a]
          BY <1>1, <1>3, <3>2, ObservedParts
        <4>2. plan[a].status = "CURRENT" => Settled(a) /\ Target(tree[a]) = tree[a]
          BY <3>2, <4>1 DEF IInv, PlanKnown, Settled, Tip
        <4>3. Claim(a, plan[a].status)
          BY <1>1, <1>3, <2>2, <3>2, <4>2 DEF Claim
        <4>4. Claim(a, plan[a].status)'
          BY <1>2, <2>1, <4>3, ClaimIsKept DEF Claim
        <4> QED  BY <2>1, <2>2, <3>2, <4>4
      <3>3. CASE b # a
        BY <1>2, <2>1, <2>2, <3>3, ClaimIsKept, ReportsAreClaims DEF IInv
      <3> QED  BY <3>2, <3>3
    <2>9. ReportsAreTrue'
      BY <2>8, <2>1, ReportsAreClaimsNext
    <2> QED  BY <1>4, <2>3, <2>6, <2>7, <2>9 DEF IInv
  <1> QED  BY <1>5, <1>6

LEMMA RepeatStep == ASSUME IInv, Repeat PROVE IInv'
  <1> USE DEF Repeat, Running, Same, Goto, repositories, turn
  <1>1. pc = "repeat" /\ pc \in Turns /\ (app \notin touched => Observed(app) = origin[app])
    BY DEF Turns, IInv, TurnKnown
  <1>2. CASE AsPlanned
    <2>1. TornPending' /\ RepositoriesOK' /\ goal' \in Goals /\ commit' \in Nat /\ former' \in Nat
      BY <1>1, TurnFacts DEF IInv, TypeOK, TornPending, RepositoriesOK
    <2>2. \A a \in Apps : Unchanged(a)
      BY DEF Unchanged
    <2>3. TurnShape'
      BY <1>1, <1>2 DEF IInv, TurnShape, Source
    <2>4. Observed(app)' = Observed(app)
      BY <1>1, <2>2, UnchangedIsSame, TurnFacts
    <2>5. TurnKnown'
      BY <1>1, <1>2, <2>4 DEF IInv, TurnKnown, Published, Wanted, Before, history
    <2> QED  BY <1>1, <1>2, <2>1, <2>2, <2>3, <2>5, GoOn DEF Turns
  <1>3. CASE ~AsPlanned
    <2>1. app \notin touched => Claim(app, "BLOCKED")
      BY <1>1 DEF Claim
    <2> QED  BY <1>1, <1>3, <2>1, EndTurn DEF Goals
  <1> QED  BY <1>2, <1>3

LEMMA RepeatFailsStep == ASSUME IInv, RepeatFails PROVE IInv'
  <1>1. pc \in Turns /\ (app \notin touched => Claim(app, "BLOCKED"))
    BY DEF RepeatFails, Running, Turns, IInv, TurnKnown, Claim
  <1> QED  BY <1>1, EndTurn DEF RepeatFails, Running, Goals

LEMMA UpdateStep == ASSUME IInv, Update PROVE IInv'
  <1> USE DEF Update, Running, Goto, Same, repositories, turn, history, Publish
  <1>1. /\ pc \in Turns /\ pc' \in Turns /\ app \in Apps /\ Before \in Contents /\ Wanted \in Contents
        /\ UNCHANGED <<plan, todo, app, result, history>>
    BY TurnFacts DEF Turns
  <1>2. RepositoriesOK' /\ TornPending'
    BY <1>1, TurnFacts, TipIsKnown DEF IInv, TypeOK, TornPending, RepositoriesOK
  <1>3. \A a \in Apps \ {app} : Unchanged(a)
    BY <1>1 DEF Unchanged, IInv, TypeOK
  <1>4. TurnShape'
    BY <1>1, TurnFacts DEF IInv, TurnShape, Source, Turns
  <1>5. TurnKnown'
    BY <1>1, TurnFacts DEF IInv, TypeOK, TurnKnown, Turns, Published, Observed, Clean, Unedited, Tip, TipBytes,
        Before, Wanted, Source, To, Restoring
  <1>6. goal' \in Goals /\ commit' \in Nat /\ former' \in Nat
    BY <1>1, TurnFacts DEF IInv, TypeOK, Goals
  <1> QED  BY <1>1, <1>2, <1>3, <1>4, <1>5, <1>6, GoOn

LEMMA UpdateRefusedStep == ASSUME IInv, UpdateRefused PROVE IInv'
  <1> USE DEF UpdateRefused, Running, Goto, Same, repositories, turn, history, Confirm
  <1>1. /\ pc \in Turns /\ pc' \in Turns /\ app \in Apps /\ Before \in Contents /\ Wanted \in Contents
        /\ UNCHANGED <<plan, todo, app, result, history>>
    BY TurnFacts DEF Turns
  <1>2. RepositoriesOK' /\ TornPending'
    BY <1>1, TurnFacts, TipIsKnown DEF IInv, TypeOK, TornPending, RepositoriesOK
  <1>3. \A a \in Apps \ {app} : Unchanged(a)
    BY <1>1 DEF Unchanged, IInv, TypeOK
  <1>4. TurnShape'
    BY <1>1, TurnFacts DEF IInv, TurnShape, Source, Turns
  <1>5. TurnKnown'
    BY <1>1, TurnFacts DEF IInv, TypeOK, TurnKnown, Turns, Published, Observed, Clean, Unedited, Tip, TipBytes,
        Before, Wanted, Source, To, Restoring
  <1>6. goal' \in Goals /\ commit' \in Nat /\ former' \in Nat
    BY <1>1, TurnFacts DEF IInv, TypeOK, Goals
  <1> QED  BY <1>1, <1>2, <1>3, <1>4, <1>5, <1>6, GoOn

LEMMA UnpublishedIsOK ==
  ASSUME IInv, app \in Apps, NEW bytes \in Contents, Unpublished(bytes)
  PROVE  /\ tree' \in [Apps -> Contents \cup {Torn}] /\ marker' \in [Apps -> Contents \cup {None}]
         /\ other' = other /\ TornPending'
         /\ \A a \in Apps \ {app} : tree'[a] = tree[a]
  <1>1. CASE UNCHANGED <<tree, marker, other>>
    BY <1>1 DEF IInv, TypeOK, TornPending
  <1>2. CASE ~UNCHANGED <<tree, marker, other>>
    <2>1. PICK t \in {tree[app], Torn, bytes} : tree' = [tree EXCEPT ![app] = t]
      BY <1>2 DEF Unpublished
    <2>2. marker[app] = None /\ marker' = [marker EXCEPT ![app] = tree[app]] /\ other' = other
      BY <1>2 DEF Unpublished
    <2>3. tree[app] \in Contents
      BY <2>2 DEF IInv, TypeOK, TornPending
    <2> QED  BY <2>1, <2>2, <2>3 DEF IInv, TypeOK, TornPending
  <1> QED  BY <1>1, <1>2

LEMMA UpdateFailsStep == ASSUME IInv, UpdateFails PROVE IInv'
  <1> USE DEF UpdateFails, Running, Goto, Same, repositories, turn, history, Confirm
  <1>1. /\ pc \in Turns /\ pc' \in Turns /\ app \in Apps /\ Before \in Contents /\ Wanted \in Contents
        /\ UNCHANGED <<plan, todo, app, result, history>>
    BY TurnFacts DEF Turns
  <1>2. RepositoriesOK' /\ TornPending'
    BY <1>1, TurnFacts, TipIsKnown, UnpublishedIsOK DEF IInv, TypeOK, TornPending, RepositoriesOK
  <1>3. \A a \in Apps \ {app} : Unchanged(a)
    BY <1>1, UnpublishedIsOK DEF Unchanged, IInv, TypeOK
  <1>4. TurnShape'
    BY <1>1, TurnFacts DEF IInv, TurnShape, Source, Turns
  <1>5. TurnKnown'
    BY <1>1, TurnFacts, UnpublishedIsOK DEF IInv, TypeOK, TurnKnown, Turns, Published, Observed, Clean, Unedited, Tip, TipBytes,
        Before, Wanted, Source, To, Restoring
  <1>6. goal' \in Goals /\ commit' \in Nat /\ former' \in Nat
    BY <1>1, TurnFacts DEF IInv, TypeOK, Goals
  <1> QED  BY <1>1, <1>2, <1>3, <1>4, <1>5, <1>6, GoOn

LEMMA InverseStep == ASSUME IInv, Inverse PROVE IInv'
  <1> USE DEF Inverse, Running, Goto, Same, repositories, turn, history, Publish
  <1>1. /\ pc \in Turns /\ pc' \in Turns /\ app \in Apps /\ Before \in Contents /\ Wanted \in Contents
        /\ UNCHANGED <<plan, todo, app, result, history>>
    BY TurnFacts DEF Turns, Uncommitted
  <1>2. RepositoriesOK' /\ TornPending'
    BY <1>1, TurnFacts, TipIsKnown DEF IInv, TypeOK, TornPending, RepositoriesOK, Uncommitted
  <1>3. \A a \in Apps \ {app} : Unchanged(a)
    BY <1>1 DEF Unchanged, IInv, TypeOK, Uncommitted
  <1>4. TurnShape'
    BY <1>1, TurnFacts DEF IInv, TurnShape, Source, Turns, Uncommitted
  <1>5. TurnKnown'
    BY <1>1, TurnFacts DEF IInv, TypeOK, TurnKnown, Turns, Published, Observed, Clean, Unedited, Tip, TipBytes,
        Before, Wanted, Source, To, Restoring, Uncommitted
  <1>6. goal' \in Goals /\ commit' \in Nat /\ former' \in Nat
    BY <1>1, TurnFacts DEF IInv, TypeOK, Goals
  <1> QED  BY <1>1, <1>2, <1>3, <1>4, <1>5, <1>6, GoOn

LEMMA CheckCommitStep == ASSUME IInv, CheckCommit PROVE IInv'
  <1> USE DEF CheckCommit, Running, Goto, Same, repositories, turn, history
  <1>1. /\ pc \in Turns /\ pc' \in Turns /\ app \in Apps /\ Before \in Contents /\ Wanted \in Contents
        /\ UNCHANGED <<plan, todo, app, result, history>>
    BY TurnFacts DEF Turns
  <1>2. RepositoriesOK' /\ TornPending'
    BY <1>1, TurnFacts, TipIsKnown DEF IInv, TypeOK, TornPending, RepositoriesOK
  <1>3. \A a \in Apps \ {app} : Unchanged(a)
    BY <1>1 DEF Unchanged, IInv, TypeOK
  <1>4. TurnShape'
    BY <1>1, TurnFacts DEF IInv, TurnShape, Source, Turns, Restoring
  <1>5. TurnKnown'
    BY <1>1, TurnFacts DEF IInv, TypeOK, TurnKnown, Turns, Published, Observed, Clean, Unedited, Tip, TipBytes,
        Before, Wanted, Source, To, Restoring, Committable, From
  <1>6. goal' \in Goals /\ commit' \in Nat /\ former' \in Nat
    BY <1>1, TurnFacts DEF IInv, TypeOK, Goals
  <1> QED  BY <1>1, <1>2, <1>3, <1>4, <1>5, <1>6, GoOn

LEMMA IntendToAddStep == ASSUME IInv, IntendToAdd PROVE IInv'
  <1> USE DEF IntendToAdd, Running, Goto, Same, repositories, turn, history
  <1>1. /\ pc \in Turns /\ pc' \in Turns /\ app \in Apps /\ Before \in Contents /\ Wanted \in Contents
        /\ UNCHANGED <<plan, todo, app, result, history>>
    BY TurnFacts DEF Turns
  <1>2. RepositoriesOK' /\ TornPending'
    BY <1>1, TurnFacts, TipIsKnown DEF IInv, TypeOK, TornPending, RepositoriesOK
  <1>3. \A a \in Apps \ {app} : Unchanged(a)
    BY <1>1 DEF Unchanged, IInv, TypeOK
  <1>4. TurnShape'
    BY <1>1, TurnFacts DEF IInv, TurnShape, Source, Turns
  <1>5. TurnKnown'
    BY <1>1, TurnFacts DEF IInv, TypeOK, TurnKnown, Turns, Published, Observed, Clean, Unedited, Tip, TipBytes,
        Before, Wanted, Source, To, Restoring
  <1>6. goal' \in Goals /\ commit' \in Nat /\ former' \in Nat
    BY <1>1, TurnFacts DEF IInv, TypeOK, Goals
  <1> QED  BY <1>1, <1>2, <1>3, <1>4, <1>5, <1>6, GoOn

LEMMA VerifyCommitStep == ASSUME IInv, VerifyCommit PROVE IInv'
  <1> USE DEF VerifyCommit, Running, Goto, Same, repositories, turn, history
  <1>1. /\ pc \in Turns /\ pc' \in Turns /\ app \in Apps /\ Before \in Contents /\ Wanted \in Contents
        /\ UNCHANGED <<plan, todo, app, result, history>>
    BY TurnFacts DEF Turns
  <1>2. RepositoriesOK' /\ TornPending'
    BY <1>1, TurnFacts, TipIsKnown DEF IInv, TypeOK, TornPending, RepositoriesOK
  <1>3. \A a \in Apps \ {app} : Unchanged(a)
    BY <1>1 DEF Unchanged, IInv, TypeOK
  <1>4. TurnShape'
    BY <1>1, TurnFacts DEF IInv, TurnShape, Source, Turns
  <1>5. TurnKnown'
    BY <1>1, TurnFacts DEF IInv, TypeOK, TurnKnown, Turns, Published, Observed, Clean, Unedited, Tip, TipBytes,
        Before, Wanted, Source, To, Restoring, Verified
  <1>6. goal' \in Goals /\ commit' \in Nat /\ former' \in Nat
    BY <1>1, TurnFacts DEF IInv, TypeOK, Goals
  <1> QED  BY <1>1, <1>2, <1>3, <1>4, <1>5, <1>6, GoOn

LEMMA CheckStep == ASSUME IInv, Check PROVE IInv'
  <1> USE DEF Check, Running, Goto, Same, repositories, turn, history
  <1>1. /\ pc \in Turns /\ pc' \in Turns /\ app \in Apps /\ Before \in Contents /\ Wanted \in Contents
        /\ UNCHANGED <<plan, todo, app, result, history>>
    BY TurnFacts DEF Turns
  <1>2. RepositoriesOK' /\ TornPending'
    BY <1>1, TurnFacts, TipIsKnown DEF IInv, TypeOK, TornPending, RepositoriesOK
  <1>3. \A a \in Apps \ {app} : Unchanged(a)
    BY <1>1 DEF Unchanged, IInv, TypeOK
  <1>4. TurnShape'
    BY <1>1, TurnFacts DEF IInv, TurnShape, Source, Turns
  <1>5. TurnKnown'
    BY <1>1, TurnFacts DEF IInv, TypeOK, TurnKnown, Turns, Published, Observed, Clean, Unedited, Tip, TipBytes,
        Before, Wanted, Source, To, Restoring
  <1>6. goal' \in Goals /\ commit' \in Nat /\ former' \in Nat
    BY <1>1, TurnFacts DEF IInv, TypeOK, Goals
  <1> QED  BY <1>1, <1>2, <1>3, <1>4, <1>5, <1>6, GoOn

LEMMA ActivateStep == ASSUME IInv, Activate PROVE IInv'
  <1> USE DEF Activate, Running, Goto, Same, repositories, turn, history
  <1>1. /\ pc \in Turns /\ pc' \in Turns /\ app \in Apps /\ Before \in Contents /\ Wanted \in Contents
        /\ UNCHANGED <<plan, todo, app, result, history>>
    BY TurnFacts DEF Turns
  <1>2. RepositoriesOK' /\ TornPending'
    BY <1>1, TurnFacts, TipIsKnown DEF IInv, TypeOK, TornPending, RepositoriesOK
  <1>3. \A a \in Apps \ {app} : Unchanged(a)
    BY <1>1 DEF Unchanged, IInv, TypeOK
  <1>4. TurnShape'
    BY <1>1, TurnFacts DEF IInv, TurnShape, Source, Turns
  <1>5. TurnKnown'
    BY <1>1, TurnFacts DEF IInv, TypeOK, TurnKnown, Turns, Published, Observed, Clean, Unedited, Tip, TipBytes,
        Before, Wanted, Source, To, Restoring
  <1>6. goal' \in Goals /\ commit' \in Nat /\ former' \in Nat
    BY <1>1, TurnFacts DEF IInv, TypeOK, Goals
  <1> QED  BY <1>1, <1>2, <1>3, <1>4, <1>5, <1>6, GoOn

\* The commits a turn makes are those of its plan.
LEMMA CommittedIsPublished ==
  ASSUME IInv, pc = "git-commit", Committed, app \notin touched
  PROVE  commits'[app] \in Published(origin[app].commits)
  <1>1. /\ app \in Apps /\ Tip(app) = commit /\ tree[app] = To
        /\ commits'[app] = Append(commits[app], tree[app])
    BY TurnFacts DEF IInv, TypeOK, TurnKnown, Turns, Committed
  <1>2. CASE goal = "UPDATED" /\ commit = Source
    <2>1. commits[app] = origin[app].commits
      BY <1>1, <1>2, TipTells DEF Turns
    <2>2. tree[app] = Wanted
      BY <1>1, <1>2 DEF To, Restoring
    <2> QED  BY <1>1, <2>1, <2>2 DEF Published
  <1>3. CASE goal = "FAILED_RECOVERED" /\ commit = Source + 1
    <2>1. commits[app] = Append(origin[app].commits, Wanted)
      BY <1>1, <1>3, TipTells DEF Turns
    <2>2. tree[app] = Before
      BY <1>1, <1>3 DEF To, Restoring
    <2> QED  BY <1>1, <2>1, <2>2 DEF Published
  <1> QED  BY <1>2, <1>3 DEF IInv, TurnShape

LEMMA CommittedIsOK ==
  ASSUME TypeOK, app \in Apps, tree[app] \in Contents, Committed
  PROVE  commits' \in [Apps -> Seq(Contents)] /\ \A a \in Apps : commits'[a] # <<>>
  <1> DEFINE more == Append(commits[app], tree[app])
  <1>1. commits[app] \in Seq(Contents)
    BY DEF TypeOK
  <1>2. more \in Seq(Contents) /\ Len(more) = Len(commits[app]) + 1 /\ Len(commits[app]) \in Nat
    BY <1>1
  <1>3. more \in Seq(Contents) /\ more # <<>>
    BY <1>2
  <1>4. commits' = [commits EXCEPT ![app] = more]
    BY DEF Committed
  <1> HIDE DEF more
  <1> QED  BY <1>3, <1>4 DEF TypeOK

LEMMA GitCommitStep == ASSUME IInv, GitCommit PROVE IInv'
  <1> USE DEF GitCommit, Running, Goto, turn, history
  <1>1. /\ pc = "git-commit" /\ pc \in Turns /\ pc' \in Turns /\ app \in Apps
        /\ UNCHANGED <<plan, todo, app, result, history>>
    BY TurnFacts DEF Turns
  <1>2. RepositoriesOK' /\ TornPending'
    BY <1>1, CommittedIsOK DEF IInv, TypeOK, TornPending, RepositoriesOK
  <1>3. \A a \in Apps \ {app} : Unchanged(a)
    BY <1>1 DEF Unchanged, IInv, TypeOK, Committed
  <1>4. TurnShape'
    BY <1>1 DEF IInv, TurnShape, Source
  <1>5. TurnKnown'
    BY <1>1, CommittedIsPublished DEF TurnKnown, Published, Before, Wanted
  <1>6. goal' \in Goals /\ commit' \in Nat /\ former' \in Nat
    BY <1>1, TurnFacts DEF IInv, TypeOK
  <1> QED  BY <1>1, <1>2, <1>3, <1>4, <1>5, <1>6, GoOn

LEMMA InverseFailsStep == ASSUME IInv, InverseFails PROVE IInv'
  <1> USE DEF InverseFails, Running
  <1>1. pc \in Turns /\ app \in Apps /\ Before \in Contents /\ UNCHANGED <<plan, turn, history>>
    BY TurnFacts DEF Turns
  <1>2. CASE UNCHANGED <<tree, marker, other>>
    <2>1. RepositoriesOK' /\ TornPending'
      BY <1>2 DEF IInv, TypeOK, TornPending, RepositoriesOK
    <2> QED  BY <1>1, <1>2, <2>1, StopRun DEF Unchanged
  <1>3. CASE Unpublished(Before)
    <2>1. RepositoriesOK' /\ TornPending' /\ \A a \in Apps \ {app} : Unchanged(a)
      BY <1>1, <1>3, UnpublishedIsOK DEF IInv, TypeOK, RepositoriesOK, Unchanged
    <2> QED  BY <1>1, <2>1, StopRun
  <1> QED  BY <1>2, <1>3

\* What a failed commit may leave.
LEMMA CommitFailsStep == ASSUME IInv, CommitFails PROVE IInv'
  <1> USE DEF Running
  <1>1. /\ pc \in {"commit", "intent", "git-commit", "verify-commit"} /\ pc \in Turns /\ app \in Apps
        /\ UNCHANGED <<plan, history, tree, other, marker, deployed>>
    <2>1. pc \in {"commit", "intent", "git-commit", "verify-commit"} /\ UNCHANGED <<plan, history, tree, other, marker, deployed>>
      BY DEF CommitFails
    <2> QED  BY <2>1, TurnFacts DEF Turns
  <1>2. /\ \/ UNCHANGED commits
           \/ pc = "git-commit" /\ tree[app] \in Contents /\ Committed
        /\ \/ UNCHANGED intent
           \/ \E left \in BOOLEAN : intent' = [intent EXCEPT ![app] = left]
    BY DEF CommitFails
  <1>3. RepositoriesOK' /\ TornPending'
    BY <1>1, <1>2, CommittedIsOK DEF IInv, TypeOK, TornPending, RepositoriesOK
  <1>4. \A a \in Apps \ {app} : Unchanged(a)
    BY <1>1, <1>2 DEF Unchanged, IInv, TypeOK, Committed
  <1>5. NotCommitted
    BY DEF CommitFails
  <1>6. CASE Restoring
    BY <1>1, <1>3, <1>4, <1>5, <1>6, StopRun DEF NotCommitted
  <1>7. CASE ~Restoring
    <2>1. /\ goal = "UPDATED" /\ goal' = "FAILED_RECOVERED" /\ commit = Source /\ pc' = "inverse"
          /\ UNCHANGED <<app, commit, former, todo, result>>
      BY <1>1, <1>5, <1>7 DEF NotCommitted, Goto, Restoring, IInv, TurnShape
    <2>2. TurnShape'
      BY <1>1, <2>1 DEF TurnShape, Source
    <2>3. app \notin touched => commits'[app] \in Published(origin[app].commits)
      BY <1>1, <1>2, CommittedIsPublished DEF IInv, TurnKnown
    <2>4. TurnKnown'
      BY <1>1, <2>1, <2>3 DEF TurnKnown, Published, Before, Wanted, history
    <2>5. goal' \in Goals /\ commit' \in Nat /\ former' \in Nat
      BY <2>1 DEF IInv, TypeOK, Goals
    <2> QED  BY <1>1, <1>3, <1>4, <2>1, <2>2, <2>4, <2>5, GoOn DEF Turns
  <1> QED  BY <1>6, <1>7

\* An error after the commit.
LEMMA FailedStep ==
  ASSUME IInv, pc \in {"check", "activate", "verify-state", "verify-live"}, Failed,
         UNCHANGED <<repositories, stale, plan, turn, history>>,
         live' \in [Apps -> Nat], \A a \in Apps \ {app} : live'[a] = live[a]
  PROVE  IInv'
  <1> USE DEF repositories, turn, history
  <1>1. pc \in Turns /\ app \in Apps
    BY TurnFacts DEF Turns
  <1>2. RepositoriesOK' /\ TornPending'
    BY DEF IInv, TypeOK, TornPending, RepositoriesOK
  <1>3. \A a \in Apps \ {app} : Unchanged(a)
    BY DEF Unchanged
  <1>4. CASE goal = "UPDATED"
    <2>1. pc' = "inspect-live" /\ UNCHANGED <<todo, result>> /\ commit = Source + 1
      BY <1>4 DEF Failed, Goto, IInv, TurnShape
    <2>2. TurnShape'
      BY <1>4, <2>1 DEF TurnShape, Source
    <2>3. TurnKnown'
      BY <1>1, <2>1 DEF IInv, TurnKnown, Published, Before, Wanted
    <2>4. goal' \in Goals /\ commit' \in Nat /\ former' \in Nat
      BY <1>4 DEF IInv, TypeOK, Goals
    <2> QED  BY <1>1, <1>2, <1>3, <2>1, <2>2, <2>3, <2>4, GoOn DEF Turns
  <1>5. CASE goal # "UPDATED"
    BY <1>1, <1>2, <1>3, <1>5, StopRun DEF Failed
  <1> QED  BY <1>4, <1>5

LEMMA StepFailsStep == ASSUME IInv, StepFails PROVE IInv'
  <1>1. /\ pc \in {"check", "activate"} /\ Failed /\ UNCHANGED <<repositories, stale, plan, turn, history>>
        /\ UNCHANGED live \/ \E c \in {live[app], commit} : live' = [live EXCEPT ![app] = c]
    BY DEF StepFails, Running
  <1>2. live' \in [Apps -> Nat] /\ \A a \in Apps \ {app} : live'[a] = live[a]
    BY <1>1 DEF IInv, TypeOK
  <1> QED  BY <1>1, <1>2, FailedStep

LEMMA VerifyFailsStep == ASSUME IInv, VerifyFails PROVE IInv'
  <1>1. /\ pc \in {"verify-state", "verify-live"} /\ Failed
        /\ UNCHANGED <<repositories, plan, turn, history, deployed>>
    BY DEF VerifyFails, Running, Same
  <1>2. live' \in [Apps -> Nat] /\ \A a \in Apps \ {app} : live'[a] = live[a]
    BY <1>1 DEF IInv, TypeOK
  <1> QED  BY <1>1, <1>2, FailedStep

LEMMA VerifyStateStep == ASSUME IInv, VerifyState PROVE IInv'
  <1> USE DEF VerifyState, Running, Same
  <1>1. CASE Clean(app) /\ Tip(app) = commit
    <2> USE DEF Goto, repositories, turn, history
    <2>1. /\ pc \in Turns /\ pc' \in Turns /\ app \in Apps /\ pc = "verify-state" /\ pc' = "verify-live"
          /\ UNCHANGED <<plan, todo, app, result, history>>
      BY <1>1, TurnFacts DEF Turns
    <2>2. RepositoriesOK' /\ TornPending'
      BY DEF IInv, TypeOK, TornPending, RepositoriesOK
    <2>3. \A a \in Apps : Unchanged(a)
      BY DEF Unchanged
    <2>4. TurnShape'
      BY <2>1 DEF IInv, TurnShape, Source
    <2>5. Clean(app)' = Clean(app) /\ Tip(app)' = Tip(app)
      BY <2>1, <2>3, UnchangedIsSame DEF Tip
    <2>6. TurnKnown'
      BY <1>1, <2>1, <2>5 DEF IInv, TurnKnown, Published, Before, Wanted
    <2>7. goal' \in Goals /\ commit' \in Nat /\ former' \in Nat
      BY <2>1, TurnFacts DEF IInv, TypeOK
    <2> QED  BY <2>1, <2>2, <2>3, <2>4, <2>6, <2>7, GoOn
  <1>2. CASE ~(Clean(app) /\ Tip(app) = commit)
    <2>1. Failed /\ live' \in [Apps -> Nat] /\ \A a \in Apps \ {app} : live'[a] = live[a]
      BY <1>2 DEF IInv, TypeOK
    <2> QED  BY <2>1, FailedStep
  <1> QED  BY <1>1, <1>2

LEMMA InspectLiveStep == ASSUME IInv, InspectLive PROVE IInv'
  <1> USE DEF InspectLive, Running, repositories
  <1>1. /\ pc \in Turns /\ app \in Apps /\ goal = "UPDATED" /\ commit = Source + 1
        /\ UNCHANGED <<plan, history>>
    BY TurnFacts DEF Turns, IInv, TurnShape
  <1>2. RepositoriesOK' /\ TornPending' /\ \A a \in Apps : Unchanged(a)
    BY DEF IInv, TypeOK, TornPending, RepositoriesOK, Unchanged
  <1>3. CASE live[app] \in {plan[app].source, commit}
    <2>1. /\ pc' = "inverse" /\ former' = live[app] /\ goal' = "FAILED_RECOVERED"
          /\ UNCHANGED <<app, commit, todo, result>>
      BY <1>3 DEF Goto
    <2>2. TurnShape'
      BY <1>1, <2>1 DEF TurnShape, Source
    <2>3. TurnKnown'
      BY <1>1, <2>1 DEF IInv, TurnKnown, Published, Before, Wanted, history
    <2>4. goal' \in Goals /\ commit' \in Nat /\ former' \in Nat
      BY <1>1, <2>1 DEF IInv, TypeOK, Goals
    <2> QED  BY <1>1, <1>2, <2>1, <2>2, <2>3, <2>4, GoOn DEF Turns
  <1>4. CASE live[app] \notin {plan[app].source, commit}
    <2>1. Stop /\ UNCHANGED turn
      BY <1>4
    <2> QED  BY <1>1, <1>2, <2>1, StopRun
  <1> QED  BY <1>3, <1>4

LEMMA InspectLiveFailsStep == ASSUME IInv, InspectLiveFails PROVE IInv'
  <1> USE DEF InspectLiveFails, Running, Same, repositories
  <1>1. pc \in Turns /\ app \in Apps /\ UNCHANGED <<plan, turn, history>>
    BY TurnFacts DEF Turns
  <1>2. RepositoriesOK' /\ TornPending' /\ \A a \in Apps : Unchanged(a)
    BY DEF IInv, TypeOK, TornPending, RepositoriesOK, Unchanged
  <1> QED  BY <1>1, <1>2, StopRun

\* A turn that ends at its last step ends with a true status.
LEMMA VerifyLiveStep == ASSUME IInv, VerifyLive PROVE IInv'
  <1> USE DEF VerifyLive, Running
  <1>1. pc = "verify-live" /\ pc \in Turns /\ app \in Apps /\ goal \in Goals
    BY TurnFacts DEF Turns
  <1>2. CASE live[app] = commit
    <2>1. SUFFICES ASSUME app \notin touched PROVE Claim(app, goal)
      BY <1>1, <1>2, EndTurn
    <2>2. Settled(app) /\ Tip(app) = commit /\ tree[app] = TipBytes(app)
      BY <1>1, <1>2, <2>1 DEF IInv, TurnKnown, Settled, Clean, Unedited
    <2>3. /\ origin[app] = [tree |-> Before, clean |-> TRUE, commits |-> origin[app].commits, live |-> Source]
          /\ Before \in Contents /\ Wanted \in Contents \ {Before} /\ Source \in Nat
          /\ Len(origin[app].commits) = Source /\ origin[app].commits[Source] = Before
          /\ origin[app].commits \in Seq(Contents)
      BY <1>1, <2>1, TurnFacts
    <2>4. origin[app].tree = Before /\ Target(origin[app].tree) = Wanted
      BY <2>3 DEF Wanted
    <2>5. CASE goal = "UPDATED" /\ commit = Source + 1
      <3>1. commits[app] = Append(origin[app].commits, Wanted) /\ tree[app] = Wanted
        BY <1>1, <2>1, <2>2, <2>5, TipTells
      <3>2. /\ Target(Wanted) = Wanted /\ Wanted \in Compatible
            /\ LET f == Files[Wanted] IN {f.provenance.ui, f.artifact, f.lock} = {Platform}
        BY <2>3, TargetSettles DEF Wanted
      <3> QED  BY <2>2, <2>4, <2>5, <3>1, <3>2 DEF Claim
    <2>6. CASE commit = Source /\ goal \in {"BLOCKED", "FAILED_RECOVERED"}
      <3>1. commits[app] = origin[app].commits
        BY <1>1, <2>1, <2>2, <2>6, TipTells
      <3>2. tree[app] = Before
        BY <2>2, <2>3, <2>6, <3>1 DEF TipBytes
      <3>3. Observed(app) = origin[app]
        BY <1>2, <2>2, <2>3, <2>6, <3>1, <3>2 DEF Observed, Settled
      <3> QED  BY <2>2, <2>4, <2>6, <3>1, <3>2, <3>3 DEF Claim
    <2>7. CASE commit = Source + 2 /\ goal = "FAILED_RECOVERED"
      <3>1. commits[app] = Append(Append(origin[app].commits, Wanted), Before) /\ tree[app] = Before
        BY <1>1, <2>1, <2>2, <2>7, TipTells
      <3>2. commits[app] = origin[app].commits \o <<Wanted, Before>>
        BY <2>3, <3>1
      <3> QED  BY <2>2, <2>4, <2>7, <3>1, <3>2 DEF Claim
    <2> QED  BY <1>1, <2>5, <2>6, <2>7 DEF IInv, TurnShape
  <1>3. CASE live[app] # commit
    <2>1. Failed /\ UNCHANGED <<repositories, plan, turn, history, deployed>>
      BY <1>3 DEF Same
    <2>2. live' \in [Apps -> Nat] /\ \A a \in Apps \ {app} : live'[a] = live[a]
      BY <2>1 DEF IInv, TypeOK
    <2> QED  BY <1>1, <2>1, <2>2, FailedStep
  <1> QED  BY <1>2, <1>3

-----------------------------------------------------------------------------
\* A kill leaves what the step may have done, of one application.
LEMMA KillStep == ASSUME IInv, Kill PROVE IInv'
  <1>1. pc # "idle" /\ pc' = "idle" /\ UNCHANGED <<intent, commits, stale, plan, todo, turn, result, history>>
    BY DEF Kill
  <1>2. pc \in {"preview", "turn"} \/ pc \in Turns
    BY <1>1 DEF IInv, TypeOK, Idle
  <1>3. ResultKnown' /\ OriginKnown' /\ PlanKnown' /\ TurnShape' /\ TurnKnown'
    BY <1>1 DEF IInv, ResultKnown, OriginKnown, PlanKnown, TurnShape, TurnKnown, Turns, history, turn
  <1>4. CASE pc \in {"preview", "turn"}
    <2>1. \A a \in Apps : Unchanged(a)
      BY <1>1, <1>4 DEF Kill, Unchanged
    <2>2. TypeOK' /\ TornPending'
      BY <1>1, <1>4 DEF Kill, IInv, TypeOK, TornPending, Idle, Turns, turn, history
    <2>3. RestKnown'
      BY <1>1, <1>4, <2>1, UnchangedIsSame DEF IInv, RestKnown, history, turn
    <2>4. \A a \in Apps \ touched : Claim(a, result[a])'
      BY <1>1, <2>1, ClaimIsKept, ReportsAreClaims DEF IInv, history
    <2>5. ReportsAreTrue'
      BY <1>1, <2>4, ReportsAreClaimsNext DEF history
    <2> QED  BY <1>3, <2>2, <2>3, <2>5 DEF IInv
  <1>5. CASE pc \in Turns
    <2>1. app \in Apps /\ result[app] = "none" /\ Before \in Contents /\ Wanted \in Contents /\ commit \in Nat
      BY <1>5, TurnFacts DEF IInv, TypeOK
    <2>2. /\ tree' \in [Apps -> Contents \cup {Torn}] /\ marker' \in [Apps -> Contents \cup {None}]
          /\ other' \in [Apps -> BOOLEAN] /\ TornPending'
          /\ \A a \in Apps \ {app} : tree'[a] = tree[a] /\ other'[a] = other[a]
      <3>1. CASE UNCHANGED <<tree, other, marker>>
        BY <3>1 DEF IInv, TypeOK, TornPending
      <3>2. CASE Unpublished(Wanted) \/ Unpublished(Before)
        BY <2>1, <3>2, UnpublishedIsOK DEF IInv, TypeOK
      <3>3. CASE other' = [other EXCEPT ![app] = TRUE] /\ UNCHANGED <<tree, marker>>
        BY <3>3 DEF IInv, TypeOK, TornPending
      <3> QED  BY <3>1, <3>2, <3>3 DEF Kill
    <2>3. live' \in [Apps -> Nat] /\ \A a \in Apps \ {app} : live'[a] = live[a]
      BY <2>1 DEF Kill, IInv, TypeOK
    <2>4. \A a \in Apps \ {app} : Unchanged(a)
      BY <1>1, <2>2, <2>3 DEF Unchanged
    <2>5. TypeOK'
      BY <1>1, <2>2, <2>3 DEF IInv, TypeOK, Idle, Turns, turn, history
    <2>6. RestKnown'
      BY <1>1, <2>4, UnchangedIsSame DEF IInv, RestKnown, history, turn
    <2>7. \A a \in Apps \ touched : Claim(a, result[a])'
      <3>1. TAKE a \in Apps \ touched
      <3>2. CASE a = app
        BY <1>1, <2>1, <3>2 DEF Claim
      <3>3. CASE a # app
        BY <1>1, <2>4, <3>3, ClaimIsKept, ReportsAreClaims DEF IInv, history
      <3> QED  BY <3>2, <3>3
    <2>8. ReportsAreTrue'
      BY <1>1, <2>7, ReportsAreClaimsNext DEF history
    <2> QED  BY <1>3, <2>2, <2>5, <2>6, <2>8 DEF IInv
  <1> QED  BY <1>2, <1>4, <1>5

-----------------------------------------------------------------------------
\* Authors and operators.

LEMMA EditStep == ASSUME IInv, NEW a \in Apps, Edit(a) PROVE IInv'
  <1>1. RepositoriesOK' /\ TornPending' /\ \A b \in Apps \ {a} : Unchanged(b)
    BY DEF Edit, IInv, TypeOK, TornPending, RepositoriesOK, Unchanged
  <1> QED  BY <1>1, TouchStep DEF Edit

LEMMA AuthorCommitsStep == ASSUME IInv, NEW a \in Apps, AuthorCommits(a) PROVE IInv'
  <1> DEFINE more == Append(commits[a], tree[a])
  <1>1. more \in Seq(Contents) /\ more # <<>> /\ commits' = [commits EXCEPT ![a] = more]
    BY DEF AuthorCommits, IInv, TypeOK
  <1> HIDE DEF more
  <1>2. RepositoriesOK' /\ TornPending' /\ \A b \in Apps \ {a} : Unchanged(b)
    BY <1>1 DEF AuthorCommits, IInv, TypeOK, TornPending, RepositoriesOK, Unchanged
  <1> QED  BY <1>2, TouchStep DEF AuthorCommits

LEMMA DeployStep == ASSUME IInv, NEW a \in Apps, Deploy(a) PROVE IInv'
  <1>1. UNCHANGED <<repositories, stale>> /\ \E c \in 0 .. Tip(a) : live' = [live EXCEPT ![a] = c]
    BY DEF Deploy
  <1>2. Tip(a) \in Nat
    BY TipIsKnown DEF IInv
  <1>3. PICK c \in 0 .. Tip(a) : live' = [live EXCEPT ![a] = c]
    BY <1>1
  <1>4. RepositoriesOK /\ TornPending
    BY DEF IInv, TypeOK, RepositoriesOK
  <1>5. live' \in [Apps -> Nat] /\ \A b \in Apps \ {a} : live'[b] = live[b]
    BY <1>2, <1>3, <1>4 DEF RepositoriesOK
  <1>6. RepositoriesOK' /\ TornPending'
    BY <1>1, <1>4, <1>5 DEF RepositoriesOK, TornPending, repositories
  <1>7. \A b \in Apps \ {a} : Unchanged(b)
    BY <1>1, <1>5 DEF Unchanged, repositories
  <1> QED  BY <1>6, <1>7, TouchStep DEF Deploy

LEMMA RegisterStep == ASSUME IInv, NEW a \in Apps, Register(a) PROVE IInv'
  <1>1. RepositoriesOK' /\ TornPending' /\ \A b \in Apps \ {a} : Unchanged(b)
    BY DEF Register, IInv, TypeOK, TornPending, RepositoriesOK, Unchanged, repositories
  <1> QED  BY <1>1, TouchStep DEF Register

LEMMA UpdateAloneStep == ASSUME IInv, NEW a \in Apps, UpdateAlone(a) PROVE IInv'
  <1> DEFINE found == IF marker[a] = None THEN tree[a] ELSE marker[a]
             wanted(request, foundation) ==
               IF found = TipBytes(a) THEN Plan[found][request][foundation] ELSE None
  <1>1. found \in Contents
    BY DEF IInv, TypeOK, TornPending
  <1>2. PICK request \in Requests, foundation \in BOOLEAN :
          tree' = [tree EXCEPT ![a] = IF wanted(request, foundation) = None THEN found
                                      ELSE wanted(request, foundation)]
    BY DEF UpdateAlone
  <1>3. wanted(request, foundation) \in Contents \cup {None}
    BY <1>1, PlanIsKnown
  <1>4. Touch(a) /\ marker' = [marker EXCEPT ![a] = None] /\ UNCHANGED <<other, intent, commits, deployed>>
    BY DEF UpdateAlone
  <1> HIDE DEF found, wanted
  <1>5. PICK c \in Contents : tree' = [tree EXCEPT ![a] = c]
    BY <1>1, <1>2, <1>3
  <1>6. RepositoriesOK' /\ TornPending' /\ \A b \in Apps \ {a} : Unchanged(b)
    BY <1>4, <1>5 DEF IInv, TypeOK, TornPending, RepositoriesOK, Unchanged
  <1> QED  BY <1>4, <1>6, TouchStep

LEMMA NextStep == ASSUME IInv, [Next]_vars PROVE IInv'
  <1>1. CASE UNCHANGED vars
    <2> USE <1>1 DEF vars, repositories, turn, history, counts
    <2>1. \A a \in Apps : Unchanged(a)
      BY DEF Unchanged
    <2>2. TypeOK' /\ TornPending' /\ ResultKnown' /\ OriginKnown' /\ PlanKnown' /\ TurnShape'
      BY DEF IInv, TypeOK, TornPending, ResultKnown, OriginKnown, PlanKnown, TurnShape, Source, Before
    <2>3. RestKnown'
      BY <2>1, UnchangedIsSame DEF IInv, RestKnown
    <2>4. TurnKnown'
      BY DEF IInv, TurnKnown, Published, Observed, Clean, Unedited, Tip, TipBytes, Before, Wanted, To, Restoring
    <2>5. \A a \in Apps \ touched : Claim(a, result[a])'
      BY <2>1, ClaimIsKept, ReportsAreClaims DEF IInv
    <2>6. ReportsAreTrue'
      BY <2>5, ReportsAreClaimsNext
    <2> QED  BY <2>2, <2>3, <2>4, <2>6 DEF IInv
  <1>2. CASE Start
    BY <1>2, StartStep
  <1>3. CASE Steps
    <2>1. ASSUME NEW a \in Apps, Preview(a) \/ PreviewFails(a) PROVE IInv'
      BY <2>1, PreviewedStep DEF Preview, PreviewFails
    <2>2. ASSUME NEW a \in Apps, Turn(a) PROVE IInv'
      BY <2>2, TurnStep
    <2> QED
      BY <1>3, <2>1, <2>2, RepeatStep, RepeatFailsStep, UpdateStep, UpdateRefusedStep, UpdateFailsStep,
         InverseStep, InverseFailsStep, CheckCommitStep, IntendToAddStep, GitCommitStep, VerifyCommitStep,
         CommitFailsStep, CheckStep, ActivateStep, StepFailsStep, VerifyStateStep, VerifyLiveStep,
         VerifyFailsStep, InspectLiveStep, InspectLiveFailsStep DEF Steps
  <1>4. CASE Kill
    BY <1>4, KillStep
  <1>5. CASE Others
    BY <1>5, EditStep, AuthorCommitsStep, DeployStep, RegisterStep, UpdateAloneStep DEF Others
  <1> QED  BY <1>1, <1>2, <1>3, <1>4, <1>5 DEF Next

LEMMA Invariance == Spec => []IInv
  BY InitIInv, NextStep, PTL DEF Spec

\* What was settled and is not is the application whose turn the run was in.
LEMMA OneIsUnsettled == ASSUME IInv PROVE OneUnsettled
  <1>1. \A a \in Unsettled : a = app
    <2>1. SUFFICES ASSUME NEW a \in Apps \ touched, a # app, origin[a].clean,
                          origin[a].live = Len(origin[a].commits)
                   PROVE  Settled(a)
      BY DEF Unsettled
    <2>2. Claim(a, result[a])
      BY ReportsAreClaims DEF IInv
    <2>3. CASE result[a] \in {"UPDATED", "FAILED_RECOVERED"}
      BY <2>2, <2>3 DEF Claim
    <2>4. CASE result[a] \in {"none", "CURRENT", "SKIPPED", "BLOCKED"}
      <3>1. Observed(a) = origin[a]
        BY <2>1, <2>2, <2>4 DEF Claim, IInv, RestKnown
      <3>2. Clean(a) /\ live[a] = Len(commits[a])
        BY <2>1, <3>1, ObservedParts
      <3> QED  BY <3>2 DEF Settled, Tip
    <2> QED  BY <2>1, <2>3, <2>4 DEF IInv, TypeOK, ResultKnown, Results, Statuses, Goals
  <1> QED  BY <1>1 DEF OneUnsettled

-----------------------------------------------------------------------------
\* Every variable keeps its kind, and a turn belongs to a READY application
\* that has no result yet.
THEOREM TypeCorrect == Spec => []TypeOK
  BY Invariance, PTL DEF IInv

\* A status the fleet updater reports tells the truth about an application nobody
\* else has touched: what was updated is one commit more, live, clean, of one
\* build and its own plan; what was recovered has its former bytes, committed and
\* live; what was not attempted has not changed.
THEOREM StatusesAreTrue == Spec => []ReportsAreTrue
  BY Invariance, PTL DEF IInv

\* A run leaves at most one application unsettled, wherever it stops or is killed.
THEOREM AtMostOneUnsettled == Spec => []OneUnsettled
  BY Invariance, OneIsUnsettled, PTL

=============================================================================
