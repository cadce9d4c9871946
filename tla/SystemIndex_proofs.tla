--------------------------- MODULE SystemIndex_proofs ---------------------------
(***************************************************************************)
(* Theorems about SystemIndex, for any number of runs of the effect and of *)
(* applications.                                                           *)
(***************************************************************************)
EXTENDS SystemIndex, TLAPS

\* What is in flight belongs to a sweep that is noted.
SweepNoted ==
    \A r \in Runs, a \in Apps :
        probes[r][a].frontend + probes[r][a].backend > 0 => control[r].sweepActive

\* Before its registry is loaded a run has neither sweep nor probes.
NothingEarly ==
    \A r \in Runs : effect[r].phase \in {"unborn", "loading"} =>
        ~control[r].sweepActive /\ \A a \in Apps : probes[r][a] = [frontend |-> 0, backend |-> 0]

\* A controller is stopped by the cleanup, which ends the activity of its run;
\* there is one active run at a time.
Cleanups ==
    /\ \A r \in Runs : control[r].stopped => ~effect[r].active
    /\ \A r \in Runs : effect[r].phase = "unborn" => ~effect[r].active /\ ~control[r].stopped
    /\ \A r, s \in Runs : effect[r].active /\ effect[s].active => r = s

IInv == TypeOK /\ SweepNoted /\ NothingEarly /\ Cleanups /\ CheckingIsProbed

InFlight == [frontend: 0..1, backend: 0..1]

-----------------------------------------------------------------------------
LEMMA InitIInv == Init => IInv
  BY DEF Init, IInv, TypeOK, SweepNoted, NothingEarly, Cleanups, CheckingIsProbed, Live,
         NewControl, NoProbes, Found, Reachable

\* A sweep of a controller without probes puts one frontend probe in flight for
\* each application.
OneEach == [a \in Apps |-> [frontend |-> 1, backend |-> 0]]

LEMMA ProbedIsOneEach ==
  ASSUME NEW left \in [Apps -> InFlight], \A a \in Apps : left[a].frontend = 0 /\ left[a].backend = 0
  PROVE  Probed(left) = OneEach
  BY DEF Probed, OneEach, InFlight

LEMMA SweepStarts ==
  ASSUME TypeOK, SweepNoted, NEW r \in Runs, NEW pending \in BOOLEAN,
         ~control[r].sweepActive, Sweep(r, pending)
  PROVE  /\ control' = [control EXCEPT ![r] = [@ EXCEPT !.sweepActive = TRUE, !.pending = pending]]
         /\ probes' = [probes EXCEPT ![r] = OneEach]
         /\ status' = IF effect[r].active THEN AllChecking ELSE status
  <1>1. \A a \in Apps : probes[r][a].frontend = 0 /\ probes[r][a].backend = 0
    BY DEF TypeOK, SweepNoted
  <1>2. Probed(probes[r]) = OneEach
    BY <1>1, ProbedIsOneEach DEF TypeOK, InFlight
  <1> QED  BY <1>2 DEF Sweep, Updated, TypeOK

\* What a sweep leaves of the invariant, for the run that began it.
LEMMA SweepKeeps ==
  ASSUME IInv, NEW r \in Runs, NEW pending \in BOOLEAN, ~control[r].sweepActive, Sweep(r, pending),
         visible' \in BOOLEAN, reality' \in [Apps -> Found], page' \in {"loading", "ready", "error"},
         effect' \in [Runs -> [phase: {"unborn", "loading", "started", "over"}, active: BOOLEAN]],
         \A s \in Runs : effect'[s].active = effect[s].active,
         \A s \in Runs : s # r => effect'[s] = effect[s],
         effect'[r].phase = "started"
  PROVE  IInv'
  <1>1. /\ control' = [control EXCEPT ![r] = [@ EXCEPT !.sweepActive = TRUE, !.pending = pending]]
        /\ probes' = [probes EXCEPT ![r] = OneEach]
        /\ status' = IF effect[r].active THEN AllChecking ELSE status
    BY SweepStarts DEF IInv
  <1>2. TypeOK'
    <2>1. control' \in [Runs -> [stopped: BOOLEAN, sweepActive: BOOLEAN, pending: BOOLEAN]]
      BY <1>1 DEF IInv, TypeOK
    <2>2. probes' \in [Runs -> [Apps -> InFlight]]
      BY <1>1 DEF IInv, TypeOK, OneEach, InFlight
    <2>3. \A s \in Runs, a \in Apps : probes'[s][a].frontend + probes'[s][a].backend <= 1
      BY <1>1 DEF IInv, TypeOK, OneEach
    <2>4. status' \in [Apps -> Found \cup {"none", "checking"}]
      BY <1>1 DEF IInv, TypeOK, AllChecking
    <2> QED  BY <2>1, <2>2, <2>3, <2>4 DEF TypeOK, InFlight
  <1>3. SweepNoted'
    BY <1>1 DEF IInv, TypeOK, SweepNoted
  <1>4. NothingEarly' /\ Cleanups'
    BY <1>1 DEF IInv, TypeOK, NothingEarly, Cleanups
  <1>5. CheckingIsProbed'
    BY <1>1 DEF IInv, TypeOK, CheckingIsProbed, Cleanups, Live, OneEach
  <1> QED  BY <1>2, <1>3, <1>4, <1>5 DEF IInv

\* What the end of a probe leaves of it: `left' is what is still in flight.
LEMMA SettleKeeps ==
  ASSUME IInv, NEW r \in Runs, NEW a \in Apps, NEW left \in [Apps -> InFlight], NEW shown \in Found,
         probes[r][a].frontend + probes[r][a].backend > 0,
         left[a].frontend = 0, left[a].backend = 0,
         \A b \in Apps : b # a => left[b] = probes[r][b],
         Settle(r, a, left, shown), UNCHANGED <<visible, reality, page, effect>>
  PROVE  IInv'
  <1>1. /\ control[r].sweepActive /\ effect[r].phase \notin {"unborn", "loading"}
        /\ probes \in [Runs -> [Apps -> InFlight]]
        /\ control \in [Runs -> [stopped: BOOLEAN, sweepActive: BOOLEAN, pending: BOOLEAN]]
        /\ status \in [Apps -> Found \cup {"none", "checking"}]
    BY DEF IInv, TypeOK, SweepNoted, NothingEarly, InFlight
  <1>2. shown # "checking"
    BY DEF Found
  <1>3. CASE Settled(left) /\ Again(r)
    <2>1. Probed(left) = OneEach
      BY <1>3, ProbedIsOneEach DEF Settled
    <2>2. /\ probes' = [probes EXCEPT ![r] = OneEach]
          /\ control' = [control EXCEPT ![r] = [@ EXCEPT !.pending = FALSE]]
          /\ status' = IF effect[r].active THEN AllChecking ELSE status
      BY <1>1, <1>3, <2>1 DEF Settle, Updated
    <2>3. TypeOK'
      <3>1. /\ probes' \in [Runs -> [Apps -> InFlight]]
            /\ \A s \in Runs, b \in Apps : probes'[s][b].frontend + probes'[s][b].backend <= 1
        BY <1>1, <2>2 DEF IInv, TypeOK, OneEach, InFlight
      <3>2. control' \in [Runs -> [stopped: BOOLEAN, sweepActive: BOOLEAN, pending: BOOLEAN]]
        BY <1>1, <2>2
      <3>3. status' \in [Apps -> Found \cup {"none", "checking"}]
        BY <1>1, <2>2 DEF AllChecking
      <3> QED  BY <3>1, <3>2, <3>3 DEF IInv, TypeOK, InFlight
    <2>4. SweepNoted'
      BY <1>1, <2>2 DEF IInv, SweepNoted
    <2>5. NothingEarly' /\ Cleanups'
      BY <1>1, <2>2 DEF IInv, NothingEarly, Cleanups
    <2>6. CheckingIsProbed'
      BY <1>1, <2>2 DEF IInv, CheckingIsProbed, Cleanups, Live, OneEach
    <2> QED  BY <2>3, <2>4, <2>5, <2>6 DEF IInv
  <1>4. CASE ~(Settled(left) /\ Again(r))
    <2>1. /\ probes' = [probes EXCEPT ![r] = left]
          /\ control' = Released(r, left)
          /\ status' = IF effect[r].active THEN [status EXCEPT ![a] = shown] ELSE status
      BY <1>4 DEF Settle, Updated
    <2>2. /\ control' \in [Runs -> [stopped: BOOLEAN, sweepActive: BOOLEAN, pending: BOOLEAN]]
          /\ \A s \in Runs : control'[s].stopped = control[s].stopped
          /\ \A s \in Runs : s # r => control'[s] = control[s]
          /\ ~Settled(left) => control'[r].sweepActive
      BY <1>1, <2>1 DEF Released
    <2>3. TypeOK'
      <3>1. probes' \in [Runs -> [Apps -> InFlight]]
        BY <1>1, <2>1
      <3>2. \A s \in Runs, b \in Apps : probes'[s][b].frontend + probes'[s][b].backend <= 1
        <4> SUFFICES ASSUME NEW s \in Runs, NEW b \in Apps
                     PROVE  probes'[s][b].frontend + probes'[s][b].backend <= 1
          OBVIOUS
        <4>1. CASE s = r /\ b = a
          BY <1>1, <2>1, <4>1
        <4>2. CASE ~(s = r /\ b = a)
          BY <1>1, <2>1, <4>2 DEF IInv, TypeOK
        <4> QED  BY <4>1, <4>2
      <3>3. status' \in [Apps -> Found \cup {"none", "checking"}]
        BY <1>1, <2>1
      <3> QED  BY <2>2, <3>1, <3>2, <3>3 DEF IInv, TypeOK, InFlight
    <2>4. SweepNoted'
      <3> SUFFICES ASSUME NEW s \in Runs, NEW b \in Apps,
                          probes'[s][b].frontend + probes'[s][b].backend > 0
                   PROVE  control'[s].sweepActive
        BY DEF SweepNoted
      <3>1. CASE s = r
        <4>1. left[b].frontend + left[b].backend > 0
          BY <1>1, <2>1, <3>1
        <4>2. ~Settled(left)
          BY <4>1 DEF Settled
        <4> QED  BY <2>2, <3>1, <4>2
      <3>2. CASE s # r
        BY <1>1, <2>1, <2>2, <3>2 DEF IInv, SweepNoted
      <3> QED  BY <3>1, <3>2
    <2>5. NothingEarly' /\ Cleanups'
      BY <1>1, <2>1, <2>2 DEF IInv, NothingEarly, Cleanups
    <2>6. CheckingIsProbed'
      <3> SUFFICES ASSUME NEW s \in Runs, NEW b \in Apps, Live(s), status'[b] = "checking"
                   PROVE  probes'[s][b].frontend + probes'[s][b].backend > 0
        BY DEF CheckingIsProbed, Live
      <3>1. CASE s = r
        <4>1. b # a /\ status[b] = "checking"
          BY <1>1, <1>2, <2>1, <3>1 DEF Live
        <4> QED  BY <1>1, <2>1, <3>1, <4>1 DEF IInv, CheckingIsProbed
      <3>2. CASE s # r
        <4>1. ~effect[r].active
          BY <3>2 DEF IInv, Cleanups, Live
        <4> QED  BY <1>1, <2>1, <3>2, <4>1 DEF IInv, CheckingIsProbed
      <3> QED  BY <3>1, <3>2
    <2> QED  BY <2>3, <2>4, <2>5, <2>6 DEF IInv
  <1> QED  BY <1>3, <1>4

-----------------------------------------------------------------------------
\* The steps of the effect.

LEMMA MountStep == ASSUME IInv, NEW r \in Runs, Mount(r) PROVE IInv'
  <1>1. TypeOK'
    BY DEF IInv, TypeOK, Mount
  <1>2. SweepNoted' /\ NothingEarly' /\ Cleanups'
    BY DEF IInv, TypeOK, SweepNoted, NothingEarly, Cleanups, Mount
  <1>3. CheckingIsProbed'
    BY DEF IInv, TypeOK, CheckingIsProbed, Live, Mount
  <1> QED  BY <1>1, <1>2, <1>3 DEF IInv

LEMMA UnmountStep == ASSUME IInv, NEW r \in Runs, Unmount(r) PROVE IInv'
  <1>1. TypeOK'
    BY DEF IInv, TypeOK, Unmount
  <1>2. SweepNoted' /\ NothingEarly' /\ Cleanups'
    BY DEF IInv, TypeOK, SweepNoted, NothingEarly, Cleanups, Unmount
  <1>3. CheckingIsProbed'
    BY DEF IInv, TypeOK, CheckingIsProbed, Live, Unmount
  <1> QED  BY <1>1, <1>2, <1>3 DEF IInv

\* A controller starts without a sweep, so its first one begins.
LEMMA RegistryLoadedStep == ASSUME IInv, NEW r \in Runs, RegistryLoaded(r) PROVE IInv'
  <1>1. ~control[r].sweepActive /\ control[r].pending \in BOOLEAN
    BY DEF IInv, TypeOK, NothingEarly, RegistryLoaded
  <1>2. CASE effect[r].active
    <2>1. ~control[r].stopped
      BY <1>2 DEF IInv, Cleanups
    <2>2. Sweep(r, control[r].pending)
      BY <1>1, <1>2, <2>1 DEF RegistryLoaded, RunSweep
    <2>3. /\ effect' = [effect EXCEPT ![r].phase = "started"]
          /\ page' = "ready" /\ UNCHANGED <<visible, reality>>
      BY <1>2 DEF RegistryLoaded
    <2>4. /\ effect' \in [Runs -> [phase: {"unborn", "loading", "started", "over"}, active: BOOLEAN]]
          /\ \A s \in Runs : effect'[s].active = effect[s].active
          /\ \A s \in Runs : s # r => effect'[s] = effect[s]
          /\ effect'[r].phase = "started"
      BY <2>3 DEF IInv, TypeOK
    <2>5. visible' \in BOOLEAN /\ reality' \in [Apps -> Found] /\ page' \in {"loading", "ready", "error"}
      BY <2>3 DEF IInv, TypeOK
    <2> QED  BY <1>1, <2>2, <2>4, <2>5, SweepKeeps
  <1>3. CASE ~effect[r].active
    <2>1. /\ effect' = [effect EXCEPT ![r].phase = "over"]
          /\ UNCHANGED <<visible, reality, page, status, control, probes>>
      BY <1>3 DEF RegistryLoaded, NoSweep
    <2>2. TypeOK'
      BY <2>1 DEF IInv, TypeOK
    <2>3. SweepNoted' /\ NothingEarly' /\ Cleanups'
      BY <2>1 DEF IInv, TypeOK, SweepNoted, NothingEarly, Cleanups
    <2>4. CheckingIsProbed'
      BY <2>1 DEF IInv, TypeOK, CheckingIsProbed, Live
    <2> QED  BY <2>2, <2>3, <2>4 DEF IInv
  <1> QED  BY <1>2, <1>3

LEMMA RegistryFailsStep == ASSUME IInv, NEW r \in Runs, RegistryFails(r) PROVE IInv'
  <1>1. TypeOK'
    BY DEF IInv, TypeOK, RegistryFails
  <1>2. SweepNoted' /\ NothingEarly' /\ Cleanups'
    BY DEF IInv, TypeOK, SweepNoted, NothingEarly, Cleanups, RegistryFails
  <1>3. CheckingIsProbed'
    BY DEF IInv, TypeOK, CheckingIsProbed, Live, RegistryFails
  <1> QED  BY <1>1, <1>2, <1>3 DEF IInv

-----------------------------------------------------------------------------
\* The steps of a controller.

\* A step that changes nothing the invariant reads of controllers and probes.
LEMMA ElsewhereStep ==
  ASSUME IInv, UNCHANGED <<page, status, effect, control, probes>>,
         visible' \in BOOLEAN, reality' \in [Apps -> Found]
  PROVE  IInv'
  BY DEF IInv, TypeOK, SweepNoted, NothingEarly, Cleanups, CheckingIsProbed, Live

LEMMA RunSweepStep ==
  ASSUME IInv, NEW r \in Runs, effect[r].phase = "started", RunSweep(r),
         visible' \in BOOLEAN, UNCHANGED <<reality, page, effect>>
  PROVE  IInv'
  <1>1. CASE control[r].stopped \/ control[r].sweepActive
    <2>1. UNCHANGED <<control, probes, status>>
      BY <1>1 DEF RunSweep, NoSweep
    <2> QED  BY <2>1, ElsewhereStep DEF IInv, TypeOK
  <1>2. CASE ~(control[r].stopped \/ control[r].sweepActive)
    <2>1. Sweep(r, control[r].pending) /\ control[r].pending \in BOOLEAN
      BY <1>2 DEF RunSweep, IInv, TypeOK
    <2> QED  BY <1>2, <2>1, SweepKeeps DEF IInv, TypeOK
  <1> QED  BY <1>1, <1>2

LEMMA FrontendStep == ASSUME IInv, NEW r \in Runs, NEW a \in Apps, FrontendAnswers(r, a) PROVE IInv'
  <1> DEFINE left == [probes[r] EXCEPT ![a].frontend = @ - 1]
  <1>1. /\ probes \in [Runs -> [Apps -> InFlight]]
        /\ probes[r][a] = [frontend |-> 1, backend |-> 0]
    BY DEF IInv, TypeOK, FrontendAnswers, InFlight
  <1>2. /\ left \in [Apps -> InFlight] /\ left[a].frontend = 0 /\ left[a].backend = 0
        /\ \A b \in Apps : b # a => left[b] = probes[r][b]
    BY <1>1 DEF InFlight
  <1>3. UNCHANGED <<visible, reality, page, effect>>
    BY DEF FrontendAnswers
  <1>4. CASE reality[a] = "offline" \/ a \notin Backends
    <2>1. PICK shown \in Found : Settle(r, a, left, shown)
      BY <1>4 DEF FrontendAnswers, Found
    <2>2. probes[r][a].frontend + probes[r][a].backend > 0
      BY <1>1
    <2> HIDE DEF left
    <2> QED  BY <1>2, <1>3, <2>1, <2>2, SettleKeeps
  <1>5. CASE ~(reality[a] = "offline" \/ a \notin Backends)
    <2>1. /\ probes' = [probes EXCEPT ![r] = [left EXCEPT ![a].backend = @ + 1]]
          /\ UNCHANGED <<control, status>>
      BY <1>5 DEF FrontendAnswers
    <2>2. /\ probes' \in [Runs -> [Apps -> InFlight]]
          /\ probes'[r][a] = [frontend |-> 0, backend |-> 1]
          /\ \A s \in Runs, b \in Apps : ~(s = r /\ b = a) => probes'[s][b] = probes[s][b]
      BY <1>1, <1>2, <2>1 DEF InFlight
    <2>3. \A s \in Runs, b \in Apps :
             probes'[s][b].frontend + probes'[s][b].backend = probes[s][b].frontend + probes[s][b].backend
      BY <1>1, <2>2
    <2>4. effect[r].phase \notin {"unborn", "loading"}
      BY <1>1 DEF IInv, NothingEarly
    <2>5. TypeOK'
      BY <1>3, <2>1, <2>2, <2>3 DEF IInv, TypeOK, InFlight
    <2>6. SweepNoted' /\ CheckingIsProbed'
      BY <1>3, <2>1, <2>3 DEF IInv, SweepNoted, CheckingIsProbed, Live
    <2>7. NothingEarly' /\ Cleanups'
      BY <1>3, <2>1, <2>2, <2>4 DEF IInv, NothingEarly, Cleanups
    <2> QED  BY <2>5, <2>6, <2>7 DEF IInv
  <1> QED  BY <1>4, <1>5

LEMMA BackendStep == ASSUME IInv, NEW r \in Runs, NEW a \in Apps, BackendAnswers(r, a) PROVE IInv'
  <1> DEFINE left == [probes[r] EXCEPT ![a].backend = @ - 1]
  <1>1. /\ probes \in [Runs -> [Apps -> InFlight]]
        /\ probes[r][a] = [frontend |-> 0, backend |-> 1]
    BY DEF IInv, TypeOK, BackendAnswers, InFlight
  <1>2. /\ left \in [Apps -> InFlight] /\ left[a].frontend = 0 /\ left[a].backend = 0
        /\ \A b \in Apps : b # a => left[b] = probes[r][b]
    BY <1>1 DEF InFlight
  <1>3. PICK shown \in Found : Settle(r, a, left, shown)
    BY DEF BackendAnswers, Found
  <1>4. UNCHANGED <<visible, reality, page, effect>> /\ probes[r][a].frontend + probes[r][a].backend > 0
    BY <1>1 DEF BackendAnswers
  <1> HIDE DEF left
  <1> QED  BY <1>2, <1>3, <1>4, SettleKeeps

LEMMA VisibilityStep == ASSUME IInv, VisibilityChanges PROVE IInv'
  <1>1. visible' \in BOOLEAN /\ UNCHANGED <<reality, page, effect>>
    BY DEF VisibilityChanges, IInv, TypeOK
  <1>2. CASE NoSweep
    BY <1>1, <1>2, ElsewhereStep DEF NoSweep, IInv, TypeOK
  <1>3. CASE \E r \in Runs : Listening(r) /\ VisibleListener(r)
    <2>1. PICK r \in Runs : Listening(r) /\ VisibleListener(r)
      BY <1>3
    <2>2. CASE control[r].sweepActive
      <3>1. /\ control' = [control EXCEPT ![r].pending = TRUE]
            /\ UNCHANGED <<probes, status>>
        BY <2>1, <2>2 DEF VisibleListener
      <3>2. TypeOK'
        BY <1>1, <3>1 DEF IInv, TypeOK
      <3>3. SweepNoted' /\ NothingEarly' /\ Cleanups' /\ CheckingIsProbed'
        BY <1>1, <3>1 DEF IInv, TypeOK, SweepNoted, NothingEarly, Cleanups, CheckingIsProbed, Live
      <3> QED  BY <3>2, <3>3 DEF IInv
    <2>3. CASE ~control[r].sweepActive
      BY <1>1, <2>1, <2>3, RunSweepStep DEF VisibleListener, Listening
    <2> QED  BY <2>2, <2>3
  <1> QED  BY <1>2, <1>3 DEF VisibilityChanges

LEMMA NextStep == IInv /\ [Next]_vars => IInv'
  <1> SUFFICES ASSUME IInv, [Next]_vars PROVE IInv'
    OBVIOUS
  <1>1. ASSUME NEW r \in Runs, Mount(r) \/ Unmount(r) \/ RegistryLoaded(r) \/ RegistryFails(r)
        PROVE  IInv'
    BY <1>1, MountStep, UnmountStep, RegistryLoadedStep, RegistryFailsStep
  <1>2. ASSUME NEW r \in Runs, Answers(r) PROVE IInv'
    BY <1>2, FrontendStep, BackendStep DEF Answers
  <1>3. ASSUME NEW r \in Runs, Interval(r) PROVE IInv'
    BY <1>3, RunSweepStep DEF Interval, IInv, TypeOK
  <1>4. CASE VisibilityChanges
    BY <1>4, VisibilityStep
  <1>5. CASE RealityChanges
    <2>1. reality' \in [Apps -> Found]
      BY <1>5 DEF RealityChanges, Reachable, Found, IInv, TypeOK
    <2> QED  BY <1>5, <2>1, ElsewhereStep DEF RealityChanges, IInv, TypeOK
  <1>6. CASE UNCHANGED vars
    BY <1>6, ElsewhereStep DEF vars, IInv, TypeOK
  <1> QED  BY <1>1, <1>2, <1>3, <1>4, <1>5, <1>6 DEF Next

LEMMA SpecIInv == Spec => []IInv
  BY InitIInv, NextStep, PTL DEF Spec

-----------------------------------------------------------------------------
\* The kinds of values, and that the sweeps of a controller do not overlap.
THEOREM IndexTypeOK == Spec => []TypeOK
  <1>1. IInv => TypeOK
    BY DEF IInv
  <1> QED  BY <1>1, SpecIInv, PTL

\* `Checking' never sticks: a probe of the live run is in flight wherever it is
\* shown.
THEOREM IndexCheckingIsProbed == Spec => []CheckingIsProbed
  <1>1. IInv => CheckingIsProbed
    BY DEF IInv
  <1> QED  BY <1>1, SpecIInv, PTL

\* A run that was cleaned up changes neither statuses nor page.
THEOREM IndexLateAnswersIgnored == Spec => LateAnswersIgnored
  <1> DEFINE Ignored ==
        \A r \in Runs :
          ~effect[r].active /\ ~effect'[r].active
          /\ (probes'[r] # probes[r] \/ effect'[r].phase # effect[r].phase)
            => status' = status /\ page' = page
  <1>1. IInv /\ [Next]_vars => [Ignored]_vars
    <2> SUFFICES ASSUME IInv, Next, NEW s \in Runs, ~effect[s].active, ~effect'[s].active,
                        probes'[s] # probes[s] \/ effect'[s].phase # effect[s].phase
                 PROVE  status' = status /\ page' = page
      OBVIOUS
    <2>1. ASSUME NEW r \in Runs, Mount(r) \/ Unmount(r) PROVE status' = status /\ page' = page
      BY <2>1 DEF Mount, Unmount
    \* An active run keeps its activity, so it is not the run in question.
    <2>2. ASSUME NEW r \in Runs, RegistryLoaded(r) PROVE status' = status /\ page' = page
      BY <2>2 DEF RegistryLoaded, NoSweep, RunSweep, Sweep, IInv, TypeOK
    <2>3. ASSUME NEW r \in Runs, RegistryFails(r) PROVE status' = status /\ page' = page
      BY <2>3 DEF RegistryFails, IInv, TypeOK
    <2>4. ASSUME NEW r \in Runs, Answers(r) PROVE status' = status /\ page' = page
      BY <2>4 DEF Answers, FrontendAnswers, BackendAnswers, Settle, Updated, IInv, TypeOK
    <2>5. ASSUME NEW r \in Runs, Interval(r) PROVE status' = status /\ page' = page
      BY <2>5 DEF Interval, RunSweep, NoSweep, Sweep, Updated, IInv, TypeOK
    <2>6. CASE VisibilityChanges
      BY <2>6 DEF VisibilityChanges, VisibleListener, RunSweep, NoSweep, Sweep, Updated, IInv, TypeOK
    <2>7. CASE RealityChanges
      BY <2>7 DEF RealityChanges
    <2> QED  BY <2>1, <2>2, <2>3, <2>4, <2>5, <2>6, <2>7 DEF Next
  <1> QED  BY <1>1, SpecIInv, PTL DEF Spec, LateAnswersIgnored

=============================================================================
