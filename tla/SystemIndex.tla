----------------------------- MODULE SystemIndex -----------------------------
(***************************************************************************)
(* The live statuses of the System Index page: the effect of               *)
(* apps/system-index/src/SystemIndex.tsx and the sweeps of                 *)
(* statusController.ts.                                                    *)
(*                                                                         *)
(* React runs the effect, cleans it up and runs it again (StrictMode does  *)
(* so at once); each run loads the registry and starts a controller of its *)
(* own.  A sweep probes every application's frontend and then its backend; *)
(* an interval and the page becoming visible ask for sweeps.  Cleaning up  *)
(* does not cancel probes in flight: their answers arrive later, beside    *)
(* those of the next run.  JavaScript runs each handler to its next await, *)
(* so an action is one handler with the microtasks it settles.             *)
(***************************************************************************)
EXTENDS Naturals

CONSTANTS
    Runs,     \* runs of the effect
    Apps,     \* registered applications
    Backends  \* those with a backend to probe

ASSUME SomeBackends == Backends \subseteq Apps

VARIABLES
    visible,  \* document.visibilityState
    reality,  \* what a probe of each application would find
    page,     \* what the page shows: loading, ready or error
    status,   \* the status shown for each application
    effect,   \* each run: unborn, loading, started or over; and whether it is active
    control,  \* each controller: stopped, sweepActive and pendingVisibleRefresh
    probes    \* probes in flight of each controller: frontend and backend

vars == <<visible, reality, page, status, effect, control, probes>>

Found == {"online", "frontend-only", "offline"}
Reachable(a) == IF a \in Backends THEN Found ELSE {"online", "offline"}

NewControl == [stopped |-> FALSE, sweepActive |-> FALSE, pending |-> FALSE]
NoProbes == [a \in Apps |-> [frontend |-> 0, backend |-> 0]]

Init ==
    /\ visible \in BOOLEAN
    /\ reality \in {r \in [Apps -> Found] : \A a \in Apps : r[a] \in Reachable(a)}
    /\ page = "loading" /\ status = [a \in Apps |-> "none"]
    /\ effect = [r \in Runs |-> [phase |-> "unborn", active |-> FALSE]]
    /\ control = [r \in Runs |-> NewControl] /\ probes = [r \in Runs |-> NoProbes]

-----------------------------------------------------------------------------
\* Mutant: a run that was cleaned up still changes statuses.
UpdatedAlways(r, shown) == status' = shown

\* update of SystemIndex.tsx: only the active run may change a status.
Updated(r, shown) == status' = IF effect[r].active THEN shown ELSE status

AllChecking == [a \in Apps |-> "checking"]

\* Every frontend is probed.
Probed(before) == [a \in Apps |-> [before[a] EXCEPT !.frontend = @ + 1]]

\* checkAll: every application becomes `checking' and its frontend is probed.
Sweep(r, pending) ==
    /\ control' = [control EXCEPT ![r].sweepActive = TRUE, ![r].pending = pending]
    /\ probes' = [probes EXCEPT ![r] = Probed(probes[r])]
    /\ Updated(r, AllChecking)

NoSweep == UNCHANGED <<control, probes, status>>

\* Mutant: a sweep does not look for the one before it.
RunSweepAlways(r) == IF control[r].stopped THEN NoSweep ELSE Sweep(r, control[r].pending)

RunSweep(r) ==
    IF control[r].stopped \/ control[r].sweepActive THEN NoSweep
    ELSE Sweep(r, control[r].pending)

Mount(r) ==
    /\ effect[r].phase = "unborn" /\ \A s \in Runs : ~effect[s].active
    /\ effect' = [effect EXCEPT ![r] = [phase |-> "loading", active |-> TRUE]]
    /\ UNCHANGED <<visible, reality, page, status, control, probes>>

\* The cleanup: the controller's listeners go, its probes stay in flight.
Unmount(r) ==
    /\ effect[r].active
    /\ effect' = [effect EXCEPT ![r].active = FALSE]
    /\ control' = [control EXCEPT ![r] = [@ EXCEPT !.stopped = TRUE, !.pending = FALSE]]
    /\ UNCHANGED <<visible, reality, page, status, probes>>

RegistryLoaded(r) ==
    /\ effect[r].phase = "loading"
    /\ IF effect[r].active
         THEN /\ page' = "ready" /\ RunSweep(r)
              /\ effect' = [effect EXCEPT ![r].phase = "started"]
         ELSE /\ effect' = [effect EXCEPT ![r].phase = "over"]
              /\ UNCHANGED page /\ NoSweep
    /\ UNCHANGED <<visible, reality>>

RegistryFails(r) ==
    /\ effect[r].phase = "loading"
    /\ page' = IF effect[r].active THEN "error" ELSE page
    /\ effect' = [effect EXCEPT ![r].phase = "over"]
    /\ UNCHANGED <<visible, reality, status, control, probes>>

-----------------------------------------------------------------------------
\* The sweep is over once `left' are the probes still in flight; it may ask for
\* another one at once.
Settled(left) == \A a \in Apps : left[a].frontend = 0 /\ left[a].backend = 0

Again(r) == ~control[r].stopped /\ control[r].pending /\ visible

\* The controller after an answer: a sweep that is over consumes the request.
Released(r, left) ==
    IF Settled(left) THEN [control EXCEPT ![r] = [@ EXCEPT !.sweepActive = FALSE, !.pending = FALSE]]
    ELSE control

\* Mutants: a failing backend is not shown, or a sweep stays active.
SettleUnshown(r, a, left, shown) ==
    /\ probes' = [probes EXCEPT ![r] = left] /\ control' = Released(r, left)
    /\ Updated(r, IF shown = "frontend-only" THEN status ELSE [status EXCEPT ![a] = shown])

SettleActive(r, a, left, shown) ==
    /\ probes' = [probes EXCEPT ![r] = left] /\ UNCHANGED control
    /\ Updated(r, [status EXCEPT ![a] = shown])

\* A probe settles with the status it shows.
Settle(r, a, left, shown) ==
    IF Settled(left) /\ Again(r)
      THEN /\ probes' = [probes EXCEPT ![r] = Probed(left)]
           /\ control' = [control EXCEPT ![r].pending = FALSE]
           /\ Updated(r, AllChecking)
    ELSE   /\ probes' = [probes EXCEPT ![r] = left] /\ control' = Released(r, left)
           /\ Updated(r, [status EXCEPT ![a] = shown])

FrontendAnswers(r, a) ==
    LET left == [probes[r] EXCEPT ![a].frontend = @ - 1] IN
    /\ probes[r][a].frontend > 0
    /\ IF reality[a] = "offline" THEN Settle(r, a, left, "offline")
       ELSE IF a \notin Backends THEN Settle(r, a, left, "online")
       ELSE /\ probes' = [probes EXCEPT ![r] = [left EXCEPT ![a].backend = @ + 1]]
            /\ UNCHANGED <<control, status>>
    /\ UNCHANGED <<visible, reality, page, effect>>

\* The backend may have changed since its frontend answered.
BackendAnswers(r, a) ==
    LET left == [probes[r] EXCEPT ![a].backend = @ - 1] IN
    /\ probes[r][a].backend > 0
    /\ Settle(r, a, left, IF reality[a] = "online" THEN "online" ELSE "frontend-only")
    /\ UNCHANGED <<visible, reality, page, effect>>

Interval(r) ==
    /\ effect[r].phase = "started" /\ ~control[r].stopped /\ visible
    /\ RunSweep(r)
    /\ UNCHANGED <<visible, reality, page, effect>>

\* Mutant: a page that becomes visible during a sweep is not noted.
VisibleListenerForgets(r) == RunSweep(r)

\* The listener of the running controller: a sweep in progress only notes it.
VisibleListener(r) ==
    IF control[r].sweepActive
      THEN control' = [control EXCEPT ![r].pending = TRUE] /\ UNCHANGED <<probes, status>>
      ELSE RunSweep(r)

Listening(r) == effect[r].phase = "started" /\ ~control[r].stopped

VisibilityChanges ==
    /\ visible' = ~visible
    /\ \/ visible' /\ \E r \in Runs : Listening(r) /\ VisibleListener(r)
       \/ (visible \/ \A r \in Runs : ~Listening(r)) /\ NoSweep
    /\ UNCHANGED <<reality, page, effect>>

RealityChanges ==
    /\ \E a \in Apps : \E found \in Reachable(a) \ {reality[a]} :
          reality' = [reality EXCEPT ![a] = found]
    /\ UNCHANGED <<visible, page, status, effect, control, probes>>

Answers(r) == \E a \in Apps : FrontendAnswers(r, a) \/ BackendAnswers(r, a)

Next ==
    \/ \E r \in Runs : Mount(r) \/ Unmount(r) \/ RegistryLoaded(r) \/ RegistryFails(r)
    \/ \E r \in Runs : Answers(r) \/ Interval(r)
    \/ VisibilityChanges \/ RealityChanges

Spec == Init /\ [][Next]_vars

\* A probe is answered or aborted after three seconds.
AnsweredSpec ==
    /\ Spec
    /\ \A r \in Runs, a \in Apps :
          WF_vars(FrontendAnswers(r, a)) /\ WF_vars(BackendAnswers(r, a))

-----------------------------------------------------------------------------
\* Kinds of values, and no two sweeps of a controller overlap: at most one probe
\* of an application is in flight.
TypeOK ==
    /\ visible \in BOOLEAN /\ reality \in [Apps -> Found] /\ page \in {"loading", "ready", "error"}
    /\ status \in [Apps -> Found \cup {"none", "checking"}]
    /\ effect \in [Runs -> [phase: {"unborn", "loading", "started", "over"}, active: BOOLEAN]]
    /\ control \in [Runs -> [stopped: BOOLEAN, sweepActive: BOOLEAN, pending: BOOLEAN]]
    /\ probes \in [Runs -> [Apps -> [frontend: 0..1, backend: 0..1]]]
    /\ \A r \in Runs, a \in Apps : probes[r][a].frontend + probes[r][a].backend <= 1

Live(r) == effect[r].active /\ effect[r].phase = "started"

\* `Checking' never sticks: while it is shown, a probe of the live run's own
\* controller is in flight for that application.
CheckingIsProbed ==
    \A r \in Runs, a \in Apps : Live(r) /\ status[a] = "checking" =>
        probes[r][a].frontend + probes[r][a].backend > 0

\* A run that was cleaned up never changes what a later run shows, whenever its
\* probes and its registry are answered.
LateAnswersIgnored ==
    [][\A r \in Runs :
          ~effect[r].active /\ ~effect'[r].active
          /\ (probes'[r] # probes[r] \/ effect'[r].phase # effect[r].phase)
            => status' = status /\ page' = page]_vars

StatusFound(found) == \A a \in Apps : status[a] \in {found[a], "checking"}

\* Coming back to a page refreshes it without the interval, however the visit
\* falls into a sweep: what was found while the page was hidden is shown, not what
\* the sweep in progress had already settled.
VisibleRefresh ==
    \A found \in [Apps -> Found], r \in Runs :
        [](~visible /\ [](Live(r) /\ reality = found) /\ <>[]visible => <>[]StatusFound(found))

\* The interval fires every thirty seconds.
IntervalFires == \A r \in Runs : WF_vars(Interval(r))

\* When the outside stops changing, the interval makes every status the one a probe
\* finds.
Converges ==
    IntervalFires => \A found \in [Apps -> Found], r \in Runs :
        <>[](visible /\ Live(r) /\ reality = found) =>
            <>[]StatusFound(found) /\ \A a \in Apps : []<>(status[a] = found[a])

=============================================================================
