-------------------------- MODULE Installation_proofs --------------------------
(***************************************************************************)
(* Proofs about Installation, for any number of processes, renderings,     *)
(* commands and faults: its state keeps its types, the theme in use is     *)
(* never lost, an installation that succeeds serves what it rendered, and  *)
(* one that fails leaves what it found.                                    *)
(***************************************************************************)
EXTENDS Installation, TLAPS

FilePairs == [caddyfile: Caddyfiles \cup {None}, plist: Plists \cup {None}]
StylePairs == [theme: Themes \cup {None}, former: Themes \cup {None}]
Jobs == [caddyfile: Caddyfiles \cup {None}, plist: Plists]
Tasks ==
    [kind: {"none", "install", "rollback"}, want: Sources \cup {None},
     mode: {"plain", "recover", "prepare"}, seen: BOOLEAN, live: BOOLEAN,
     prior: FilePairs, inner: FilePairs, styles: StylePairs, page: Pages \cup {None},
     action: {"none", "kept", "reloaded", "replaced"}, job: Jobs \cup {None}, served: BOOLEAN]

\* The steps of both commands; all others are those of an installation.
Shared == {"idle", "lock", "theme-former", "theme", "back-theme", "back-former"}
Activating == {"validate", "caddyfile", "plist", "reload", "bootout", "bootstrap"}
Serving == {"ingress", "theme-former", "theme", "assets", "former-home", "home"}
Restored == {"inspect", "reload-back", "stop", "stop-only", "start"}

\* What a command is about, and how far it is with the job.
TaskKnown(p) ==
    /\ pc[p] # "idle" => task[p].kind \in {"install", "rollback"}
    /\ pc[p] \notin Shared => task[p].kind = "install"
    /\ task[p].kind = "install" => task[p].want \in Sources
    /\ task[p].page \in assets \cup {None}
    /\ pc[p] \in {"former-home", "home"} => task[p].want.page \in assets
    /\ pc[p] \in {"bootout", "bootstrap"} => plist \in Plists
    /\ pc[p] \in Unlocked \cup Activating => task[p].action = "none"
    /\ task[p].action = "kept" => pc[p] \in {"inner-caddyfile", "inner-plist", "inspect", "stop", "start"}

\* The theme in use when the lock was taken, and what has become of it.
StylesKnown(p) ==
    pc[p] \notin Unlocked =>
        /\ task[p].styles.theme = worn
        /\ pc[p] \notin {"theme", "assets", "former-home", "home", "back-theme", "back-former"} =>
              Styles = task[p].styles
        /\ pc[p] \in {"theme", "back-former"} => theme = task[p].styles.theme
        /\ pc[p] = "theme" => formerTheme = Desired(p).former
        /\ pc[p] \in {"assets", "former-home", "home"} => theme = task[p].want.theme

\* A job that was in step when it was first looked at ran the files of then.
ServedKnown(p) ==
    /\ pc[p] \notin {"idle", "preflight", "recover", "prior"} /\ task[p].kind = "install"
    /\ task[p].served
    => task[p].job \in {None, task[p].prior}

\* What is in the files at each step, if nobody else touches files or job.
FilesKnown(p) ==
    p \in calm /\ task[p].kind = "install" =>
        /\ pc[p] = "prior" => (task[p].seen <=> job # None)
        /\ pc[p] \in {"lock", "validate", "caddyfile"} =>
              Files = task[p].prior /\ job = task[p].job
        /\ pc[p] = "plist" => caddyfile = Wanted(p).caddyfile /\ plist = task[p].prior.plist
        /\ pc[p] \in {"reload", "bootout", "bootstrap"} \cup Serving => Files = Wanted(p)
        /\ pc[p] \in Serving /\ task[p].served => InSync
        /\ pc[p] \in {"inner-plist", "back-plist"} => caddyfile = task[p].prior.caddyfile
        /\ pc[p] \in Restored => Files = task[p].prior

\* What has become of the job.
JobKnown(p) ==
    p \in calm /\ task[p].kind = "install" =>
        /\ pc[p] \notin {"idle", "preflight", "recover", "prior"} => (task[p].seen <=> task[p].job # None)
        /\ pc[p] \notin Unlocked \cup {"validate"} =>
              /\ task[p].inner = task[p].prior /\ (task[p].live <=> task[p].job # None)
              /\ task[p].action = "none" /\ pc[p] # "bootstrap" => job = task[p].job
              /\ task[p].action = "kept" /\ pc[p] \notin {"stop", "start"} => job = task[p].job
              /\ task[p].action # "none" \/ pc[p] \in {"reload", "bootout", "bootstrap"} \cup Restored =>
                    task[p].job # None
              /\ task[p].action = "reloaded" => job # None /\ job.plist = task[p].job.plist
              /\ pc[p] = "reload" => task[p].prior.plist = Wanted(p).plist
              /\ pc[p] = "reload-back" => task[p].action = "reloaded"
              /\ pc[p] = "inspect" => task[p].action = "kept"
              /\ pc[p] \in {"stop", "start"} => task[p].action \in {"kept", "replaced"}
              /\ pc[p] # "stop-only"

Local(p) == TaskKnown(p) /\ StylesKnown(p) /\ ServedKnown(p) /\ FilesKnown(p) /\ JobKnown(p)

\* The inductive invariant.
IInv ==
    /\ TypeOK /\ task \in [Processes -> Tasks]
    /\ \A p \in Processes : Local(p)
    /\ ThemeKept

\* The variables but for the control of the commands.
Kinds ==
    /\ caddyfile \in Caddyfiles \cup {None} /\ plist \in Plists \cup {None}
    /\ job = None \/ job \in Jobs
    /\ theme \in Themes \cup {None} /\ formerTheme \in Themes \cup {None}
    /\ assets \subseteq Pages /\ home \in assets \cup {None} /\ formerHome \in assets \cup {None}
LockHeld ==
    /\ pc \in [Processes -> Steps]
    /\ \A p \in Processes : lock = p <=> pc[p] \notin Unlocked

\* What a step of p may do to the rest of the world.
Elsewhere(p) ==
    /\ \A q \in Processes \ {p} : q \in calm' => q \in calm /\ UNCHANGED caddy
    /\ pc[p] \in Unlocked => UNCHANGED <<caddyfile, plist, styles>>
    /\ worn' = worn \/ (lock = None /\ worn' = theme)
    /\ assets \subseteq assets'

\* p is at another step with this memory, and all others are where they were.
At(p, step, memory) ==
    /\ pc'[p] = step /\ task'[p] = memory
    /\ \A q \in Processes \ {p} : pc'[q] = pc[q] /\ task'[q] = task[q]

USE Parameters

-----------------------------------------------------------------------------
\* The values a step writes are of their kinds.
LEMMA TypeParts == TypeOK <=> Kinds /\ LockHeld
  BY DEF TypeOK, Kinds, LockHeld, Jobs

LEMMA TypePartsNext == TypeOK' <=> Kinds' /\ LockHeld'
  BY DEF TypeOK, Kinds, LockHeld, Jobs

LEMMA SourceKinds ==
  ASSUME NEW s \in Sources
  PROVE  /\ s.caddy \in {t.caddy : t \in Sources} /\ s.plist \in Plists /\ s.theme \in Themes /\ s.page \in Pages
         /\ \A mode : Rendered(s, mode) \in Caddyfiles
  BY DEF Plists, Themes, Pages, Caddyfiles, Rendered

LEMMA WantedKinds ==
  ASSUME IInv, NEW p \in Processes, task[p].kind = "install"
  PROVE  /\ Wanted(p).caddyfile \in Caddyfiles /\ Wanted(p).plist \in Plists
         /\ Wanted(p) = [caddyfile |-> Wanted(p).caddyfile, plist |-> Wanted(p).plist]
         /\ task[p].want.page \in Pages /\ task[p].want.theme \in Themes
  <1>1. task[p].want \in Sources
    BY DEF IInv, Local, TaskKnown
  <1> QED  BY <1>1, SourceKinds DEF Wanted

LEMMA TaskParts ==
  ASSUME IInv, NEW p \in Processes
  PROVE  /\ task[p] \in Tasks
         /\ task[p].prior \in FilePairs /\ task[p].inner \in FilePairs
         /\ task[p].styles \in StylePairs /\ task[p].job \in Jobs \cup {None}
         /\ task[p].action \in {"none", "kept", "reloaded", "replaced"}
         /\ task[p].seen \in BOOLEAN /\ task[p].live \in BOOLEAN /\ task[p].served \in BOOLEAN
  BY DEF IInv, Tasks

LEMMA DesiredKinds ==
  ASSUME IInv, NEW p \in Processes, pc[p] # "idle"
  PROVE  /\ Desired(p).theme \in Themes \cup {None} /\ Desired(p).former \in Themes \cup {None}
         /\ pc[p] \notin Unlocked => worn = None \/ Desired(p).former = worn
         /\ task[p].kind = "install" => Desired(p).theme = task[p].want.theme
  <1>1. task[p].kind \in {"install", "rollback"}
    BY DEF IInv, Local, TaskKnown
  <1>2. pc[p] \notin Unlocked => task[p].styles.theme = worn
    BY DEF IInv, Local, StylesKnown
  <1>3. task[p].styles.theme \in Themes \cup {None} /\ task[p].styles.former \in Themes \cup {None}
    BY TaskParts DEF StylePairs
  <1> QED  BY <1>1, <1>2, <1>3, WantedKinds DEF Desired

LEMMA NoTaskKind == NoTask \in Tasks
  BY DEF NoTask, Tasks, NoFiles, NoStyles, FilePairs, StylePairs

LEMMA IdleIsLocal ==
  ASSUME NEW p \in Processes, pc'[p] = "idle", task'[p] = NoTask
  PROVE  Local(p)'
  BY DEF Local, TaskKnown, StylesKnown, ServedKnown, FilesKnown, JobKnown, NoTask, Shared, Unlocked

-----------------------------------------------------------------------------
\* The shape of a step: a command goes on, or it ends.

LEMMA OthersKept ==
  ASSUME IInv, NEW p \in Processes, NEW step, NEW memory, Elsewhere(p), At(p, step, memory),
         NEW q \in Processes \ {p}
  PROVE  Local(q)'
  <1>1. pc'[q] = pc[q] /\ task'[q] = task[q] /\ Local(q)
    BY DEF At, IInv
  <1>2. q \in calm' => q \in calm /\ UNCHANGED caddy
    BY DEF Elsewhere
  <1>3. pc[q] \notin Unlocked => pc[p] \in Unlocked /\ lock = q
    BY DEF IInv, TypeOK
  <1>4. pc[q] \notin Unlocked => UNCHANGED <<caddyfile, plist, styles, worn>>
    BY <1>3 DEF Elsewhere
  <1>5. Wanted(q)' = Wanted(q) /\ Desired(q)' = Desired(q)
    BY <1>1 DEF Wanted, Desired, Rendered
  <1>6. TaskKnown(q)'
    BY <1>1, <1>4 DEF Local, TaskKnown, Unlocked, Elsewhere
  <1>7. StylesKnown(q)'
    BY <1>1, <1>4, <1>5 DEF Local, StylesKnown, styles, Styles
  <1>8. ServedKnown(q)'
    BY <1>1 DEF Local, ServedKnown
  <1>9. FilesKnown(q)'
    BY <1>1, <1>2, <1>5 DEF Local, FilesKnown, Files, InSync, caddy
  <1>10. JobKnown(q)'
    BY <1>1, <1>2, <1>5 DEF Local, JobKnown, caddy
  <1> QED  BY <1>6, <1>7, <1>8, <1>9, <1>10 DEF Local

LEMMA StepKeeps ==
  ASSUME IInv, NEW p \in Processes, NEW step, NEW memory \in Tasks, Elsewhere(p), At(p, step, memory),
         task' \in [Processes -> Tasks], Kinds', LockHeld', Local(p)', ThemeKept'
  PROVE  IInv'
  BY OthersKept, TypePartsNext DEF IInv

LEMMA EndIsAt ==
  ASSUME IInv, NEW p \in Processes, NEW how, End(p, how)
  PROVE  At(p, "idle", NoTask) /\ LockHeld' /\ task' \in [Processes -> Tasks]
  <1>1. At(p, "idle", NoTask) /\ task' \in [Processes -> Tasks]
    BY NoTaskKind DEF At, End, IInv, TypeOK
  <1>2. pc' \in [Processes -> Steps]
    BY DEF End, IInv, TypeOK, Steps
  <1>3. \A q \in Processes : lock' = q <=> pc'[q] \notin Unlocked
    BY DEF End, IInv, TypeOK, Unlocked
  <1> QED  BY <1>1, <1>2, <1>3 DEF LockHeld

LEMMA EndStep ==
  ASSUME IInv, NEW p \in Processes, NEW how, End(p, how), Elsewhere(p), Kinds', ThemeKept'
  PROVE  IInv'
  <1>1. At(p, "idle", NoTask) /\ LockHeld' /\ task' \in [Processes -> Tasks]
    BY EndIsAt
  <1>2. Local(p)'
    BY <1>1, IdleIsLocal DEF At
  <1> QED  BY <1>1, <1>2, NoTaskKind, StepKeeps

LEMMA RememberIsAt ==
  ASSUME IInv, NEW p \in Processes, NEW step \in Steps, NEW memory \in Tasks,
         Remember(p, step, memory), step \in Unlocked <=> pc[p] \in Unlocked
  PROVE  At(p, step, memory) /\ LockHeld' /\ task' \in [Processes -> Tasks]
  BY DEF Remember, At, LockHeld, IInv, TypeOK

LEMMA GoOn ==
  ASSUME IInv, NEW p \in Processes, NEW step \in Steps, NEW memory \in Tasks,
         Remember(p, step, memory), step \in Unlocked <=> pc[p] \in Unlocked,
         Elsewhere(p), Kinds', ThemeKept', Local(p)'
  PROVE  IInv'
  BY RememberIsAt, StepKeeps

LEMMA InitIInv == Init => IInv
  <1> SUFFICES ASSUME Init PROVE IInv
    OBVIOUS
  <1>1. task \in [Processes -> Tasks]
    BY NoTaskKind DEF Init
  <1>2. TypeOK
    BY SourceKinds DEF Init, TypeOK, Unlocked, Steps, Files
  <1>3. \A p \in Processes : pc[p] = "idle" /\ task[p] = NoTask
    BY DEF Init
  <1>4. \A p \in Processes : Local(p)
    BY <1>3 DEF Local, TaskKnown, StylesKnown, ServedKnown, FilesKnown, JobKnown, NoTask, Shared, Unlocked
  <1> QED  BY <1>1, <1>2, <1>4 DEF Init, IInv, ThemeKept

\* Memories that differ in what a step remembers.
SameRequest(new, old) ==
    /\ new.kind = old.kind /\ new.want = old.want /\ new.mode = old.mode
    /\ new.styles = old.styles /\ new.page = old.page

SameJob(new, old) ==
    new.prior = old.prior /\ new.job = old.job /\ (new.served <=> old.served)

LEMMA ActionSet ==
  ASSUME NEW old \in Tasks, NEW action \in {"none", "kept", "reloaded", "replaced"}, NEW new,
         new = [old EXCEPT !.action = action]
  PROVE  /\ new \in Tasks /\ SameRequest(new, old) /\ SameJob(new, old) /\ new.action = action
         /\ (new.seen <=> old.seen) /\ (new.live <=> old.live) /\ new.inner = old.inner
  BY DEF Tasks, SameRequest, SameJob

LEMMA FilesKind == ASSUME IInv PROVE Files \in FilePairs /\ (InSync \in BOOLEAN) /\ job \in Jobs \cup {None}
  BY DEF IInv, TypeOK, Files, FilePairs, InSync, Jobs

LEMMA FilesAreSome == ASSUME IInv, plist # None PROVE Files \in Jobs /\ Files # None
  BY DEF IInv, TypeOK, Files, Jobs

LEMMA BeginStep == ASSUME IInv, NEW p \in Processes, Begin(p) PROVE IInv'
  <1> USE DEF Begin, caddy, styles, homes
  <1>1. PICK s \in Sources, mode \in {"plain", "recover", "prepare"} :
          task' = [task EXCEPT ![p] = [NoTask EXCEPT !.kind = "install", !.want = s, !.mode = mode]]
    OBVIOUS
  <1> DEFINE memory == [NoTask EXCEPT !.kind = "install", !.want = s, !.mode = mode]
  <1>2. memory \in Tasks /\ memory.kind = "install" /\ memory.want = s /\ memory.page = None
        /\ memory.action = "none" /\ memory.styles = NoStyles
    BY DEF NoTask, Tasks, NoFiles, NoStyles, FilePairs, StylePairs
  <1>3. task' = [task EXCEPT ![p] = memory]
    BY <1>1
  <1> HIDE DEF memory
  <1>4. At(p, "preflight", memory) /\ task' \in [Processes -> Tasks]
    BY <1>2, <1>3 DEF At, IInv, TypeOK
  <1>5. LockHeld'
    BY DEF LockHeld, IInv, TypeOK, Unlocked, Steps
  <1>6. Kinds' /\ ThemeKept'
    BY TypeParts DEF IInv, Kinds, ThemeKept
  <1>7. Elsewhere(p)
    BY DEF Elsewhere
  <1>8. Local(p)'
    BY <1>2, <1>4 DEF At, Local, TaskKnown, StylesKnown, ServedKnown, FilesKnown, JobKnown, Shared,
       Unlocked,
                      Activating, Serving, Restored
  <1> QED  BY <1>2, <1>4, <1>5, <1>6, <1>7, <1>8, StepKeeps

LEMMA BeginRollbackStep == ASSUME IInv, NEW p \in Processes, BeginRollback(p) PROVE IInv'
  <1> USE DEF BeginRollback, caddy, styles, homes
  <1> DEFINE memory == [NoTask EXCEPT !.kind = "rollback"]
  <1>1. memory \in Tasks /\ memory.kind = "rollback" /\ memory.page = None /\ memory.action = "none"
    BY DEF NoTask, Tasks, NoFiles, NoStyles, FilePairs, StylePairs
  <1>2. task' = [task EXCEPT ![p] = memory]
    OBVIOUS
  <1> HIDE DEF memory
  <1>3. At(p, "lock", memory) /\ task' \in [Processes -> Tasks]
    BY <1>1, <1>2 DEF At, IInv, TypeOK
  <1>4. LockHeld'
    BY DEF LockHeld, IInv, TypeOK, Unlocked, Steps
  <1>5. Kinds' /\ ThemeKept'
    BY TypeParts DEF IInv, Kinds, ThemeKept
  <1>6. Elsewhere(p)
    BY DEF Elsewhere
  <1>7. Local(p)'
    BY <1>1, <1>3 DEF At, Local, TaskKnown, StylesKnown, ServedKnown, FilesKnown, JobKnown, Shared,
       Unlocked,
                      Activating, Serving, Restored
  <1> QED  BY <1>1, <1>3, <1>4, <1>5, <1>6, <1>7, StepKeeps

LEMMA LockStep == ASSUME IInv, NEW p \in Processes, Lock(p) PROVE IInv'
  <1> USE DEF Lock, Step, caddy, styles, homes, watch
  <1>1. CASE End(p, "failed")
    <2>1. Kinds' /\ ThemeKept' /\ Elsewhere(p)
      BY TypeParts DEF IInv, Kinds, ThemeKept, Elsewhere
    <2> QED  BY <1>1, <2>1, EndStep
  <1>2. CASE ~End(p, "failed")
    <2> DEFINE memory == [task[p] EXCEPT !.styles = Styles, !.page = home]
               step == IF task[p].kind = "install" THEN "validate" ELSE "theme-former"
    <2>1. /\ pc[p] = "lock" /\ lock' = p /\ pc' = [pc EXCEPT ![p] = step] /\ worn' = theme
          /\ task' = [task EXCEPT ![p].styles = Styles, ![p].page = home]
      BY <1>2
    <2>2. task' = [task EXCEPT ![p] = memory]
      BY <2>1, TaskParts DEF IInv, Tasks
    <2>3. Styles \in StylePairs /\ Styles.theme = theme /\ home \in Pages \cup {None}
      BY DEF IInv, TypeOK, Styles, StylePairs
    <2>4. /\ memory \in Tasks /\ memory.kind = task[p].kind /\ memory.want = task[p].want
          /\ memory.mode = task[p].mode /\ memory.action = task[p].action /\ SameJob(memory, task[p])
          /\ (memory.seen <=> task[p].seen) /\ memory.styles = Styles /\ memory.page = home
      BY <2>3, TaskParts DEF Tasks, SameJob
    <2> HIDE DEF memory
    <2>5. step \in Steps \ Unlocked /\ task[p].kind \in {"install", "rollback"}
      BY <2>1 DEF Steps, Unlocked, IInv, Local, TaskKnown
    <2> HIDE DEF step
    <2>6. At(p, step, memory) /\ task' \in [Processes -> Tasks]
      <3>1. pc \in [Processes -> Steps] /\ task \in [Processes -> Tasks]
        BY DEF IInv, TypeOK
      <3> HIDE DEF Lock
      <3> QED  BY <2>1, <2>2, <2>4, <3>1 DEF At
    <2> USE DEF step
    <2>7. LockHeld'
      BY <2>1, <2>5 DEF LockHeld, IInv, TypeOK
    <2>8. Kinds' /\ ThemeKept'
      BY <2>1, TypeParts DEF IInv, Kinds, ThemeKept
    <2>9. Elsewhere(p)
      BY <2>1 DEF Elsewhere, Unlocked
    <2>10. pc'[p] = step /\ task'[p] = memory
      BY <2>6 DEF At
    <2>11. TaskKnown(p)'
      BY <2>1, <2>4, <2>5, <2>10 DEF IInv, TypeOK, Local, TaskKnown, Shared, Unlocked, Activating
    <2>12. StylesKnown(p)'
      BY <2>1, <2>3, <2>4, <2>5, <2>10 DEF StylesKnown, Styles, Unlocked
    <2>13. ServedKnown(p)'
      BY <2>1, <2>4, <2>5, <2>10 DEF IInv, Local, ServedKnown, SameJob
    <2>14. FilesKnown(p)'
      BY <2>1, <2>4, <2>5, <2>10 DEF IInv, Local, FilesKnown, SameJob, Serving, Restored, Files
    <2>15. JobKnown(p)'
      BY <2>1, <2>4, <2>5, <2>10 DEF IInv, Local, JobKnown, SameJob, Unlocked
    <2> QED
      BY <2>4, <2>5, <2>6, <2>7, <2>8, <2>9, <2>11, <2>12, <2>13, <2>14, <2>15, StepKeeps DEF Local
  <1> QED  BY <1>1, <1>2

\* Nothing was shut down, or the job of the former files was.
LEMMA BootoutFailsStep == ASSUME IInv, NEW p \in Processes, BootoutFails(p) PROVE IInv'
  <1> USE DEF BootoutFails, Step, Fault, caddy, styles, homes, watch
  <1>1. PICK action \in {"kept", "replaced"} :
          /\ Remember(p, "inner-caddyfile", [task[p] EXCEPT !.action = action])
          /\ UNCHANGED <<job, watch>> \/ (action = "replaced" /\ job' = None /\ Changed(p, FALSE))
          /\ UNCHANGED job => UNCHANGED watch
    BY DEF Changed
  <1> DEFINE memory == [task[p] EXCEPT !.action = action]
  <1>2. /\ memory \in Tasks /\ SameRequest(memory, task[p]) /\ SameJob(memory, task[p]) /\ memory.action = action
        /\ (memory.seen <=> task[p].seen) /\ (memory.live <=> task[p].live) /\ memory.inner = task[p].inner
    BY TaskParts, ActionSet
  <1>3. Remember(p, "inner-caddyfile", memory)
    BY <1>1
  <1> HIDE DEF memory
  <1>4. /\ pc[p] = "bootout" /\ task[p].kind = "install" /\ plist \in Plists
        /\ job' \in {job, None} /\ UNCHANGED <<caddyfile, plist, styles, homes, worn>>
        /\ p \in calm' => p \in calm
    BY <1>1 DEF IInv, Local, TaskKnown, Shared, Changed
  <1>5. Kinds' /\ ThemeKept'
    BY <1>4, TypeParts DEF IInv, Kinds, ThemeKept
  <1>6. Elsewhere(p)
    BY <1>1 DEF Elsewhere, Changed, Unlocked
  <1>7. At(p, "inner-caddyfile", memory)
    BY <1>2, <1>3, <1>4, RememberIsAt DEF Steps, Unlocked
  <1>8. p \in calm => /\ (task[p].seen <=> task[p].job # None) /\ task[p].job # None
                      /\ task[p].inner = task[p].prior /\ (task[p].live <=> task[p].job # None)
                      /\ job = task[p].job
    BY <1>4 DEF IInv, Local, TaskKnown, JobKnown, Unlocked, Restored, Activating
  <1>9. pc'[p] = "inner-caddyfile" /\ task'[p] = memory /\ (action = "kept" => job' = job)
    BY <1>1, <1>7 DEF At
  <1>10. TaskKnown(p)'
    BY <1>2, <1>4, <1>9 DEF IInv, Local, TaskKnown, SameRequest, Shared, Unlocked, Activating
  <1>11. StylesKnown(p)'
    BY <1>2, <1>4, <1>9 DEF IInv, Local, StylesKnown, SameRequest, Styles, Unlocked
  <1>12. ServedKnown(p)'
    BY <1>2, <1>4, <1>9 DEF IInv, Local, ServedKnown, SameRequest, SameJob
  <1>13. FilesKnown(p)'
    BY <1>9 DEF FilesKnown, Serving, Restored
  <1>14. JobKnown(p)'
    BY <1>1, <1>2, <1>4, <1>8, <1>9 DEF JobKnown, SameJob, Restored
  <1> QED
    BY <1>2, <1>3, <1>4, <1>5, <1>6, <1>10, <1>11, <1>12, <1>13, <1>14, GoOn DEF Local, Steps, Unlocked

\* The others have lost the job they were looking at, and know it.
LEMMA HappensStep == ASSUME IInv, Happens PROVE IInv'
  <1> USE DEF Happens, Fault, styles, homes
  <1>1. Kinds'
    BY TypeParts, FilesKind, FilesAreSome DEF IInv, Kinds, Jobs
  <1>2. LockHeld' /\ ThemeKept' /\ task' \in [Processes -> Tasks]
    BY TypeParts DEF IInv, LockHeld, ThemeKept
  <1>3. ASSUME NEW p \in Processes PROVE Local(p)'
    <2>1. Desired(p)' = Desired(p) /\ Local(p)
      BY DEF Desired, IInv
    <2>2. TaskKnown(p)'
      BY <2>1 DEF Local, TaskKnown
    <2>3. StylesKnown(p)'
      BY <2>1 DEF Local, StylesKnown, Styles
    <2>4. ServedKnown(p)'
      BY <2>1 DEF Local, ServedKnown
    <2>5. FilesKnown(p)' /\ JobKnown(p)'
      BY DEF FilesKnown, JobKnown
    <2> QED  BY <2>2, <2>3, <2>4, <2>5 DEF Local
  <1> QED  BY <1>1, <1>2, <1>3, TypePartsNext DEF IInv

-----------------------------------------------------------------------------
\* One lemma for each step of a command: where it goes and what it remembers, the
\* variables it writes, and then the parts of the invariant, each by itself.

LEMMA PreflightStep == ASSUME IInv, NEW p \in Processes, Preflight(p) PROVE IInv'
  <1> USE DEF Preflight, Step, Fault, caddy, styles, homes, watch
  <1>1. CASE End(p, "failed") /\ UNCHANGED known
    <2>1. pc[p] \in {"preflight"} /\ End(p, "failed")
      BY <1>1
    <2>2. Kinds'
      BY <1>1, <2>1 DEF IInv, TypeOK, Kinds, Jobs, FilePairs, StylePairs, Files, Local, TaskKnown, Shared
    <2>3. Elsewhere(p)
      BY <1>1, <2>1 DEF Elsewhere, Changed, Unlocked
    <2>4. ThemeKept'
      BY <1>1, <2>1 DEF IInv, ThemeKept, Local, StylesKnown, Unlocked
    <2> QED  BY <2>1, <2>2, <2>3, <2>4, EndStep
  <1>2. CASE ~(End(p, "failed") /\ UNCHANGED known)
    <2>1. PICK step \in {"recover", "prior"}, memory \in Tasks :
            /\ Remember(p, step, memory)
            /\ SameRequest(memory, task[p]) /\ SameJob(memory, task[p]) /\ memory.action = task[p].action
            /\ (memory.seen <=> job # None)
      <3> DEFINE memory == [task[p] EXCEPT !.seen = job # None]
      <3>1. PICK step \in {"recover", "prior"} : Remember(p, step, memory)
        BY <1>2
      <3>2. /\ memory \in Tasks
             /\ SameRequest(memory, task[p]) /\ SameJob(memory, task[p]) /\ memory.action = task[p].action
             /\ (memory.seen <=> job # None)
        BY TaskParts DEF Tasks, SameRequest, SameJob
      <3> HIDE DEF memory
      <3> QED  BY <3>1, <3>2
    <2>2. /\ pc[p] \in {"preflight"} /\ task[p].kind \in {"install", "rollback"}
          /\ pc[p] \notin Shared => task[p].kind = "install"
      BY <1>2, TaskParts DEF IInv, Local, TaskKnown, Shared
    <2>3. Kinds'
      BY <1>2, <2>2 DEF IInv, TypeOK, Kinds, Jobs, FilePairs, StylePairs, Files, Local, TaskKnown, Shared
    <2>4. Elsewhere(p)
      BY <1>2, <2>2 DEF Elsewhere, Changed, Unlocked
    <2>5. ThemeKept'
      BY <1>2, <2>2 DEF IInv, ThemeKept, Local, StylesKnown, Unlocked
    <2>6. pc'[p] = step /\ task'[p] = memory
      BY <2>1, <2>2, RememberIsAt DEF At, Steps, Unlocked
    <2>7. Wanted(p)' = Wanted(p) /\ Desired(p)' = Desired(p)
      BY <2>1, <2>6 DEF SameRequest, Wanted, Desired, Rendered
    <2>8. TaskKnown(p)'
      BY <1>2, <2>1, <2>2, <2>6 DEF SameRequest, IInv, Local, TaskKnown, Shared, Unlocked, Activating
    <2>9. StylesKnown(p)'
      BY <1>2, <2>1, <2>2, <2>6, <2>7 DEF SameRequest, IInv, Local, StylesKnown, Styles, Unlocked
    <2>10. ServedKnown(p)'
      BY <1>2, <2>1, <2>2, <2>6, TaskParts DEF SameRequest, SameJob, IInv, Local, ServedKnown, InSync
    <2>11. FilesKnown(p)'
      BY <1>2, <2>1, <2>2, <2>6, <2>7, TaskParts
         DEF SameRequest, SameJob, IInv, Local, FilesKnown, JobKnown, ServedKnown, Changed, Serving,
             Restored, Files, InSync, FilePairs, Jobs, Unlocked
    <2>12. JobKnown(p)'
      BY <1>2, <2>1, <2>2, <2>6, <2>7, TaskParts
         DEF SameRequest, SameJob, IInv, Local, FilesKnown, JobKnown, Changed, Serving, Restored,
             Unlocked, Files, FilePairs, Jobs
    <2> QED
      BY <2>1, <2>2, <2>3, <2>4, <2>5, <2>8, <2>9, <2>10, <2>11, <2>12, GoOn DEF Local, Steps, Unlocked
  <1> QED  BY <1>1, <1>2

LEMMA RecoverJobStep == ASSUME IInv, NEW p \in Processes, RecoverJob(p) PROVE IInv'
  <1> USE DEF RecoverJob, Step, Fault, caddy, styles, homes, watch
  <1>1. PICK step \in {"prior"}, memory \in Tasks :
          /\ Remember(p, step, memory)
          /\ SameRequest(memory, task[p]) /\ SameJob(memory, task[p]) /\ memory.action = task[p].action
          /\ (memory.seen <=> TRUE)
    <2> DEFINE memory == [task[p] EXCEPT !.seen = TRUE]
    <2>1. PICK step \in {"prior"} : Remember(p, step, memory)
      OBVIOUS
    <2>2. /\ memory \in Tasks
           /\ SameRequest(memory, task[p]) /\ SameJob(memory, task[p]) /\ memory.action = task[p].action
           /\ (memory.seen <=> TRUE)
      BY TaskParts DEF Tasks, SameRequest, SameJob
    <2> HIDE DEF memory
    <2> QED  BY <2>1, <2>2
  <1>2. /\ pc[p] \in {"recover"} /\ task[p].kind \in {"install", "rollback"}
        /\ pc[p] \notin Shared => task[p].kind = "install"
    BY TaskParts DEF IInv, Local, TaskKnown, Shared
  <1>3. Kinds'
    BY <1>2, FilesAreSome DEF IInv, TypeOK, Kinds, Jobs, FilePairs, StylePairs, Files, Local, TaskKnown,
       Shared
  <1>4. Elsewhere(p)
    BY <1>2 DEF Elsewhere, Changed, Unlocked
  <1>5. ThemeKept'
    BY <1>2, FilesAreSome DEF IInv, ThemeKept, Local, StylesKnown, Unlocked
  <1>6. pc'[p] = step /\ task'[p] = memory
    BY <1>1, <1>2, RememberIsAt DEF At, Steps, Unlocked
  <1>7. Wanted(p)' = Wanted(p) /\ Desired(p)' = Desired(p)
    BY <1>1, <1>6 DEF SameRequest, Wanted, Desired, Rendered
  <1>8. TaskKnown(p)'
    BY <1>1, <1>2, <1>6, FilesAreSome DEF SameRequest, IInv, Local, TaskKnown, Shared, Unlocked, Activating
  <1>9. StylesKnown(p)'
    BY <1>1, <1>2, <1>6, <1>7, FilesAreSome DEF SameRequest, IInv, Local, StylesKnown, Styles, Unlocked
  <1>10. ServedKnown(p)'
    BY <1>1, <1>2, <1>6, TaskParts DEF SameRequest, SameJob, IInv, Local, ServedKnown, InSync
  <1>11. p \in calm' /\ task[p].kind = "install" =>
          /\ p \in calm
          /\ TRUE
    BY <1>2, TaskParts DEF IInv, Local, FilesKnown, JobKnown, ServedKnown, Changed, Serving, Restored,
       Unlocked, Activating, TaskKnown, Files
  <1>12. p \in calm' /\ task[p].kind = "install" =>
          /\ job' # None
    BY <1>1, <1>2, <1>6, <1>11, TaskParts, FilesAreSome DEF Remember, IInv, TypeOK, SameRequest, SameJob,
       Files, InSync, FilePairs, Jobs
  <1> HIDE DEF RecoverJob
  <1>13. FilesKnown(p)'
    BY <1>1, <1>2, <1>6, <1>7, <1>11, <1>12, TaskParts DEF FilesKnown, SameRequest, SameJob, Serving,
       Restored, Unlocked
  <1>14. JobKnown(p)'
    BY <1>1, <1>2, <1>6, <1>7, <1>11, <1>12, TaskParts DEF JobKnown, SameRequest, SameJob, Restored,
       Unlocked
  <1> USE DEF RecoverJob
  <1> QED
    BY <1>1, <1>2, <1>3, <1>4, <1>5, <1>8, <1>9, <1>10, <1>13, <1>14, GoOn DEF Local, Steps, Unlocked

LEMMA PreflightFailsStep == ASSUME IInv, NEW p \in Processes, PreflightFails(p) PROVE IInv'
  <1> USE DEF PreflightFails, Step, Fault, caddy, styles, homes, watch
  <1>1. pc[p] \in {"preflight", "recover", "prior"} /\ End(p, "failed")
    OBVIOUS
  <1>2. Kinds'
    BY <1>1 DEF IInv, TypeOK, Kinds, Jobs, FilePairs, StylePairs, Files, Local, TaskKnown, Shared
  <1>3. Elsewhere(p)
    BY <1>1 DEF Elsewhere, Changed, Unlocked
  <1>4. ThemeKept'
    BY <1>1 DEF IInv, ThemeKept, Local, StylesKnown, Unlocked
  <1> QED  BY <1>1, <1>2, <1>3, <1>4, EndStep

LEMMA ReadPriorStep == ASSUME IInv, NEW p \in Processes, ReadPrior(p) PROVE IInv'
  <1> USE DEF ReadPrior, Step, Fault, caddy, styles, homes, watch
  <1>1. PICK step \in {"lock"}, memory \in Tasks :
          /\ Remember(p, step, memory)
          /\ SameRequest(memory, task[p]) /\ memory.action = task[p].action
          /\ memory.prior = Files /\ memory.job = job /\ (memory.served <=> InSync) /\ (memory.seen <=> task[p].seen)
    <2> DEFINE memory == [task[p] EXCEPT !.prior = Files, !.job = job, !.served = InSync]
    <2>1. PICK step \in {"lock"} : Remember(p, step, memory)
      OBVIOUS
    <2>2. /\ memory \in Tasks
           /\ SameRequest(memory, task[p]) /\ memory.action = task[p].action
           /\ memory.prior = Files /\ memory.job = job /\ (memory.served <=> InSync) /\ (memory.seen <=> task[p].seen)
      BY TaskParts, FilesKind DEF Tasks, SameRequest, SameJob
    <2> HIDE DEF memory
    <2> QED  BY <2>1, <2>2
  <1>2. /\ pc[p] \in {"prior"} /\ task[p].kind \in {"install", "rollback"}
        /\ pc[p] \notin Shared => task[p].kind = "install"
    BY TaskParts DEF IInv, Local, TaskKnown, Shared
  <1>3. Kinds'
    BY <1>2 DEF IInv, TypeOK, Kinds, Jobs, FilePairs, StylePairs, Files, Local, TaskKnown, Shared
  <1>4. Elsewhere(p)
    BY <1>2 DEF Elsewhere, Changed, Unlocked
  <1>5. ThemeKept'
    BY <1>2 DEF IInv, ThemeKept, Local, StylesKnown, Unlocked
  <1>6. pc'[p] = step /\ task'[p] = memory
    BY <1>1, <1>2, RememberIsAt DEF At, Steps, Unlocked
  <1>7. Wanted(p)' = Wanted(p) /\ Desired(p)' = Desired(p)
    BY <1>1, <1>6 DEF SameRequest, Wanted, Desired, Rendered
  <1>8. TaskKnown(p)'
    BY <1>1, <1>2, <1>6 DEF SameRequest, IInv, Local, TaskKnown, Shared, Unlocked, Activating
  <1>9. StylesKnown(p)'
    BY <1>1, <1>2, <1>6, <1>7 DEF SameRequest, IInv, Local, StylesKnown, Styles, Unlocked
  <1>10. ServedKnown(p)'
    BY <1>1, <1>2, <1>6, TaskParts DEF SameRequest, SameJob, IInv, Local, ServedKnown, InSync
  <1>11. p \in calm' /\ task[p].kind = "install" =>
          /\ p \in calm
          /\ task[p].seen <=> job # None
          /\ UNCHANGED <<Files, job>>
    BY <1>2, TaskParts DEF IInv, Local, FilesKnown, JobKnown, ServedKnown, Changed, Serving, Restored,
       Unlocked, Activating, TaskKnown, Files
  <1> HIDE DEF ReadPrior
  <1>12. FilesKnown(p)'
    BY <1>1, <1>2, <1>6, <1>7, <1>11, TaskParts DEF FilesKnown, SameRequest, SameJob, Serving, Restored,
       Unlocked
  <1>13. JobKnown(p)'
    BY <1>1, <1>2, <1>6, <1>7, <1>11, TaskParts DEF JobKnown, SameRequest, SameJob, Restored, Unlocked
  <1> USE DEF ReadPrior
  <1> QED
    BY <1>1, <1>2, <1>3, <1>4, <1>5, <1>8, <1>9, <1>10, <1>12, <1>13, GoOn DEF Local, Steps, Unlocked

LEMMA ValidateStep == ASSUME IInv, NEW p \in Processes, Validate(p) PROVE IInv'
  <1> USE DEF Validate, Step, Fault, caddy, styles, homes, watch
  <1>1. CASE job # None /\ (caddyfile = None \/ plist = None)
    <2>1. pc[p] \in {"validate"} /\ End(p, "failed")
      BY <1>1
    <2>2. Kinds'
      BY <1>1, <2>1 DEF IInv, TypeOK, Kinds, Jobs, FilePairs, StylePairs, Files, Local, TaskKnown, Shared
    <2>3. Elsewhere(p)
      BY <1>1, <2>1 DEF Elsewhere, Changed, Unlocked
    <2>4. ThemeKept'
      BY <1>1, <2>1 DEF IInv, ThemeKept, Local, StylesKnown, Unlocked
    <2> QED  BY <2>1, <2>2, <2>3, <2>4, EndStep
  <1>2. CASE ~(job # None /\ (caddyfile = None \/ plist = None))
    <2>1. PICK step \in {"stop", "caddyfile"}, memory \in Tasks :
            /\ Remember(p, step, memory)
            /\ SameRequest(memory, task[p]) /\ SameJob(memory, task[p]) /\ memory.action = task[p].action
            /\ memory.inner = Files /\ (memory.live <=> job # None) /\ (memory.seen <=> task[p].seen)
      <3> DEFINE memory == [task[p] EXCEPT !.live = job # None, !.inner = Files]
      <3>1. PICK step \in {"stop", "caddyfile"} : Remember(p, step, memory)
        BY <1>2
      <3>2. /\ memory \in Tasks
             /\ SameRequest(memory, task[p]) /\ SameJob(memory, task[p]) /\ memory.action = task[p].action
             /\ memory.inner = Files /\ (memory.live <=> job # None) /\ (memory.seen <=> task[p].seen)
        BY TaskParts, FilesKind DEF Tasks, SameRequest, SameJob
      <3> HIDE DEF memory
      <3> QED  BY <3>1, <3>2
    <2>2. /\ pc[p] \in {"validate"} /\ task[p].kind \in {"install", "rollback"}
          /\ pc[p] \notin Shared => task[p].kind = "install"
      BY <1>2, TaskParts DEF IInv, Local, TaskKnown, Shared
    <2>3. Kinds'
      BY <1>2, <2>2 DEF IInv, TypeOK, Kinds, Jobs, FilePairs, StylePairs, Files, Local, TaskKnown, Shared
    <2>4. Elsewhere(p)
      BY <1>2, <2>2 DEF Elsewhere, Changed, Unlocked
    <2>5. ThemeKept'
      BY <1>2, <2>2 DEF IInv, ThemeKept, Local, StylesKnown, Unlocked
    <2>6. pc'[p] = step /\ task'[p] = memory
      BY <2>1, <2>2, RememberIsAt DEF At, Steps, Unlocked
    <2>7. Wanted(p)' = Wanted(p) /\ Desired(p)' = Desired(p)
      BY <2>1, <2>6 DEF SameRequest, Wanted, Desired, Rendered
    <2>8. TaskKnown(p)'
      BY <1>2, <2>1, <2>2, <2>6 DEF SameRequest, IInv, Local, TaskKnown, Shared, Unlocked, Activating
    <2>9. StylesKnown(p)'
      BY <1>2, <2>1, <2>2, <2>6, <2>7 DEF SameRequest, IInv, Local, StylesKnown, Styles, Unlocked
    <2>10. ServedKnown(p)'
      BY <1>2, <2>1, <2>2, <2>6, TaskParts DEF SameRequest, SameJob, IInv, Local, ServedKnown, InSync
    <2>11. p \in calm' /\ task[p].kind = "install" =>
            /\ p \in calm
            /\ Files = task[p].prior /\ job = task[p].job /\ (task[p].seen <=> task[p].job # None)
            /\ task[p].action = "none"
            /\ UNCHANGED <<Files, job>>
            /\ ~(task[p].seen /\ job = None)
      BY <1>2, <2>2, TaskParts DEF IInv, Local, FilesKnown, JobKnown, ServedKnown, Changed, Serving,
         Restored, Unlocked, Activating, TaskKnown, Files
    <2>12. p \in calm' /\ task[p].kind = "install" =>
            /\ step = "caddyfile"
      BY <1>2, <2>1, <2>2, <2>6, <2>11, TaskParts DEF Remember, IInv, TypeOK, SameRequest, SameJob, Files,
         InSync, FilePairs, Jobs
    <2> HIDE DEF Validate
    <2>13. FilesKnown(p)'
      BY <2>1, <2>2, <2>6, <2>7, <2>11, <2>12, TaskParts DEF FilesKnown, SameRequest, SameJob, Serving,
         Restored, Unlocked
    <2>14. JobKnown(p)'
      BY <2>1, <2>2, <2>6, <2>7, <2>11, <2>12, TaskParts DEF JobKnown, SameRequest, SameJob, Restored,
         Unlocked
    <2> USE DEF Validate
    <2> QED
      BY <2>1, <2>2, <2>3, <2>4, <2>5, <2>8, <2>9, <2>10, <2>13, <2>14, GoOn DEF Local, Steps, Unlocked
  <1> QED  BY <1>1, <1>2

LEMMA ValidateFailsStep == ASSUME IInv, NEW p \in Processes, ValidateFails(p) PROVE IInv'
  <1> USE DEF ValidateFails, Step, Fault, caddy, styles, homes, watch
  <1>1. pc[p] \in {"validate"} /\ End(p, "failed")
    OBVIOUS
  <1>2. Kinds'
    BY <1>1 DEF IInv, TypeOK, Kinds, Jobs, FilePairs, StylePairs, Files, Local, TaskKnown, Shared
  <1>3. Elsewhere(p)
    BY <1>1 DEF Elsewhere, Changed, Unlocked
  <1>4. ThemeKept'
    BY <1>1 DEF IInv, ThemeKept, Local, StylesKnown, Unlocked
  <1> QED  BY <1>1, <1>2, <1>3, <1>4, EndStep

LEMMA WriteCaddyfileStep == ASSUME IInv, NEW p \in Processes, WriteCaddyfile(p) PROVE IInv'
  <1> USE DEF WriteCaddyfile, Step, Fault, caddy, styles, homes, watch
  <1>1. PICK step \in {"plist"}, memory \in Tasks :
          /\ Remember(p, step, memory)
          /\ memory = task[p]
    BY TaskParts DEF Goto
  <1>2. /\ pc[p] \in {"caddyfile"} /\ task[p].kind \in {"install", "rollback"}
        /\ pc[p] \notin Shared => task[p].kind = "install"
    BY TaskParts DEF IInv, Local, TaskKnown, Shared
  <1>3. Kinds'
    BY <1>2, WantedKinds DEF IInv, TypeOK, Kinds, Jobs, FilePairs, StylePairs, Files, Local, TaskKnown,
       Shared
  <1>4. Elsewhere(p)
    BY <1>2 DEF Elsewhere, Changed, Unlocked
  <1>5. ThemeKept'
    BY <1>2, WantedKinds DEF IInv, ThemeKept, Local, StylesKnown, Unlocked
  <1>6. pc'[p] = step /\ task'[p] = memory
    BY <1>1, <1>2, RememberIsAt DEF At, Steps, Unlocked
  <1>7. Wanted(p)' = Wanted(p) /\ Desired(p)' = Desired(p)
    BY <1>1, <1>6 DEF SameRequest, Wanted, Desired, Rendered
  <1>8. TaskKnown(p)'
    BY <1>1, <1>2, <1>6, WantedKinds DEF SameRequest, IInv, Local, TaskKnown, Shared, Unlocked, Activating
  <1>9. StylesKnown(p)'
    BY <1>1, <1>2, <1>6, <1>7, WantedKinds DEF SameRequest, IInv, Local, StylesKnown, Styles, Unlocked
  <1>10. ServedKnown(p)'
    BY <1>1, <1>2, <1>6, TaskParts DEF SameRequest, SameJob, IInv, Local, ServedKnown, InSync
  <1>11. FilesKnown(p)'
    BY <1>1, <1>2, <1>6, <1>7, TaskParts, WantedKinds
       DEF SameRequest, SameJob, IInv, Local, FilesKnown, JobKnown, ServedKnown, Changed, Serving,
           Restored, Files, InSync, FilePairs, Jobs, Unlocked
  <1>12. JobKnown(p)'
    BY <1>1, <1>2, <1>6, <1>7, TaskParts, WantedKinds
       DEF SameRequest, SameJob, IInv, Local, FilesKnown, JobKnown, Changed, Serving, Restored, Unlocked,
           Files, FilePairs, Jobs
  <1> QED
    BY <1>1, <1>2, <1>3, <1>4, <1>5, <1>8, <1>9, <1>10, <1>11, <1>12, GoOn DEF Local, Steps, Unlocked

LEMMA WritePlistStep == ASSUME IInv, NEW p \in Processes, WritePlist(p) PROVE IInv'
  <1> USE DEF WritePlist, Step, Fault, caddy, styles, homes, watch, Activation
  <1>1. PICK step \in {"ingress", "bootout", "reload"}, memory \in Tasks :
          /\ Remember(p, step, memory)
          /\ memory = task[p]
    BY TaskParts DEF Goto
  <1>2. /\ pc[p] \in {"plist"} /\ task[p].kind \in {"install", "rollback"}
        /\ pc[p] \notin Shared => task[p].kind = "install"
    BY TaskParts DEF IInv, Local, TaskKnown, Shared
  <1>3. 
        /\ step = "ingress" => ~task[p].live \/ task[p].inner = Wanted(p)
        /\ step \in {"reload", "bootout"} => task[p].live
        /\ step = "reload" => task[p].inner.plist = Wanted(p).plist
        /\ job' = job
    BY <1>1, <1>2, TaskParts, WantedKinds DEF Goto, Remember, IInv, TypeOK, Shared
  <1>4. Kinds'
    BY <1>2, WantedKinds DEF IInv, TypeOK, Kinds, Jobs, FilePairs, StylePairs, Files, Local, TaskKnown,
       Shared
  <1>5. Elsewhere(p)
    BY <1>2 DEF Elsewhere, Changed, Unlocked
  <1>6. ThemeKept'
    BY <1>2, WantedKinds DEF IInv, ThemeKept, Local, StylesKnown, Unlocked
  <1>7. pc'[p] = step /\ task'[p] = memory
    BY <1>1, <1>2, RememberIsAt DEF At, Steps, Unlocked
  <1>8. Wanted(p)' = Wanted(p) /\ Desired(p)' = Desired(p)
    BY <1>1, <1>7 DEF SameRequest, Wanted, Desired, Rendered
  <1>9. TaskKnown(p)'
    BY <1>3, <1>1, <1>2, <1>7, WantedKinds DEF SameRequest, IInv, Local, TaskKnown, Shared, Unlocked,
       Activating
  <1>10. StylesKnown(p)'
    BY <1>3, <1>1, <1>2, <1>7, <1>8, WantedKinds DEF SameRequest, IInv, Local, StylesKnown, Styles,
       Unlocked
  <1>11. ServedKnown(p)'
    BY <1>1, <1>2, <1>7, TaskParts DEF SameRequest, SameJob, IInv, Local, ServedKnown, InSync
  <1>12. p \in calm' /\ task[p].kind = "install" =>
          /\ p \in calm
          /\ (task[p].seen <=> task[p].job # None)
          /\ task[p].inner = task[p].prior /\ (task[p].live <=> task[p].job # None)
          /\ caddyfile = Wanted(p).caddyfile /\ task[p].action = "none" /\ job = task[p].job
          /\ task[p].served => task[p].job \in {None, task[p].prior}
    BY <1>2, TaskParts DEF IInv, Local, FilesKnown, JobKnown, ServedKnown, Changed, Serving, Restored,
       Unlocked, Activating, TaskKnown, Files
  <1>13. p \in calm' /\ task[p].kind = "install" =>
          /\ Files' = Wanted(p)
          /\ step = "ingress" /\ task[p].served => InSync'
          /\ step # "ingress" => task[p].job # None
    BY <1>3, <1>1, <1>2, <1>7, <1>12, TaskParts, WantedKinds DEF Remember, IInv, TypeOK, SameRequest,
       SameJob, Files, InSync, FilePairs, Jobs
  <1> HIDE DEF WritePlist
  <1>14. FilesKnown(p)'
    BY <1>3, <1>1, <1>2, <1>7, <1>8, <1>12, <1>13, TaskParts DEF FilesKnown, SameRequest, SameJob, Serving,
       Restored, Unlocked
  <1>15. JobKnown(p)'
    BY <1>3, <1>1, <1>2, <1>7, <1>8, <1>12, <1>13, TaskParts DEF JobKnown, SameRequest, SameJob, Restored,
       Unlocked
  <1> USE DEF WritePlist
  <1> QED
    BY <1>1, <1>2, <1>4, <1>5, <1>6, <1>9, <1>10, <1>11, <1>14, <1>15, GoOn DEF Local, Steps, Unlocked

LEMMA WriteFailsStep == ASSUME IInv, NEW p \in Processes, WriteFails(p) PROVE IInv'
  <1> USE DEF WriteFails, Step, Fault, caddy, styles, homes, watch
  <1>1. PICK step \in {"inner-caddyfile"}, memory \in Tasks :
          /\ Remember(p, step, memory)
          /\ memory = task[p]
    BY TaskParts DEF Goto
  <1>2. /\ pc[p] \in {"caddyfile", "plist"} /\ task[p].kind \in {"install", "rollback"}
        /\ pc[p] \notin Shared => task[p].kind = "install"
    BY TaskParts DEF IInv, Local, TaskKnown, Shared
  <1>3. Kinds'
    BY <1>2 DEF IInv, TypeOK, Kinds, Jobs, FilePairs, StylePairs, Files, Local, TaskKnown, Shared
  <1>4. Elsewhere(p)
    BY <1>2 DEF Elsewhere, Changed, Unlocked
  <1>5. ThemeKept'
    BY <1>2 DEF IInv, ThemeKept, Local, StylesKnown, Unlocked
  <1>6. pc'[p] = step /\ task'[p] = memory
    BY <1>1, <1>2, RememberIsAt DEF At, Steps, Unlocked
  <1>7. Wanted(p)' = Wanted(p) /\ Desired(p)' = Desired(p)
    BY <1>1, <1>6 DEF SameRequest, Wanted, Desired, Rendered
  <1>8. TaskKnown(p)'
    BY <1>1, <1>2, <1>6 DEF SameRequest, IInv, Local, TaskKnown, Shared, Unlocked, Activating
  <1>9. StylesKnown(p)'
    BY <1>1, <1>2, <1>6, <1>7 DEF SameRequest, IInv, Local, StylesKnown, Styles, Unlocked
  <1>10. ServedKnown(p)'
    BY <1>1, <1>2, <1>6, TaskParts DEF SameRequest, SameJob, IInv, Local, ServedKnown, InSync
  <1>11. FilesKnown(p)'
    BY <1>1, <1>2, <1>6, <1>7, TaskParts
       DEF SameRequest, SameJob, IInv, Local, FilesKnown, JobKnown, ServedKnown, Changed, Serving,
           Restored, Files, InSync, FilePairs, Jobs, Unlocked
  <1>12. JobKnown(p)'
    BY <1>1, <1>2, <1>6, <1>7, TaskParts
       DEF SameRequest, SameJob, IInv, Local, FilesKnown, JobKnown, Changed, Serving, Restored, Unlocked,
           Files, FilePairs, Jobs
  <1> QED
    BY <1>1, <1>2, <1>3, <1>4, <1>5, <1>8, <1>9, <1>10, <1>11, <1>12, GoOn DEF Local, Steps, Unlocked

LEMMA ReloadStep == ASSUME IInv, NEW p \in Processes, Reload(p) PROVE IInv'
  <1> USE DEF Reload, Step, Fault, caddy, styles, homes, watch
  <1>1. PICK step \in {"ingress"}, memory \in Tasks :
          /\ Remember(p, step, memory)
          /\ SameRequest(memory, task[p]) /\ SameJob(memory, task[p]) /\ memory.action = "reloaded"
          /\ (memory.seen <=> task[p].seen) /\ (memory.live <=> task[p].live) /\ memory.inner = task[p].inner
    <2> DEFINE memory == [task[p] EXCEPT !.action = "reloaded"]
    <2>1. PICK step \in {"ingress"} : Remember(p, step, memory)
      OBVIOUS
    <2>2. /\ memory \in Tasks
           /\ SameRequest(memory, task[p]) /\ SameJob(memory, task[p]) /\ memory.action = "reloaded"
           /\ (memory.seen <=> task[p].seen) /\ (memory.live <=> task[p].live) /\ memory.inner = task[p].inner
      BY TaskParts, ActionSet
    <2> HIDE DEF memory
    <2> QED  BY <2>1, <2>2
  <1>2. /\ pc[p] \in {"reload"} /\ task[p].kind \in {"install", "rollback"}
        /\ pc[p] \notin Shared => task[p].kind = "install"
    BY TaskParts DEF IInv, Local, TaskKnown, Shared
  <1>3. Kinds'
    BY <1>2 DEF IInv, TypeOK, Kinds, Jobs, FilePairs, StylePairs, Files, Local, TaskKnown, Shared
  <1>4. Elsewhere(p)
    BY <1>2 DEF Elsewhere, Changed, Unlocked
  <1>5. ThemeKept'
    BY <1>2 DEF IInv, ThemeKept, Local, StylesKnown, Unlocked
  <1>6. pc'[p] = step /\ task'[p] = memory
    BY <1>1, <1>2, RememberIsAt DEF At, Steps, Unlocked
  <1>7. Wanted(p)' = Wanted(p) /\ Desired(p)' = Desired(p)
    BY <1>1, <1>6 DEF SameRequest, Wanted, Desired, Rendered
  <1>8. TaskKnown(p)'
    BY <1>1, <1>2, <1>6 DEF SameRequest, IInv, Local, TaskKnown, Shared, Unlocked, Activating
  <1>9. StylesKnown(p)'
    BY <1>1, <1>2, <1>6, <1>7 DEF SameRequest, IInv, Local, StylesKnown, Styles, Unlocked
  <1>10. ServedKnown(p)'
    BY <1>1, <1>2, <1>6, TaskParts DEF SameRequest, SameJob, IInv, Local, ServedKnown, InSync
  <1>11. p \in calm' /\ task[p].kind = "install" =>
          /\ p \in calm
          /\ (task[p].seen <=> task[p].job # None)
          /\ task[p].inner = task[p].prior /\ (task[p].live <=> task[p].job # None)
          /\ Files = Wanted(p)
          /\ task[p].action = "none" /\ task[p].job # None
          /\ job = task[p].job
          /\ task[p].prior.plist = Wanted(p).plist
          /\ task[p].served => task[p].job \in {None, task[p].prior}
    BY <1>2, TaskParts DEF IInv, Local, FilesKnown, JobKnown, ServedKnown, Changed, Serving, Restored,
       Unlocked, Activating, TaskKnown, Files
  <1>12. p \in calm' /\ task[p].kind = "install" =>
          /\ Files' = Wanted(p)
          /\ job' # None /\ job'.plist = task[p].job.plist
          /\ task[p].served => InSync'
    BY <1>1, <1>2, <1>6, <1>11, TaskParts DEF Remember, IInv, TypeOK, SameRequest, SameJob, Files, InSync,
       FilePairs, Jobs
  <1> HIDE DEF Reload
  <1>13. FilesKnown(p)'
    BY <1>1, <1>2, <1>6, <1>7, <1>11, <1>12, TaskParts DEF FilesKnown, SameRequest, SameJob, Serving,
       Restored, Unlocked
  <1>14. JobKnown(p)'
    BY <1>1, <1>2, <1>6, <1>7, <1>11, <1>12, TaskParts DEF JobKnown, SameRequest, SameJob, Restored,
       Unlocked
  <1> USE DEF Reload
  <1> QED
    BY <1>1, <1>2, <1>3, <1>4, <1>5, <1>8, <1>9, <1>10, <1>13, <1>14, GoOn DEF Local, Steps, Unlocked

LEMMA ReloadFailsStep == ASSUME IInv, NEW p \in Processes, ReloadFails(p) PROVE IInv'
  <1> USE DEF ReloadFails, Step, Fault, caddy, styles, homes, watch
  <1>1. PICK step \in {"inner-caddyfile"}, memory \in Tasks :
          /\ Remember(p, step, memory)
          /\ SameRequest(memory, task[p]) /\ SameJob(memory, task[p]) /\ memory.action = "reloaded"
          /\ (memory.seen <=> task[p].seen) /\ (memory.live <=> task[p].live) /\ memory.inner = task[p].inner
    <2> DEFINE memory == [task[p] EXCEPT !.action = "reloaded"]
    <2>1. PICK step \in {"inner-caddyfile"} : Remember(p, step, memory)
      OBVIOUS
    <2>2. /\ memory \in Tasks
           /\ SameRequest(memory, task[p]) /\ SameJob(memory, task[p]) /\ memory.action = "reloaded"
           /\ (memory.seen <=> task[p].seen) /\ (memory.live <=> task[p].live) /\ memory.inner = task[p].inner
      BY TaskParts, ActionSet
    <2> HIDE DEF memory
    <2> QED  BY <2>1, <2>2
  <1>2. /\ pc[p] \in {"reload"} /\ task[p].kind \in {"install", "rollback"}
        /\ pc[p] \notin Shared => task[p].kind = "install"
    BY TaskParts DEF IInv, Local, TaskKnown, Shared
  <1>3. Kinds'
    BY <1>2 DEF IInv, TypeOK, Kinds, Jobs, FilePairs, StylePairs, Files, Local, TaskKnown, Shared
  <1>4. Elsewhere(p)
    BY <1>2 DEF Elsewhere, Changed, Unlocked
  <1>5. ThemeKept'
    BY <1>2 DEF IInv, ThemeKept, Local, StylesKnown, Unlocked
  <1>6. pc'[p] = step /\ task'[p] = memory
    BY <1>1, <1>2, RememberIsAt DEF At, Steps, Unlocked
  <1>7. Wanted(p)' = Wanted(p) /\ Desired(p)' = Desired(p)
    BY <1>1, <1>6 DEF SameRequest, Wanted, Desired, Rendered
  <1>8. TaskKnown(p)'
    BY <1>1, <1>2, <1>6 DEF SameRequest, IInv, Local, TaskKnown, Shared, Unlocked, Activating
  <1>9. StylesKnown(p)'
    BY <1>1, <1>2, <1>6, <1>7 DEF SameRequest, IInv, Local, StylesKnown, Styles, Unlocked
  <1>10. ServedKnown(p)'
    BY <1>1, <1>2, <1>6, TaskParts DEF SameRequest, SameJob, IInv, Local, ServedKnown, InSync
  <1>11. p \in calm' /\ task[p].kind = "install" =>
          /\ p \in calm
          /\ (task[p].seen <=> task[p].job # None)
          /\ task[p].inner = task[p].prior /\ (task[p].live <=> task[p].job # None)
          /\ Files = Wanted(p)
          /\ task[p].action = "none" /\ task[p].job # None
          /\ job = task[p].job
    BY <1>2, TaskParts DEF IInv, Local, FilesKnown, JobKnown, ServedKnown, Changed, Serving, Restored,
       Unlocked, Activating, TaskKnown, Files
  <1>12. p \in calm' /\ task[p].kind = "install" =>
          /\ job' # None /\ job'.plist = task[p].job.plist
    BY <1>1, <1>2, <1>6, <1>11, TaskParts DEF Remember, IInv, TypeOK, SameRequest, SameJob, Files, InSync,
       FilePairs, Jobs
  <1> HIDE DEF ReloadFails
  <1>13. FilesKnown(p)'
    BY <1>1, <1>2, <1>6, <1>7, <1>11, <1>12, TaskParts DEF FilesKnown, SameRequest, SameJob, Serving,
       Restored, Unlocked
  <1>14. JobKnown(p)'
    BY <1>1, <1>2, <1>6, <1>7, <1>11, <1>12, TaskParts DEF JobKnown, SameRequest, SameJob, Restored,
       Unlocked
  <1> USE DEF ReloadFails
  <1> QED
    BY <1>1, <1>2, <1>3, <1>4, <1>5, <1>8, <1>9, <1>10, <1>13, <1>14, GoOn DEF Local, Steps, Unlocked

LEMMA BootoutStep == ASSUME IInv, NEW p \in Processes, Bootout(p) PROVE IInv'
  <1> USE DEF Bootout, Step, Fault, caddy, styles, homes, watch
  <1>1. PICK step \in {"bootstrap"}, memory \in Tasks :
          /\ Remember(p, step, memory)
          /\ memory = task[p]
    BY TaskParts DEF Goto
  <1>2. /\ pc[p] \in {"bootout"} /\ task[p].kind \in {"install", "rollback"}
        /\ pc[p] \notin Shared => task[p].kind = "install"
    BY TaskParts DEF IInv, Local, TaskKnown, Shared
  <1>3. Kinds'
    BY <1>2 DEF IInv, TypeOK, Kinds, Jobs, FilePairs, StylePairs, Files, Local, TaskKnown, Shared
  <1>4. Elsewhere(p)
    BY <1>2 DEF Elsewhere, Changed, Unlocked
  <1>5. ThemeKept'
    BY <1>2 DEF IInv, ThemeKept, Local, StylesKnown, Unlocked
  <1>6. pc'[p] = step /\ task'[p] = memory
    BY <1>1, <1>2, RememberIsAt DEF At, Steps, Unlocked
  <1>7. Wanted(p)' = Wanted(p) /\ Desired(p)' = Desired(p)
    BY <1>1, <1>6 DEF SameRequest, Wanted, Desired, Rendered
  <1>8. TaskKnown(p)'
    BY <1>1, <1>2, <1>6 DEF SameRequest, IInv, Local, TaskKnown, Shared, Unlocked, Activating
  <1>9. StylesKnown(p)'
    BY <1>1, <1>2, <1>6, <1>7 DEF SameRequest, IInv, Local, StylesKnown, Styles, Unlocked
  <1>10. ServedKnown(p)'
    BY <1>1, <1>2, <1>6, TaskParts DEF SameRequest, SameJob, IInv, Local, ServedKnown, InSync
  <1>11. p \in calm' /\ task[p].kind = "install" =>
          /\ p \in calm
          /\ (task[p].seen <=> task[p].job # None)
          /\ task[p].inner = task[p].prior /\ (task[p].live <=> task[p].job # None)
          /\ Files = Wanted(p)
          /\ task[p].action = "none" /\ task[p].job # None
          /\ job = task[p].job
    BY <1>2, TaskParts DEF IInv, Local, FilesKnown, JobKnown, ServedKnown, Changed, Serving, Restored,
       Unlocked, Activating, TaskKnown, Files
  <1>12. p \in calm' /\ task[p].kind = "install" =>
          /\ Files' = Wanted(p)
    BY <1>1, <1>2, <1>6, <1>11, TaskParts DEF Remember, IInv, TypeOK, SameRequest, SameJob, Files, InSync,
       FilePairs, Jobs
  <1> HIDE DEF Bootout
  <1>13. FilesKnown(p)'
    BY <1>1, <1>2, <1>6, <1>7, <1>11, <1>12, TaskParts DEF FilesKnown, SameRequest, SameJob, Serving,
       Restored, Unlocked
  <1>14. JobKnown(p)'
    BY <1>1, <1>2, <1>6, <1>7, <1>11, <1>12, TaskParts DEF JobKnown, SameRequest, SameJob, Restored,
       Unlocked
  <1> USE DEF Bootout
  <1> QED
    BY <1>1, <1>2, <1>3, <1>4, <1>5, <1>8, <1>9, <1>10, <1>13, <1>14, GoOn DEF Local, Steps, Unlocked

LEMMA BootstrapStep == ASSUME IInv, NEW p \in Processes, Bootstrap(p) PROVE IInv'
  <1> USE DEF Bootstrap, Step, Fault, caddy, styles, homes, watch
  <1>1. PICK step \in {"ingress"}, memory \in Tasks :
          /\ Remember(p, step, memory)
          /\ SameRequest(memory, task[p]) /\ SameJob(memory, task[p]) /\ memory.action = "replaced"
          /\ (memory.seen <=> task[p].seen) /\ (memory.live <=> task[p].live) /\ memory.inner = task[p].inner
    <2> DEFINE memory == [task[p] EXCEPT !.action = "replaced"]
    <2>1. PICK step \in {"ingress"} : Remember(p, step, memory)
      OBVIOUS
    <2>2. /\ memory \in Tasks
           /\ SameRequest(memory, task[p]) /\ SameJob(memory, task[p]) /\ memory.action = "replaced"
           /\ (memory.seen <=> task[p].seen) /\ (memory.live <=> task[p].live) /\ memory.inner = task[p].inner
      BY TaskParts, ActionSet
    <2> HIDE DEF memory
    <2> QED  BY <2>1, <2>2
  <1>2. /\ pc[p] \in {"bootstrap"} /\ task[p].kind \in {"install", "rollback"}
        /\ pc[p] \notin Shared => task[p].kind = "install"
    BY TaskParts DEF IInv, Local, TaskKnown, Shared
  <1>3. Kinds'
    BY <1>2, FilesAreSome DEF IInv, TypeOK, Kinds, Jobs, FilePairs, StylePairs, Files, Local, TaskKnown,
       Shared
  <1>4. Elsewhere(p)
    BY <1>2 DEF Elsewhere, Changed, Unlocked
  <1>5. ThemeKept'
    BY <1>2, FilesAreSome DEF IInv, ThemeKept, Local, StylesKnown, Unlocked
  <1>6. pc'[p] = step /\ task'[p] = memory
    BY <1>1, <1>2, RememberIsAt DEF At, Steps, Unlocked
  <1>7. Wanted(p)' = Wanted(p) /\ Desired(p)' = Desired(p)
    BY <1>1, <1>6 DEF SameRequest, Wanted, Desired, Rendered
  <1>8. TaskKnown(p)'
    BY <1>1, <1>2, <1>6, FilesAreSome DEF SameRequest, IInv, Local, TaskKnown, Shared, Unlocked, Activating
  <1>9. StylesKnown(p)'
    BY <1>1, <1>2, <1>6, <1>7, FilesAreSome DEF SameRequest, IInv, Local, StylesKnown, Styles, Unlocked
  <1>10. ServedKnown(p)'
    BY <1>1, <1>2, <1>6, TaskParts DEF SameRequest, SameJob, IInv, Local, ServedKnown, InSync
  <1>11. p \in calm' /\ task[p].kind = "install" =>
          /\ p \in calm
          /\ (task[p].seen <=> task[p].job # None)
          /\ task[p].inner = task[p].prior /\ (task[p].live <=> task[p].job # None)
          /\ Files = Wanted(p)
          /\ task[p].action = "none" /\ task[p].job # None
    BY <1>2, TaskParts DEF IInv, Local, FilesKnown, JobKnown, ServedKnown, Changed, Serving, Restored,
       Unlocked, Activating, TaskKnown, Files
  <1>12. p \in calm' /\ task[p].kind = "install" =>
          /\ Files' = Wanted(p) /\ InSync'
    BY <1>1, <1>2, <1>6, <1>11, TaskParts, FilesAreSome DEF Remember, IInv, TypeOK, SameRequest, SameJob,
       Files, InSync, FilePairs, Jobs
  <1> HIDE DEF Bootstrap
  <1>13. FilesKnown(p)'
    BY <1>1, <1>2, <1>6, <1>7, <1>11, <1>12, TaskParts DEF FilesKnown, SameRequest, SameJob, Serving,
       Restored, Unlocked
  <1>14. JobKnown(p)'
    BY <1>1, <1>2, <1>6, <1>7, <1>11, <1>12, TaskParts DEF JobKnown, SameRequest, SameJob, Restored,
       Unlocked
  <1> USE DEF Bootstrap
  <1> QED
    BY <1>1, <1>2, <1>3, <1>4, <1>5, <1>8, <1>9, <1>10, <1>13, <1>14, GoOn DEF Local, Steps, Unlocked

LEMMA BootstrapFailsStep == ASSUME IInv, NEW p \in Processes, BootstrapFails(p) PROVE IInv'
  <1> USE DEF BootstrapFails, Step, Fault, caddy, styles, homes, watch
  <1>1. PICK step \in {"inner-caddyfile"}, memory \in Tasks :
          /\ Remember(p, step, memory)
          /\ SameRequest(memory, task[p]) /\ SameJob(memory, task[p]) /\ memory.action = "replaced"
          /\ (memory.seen <=> task[p].seen) /\ (memory.live <=> task[p].live) /\ memory.inner = task[p].inner
    <2> DEFINE memory == [task[p] EXCEPT !.action = "replaced"]
    <2>1. PICK step \in {"inner-caddyfile"} : Remember(p, step, memory)
      OBVIOUS
    <2>2. /\ memory \in Tasks
           /\ SameRequest(memory, task[p]) /\ SameJob(memory, task[p]) /\ memory.action = "replaced"
           /\ (memory.seen <=> task[p].seen) /\ (memory.live <=> task[p].live) /\ memory.inner = task[p].inner
      BY TaskParts, ActionSet
    <2> HIDE DEF memory
    <2> QED  BY <2>1, <2>2
  <1>2. /\ pc[p] \in {"bootstrap"} /\ task[p].kind \in {"install", "rollback"}
        /\ pc[p] \notin Shared => task[p].kind = "install"
    BY TaskParts DEF IInv, Local, TaskKnown, Shared
  <1>3. Kinds'
    BY <1>2, FilesAreSome DEF IInv, TypeOK, Kinds, Jobs, FilePairs, StylePairs, Files, Local, TaskKnown,
       Shared
  <1>4. Elsewhere(p)
    BY <1>2 DEF Elsewhere, Changed, Unlocked
  <1>5. ThemeKept'
    BY <1>2, FilesAreSome DEF IInv, ThemeKept, Local, StylesKnown, Unlocked
  <1>6. pc'[p] = step /\ task'[p] = memory
    BY <1>1, <1>2, RememberIsAt DEF At, Steps, Unlocked
  <1>7. Wanted(p)' = Wanted(p) /\ Desired(p)' = Desired(p)
    BY <1>1, <1>6 DEF SameRequest, Wanted, Desired, Rendered
  <1>8. TaskKnown(p)'
    BY <1>1, <1>2, <1>6, FilesAreSome DEF SameRequest, IInv, Local, TaskKnown, Shared, Unlocked, Activating
  <1>9. StylesKnown(p)'
    BY <1>1, <1>2, <1>6, <1>7, FilesAreSome DEF SameRequest, IInv, Local, StylesKnown, Styles, Unlocked
  <1>10. ServedKnown(p)'
    BY <1>1, <1>2, <1>6, TaskParts DEF SameRequest, SameJob, IInv, Local, ServedKnown, InSync
  <1>11. p \in calm' /\ task[p].kind = "install" =>
          /\ p \in calm
          /\ (task[p].seen <=> task[p].job # None)
          /\ task[p].inner = task[p].prior /\ (task[p].live <=> task[p].job # None)
          /\ Files = Wanted(p)
          /\ task[p].action = "none" /\ task[p].job # None
    BY <1>2, TaskParts DEF IInv, Local, FilesKnown, JobKnown, ServedKnown, Changed, Serving, Restored,
       Unlocked, Activating, TaskKnown, Files
  <1> HIDE DEF BootstrapFails
  <1>12. FilesKnown(p)'
    BY <1>1, <1>2, <1>6, <1>7, <1>11, TaskParts DEF FilesKnown, SameRequest, SameJob, Serving, Restored,
       Unlocked
  <1>13. JobKnown(p)'
    BY <1>1, <1>2, <1>6, <1>7, <1>11, TaskParts DEF JobKnown, SameRequest, SameJob, Restored, Unlocked
  <1> USE DEF BootstrapFails
  <1> QED
    BY <1>1, <1>2, <1>3, <1>4, <1>5, <1>8, <1>9, <1>10, <1>12, <1>13, GoOn DEF Local, Steps, Unlocked

LEMMA InnerCaddyfileStep == ASSUME IInv, NEW p \in Processes, InnerCaddyfile(p) PROVE IInv'
  <1> USE DEF InnerCaddyfile, Step, Fault, caddy, styles, homes, watch
  <1>1. PICK step \in {"inner-plist"}, memory \in Tasks :
          /\ Remember(p, step, memory)
          /\ memory = task[p]
    BY TaskParts DEF Goto
  <1>2. /\ pc[p] \in {"inner-caddyfile"} /\ task[p].kind \in {"install", "rollback"}
        /\ pc[p] \notin Shared => task[p].kind = "install"
    BY TaskParts DEF IInv, Local, TaskKnown, Shared
  <1>3. Kinds'
    BY <1>2, TaskParts DEF IInv, TypeOK, Kinds, Jobs, FilePairs, StylePairs, Files, Local, TaskKnown, Shared
  <1>4. Elsewhere(p)
    BY <1>2 DEF Elsewhere, Changed, Unlocked
  <1>5. ThemeKept'
    BY <1>2, TaskParts DEF IInv, ThemeKept, Local, StylesKnown, Unlocked
  <1>6. pc'[p] = step /\ task'[p] = memory
    BY <1>1, <1>2, RememberIsAt DEF At, Steps, Unlocked
  <1>7. Wanted(p)' = Wanted(p) /\ Desired(p)' = Desired(p)
    BY <1>1, <1>6 DEF SameRequest, Wanted, Desired, Rendered
  <1>8. TaskKnown(p)'
    BY <1>1, <1>2, <1>6, TaskParts DEF SameRequest, IInv, Local, TaskKnown, Shared, Unlocked, Activating
  <1>9. StylesKnown(p)'
    BY <1>1, <1>2, <1>6, <1>7, TaskParts DEF SameRequest, IInv, Local, StylesKnown, Styles, Unlocked
  <1>10. ServedKnown(p)'
    BY <1>1, <1>2, <1>6, TaskParts DEF SameRequest, SameJob, IInv, Local, ServedKnown, InSync
  <1>11. FilesKnown(p)'
    BY <1>1, <1>2, <1>6, <1>7, TaskParts
       DEF SameRequest, SameJob, IInv, Local, FilesKnown, JobKnown, ServedKnown, Changed, Serving,
           Restored, Files, InSync, FilePairs, Jobs, Unlocked
  <1>12. JobKnown(p)'
    BY <1>1, <1>2, <1>6, <1>7, TaskParts
       DEF SameRequest, SameJob, IInv, Local, FilesKnown, JobKnown, Changed, Serving, Restored, Unlocked,
           Files, FilePairs, Jobs
  <1> QED
    BY <1>1, <1>2, <1>3, <1>4, <1>5, <1>8, <1>9, <1>10, <1>11, <1>12, GoOn DEF Local, Steps, Unlocked

LEMMA InnerPlistStep == ASSUME IInv, NEW p \in Processes, InnerPlist(p) PROVE IInv'
  <1> USE DEF InnerPlist, Step, Fault, caddy, styles, homes, watch
  <1>1. CASE task[p].action = "none"
    <2>1. pc[p] \in {"inner-plist"} /\ End(p, "failed")
      BY <1>1
    <2>2. Kinds'
      BY <1>1, <2>1, TaskParts DEF IInv, TypeOK, Kinds, Jobs, FilePairs, StylePairs, Files, Local,
         TaskKnown, Shared
    <2>3. Elsewhere(p)
      BY <1>1, <2>1 DEF Elsewhere, Changed, Unlocked
    <2>4. ThemeKept'
      BY <1>1, <2>1, TaskParts DEF IInv, ThemeKept, Local, StylesKnown, Unlocked
    <2> QED  BY <2>1, <2>2, <2>3, <2>4, EndStep
  <1>2. CASE task[p].action # "none"
    <2>1. PICK step \in {"inspect", "reload-back", "stop"}, memory \in Tasks :
            /\ Remember(p, step, memory)
            /\ memory = task[p]
      BY <1>2, TaskParts DEF Goto
    <2>2. /\ pc[p] \in {"inner-plist"} /\ task[p].kind \in {"install", "rollback"}
          /\ pc[p] \notin Shared => task[p].kind = "install"
      BY <1>2, TaskParts DEF IInv, Local, TaskKnown, Shared
    <2>3. 
          /\ (step = "inspect" <=> task[p].action = "kept")
          /\ (step = "reload-back" <=> task[p].action = "reloaded")
          /\ task[p].action # "none"
      BY <1>2, <2>1, <2>2, TaskParts DEF Goto, Remember, IInv, TypeOK, Shared
    <2>4. Kinds'
      BY <1>2, <2>2, TaskParts DEF IInv, TypeOK, Kinds, Jobs, FilePairs, StylePairs, Files, Local,
         TaskKnown, Shared
    <2>5. Elsewhere(p)
      BY <1>2, <2>2 DEF Elsewhere, Changed, Unlocked
    <2>6. ThemeKept'
      BY <1>2, <2>2, TaskParts DEF IInv, ThemeKept, Local, StylesKnown, Unlocked
    <2>7. pc'[p] = step /\ task'[p] = memory
      BY <2>1, <2>2, RememberIsAt DEF At, Steps, Unlocked
    <2>8. Wanted(p)' = Wanted(p) /\ Desired(p)' = Desired(p)
      BY <2>1, <2>7 DEF SameRequest, Wanted, Desired, Rendered
    <2>9. TaskKnown(p)'
      BY <1>2, <2>3, <2>1, <2>2, <2>7, TaskParts DEF SameRequest, IInv, Local, TaskKnown, Shared, Unlocked,
         Activating
    <2>10. StylesKnown(p)'
      BY <1>2, <2>3, <2>1, <2>2, <2>7, <2>8, TaskParts DEF SameRequest, IInv, Local, StylesKnown, Styles,
         Unlocked
    <2>11. ServedKnown(p)'
      BY <1>2, <2>1, <2>2, <2>7, TaskParts DEF SameRequest, SameJob, IInv, Local, ServedKnown, InSync
    <2>12. p \in calm' /\ task[p].kind = "install" =>
            /\ p \in calm
            /\ (task[p].seen <=> task[p].job # None)
            /\ task[p].inner = task[p].prior /\ (task[p].live <=> task[p].job # None)
            /\ caddyfile = task[p].prior.caddyfile
            /\ task[p].action = "none" => job = task[p].job
            /\ task[p].action = "kept" => job = task[p].job
            /\ task[p].action # "none" => task[p].job # None
            /\ task[p].action = "reloaded" => job # None /\ job.plist = task[p].job.plist
      BY <1>2, <2>2, TaskParts DEF IInv, Local, FilesKnown, JobKnown, ServedKnown, Changed, Serving,
         Restored, Unlocked, Activating, TaskKnown, Files
    <2>13. p \in calm' /\ task[p].kind = "install" =>
            /\ Files' = task[p].prior /\ job' = job
      BY <1>2, <2>3, <2>1, <2>2, <2>7, <2>12, TaskParts DEF Remember, IInv, TypeOK, SameRequest, SameJob,
         Files, InSync, FilePairs, Jobs
    <2> HIDE DEF InnerPlist
    <2>14. FilesKnown(p)'
      BY <2>3, <2>1, <2>2, <2>7, <2>8, <2>12, <2>13, TaskParts DEF FilesKnown, SameRequest, SameJob,
         Serving, Restored, Unlocked
    <2>15. JobKnown(p)'
      BY <2>3, <2>1, <2>2, <2>7, <2>8, <2>12, <2>13, TaskParts DEF JobKnown, SameRequest, SameJob,
         Restored, Unlocked
    <2> USE DEF InnerPlist
    <2> QED
      BY <2>1, <2>2, <2>4, <2>5, <2>6, <2>9, <2>10, <2>11, <2>14, <2>15, GoOn DEF Local, Steps, Unlocked
  <1> QED  BY <1>1, <1>2

LEMMA InspectStep == ASSUME IInv, NEW p \in Processes, Inspect(p) PROVE IInv'
  <1> USE DEF Inspect, Step, Fault, caddy, styles, homes, watch
  <1>1. CASE (\E how \in {"failed", "unrestored"} : End(p, how))
    <2>1. pc[p] \in {"inspect"} /\ (\E how : End(p, how))
      BY <1>1
    <2>2. Kinds'
      BY <1>1, <2>1 DEF IInv, TypeOK, Kinds, Jobs, FilePairs, StylePairs, Files, Local, TaskKnown, Shared
    <2>3. Elsewhere(p)
      BY <1>1, <2>1 DEF Elsewhere, Changed, Unlocked
    <2>4. ThemeKept'
      BY <1>1, <2>1 DEF IInv, ThemeKept, Local, StylesKnown, Unlocked
    <2> QED  BY <2>1, <2>2, <2>3, <2>4, EndStep
  <1>2. CASE Goto(p, "stop") /\ (job = None \/ p \notin known)
    <2>1. PICK step \in {"stop"}, memory \in Tasks :
            /\ Remember(p, step, memory)
            /\ memory = task[p]
      BY <1>2, TaskParts DEF Goto
    <2>2. /\ pc[p] \in {"inspect"} /\ task[p].kind \in {"install", "rollback"}
          /\ pc[p] \notin Shared => task[p].kind = "install"
      BY <1>2, TaskParts DEF IInv, Local, TaskKnown, Shared
    <2>3. Kinds'
      BY <1>2, <2>2 DEF IInv, TypeOK, Kinds, Jobs, FilePairs, StylePairs, Files, Local, TaskKnown, Shared
    <2>4. Elsewhere(p)
      BY <1>2, <2>2 DEF Elsewhere, Changed, Unlocked
    <2>5. ThemeKept'
      BY <1>2, <2>2 DEF IInv, ThemeKept, Local, StylesKnown, Unlocked
    <2>6. pc'[p] = step /\ task'[p] = memory
      BY <2>1, <2>2, RememberIsAt DEF At, Steps, Unlocked
    <2>7. Wanted(p)' = Wanted(p) /\ Desired(p)' = Desired(p)
      BY <2>1, <2>6 DEF SameRequest, Wanted, Desired, Rendered
    <2>8. TaskKnown(p)'
      BY <1>2, <2>1, <2>2, <2>6 DEF SameRequest, IInv, Local, TaskKnown, Shared, Unlocked, Activating
    <2>9. StylesKnown(p)'
      BY <1>2, <2>1, <2>2, <2>6, <2>7 DEF SameRequest, IInv, Local, StylesKnown, Styles, Unlocked
    <2>10. ServedKnown(p)'
      BY <1>2, <2>1, <2>2, <2>6, TaskParts DEF SameRequest, SameJob, IInv, Local, ServedKnown, InSync
    <2>11. FilesKnown(p)'
      BY <1>2, <2>1, <2>2, <2>6, <2>7, TaskParts
         DEF SameRequest, SameJob, IInv, Local, FilesKnown, JobKnown, ServedKnown, Changed, Serving,
             Restored, Files, InSync, FilePairs, Jobs, Unlocked
    <2>12. JobKnown(p)'
      BY <1>2, <2>1, <2>2, <2>6, <2>7, TaskParts
         DEF SameRequest, SameJob, IInv, Local, FilesKnown, JobKnown, Changed, Serving, Restored,
             Unlocked, Files, FilePairs, Jobs
    <2> QED
      BY <2>1, <2>2, <2>3, <2>4, <2>5, <2>8, <2>9, <2>10, <2>11, <2>12, GoOn DEF Local, Steps, Unlocked
  <1> QED  BY <1>1, <1>2

LEMMA IngressStep == ASSUME IInv, NEW p \in Processes, Ingress(p) PROVE IInv'
  <1> USE DEF Ingress, Step, Fault, caddy, styles, homes, watch
  <1>1. PICK step \in {"assets", "theme-former"}, memory \in Tasks :
          /\ Remember(p, step, memory)
          /\ memory = task[p]
    BY TaskParts DEF Goto
  <1>2. /\ pc[p] \in {"ingress"} /\ task[p].kind \in {"install", "rollback"}
        /\ pc[p] \notin Shared => task[p].kind = "install"
    BY TaskParts DEF IInv, Local, TaskKnown, Shared
  <1>3. step = "assets" => theme = task[p].want.theme
    BY <1>1, <1>2, TaskParts DEF Goto, Remember, IInv, TypeOK, Shared
  <1>4. Kinds'
    BY <1>2 DEF IInv, TypeOK, Kinds, Jobs, FilePairs, StylePairs, Files, Local, TaskKnown, Shared
  <1>5. Elsewhere(p)
    BY <1>2 DEF Elsewhere, Changed, Unlocked
  <1>6. ThemeKept'
    BY <1>2 DEF IInv, ThemeKept, Local, StylesKnown, Unlocked
  <1>7. pc'[p] = step /\ task'[p] = memory
    BY <1>1, <1>2, RememberIsAt DEF At, Steps, Unlocked
  <1>8. Wanted(p)' = Wanted(p) /\ Desired(p)' = Desired(p)
    BY <1>1, <1>7 DEF SameRequest, Wanted, Desired, Rendered
  <1>9. TaskKnown(p)'
    BY <1>3, <1>1, <1>2, <1>7 DEF SameRequest, IInv, Local, TaskKnown, Shared, Unlocked, Activating
  <1>10. StylesKnown(p)'
    BY <1>3, <1>1, <1>2, <1>7, <1>8 DEF SameRequest, IInv, Local, StylesKnown, Styles, Unlocked
  <1>11. ServedKnown(p)'
    BY <1>1, <1>2, <1>7, TaskParts DEF SameRequest, SameJob, IInv, Local, ServedKnown, InSync
  <1>12. FilesKnown(p)'
    BY <1>1, <1>2, <1>7, <1>8, TaskParts
       DEF SameRequest, SameJob, IInv, Local, FilesKnown, JobKnown, ServedKnown, Changed, Serving,
           Restored, Files, InSync, FilePairs, Jobs, Unlocked
  <1>13. JobKnown(p)'
    BY <1>1, <1>2, <1>7, <1>8, TaskParts
       DEF SameRequest, SameJob, IInv, Local, FilesKnown, JobKnown, Changed, Serving, Restored, Unlocked,
           Files, FilePairs, Jobs
  <1> QED
    BY <1>1, <1>2, <1>4, <1>5, <1>6, <1>9, <1>10, <1>11, <1>12, <1>13, GoOn DEF Local, Steps, Unlocked

LEMMA IngressFailsStep == ASSUME IInv, NEW p \in Processes, IngressFails(p) PROVE IInv'
  <1> USE DEF IngressFails, Step, Fault, caddy, styles, homes, watch
  <1>1. PICK step \in {"back-theme"}, memory \in Tasks :
          /\ Remember(p, step, memory)
          /\ memory = task[p]
    BY TaskParts DEF Goto
  <1>2. /\ pc[p] \in {"ingress"} /\ task[p].kind \in {"install", "rollback"}
        /\ pc[p] \notin Shared => task[p].kind = "install"
    BY TaskParts DEF IInv, Local, TaskKnown, Shared
  <1>3. Kinds'
    BY <1>2 DEF IInv, TypeOK, Kinds, Jobs, FilePairs, StylePairs, Files, Local, TaskKnown, Shared
  <1>4. Elsewhere(p)
    BY <1>2 DEF Elsewhere, Changed, Unlocked
  <1>5. ThemeKept'
    BY <1>2 DEF IInv, ThemeKept, Local, StylesKnown, Unlocked
  <1>6. pc'[p] = step /\ task'[p] = memory
    BY <1>1, <1>2, RememberIsAt DEF At, Steps, Unlocked
  <1>7. Wanted(p)' = Wanted(p) /\ Desired(p)' = Desired(p)
    BY <1>1, <1>6 DEF SameRequest, Wanted, Desired, Rendered
  <1>8. TaskKnown(p)'
    BY <1>1, <1>2, <1>6 DEF SameRequest, IInv, Local, TaskKnown, Shared, Unlocked, Activating
  <1>9. StylesKnown(p)'
    BY <1>1, <1>2, <1>6, <1>7 DEF SameRequest, IInv, Local, StylesKnown, Styles, Unlocked
  <1>10. ServedKnown(p)'
    BY <1>1, <1>2, <1>6, TaskParts DEF SameRequest, SameJob, IInv, Local, ServedKnown, InSync
  <1>11. FilesKnown(p)'
    BY <1>1, <1>2, <1>6, <1>7, TaskParts
       DEF SameRequest, SameJob, IInv, Local, FilesKnown, JobKnown, ServedKnown, Changed, Serving,
           Restored, Files, InSync, FilePairs, Jobs, Unlocked
  <1>12. JobKnown(p)'
    BY <1>1, <1>2, <1>6, <1>7, TaskParts
       DEF SameRequest, SameJob, IInv, Local, FilesKnown, JobKnown, Changed, Serving, Restored, Unlocked,
           Files, FilePairs, Jobs
  <1> QED
    BY <1>1, <1>2, <1>3, <1>4, <1>5, <1>8, <1>9, <1>10, <1>11, <1>12, GoOn DEF Local, Steps, Unlocked

LEMMA WriteFormerThemeStep == ASSUME IInv, NEW p \in Processes, WriteFormerTheme(p) PROVE IInv'
  <1> USE DEF WriteFormerTheme, Step, Fault, caddy, styles, homes, watch
  <1>1. PICK step \in {"theme"}, memory \in Tasks :
          /\ Remember(p, step, memory)
          /\ memory = task[p]
    BY TaskParts DEF Goto
  <1>2. /\ pc[p] \in {"theme-former"} /\ task[p].kind \in {"install", "rollback"}
        /\ pc[p] \notin Shared => task[p].kind = "install"
    BY TaskParts DEF IInv, Local, TaskKnown, Shared
  <1>3. Kinds'
    BY <1>2, DesiredKinds DEF IInv, TypeOK, Kinds, Jobs, FilePairs, StylePairs, Files, Local, TaskKnown,
       Shared
  <1>4. Elsewhere(p)
    BY <1>2 DEF Elsewhere, Changed, Unlocked
  <1>5. ThemeKept'
    BY <1>2, DesiredKinds DEF IInv, ThemeKept, Local, StylesKnown, Unlocked
  <1>6. pc'[p] = step /\ task'[p] = memory
    BY <1>1, <1>2, RememberIsAt DEF At, Steps, Unlocked
  <1>7. Wanted(p)' = Wanted(p) /\ Desired(p)' = Desired(p)
    BY <1>1, <1>6 DEF SameRequest, Wanted, Desired, Rendered
  <1>8. TaskKnown(p)'
    BY <1>1, <1>2, <1>6, DesiredKinds DEF SameRequest, IInv, Local, TaskKnown, Shared, Unlocked, Activating
  <1>9. StylesKnown(p)'
    BY <1>1, <1>2, <1>6, <1>7, DesiredKinds DEF SameRequest, IInv, Local, StylesKnown, Styles, Unlocked
  <1>10. ServedKnown(p)'
    BY <1>1, <1>2, <1>6, TaskParts DEF SameRequest, SameJob, IInv, Local, ServedKnown, InSync
  <1>11. FilesKnown(p)'
    BY <1>1, <1>2, <1>6, <1>7, TaskParts, DesiredKinds
       DEF SameRequest, SameJob, IInv, Local, FilesKnown, JobKnown, ServedKnown, Changed, Serving,
           Restored, Files, InSync, FilePairs, Jobs, Unlocked
  <1>12. JobKnown(p)'
    BY <1>1, <1>2, <1>6, <1>7, TaskParts, DesiredKinds
       DEF SameRequest, SameJob, IInv, Local, FilesKnown, JobKnown, Changed, Serving, Restored, Unlocked,
           Files, FilePairs, Jobs
  <1> QED
    BY <1>1, <1>2, <1>3, <1>4, <1>5, <1>8, <1>9, <1>10, <1>11, <1>12, GoOn DEF Local, Steps, Unlocked

LEMMA WriteThemeStep == ASSUME IInv, NEW p \in Processes, WriteTheme(p) PROVE IInv'
  <1> USE DEF WriteTheme, Step, Fault, caddy, styles, homes, watch
  <1>1. CASE task[p].kind = "rollback"
    <2>1. pc[p] \in {"theme"} /\ End(p, "installed")
      BY <1>1
    <2>2. Kinds'
      BY <1>1, <2>1, DesiredKinds DEF IInv, TypeOK, Kinds, Jobs, FilePairs, StylePairs, Files, Local,
         TaskKnown, Shared
    <2>3. Elsewhere(p)
      BY <1>1, <2>1 DEF Elsewhere, Changed, Unlocked
    <2>4. ThemeKept'
      BY <1>1, <2>1, DesiredKinds DEF IInv, ThemeKept, Local, StylesKnown, Unlocked
    <2> QED  BY <2>1, <2>2, <2>3, <2>4, EndStep
  <1>2. CASE task[p].kind # "rollback"
    <2>1. PICK step \in {"assets"}, memory \in Tasks :
            /\ Remember(p, step, memory)
            /\ memory = task[p]
      BY <1>2, TaskParts DEF Goto
    <2>2. /\ pc[p] \in {"theme"} /\ task[p].kind \in {"install", "rollback"}
          /\ pc[p] \notin Shared => task[p].kind = "install"
      BY <1>2, TaskParts DEF IInv, Local, TaskKnown, Shared
    <2>3. theme' = task[p].want.theme
      BY <1>2, <2>1, <2>2, TaskParts, DesiredKinds DEF Goto, Remember, IInv, TypeOK, Shared
    <2>4. Kinds'
      BY <1>2, <2>2, DesiredKinds DEF IInv, TypeOK, Kinds, Jobs, FilePairs, StylePairs, Files, Local,
         TaskKnown, Shared
    <2>5. Elsewhere(p)
      BY <1>2, <2>2 DEF Elsewhere, Changed, Unlocked
    <2>6. ThemeKept'
      BY <1>2, <2>2, DesiredKinds DEF IInv, ThemeKept, Local, StylesKnown, Unlocked
    <2>7. pc'[p] = step /\ task'[p] = memory
      BY <2>1, <2>2, RememberIsAt DEF At, Steps, Unlocked
    <2>8. Wanted(p)' = Wanted(p) /\ Desired(p)' = Desired(p)
      BY <2>1, <2>7 DEF SameRequest, Wanted, Desired, Rendered
    <2>9. TaskKnown(p)'
      BY <1>2, <2>3, <2>1, <2>2, <2>7, DesiredKinds DEF SameRequest, IInv, Local, TaskKnown, Shared,
         Unlocked, Activating
    <2>10. StylesKnown(p)'
      BY <1>2, <2>3, <2>1, <2>2, <2>7, <2>8, DesiredKinds DEF SameRequest, IInv, Local, StylesKnown,
         Styles, Unlocked
    <2>11. ServedKnown(p)'
      BY <1>2, <2>1, <2>2, <2>7, TaskParts DEF SameRequest, SameJob, IInv, Local, ServedKnown, InSync
    <2>12. FilesKnown(p)'
      BY <1>2, <2>1, <2>2, <2>7, <2>8, TaskParts, DesiredKinds
         DEF SameRequest, SameJob, IInv, Local, FilesKnown, JobKnown, ServedKnown, Changed, Serving,
             Restored, Files, InSync, FilePairs, Jobs, Unlocked
    <2>13. JobKnown(p)'
      BY <1>2, <2>1, <2>2, <2>7, <2>8, TaskParts, DesiredKinds
         DEF SameRequest, SameJob, IInv, Local, FilesKnown, JobKnown, Changed, Serving, Restored,
             Unlocked, Files, FilePairs, Jobs
    <2> QED
      BY <2>1, <2>2, <2>4, <2>5, <2>6, <2>9, <2>10, <2>11, <2>12, <2>13, GoOn DEF Local, Steps, Unlocked
  <1> QED  BY <1>1, <1>2

LEMMA ThemeFailsStep == ASSUME IInv, NEW p \in Processes, ThemeFails(p) PROVE IInv'
  <1> USE DEF ThemeFails, Step, Fault, caddy, styles, homes, watch
  <1>1. PICK step \in {"back-theme"}, memory \in Tasks :
          /\ Remember(p, step, memory)
          /\ memory = task[p]
    BY TaskParts DEF Goto
  <1>2. /\ pc[p] \in {"theme-former", "theme"} /\ task[p].kind \in {"install", "rollback"}
        /\ pc[p] \notin Shared => task[p].kind = "install"
    BY TaskParts DEF IInv, Local, TaskKnown, Shared
  <1>3. Kinds'
    BY <1>2, DesiredKinds DEF IInv, TypeOK, Kinds, Jobs, FilePairs, StylePairs, Files, Local, TaskKnown,
       Shared
  <1>4. Elsewhere(p)
    BY <1>2 DEF Elsewhere, Changed, Unlocked
  <1>5. ThemeKept'
    BY <1>2, DesiredKinds DEF IInv, ThemeKept, Local, StylesKnown, Unlocked
  <1>6. pc'[p] = step /\ task'[p] = memory
    BY <1>1, <1>2, RememberIsAt DEF At, Steps, Unlocked
  <1>7. Wanted(p)' = Wanted(p) /\ Desired(p)' = Desired(p)
    BY <1>1, <1>6 DEF SameRequest, Wanted, Desired, Rendered
  <1>8. TaskKnown(p)'
    BY <1>1, <1>2, <1>6, DesiredKinds DEF SameRequest, IInv, Local, TaskKnown, Shared, Unlocked, Activating
  <1>9. StylesKnown(p)'
    BY <1>1, <1>2, <1>6, <1>7, DesiredKinds DEF SameRequest, IInv, Local, StylesKnown, Styles, Unlocked
  <1>10. ServedKnown(p)'
    BY <1>1, <1>2, <1>6, TaskParts DEF SameRequest, SameJob, IInv, Local, ServedKnown, InSync
  <1>11. FilesKnown(p)'
    BY <1>1, <1>2, <1>6, <1>7, TaskParts, DesiredKinds
       DEF SameRequest, SameJob, IInv, Local, FilesKnown, JobKnown, ServedKnown, Changed, Serving,
           Restored, Files, InSync, FilePairs, Jobs, Unlocked
  <1>12. JobKnown(p)'
    BY <1>1, <1>2, <1>6, <1>7, TaskParts, DesiredKinds
       DEF SameRequest, SameJob, IInv, Local, FilesKnown, JobKnown, Changed, Serving, Restored, Unlocked,
           Files, FilePairs, Jobs
  <1> QED
    BY <1>1, <1>2, <1>3, <1>4, <1>5, <1>8, <1>9, <1>10, <1>11, <1>12, GoOn DEF Local, Steps, Unlocked

LEMMA WriteAssetsStep == ASSUME IInv, NEW p \in Processes, WriteAssets(p) PROVE IInv'
  <1> USE DEF WriteAssets, Step, Fault, caddy, styles, homes, watch
  <1>1. PICK step \in {"former-home"}, memory \in Tasks :
          /\ Remember(p, step, memory)
          /\ memory = task[p]
    BY TaskParts DEF Goto
  <1>2. /\ pc[p] \in {"assets"} /\ task[p].kind \in {"install", "rollback"}
        /\ pc[p] \notin Shared => task[p].kind = "install"
    BY TaskParts DEF IInv, Local, TaskKnown, Shared
  <1>3. Kinds'
    BY <1>2, WantedKinds DEF IInv, TypeOK, Kinds, Jobs, FilePairs, StylePairs, Files, Local, TaskKnown,
       Shared
  <1>4. Elsewhere(p)
    BY <1>2 DEF Elsewhere, Changed, Unlocked
  <1>5. ThemeKept'
    BY <1>2, WantedKinds DEF IInv, ThemeKept, Local, StylesKnown, Unlocked
  <1>6. pc'[p] = step /\ task'[p] = memory
    BY <1>1, <1>2, RememberIsAt DEF At, Steps, Unlocked
  <1>7. Wanted(p)' = Wanted(p) /\ Desired(p)' = Desired(p)
    BY <1>1, <1>6 DEF SameRequest, Wanted, Desired, Rendered
  <1>8. TaskKnown(p)'
    BY <1>1, <1>2, <1>6, WantedKinds DEF SameRequest, IInv, Local, TaskKnown, Shared, Unlocked, Activating
  <1>9. StylesKnown(p)'
    BY <1>1, <1>2, <1>6, <1>7, WantedKinds DEF SameRequest, IInv, Local, StylesKnown, Styles, Unlocked
  <1>10. ServedKnown(p)'
    BY <1>1, <1>2, <1>6, TaskParts DEF SameRequest, SameJob, IInv, Local, ServedKnown, InSync
  <1>11. FilesKnown(p)'
    BY <1>1, <1>2, <1>6, <1>7, TaskParts, WantedKinds
       DEF SameRequest, SameJob, IInv, Local, FilesKnown, JobKnown, ServedKnown, Changed, Serving,
           Restored, Files, InSync, FilePairs, Jobs, Unlocked
  <1>12. JobKnown(p)'
    BY <1>1, <1>2, <1>6, <1>7, TaskParts, WantedKinds
       DEF SameRequest, SameJob, IInv, Local, FilesKnown, JobKnown, Changed, Serving, Restored, Unlocked,
           Files, FilePairs, Jobs
  <1> QED
    BY <1>1, <1>2, <1>3, <1>4, <1>5, <1>8, <1>9, <1>10, <1>11, <1>12, GoOn DEF Local, Steps, Unlocked

LEMMA WriteFormerHomeStep == ASSUME IInv, NEW p \in Processes, WriteFormerHome(p) PROVE IInv'
  <1> USE DEF WriteFormerHome, Step, Fault, caddy, styles, homes, watch
  <1>1. PICK step \in {"home"}, memory \in Tasks :
          /\ Remember(p, step, memory)
          /\ memory = task[p]
    BY TaskParts DEF Goto
  <1>2. /\ pc[p] \in {"former-home"} /\ task[p].kind \in {"install", "rollback"}
        /\ pc[p] \notin Shared => task[p].kind = "install"
    BY TaskParts DEF IInv, Local, TaskKnown, Shared
  <1>3. Kinds'
    BY <1>2, TaskParts DEF IInv, TypeOK, Kinds, Jobs, FilePairs, StylePairs, Files, Local, TaskKnown, Shared
  <1>4. Elsewhere(p)
    BY <1>2 DEF Elsewhere, Changed, Unlocked
  <1>5. ThemeKept'
    BY <1>2, TaskParts DEF IInv, ThemeKept, Local, StylesKnown, Unlocked
  <1>6. pc'[p] = step /\ task'[p] = memory
    BY <1>1, <1>2, RememberIsAt DEF At, Steps, Unlocked
  <1>7. Wanted(p)' = Wanted(p) /\ Desired(p)' = Desired(p)
    BY <1>1, <1>6 DEF SameRequest, Wanted, Desired, Rendered
  <1>8. TaskKnown(p)'
    BY <1>1, <1>2, <1>6, TaskParts DEF SameRequest, IInv, Local, TaskKnown, Shared, Unlocked, Activating
  <1>9. StylesKnown(p)'
    BY <1>1, <1>2, <1>6, <1>7, TaskParts DEF SameRequest, IInv, Local, StylesKnown, Styles, Unlocked
  <1>10. ServedKnown(p)'
    BY <1>1, <1>2, <1>6, TaskParts DEF SameRequest, SameJob, IInv, Local, ServedKnown, InSync
  <1>11. FilesKnown(p)'
    BY <1>1, <1>2, <1>6, <1>7, TaskParts
       DEF SameRequest, SameJob, IInv, Local, FilesKnown, JobKnown, ServedKnown, Changed, Serving,
           Restored, Files, InSync, FilePairs, Jobs, Unlocked
  <1>12. JobKnown(p)'
    BY <1>1, <1>2, <1>6, <1>7, TaskParts
       DEF SameRequest, SameJob, IInv, Local, FilesKnown, JobKnown, Changed, Serving, Restored, Unlocked,
           Files, FilePairs, Jobs
  <1> QED
    BY <1>1, <1>2, <1>3, <1>4, <1>5, <1>8, <1>9, <1>10, <1>11, <1>12, GoOn DEF Local, Steps, Unlocked

LEMMA WriteHomeStep == ASSUME IInv, NEW p \in Processes, WriteHome(p) PROVE IInv'
  <1> USE DEF WriteHome, Step, Fault, caddy, styles, homes, watch
  <1>1. pc[p] \in {"home"} /\ End(p, "installed")
    OBVIOUS
  <1>2. Kinds'
    BY <1>1, WantedKinds DEF IInv, TypeOK, Kinds, Jobs, FilePairs, StylePairs, Files, Local, TaskKnown,
       Shared
  <1>3. Elsewhere(p)
    BY <1>1 DEF Elsewhere, Changed, Unlocked
  <1>4. ThemeKept'
    BY <1>1, WantedKinds DEF IInv, ThemeKept, Local, StylesKnown, Unlocked
  <1> QED  BY <1>1, <1>2, <1>3, <1>4, EndStep

LEMMA PageFailsStep == ASSUME IInv, NEW p \in Processes, PageFails(p) PROVE IInv'
  <1> USE DEF PageFails, Step, Fault, caddy, styles, homes, watch
  <1>1. PICK step \in {"back-theme"}, memory \in Tasks :
          /\ Remember(p, step, memory)
          /\ memory = task[p]
    BY TaskParts DEF Goto
  <1>2. /\ pc[p] \in {"assets", "former-home", "home"} /\ task[p].kind \in {"install", "rollback"}
        /\ pc[p] \notin Shared => task[p].kind = "install"
    BY TaskParts DEF IInv, Local, TaskKnown, Shared
  <1>3. Kinds'
    BY <1>2 DEF IInv, TypeOK, Kinds, Jobs, FilePairs, StylePairs, Files, Local, TaskKnown, Shared
  <1>4. Elsewhere(p)
    BY <1>2 DEF Elsewhere, Changed, Unlocked
  <1>5. ThemeKept'
    BY <1>2 DEF IInv, ThemeKept, Local, StylesKnown, Unlocked
  <1>6. pc'[p] = step /\ task'[p] = memory
    BY <1>1, <1>2, RememberIsAt DEF At, Steps, Unlocked
  <1>7. Wanted(p)' = Wanted(p) /\ Desired(p)' = Desired(p)
    BY <1>1, <1>6 DEF SameRequest, Wanted, Desired, Rendered
  <1>8. TaskKnown(p)'
    BY <1>1, <1>2, <1>6 DEF SameRequest, IInv, Local, TaskKnown, Shared, Unlocked, Activating
  <1>9. StylesKnown(p)'
    BY <1>1, <1>2, <1>6, <1>7 DEF SameRequest, IInv, Local, StylesKnown, Styles, Unlocked
  <1>10. ServedKnown(p)'
    BY <1>1, <1>2, <1>6, TaskParts DEF SameRequest, SameJob, IInv, Local, ServedKnown, InSync
  <1>11. FilesKnown(p)'
    BY <1>1, <1>2, <1>6, <1>7, TaskParts
       DEF SameRequest, SameJob, IInv, Local, FilesKnown, JobKnown, ServedKnown, Changed, Serving,
           Restored, Files, InSync, FilePairs, Jobs, Unlocked
  <1>12. JobKnown(p)'
    BY <1>1, <1>2, <1>6, <1>7, TaskParts
       DEF SameRequest, SameJob, IInv, Local, FilesKnown, JobKnown, Changed, Serving, Restored, Unlocked,
           Files, FilePairs, Jobs
  <1> QED
    BY <1>1, <1>2, <1>3, <1>4, <1>5, <1>8, <1>9, <1>10, <1>11, <1>12, GoOn DEF Local, Steps, Unlocked

LEMMA BackThemeStep == ASSUME IInv, NEW p \in Processes, BackTheme(p) PROVE IInv'
  <1> USE DEF BackTheme, Step, Fault, caddy, styles, homes, watch
  <1>1. PICK step \in {"back-former"}, memory \in Tasks :
          /\ Remember(p, step, memory)
          /\ memory = task[p]
    BY TaskParts DEF Goto
  <1>2. /\ pc[p] \in {"back-theme"} /\ task[p].kind \in {"install", "rollback"}
        /\ pc[p] \notin Shared => task[p].kind = "install"
    BY TaskParts DEF IInv, Local, TaskKnown, Shared
  <1>3. Kinds'
    BY <1>2, TaskParts DEF IInv, TypeOK, Kinds, Jobs, FilePairs, StylePairs, Files, Local, TaskKnown, Shared
  <1>4. Elsewhere(p)
    BY <1>2 DEF Elsewhere, Changed, Unlocked
  <1>5. ThemeKept'
    BY <1>2, TaskParts DEF IInv, ThemeKept, Local, StylesKnown, Unlocked
  <1>6. pc'[p] = step /\ task'[p] = memory
    BY <1>1, <1>2, RememberIsAt DEF At, Steps, Unlocked
  <1>7. Wanted(p)' = Wanted(p) /\ Desired(p)' = Desired(p)
    BY <1>1, <1>6 DEF SameRequest, Wanted, Desired, Rendered
  <1>8. TaskKnown(p)'
    BY <1>1, <1>2, <1>6, TaskParts DEF SameRequest, IInv, Local, TaskKnown, Shared, Unlocked, Activating
  <1>9. StylesKnown(p)'
    BY <1>1, <1>2, <1>6, <1>7, TaskParts DEF SameRequest, IInv, Local, StylesKnown, Styles, Unlocked
  <1>10. ServedKnown(p)'
    BY <1>1, <1>2, <1>6, TaskParts DEF SameRequest, SameJob, IInv, Local, ServedKnown, InSync
  <1>11. FilesKnown(p)'
    BY <1>1, <1>2, <1>6, <1>7, TaskParts
       DEF SameRequest, SameJob, IInv, Local, FilesKnown, JobKnown, ServedKnown, Changed, Serving,
           Restored, Files, InSync, FilePairs, Jobs, Unlocked
  <1>12. JobKnown(p)'
    BY <1>1, <1>2, <1>6, <1>7, TaskParts
       DEF SameRequest, SameJob, IInv, Local, FilesKnown, JobKnown, Changed, Serving, Restored, Unlocked,
           Files, FilePairs, Jobs
  <1> QED
    BY <1>1, <1>2, <1>3, <1>4, <1>5, <1>8, <1>9, <1>10, <1>11, <1>12, GoOn DEF Local, Steps, Unlocked

LEMMA BackFormerStep == ASSUME IInv, NEW p \in Processes, BackFormer(p) PROVE IInv'
  <1> USE DEF BackFormer, Step, Fault, caddy, styles, homes, watch
  <1>1. CASE task[p].kind = "rollback"
    <2>1. pc[p] \in {"back-former"} /\ End(p, "failed")
      BY <1>1
    <2>2. Kinds'
      BY <1>1, <2>1, TaskParts DEF IInv, TypeOK, Kinds, Jobs, FilePairs, StylePairs, Files, Local,
         TaskKnown, Shared
    <2>3. Elsewhere(p)
      BY <1>1, <2>1 DEF Elsewhere, Changed, Unlocked
    <2>4. ThemeKept'
      BY <1>1, <2>1, TaskParts DEF IInv, ThemeKept, Local, StylesKnown, Unlocked
    <2> QED  BY <2>1, <2>2, <2>3, <2>4, EndStep
  <1>2. CASE task[p].kind # "rollback"
    <2>1. PICK step \in {"back-caddyfile"}, memory \in Tasks :
            /\ Remember(p, step, memory)
            /\ memory = task[p]
      BY <1>2, TaskParts DEF Goto
    <2>2. /\ pc[p] \in {"back-former"} /\ task[p].kind \in {"install", "rollback"}
          /\ pc[p] \notin Shared => task[p].kind = "install"
      BY <1>2, TaskParts DEF IInv, Local, TaskKnown, Shared
    <2>3. Styles' = task[p].styles
      BY <1>2, <2>1, <2>2, TaskParts DEF Goto, Remember, IInv, TypeOK, Shared, Styles, StylePairs, Local,
         StylesKnown, Unlocked
    <2>4. Kinds'
      BY <1>2, <2>2, TaskParts DEF IInv, TypeOK, Kinds, Jobs, FilePairs, StylePairs, Files, Local,
         TaskKnown, Shared
    <2>5. Elsewhere(p)
      BY <1>2, <2>2 DEF Elsewhere, Changed, Unlocked
    <2>6. ThemeKept'
      BY <1>2, <2>2, TaskParts DEF IInv, ThemeKept, Local, StylesKnown, Unlocked
    <2>7. pc'[p] = step /\ task'[p] = memory
      BY <2>1, <2>2, RememberIsAt DEF At, Steps, Unlocked
    <2>8. Wanted(p)' = Wanted(p) /\ Desired(p)' = Desired(p)
      BY <2>1, <2>7 DEF SameRequest, Wanted, Desired, Rendered
    <2>9. TaskKnown(p)'
      BY <1>2, <2>3, <2>1, <2>2, <2>7, TaskParts DEF SameRequest, IInv, Local, TaskKnown, Shared, Unlocked,
         Activating
    <2>10. StylesKnown(p)'
      BY <1>2, <2>3, <2>1, <2>2, <2>7, <2>8, TaskParts DEF SameRequest, IInv, Local, StylesKnown, Styles,
         Unlocked
    <2>11. ServedKnown(p)'
      BY <1>2, <2>1, <2>2, <2>7, TaskParts DEF SameRequest, SameJob, IInv, Local, ServedKnown, InSync
    <2>12. FilesKnown(p)'
      BY <1>2, <2>1, <2>2, <2>7, <2>8, TaskParts
         DEF SameRequest, SameJob, IInv, Local, FilesKnown, JobKnown, ServedKnown, Changed, Serving,
             Restored, Files, InSync, FilePairs, Jobs, Unlocked
    <2>13. JobKnown(p)'
      BY <1>2, <2>1, <2>2, <2>7, <2>8, TaskParts
         DEF SameRequest, SameJob, IInv, Local, FilesKnown, JobKnown, Changed, Serving, Restored,
             Unlocked, Files, FilePairs, Jobs
    <2> QED
      BY <2>1, <2>2, <2>4, <2>5, <2>6, <2>9, <2>10, <2>11, <2>12, <2>13, GoOn DEF Local, Steps, Unlocked
  <1> QED  BY <1>1, <1>2

LEMMA BackCaddyfileStep == ASSUME IInv, NEW p \in Processes, BackCaddyfile(p) PROVE IInv'
  <1> USE DEF BackCaddyfile, Step, Fault, caddy, styles, homes, watch
  <1>1. PICK step \in {"back-plist"}, memory \in Tasks :
          /\ Remember(p, step, memory)
          /\ memory = task[p]
    BY TaskParts DEF Goto
  <1>2. /\ pc[p] \in {"back-caddyfile"} /\ task[p].kind \in {"install", "rollback"}
        /\ pc[p] \notin Shared => task[p].kind = "install"
    BY TaskParts DEF IInv, Local, TaskKnown, Shared
  <1>3. Kinds'
    BY <1>2, TaskParts DEF IInv, TypeOK, Kinds, Jobs, FilePairs, StylePairs, Files, Local, TaskKnown, Shared
  <1>4. Elsewhere(p)
    BY <1>2 DEF Elsewhere, Changed, Unlocked
  <1>5. ThemeKept'
    BY <1>2, TaskParts DEF IInv, ThemeKept, Local, StylesKnown, Unlocked
  <1>6. pc'[p] = step /\ task'[p] = memory
    BY <1>1, <1>2, RememberIsAt DEF At, Steps, Unlocked
  <1>7. Wanted(p)' = Wanted(p) /\ Desired(p)' = Desired(p)
    BY <1>1, <1>6 DEF SameRequest, Wanted, Desired, Rendered
  <1>8. TaskKnown(p)'
    BY <1>1, <1>2, <1>6, TaskParts DEF SameRequest, IInv, Local, TaskKnown, Shared, Unlocked, Activating
  <1>9. StylesKnown(p)'
    BY <1>1, <1>2, <1>6, <1>7, TaskParts DEF SameRequest, IInv, Local, StylesKnown, Styles, Unlocked
  <1>10. ServedKnown(p)'
    BY <1>1, <1>2, <1>6, TaskParts DEF SameRequest, SameJob, IInv, Local, ServedKnown, InSync
  <1>11. FilesKnown(p)'
    BY <1>1, <1>2, <1>6, <1>7, TaskParts
       DEF SameRequest, SameJob, IInv, Local, FilesKnown, JobKnown, ServedKnown, Changed, Serving,
           Restored, Files, InSync, FilePairs, Jobs, Unlocked
  <1>12. JobKnown(p)'
    BY <1>1, <1>2, <1>6, <1>7, TaskParts
       DEF SameRequest, SameJob, IInv, Local, FilesKnown, JobKnown, Changed, Serving, Restored, Unlocked,
           Files, FilePairs, Jobs
  <1> QED
    BY <1>1, <1>2, <1>3, <1>4, <1>5, <1>8, <1>9, <1>10, <1>11, <1>12, GoOn DEF Local, Steps, Unlocked

LEMMA BackPlistStep == ASSUME IInv, NEW p \in Processes, BackPlist(p) PROVE IInv'
  <1> USE DEF BackPlist, Step, Fault, caddy, styles, homes, watch
  <1>1. CASE task[p].action = "none"
    <2>1. pc[p] \in {"back-plist"} /\ End(p, "failed")
      BY <1>1
    <2>2. Kinds'
      BY <1>1, <2>1, TaskParts DEF IInv, TypeOK, Kinds, Jobs, FilePairs, StylePairs, Files, Local,
         TaskKnown, Shared
    <2>3. Elsewhere(p)
      BY <1>1, <2>1 DEF Elsewhere, Changed, Unlocked
    <2>4. ThemeKept'
      BY <1>1, <2>1, TaskParts DEF IInv, ThemeKept, Local, StylesKnown, Unlocked
    <2> QED  BY <2>1, <2>2, <2>3, <2>4, EndStep
  <1>2. CASE task[p].action # "none"
    <2>1. PICK step \in {"reload-back", "stop", "stop-only"}, memory \in Tasks :
            /\ Remember(p, step, memory)
            /\ memory = task[p]
      BY <1>2, TaskParts DEF Goto, IInv, Local, TaskKnown
    <2>2. /\ pc[p] \in {"back-plist"} /\ task[p].kind \in {"install", "rollback"}
          /\ pc[p] \notin Shared => task[p].kind = "install"
      BY <1>2, TaskParts DEF IInv, Local, TaskKnown, Shared
    <2>3. 
          /\ (step = "reload-back" <=> task[p].action = "reloaded")
          /\ step = "stop-only" => ~task[p].seen
          /\ task[p].action \in {"reloaded", "replaced"}
      BY <1>2, <2>1, <2>2, TaskParts DEF Goto, Remember, IInv, TypeOK, Shared, Local, TaskKnown
    <2>4. Kinds'
      BY <1>2, <2>2, TaskParts DEF IInv, TypeOK, Kinds, Jobs, FilePairs, StylePairs, Files, Local,
         TaskKnown, Shared
    <2>5. Elsewhere(p)
      BY <1>2, <2>2 DEF Elsewhere, Changed, Unlocked
    <2>6. ThemeKept'
      BY <1>2, <2>2, TaskParts DEF IInv, ThemeKept, Local, StylesKnown, Unlocked
    <2>7. pc'[p] = step /\ task'[p] = memory
      BY <2>1, <2>2, RememberIsAt DEF At, Steps, Unlocked
    <2>8. Wanted(p)' = Wanted(p) /\ Desired(p)' = Desired(p)
      BY <2>1, <2>7 DEF SameRequest, Wanted, Desired, Rendered
    <2>9. TaskKnown(p)'
      BY <1>2, <2>3, <2>1, <2>2, <2>7, TaskParts DEF SameRequest, IInv, Local, TaskKnown, Shared, Unlocked,
         Activating
    <2>10. StylesKnown(p)'
      BY <1>2, <2>3, <2>1, <2>2, <2>7, <2>8, TaskParts DEF SameRequest, IInv, Local, StylesKnown, Styles,
         Unlocked
    <2>11. ServedKnown(p)'
      BY <1>2, <2>1, <2>2, <2>7, TaskParts DEF SameRequest, SameJob, IInv, Local, ServedKnown, InSync
    <2>12. p \in calm' /\ task[p].kind = "install" =>
            /\ p \in calm
            /\ (task[p].seen <=> task[p].job # None)
            /\ task[p].inner = task[p].prior /\ (task[p].live <=> task[p].job # None)
            /\ caddyfile = task[p].prior.caddyfile
            /\ task[p].action = "none" => job = task[p].job
            /\ task[p].action = "kept" => job = task[p].job
            /\ task[p].action # "none" => task[p].job # None
            /\ task[p].action = "reloaded" => job # None /\ job.plist = task[p].job.plist
      BY <1>2, <2>2, TaskParts DEF IInv, Local, FilesKnown, JobKnown, ServedKnown, Changed, Serving,
         Restored, Unlocked, Activating, TaskKnown, Files
    <2>13. p \in calm' /\ task[p].kind = "install" =>
            /\ Files' = task[p].prior /\ job' = job
      BY <1>2, <2>3, <2>1, <2>2, <2>7, <2>12, TaskParts DEF Remember, IInv, TypeOK, SameRequest, SameJob,
         Files, InSync, FilePairs, Jobs
    <2> HIDE DEF BackPlist
    <2>14. FilesKnown(p)'
      BY <2>3, <2>1, <2>2, <2>7, <2>8, <2>12, <2>13, TaskParts DEF FilesKnown, SameRequest, SameJob,
         Serving, Restored, Unlocked
    <2>15. JobKnown(p)'
      BY <2>3, <2>1, <2>2, <2>7, <2>8, <2>12, <2>13, TaskParts DEF JobKnown, SameRequest, SameJob,
         Restored, Unlocked
    <2> USE DEF BackPlist
    <2> QED
      BY <2>1, <2>2, <2>4, <2>5, <2>6, <2>9, <2>10, <2>11, <2>14, <2>15, GoOn DEF Local, Steps, Unlocked
  <1> QED  BY <1>1, <1>2

LEMMA RestartStep == ASSUME IInv, NEW p \in Processes, Restart(p) PROVE IInv'
  <1> USE DEF Restart, Step, Fault, caddy, styles, homes, watch
  <1>1. pc[p] \in {"start"} /\ End(p, "failed")
    OBVIOUS
  <1>2. Kinds'
    BY <1>1, TaskParts DEF IInv, TypeOK, Kinds, Jobs, FilePairs, StylePairs, Files, Local, TaskKnown, Shared
  <1>3. Elsewhere(p)
    BY <1>1 DEF Elsewhere, Changed, Unlocked
  <1>4. ThemeKept'
    BY <1>1, TaskParts DEF IInv, ThemeKept, Local, StylesKnown, Unlocked
  <1> QED  BY <1>1, <1>2, <1>3, <1>4, EndStep

LEMMA RecoveryFailsStep == ASSUME IInv, NEW p \in Processes, RecoveryFails(p) PROVE IInv'
  <1> USE DEF RecoveryFails, Step, Fault, caddy, styles, homes, watch
  <1>1. /\ pc[p] \in {"back-theme", "back-former", "inner-caddyfile", "inner-plist", "back-caddyfile", "back-plist",
                     "inspect", "reload-back", "stop", "stop-only", "start"}
        /\ End(p, "unrestored")
    OBVIOUS
  <1>2. /\ theme' \in {theme, task[p].styles.theme} /\ formerTheme' \in {formerTheme, task[p].styles.former}
        /\ UNCHANGED <<caddyfile, plist, homes>>
    OBVIOUS
  <1>3. job' = None \/ job' = job \/ (job # None /\ job' = [job EXCEPT !.caddyfile = caddyfile])
        \/ (plist # None /\ job' = Files)
    OBVIOUS
  <1>4. Elsewhere(p)
    BY <1>1 DEF Elsewhere, Changed, Unlocked
  <1>5. ThemeKept'
    BY <1>1 DEF IInv, ThemeKept, Local, StylesKnown, Unlocked
  <1>6. Kinds'
    <2>1. job' = None \/ job' \in Jobs
      BY <1>3, FilesKind, FilesAreSome DEF Jobs, IInv, TypeOK
    <2> QED  BY <1>2, <2>1, TaskParts, TypeParts DEF Kinds, IInv, StylePairs
  <1> QED  BY <1>1, <1>4, <1>5, <1>6, EndStep

LEMMA ReloadBackStep == ASSUME IInv, NEW p \in Processes, ReloadBack(p) PROVE IInv'
  <1> USE DEF ReloadBack, Step, Fault, caddy, styles, homes, watch
  <1>1. pc[p] \in {"reload-back"} /\ \E how : End(p, how)
    OBVIOUS
  <1>2. Kinds'
    BY <1>1, TaskParts DEF IInv, TypeOK, Kinds, Jobs, FilePairs, StylePairs, Files, Local, TaskKnown, Shared
  <1>3. Elsewhere(p)
    BY <1>1 DEF Elsewhere, Changed, Unlocked
  <1>4. ThemeKept'
    BY <1>1, TaskParts DEF IInv, ThemeKept, Local, StylesKnown, Unlocked
  <1> QED  BY <1>1, <1>2, <1>3, <1>4, EndStep

LEMMA StopStep == ASSUME IInv, NEW p \in Processes, Stop(p) PROVE IInv'
  <1> USE DEF Stop, Step, Fault, caddy, styles, homes, watch
  <1>1. CASE pc[p] = "stop-only"
    <2>1. pc[p] \in {"stop", "stop-only"} /\ End(p, "failed")
      BY <1>1
    <2>2. Kinds'
      BY <1>1, <2>1, TaskParts DEF IInv, TypeOK, Kinds, Jobs, FilePairs, StylePairs, Files, Local,
         TaskKnown, Shared
    <2>3. Elsewhere(p)
      BY <1>1, <2>1 DEF Elsewhere, Changed, Unlocked
    <2>4. ThemeKept'
      BY <1>1, <2>1, TaskParts DEF IInv, ThemeKept, Local, StylesKnown, Unlocked
    <2> QED  BY <2>1, <2>2, <2>3, <2>4, EndStep
  <1>2. CASE pc[p] = "stop"
    <2>1. PICK step \in {"start"}, memory \in Tasks :
            /\ Remember(p, step, memory)
            /\ memory = task[p]
      BY <1>2, TaskParts DEF Goto
    <2>2. /\ pc[p] \in {"stop", "stop-only"} /\ task[p].kind \in {"install", "rollback"}
          /\ pc[p] \notin Shared => task[p].kind = "install"
      BY <1>2, TaskParts DEF IInv, Local, TaskKnown, Shared
    <2>3. Kinds'
      BY <1>2, <2>2, TaskParts DEF IInv, TypeOK, Kinds, Jobs, FilePairs, StylePairs, Files, Local,
         TaskKnown, Shared
    <2>4. Elsewhere(p)
      BY <1>2, <2>2 DEF Elsewhere, Changed, Unlocked
    <2>5. ThemeKept'
      BY <1>2, <2>2, TaskParts DEF IInv, ThemeKept, Local, StylesKnown, Unlocked
    <2>6. pc'[p] = step /\ task'[p] = memory
      BY <2>1, <2>2, RememberIsAt DEF At, Steps, Unlocked
    <2>7. Wanted(p)' = Wanted(p) /\ Desired(p)' = Desired(p)
      BY <2>1, <2>6 DEF SameRequest, Wanted, Desired, Rendered
    <2>8. TaskKnown(p)'
      BY <1>2, <2>1, <2>2, <2>6, TaskParts DEF SameRequest, IInv, Local, TaskKnown, Shared, Unlocked,
         Activating
    <2>9. StylesKnown(p)'
      BY <1>2, <2>1, <2>2, <2>6, <2>7, TaskParts DEF SameRequest, IInv, Local, StylesKnown, Styles, Unlocked
    <2>10. ServedKnown(p)'
      BY <1>2, <2>1, <2>2, <2>6, TaskParts DEF SameRequest, SameJob, IInv, Local, ServedKnown, InSync
    <2>11. p \in calm' /\ task[p].kind = "install" =>
            /\ p \in calm
            /\ (task[p].seen <=> task[p].job # None)
            /\ task[p].inner = task[p].prior /\ (task[p].live <=> task[p].job # None)
            /\ Files = task[p].prior
            /\ task[p].job # None /\ task[p].action \in {"kept", "replaced"}
      BY <1>2, <2>2, TaskParts DEF IInv, Local, FilesKnown, JobKnown, ServedKnown, Changed, Serving,
         Restored, Unlocked, Activating, TaskKnown, Files
    <2>12. p \in calm' /\ task[p].kind = "install" =>
            /\ Files' = task[p].prior
      BY <1>2, <2>1, <2>2, <2>6, <2>11, TaskParts DEF Remember, IInv, TypeOK, SameRequest, SameJob, Files,
         InSync, FilePairs, Jobs
    <2> HIDE DEF Stop
    <2>13. FilesKnown(p)'
      BY <2>1, <2>2, <2>6, <2>7, <2>11, <2>12, TaskParts DEF FilesKnown, SameRequest, SameJob, Serving,
         Restored, Unlocked
    <2>14. JobKnown(p)'
      BY <2>1, <2>2, <2>6, <2>7, <2>11, <2>12, TaskParts DEF JobKnown, SameRequest, SameJob, Restored,
         Unlocked
    <2> USE DEF Stop
    <2> QED
      BY <2>1, <2>2, <2>3, <2>4, <2>5, <2>8, <2>9, <2>10, <2>13, <2>14, GoOn DEF Local, Steps, Unlocked
  <1> QED  BY <1>1, <1>2

LEMMA KillStep == ASSUME IInv, NEW p \in Processes, Kill(p) PROVE IInv'
  <1> USE DEF Kill, Step, Fault, caddy, styles, homes, watch
  <1>1. pc[p] # "idle" /\ End(p, "killed")
    OBVIOUS
  <1>2. Kinds'
    BY <1>1 DEF IInv, TypeOK, Kinds, Jobs, FilePairs, StylePairs, Files, Local, TaskKnown, Shared
  <1>3. Elsewhere(p)
    BY <1>1 DEF Elsewhere, Changed, Unlocked
  <1>4. ThemeKept'
    BY <1>1 DEF IInv, ThemeKept, Local, StylesKnown, Unlocked
  <1> QED  BY <1>1, <1>2, <1>3, <1>4, EndStep


-----------------------------------------------------------------------------
\* Every step, and every run.
LEMMA NextIInv == IInv /\ [Next]_vars => IInv'
  <1> SUFFICES ASSUME IInv, [Next]_vars PROVE IInv'
    OBVIOUS
  <1>1. CASE UNCHANGED vars \/ Rest
    <2>1. UNCHANGED vars
      BY <1>1 DEF Rest
    <2>2. Kinds' /\ LockHeld' /\ ThemeKept' /\ task' \in [Processes -> Tasks]
      BY <2>1, TypeParts DEF vars, caddy, styles, homes, IInv, Kinds, LockHeld, ThemeKept
    <2>3. ASSUME NEW p \in Processes PROVE Local(p)'
      <3>1. Local(p) /\ Wanted(p)' = Wanted(p) /\ Desired(p)' = Desired(p)
        BY <2>1 DEF vars, IInv, Wanted, Desired, Rendered
      <3> QED
        BY <2>1, <3>1 DEF vars, caddy, styles, homes, watch, Local, TaskKnown, StylesKnown, ServedKnown,
           FilesKnown,
                          JobKnown, Files, Styles, InSync
    <2> QED  BY <2>2, <2>3, TypePartsNext DEF IInv
  <1>2. CASE Happens
    BY <1>2, HappensStep
  <1>3. ASSUME NEW p \in Processes, Begin(p) \/ BeginRollback(p) \/ Commands(p) \/ Kill(p) PROVE IInv'
    BY <1>3, BeginStep, BeginRollbackStep, KillStep,
       PreflightStep, RecoverJobStep, PreflightFailsStep, ReadPriorStep, LockStep, ValidateStep,
       ValidateFailsStep, WriteCaddyfileStep, WritePlistStep, WriteFailsStep, ReloadStep, ReloadFailsStep,
       BootoutStep, BootoutFailsStep, BootstrapStep, BootstrapFailsStep, InnerCaddyfileStep, InnerPlistStep,
       InspectStep, IngressStep, IngressFailsStep, WriteFormerThemeStep, WriteThemeStep, ThemeFailsStep,
       WriteAssetsStep, WriteFormerHomeStep, WriteHomeStep, PageFailsStep, BackThemeStep, BackFormerStep,
       BackCaddyfileStep, BackPlistStep, ReloadBackStep, StopStep, RestartStep, RecoveryFailsStep
       DEF Commands
  <1> QED  BY <1>1, <1>2, <1>3 DEF Next

\* A command moves nobody but itself, and writes how it ended into its own place.
Own(q) ==
    /\ \E step : pc' = [pc EXCEPT ![q] = step]
    /\ result' = result \/ \E how : result' = [result EXCEPT ![q] = how]

LEMMA CommandsAreOwn ==
  ASSUME IInv, NEW q \in Processes, Begin(q) \/ BeginRollback(q) \/ Commands(q) \/ Kill(q)
  PROVE  Own(q)
  <1>1. \A how : End(q, how) => Own(q)
    BY DEF End, Own
  <1>2. \A step, memory : Remember(q, step, memory) => Own(q)
    BY DEF Remember, Own
  <1>3. \A step : Goto(q, step) => Own(q)
    BY <1>2 DEF Goto
  <1>4. Begin(q) \/ BeginRollback(q) \/ Kill(q) \/ Lock(q) => Own(q)
    BY <1>1 DEF Begin, BeginRollback, Kill, Lock, Own
  <1>5. Preflight(q) \/ RecoverJob(q) \/ PreflightFails(q) \/ ReadPrior(q) => Own(q)
    BY <1>1, <1>2 DEF Preflight, RecoverJob, PreflightFails, ReadPrior
  <1>6. Validate(q) \/ ValidateFails(q) \/ WriteCaddyfile(q) \/ WritePlist(q) \/ WriteFails(q) => Own(q)
    BY <1>1, <1>2, <1>3 DEF Validate, ValidateFails, WriteCaddyfile, WritePlist, WriteFails
  <1>7. Reload(q) \/ ReloadFails(q) \/ Bootout(q) \/ BootoutFails(q) \/ Bootstrap(q) \/ BootstrapFails(q) => Own(q)
    BY <1>2, <1>3 DEF Reload, ReloadFails, Bootout, BootoutFails, Bootstrap, BootstrapFails
  <1>8. InnerCaddyfile(q) \/ InnerPlist(q) \/ Inspect(q) => Own(q)
    BY <1>1, <1>3, TaskParts DEF InnerCaddyfile, InnerPlist, Inspect
  <1>9. Ingress(q) \/ IngressFails(q) \/ WriteFormerTheme(q) \/ WriteTheme(q) \/ ThemeFails(q) => Own(q)
    BY <1>1, <1>3 DEF Ingress, IngressFails, WriteFormerTheme, WriteTheme, ThemeFails
  <1>10. WriteAssets(q) \/ WriteFormerHome(q) \/ WriteHome(q) \/ PageFails(q) => Own(q)
    BY <1>1, <1>3 DEF WriteAssets, WriteFormerHome, WriteHome, PageFails
  <1>11. BackTheme(q) \/ BackFormer(q) \/ BackCaddyfile(q) => Own(q)
    BY <1>1, <1>3 DEF BackTheme, BackFormer, BackCaddyfile
  <1>12. BackPlist(q) => Own(q)
    <2>1. BackPlist(q) => task[q].action \in {"none", "reloaded", "replaced"}
      BY TaskParts DEF BackPlist, Step, IInv, Local, TaskKnown
    <2> QED  BY <1>1, <1>3, <2>1 DEF BackPlist
  <1>13. ReloadBack(q) \/ Stop(q) \/ Restart(q) \/ RecoveryFails(q) => Own(q)
    BY <1>1, <1>3 DEF ReloadBack, Stop, Restart, RecoveryFails
  <1> QED
    BY <1>4, <1>5, <1>6, <1>7, <1>8, <1>9, <1>10, <1>11, <1>12, <1>13 DEF Commands

LEMMA NextResult == IInv /\ DOMAIN result = Processes /\ [Next]_vars => (DOMAIN result = Processes)'
  <1> SUFFICES ASSUME IInv, DOMAIN result = Processes, [Next]_vars PROVE DOMAIN result' = Processes
    OBVIOUS
  <1>1. Happens \/ Rest \/ UNCHANGED vars => result' = result
    BY DEF Happens, Rest, vars
  <1> QED  BY <1>1, CommandsAreOwn DEF Next, Own

LEMMA Invariance == Spec => [](IInv /\ DOMAIN result = Processes)
  <1>1. Init => IInv /\ DOMAIN result = Processes
    BY InitIInv DEF Init
  <1>2. (IInv /\ DOMAIN result = Processes) /\ [Next]_vars => (IInv /\ DOMAIN result = Processes)'
    BY NextIInv, NextResult
  <1> QED  BY <1>1, <1>2, PTL DEF Spec

\* All variables stay of their kinds, and whoever is past the lock holds it: two
\* installations or rollbacks are never in their transactions at once.
THEOREM TypeCorrect == Spec => []TypeOK
  <1>1. IInv => TypeOK
    BY DEF IInv
  <1> QED  BY <1>1, Invariance, PTL

\* Killed or failed at any step, an installation or a rollback leaves the theme
\* that was in use in one of the two theme files, until the next one begins.
THEOREM ThemeIsKept == Spec => []ThemeKept
  <1>1. IInv => ThemeKept
    BY DEF IInv
  <1> QED  BY <1>1, Invariance, PTL

-----------------------------------------------------------------------------
\* Another command, launchd or an operator never ends a command.
LEMMA EndsItself ==
  ASSUME IInv, Next, NEW p \in Processes, pc[p] # "idle", pc'[p] = "idle"
  PROVE  Commands(p) \/ Kill(p)
  <1>1. pc \in [Processes -> Steps]
    BY DEF IInv, TypeOK
  <1>2. ~Happens /\ ~Rest
    BY DEF Happens, Rest, vars
  <1>3. PICK q \in Processes : Begin(q) \/ BeginRollback(q) \/ Commands(q) \/ Kill(q)
    BY <1>2 DEF Next
  <1>4. p = q
    BY <1>1, <1>3, CommandsAreOwn DEF Own
  <1>5. ~Begin(p) /\ ~BeginRollback(p)
    BY DEF Begin, BeginRollback
  <1> QED  BY <1>3, <1>4, <1>5

\* The steps past the lock with which a command may end as it reports.
LEMMA LastSteps ==
  ASSUME IInv, DOMAIN result = Processes, NEW p \in Processes, Commands(p) \/ Kill(p),
         pc[p] \notin Unlocked, pc'[p] = "idle",
         result'[p] \in {"installed", "failed"}
  PROVE  Validate(p) \/ ValidateFails(p) \/ InnerPlist(p) \/ Inspect(p) \/ WriteTheme(p) \/ WriteHome(p)
         \/ BackFormer(p) \/ BackPlist(p) \/ ReloadBack(p) \/ Stop(p) \/ Restart(p)
  <1>1. pc \in [Processes -> Steps]
    BY DEF IInv, TypeOK
  <1>2. \A step : pc' = [pc EXCEPT ![p] = step] => step = "idle"
    BY <1>1
  <1>3. ~WriteCaddyfile(p) /\ ~WritePlist(p) /\ ~WriteFails(p) /\ ~Reload(p) /\ ~ReloadFails(p)
        /\ ~Bootout(p) /\ ~BootoutFails(p) /\ ~Bootstrap(p) /\ ~BootstrapFails(p) /\ ~InnerCaddyfile(p)
        /\ ~Ingress(p) /\ ~IngressFails(p) /\ ~WriteFormerTheme(p) /\ ~ThemeFails(p) /\ ~WriteAssets(p)
        /\ ~WriteFormerHome(p) /\ ~PageFails(p) /\ ~BackTheme(p) /\ ~BackCaddyfile(p)
    BY <1>2 DEF Goto, Remember, Activation, WriteCaddyfile, WritePlist, WriteFails, Reload, ReloadFails,
       Bootout, BootoutFails, Bootstrap,
       BootstrapFails, InnerCaddyfile, Ingress, IngressFails, WriteFormerTheme, ThemeFails, WriteAssets,
       WriteFormerHome, PageFails, BackTheme, BackCaddyfile
  <1>4. ~Preflight(p) /\ ~RecoverJob(p) /\ ~PreflightFails(p) /\ ~ReadPrior(p) /\ ~Lock(p)
    BY DEF Unlocked, Step, Preflight, RecoverJob, PreflightFails, ReadPrior, Lock
  <1>5. ~RecoveryFails(p) /\ ~Kill(p)
    BY DEF RecoveryFails, Kill, End
  <1> QED  BY <1>3, <1>4, <1>5 DEF Commands

\* What a failed installation leaves.
Restores(p) ==
    /\ Files' = task[p].prior /\ Styles' = task[p].styles
    /\ task[p].served => job' = task[p].job

LEMMA FailureStep ==
  ASSUME IInv, DOMAIN result = Processes, Next, NEW p \in Processes,
         task[p].kind = "install", pc[p] \notin Unlocked, p \in calm', pc'[p] = "idle", result'[p] = "failed"
  PROVE  Restores(p)
  <1>1. pc[p] # "idle" /\ p \in Processes
    BY DEF Unlocked
  <1>2. Validate(p) \/ ValidateFails(p) \/ InnerPlist(p) \/ Inspect(p) \/ WriteTheme(p) \/ WriteHome(p)
        \/ BackFormer(p) \/ BackPlist(p) \/ ReloadBack(p) \/ Stop(p) \/ Restart(p)
    BY <1>1, EndsItself, LastSteps
  <1>3. pc \in [Processes -> Steps]
    BY DEF IInv, TypeOK
  <1>4. /\ TaskKnown(p) /\ StylesKnown(p) /\ ServedKnown(p) /\ FilesKnown(p) /\ JobKnown(p)
        /\ task[p].prior \in FilePairs /\ task[p].job \in Jobs \cup {None}
    BY TaskParts DEF IInv, Local
  <1> USE DEF Step, caddy, styles, homes, watch, Files, Styles
  <1>5. CASE Validate(p) \/ ValidateFails(p)
    <2>1. pc[p] = "validate" /\ UNCHANGED <<caddy, styles, watch>>
      BY <1>5 DEF Validate, ValidateFails
    <2> QED  BY <2>1, <1>4 DEF Restores, StylesKnown, FilesKnown, Unlocked
  <1>6. CASE InnerPlist(p)
    <2>1. /\ pc[p] = "inner-plist" /\ plist' = task[p].inner.plist /\ UNCHANGED <<caddyfile, job, styles>>
          /\ p \in calm /\ task[p].action = "none"
      BY <1>3, <1>6, TaskParts DEF InnerPlist, Goto, Remember, Changed
    <2> QED  BY <2>1, <1>4 DEF Restores, StylesKnown, FilesKnown, JobKnown, Unlocked, FilePairs
  <1>7. CASE Inspect(p)
    <2>1. pc[p] = "inspect" /\ UNCHANGED <<caddy, styles, watch>>
      BY <1>7 DEF Inspect
    <2> QED  BY <2>1, <1>4 DEF Restores, StylesKnown, FilesKnown, JobKnown, Unlocked, Restored
  <1>8. CASE BackPlist(p)
    <2>1. /\ pc[p] = "back-plist" /\ plist' = task[p].prior.plist /\ UNCHANGED <<caddyfile, job, styles>>
          /\ p \in calm /\ task[p].action = "none"
      BY <1>3, <1>4, <1>8, TaskParts DEF BackPlist, Goto, Remember, Changed, TaskKnown
    <2> QED  BY <2>1, <1>4 DEF Restores, StylesKnown, FilesKnown, JobKnown, Unlocked, FilePairs
  <1>9. CASE ReloadBack(p)
    <2>1. /\ pc[p] = "reload-back" /\ p \in calm /\ UNCHANGED <<caddyfile, plist, styles>>
          /\ job' = [job EXCEPT !.caddyfile = caddyfile]
      BY <1>9 DEF ReloadBack, Changed
    <2>2. /\ Files = task[p].prior /\ Styles = task[p].styles /\ task[p].job # None
          /\ job # None /\ job.plist = task[p].job.plist
          /\ task[p].served => task[p].job = task[p].prior
      BY <2>1, <1>4 DEF StylesKnown, ServedKnown, FilesKnown, JobKnown, Unlocked, Restored
    <2>3. job' = [caddyfile |-> caddyfile, plist |-> job.plist]
      BY <2>1, <2>2 DEF IInv, TypeOK, Jobs
    <2>4. task[p].job \in Jobs
      BY <2>2, <1>4
    <2>5. task[p].served => job' = task[p].job
      BY <2>2, <2>3, <2>4 DEF Jobs
    <2> QED  BY <2>1, <2>2, <2>5 DEF Restores
  <1>10. CASE Restart(p)
    <2>1. pc[p] = "start" /\ p \in calm /\ UNCHANGED <<caddyfile, plist, styles>> /\ job' = Files
      BY <1>10 DEF Restart, Changed
    <2> QED  BY <2>1, <1>4 DEF Restores, StylesKnown, ServedKnown, FilesKnown, JobKnown, Unlocked, Restored
  <1>11. ~Stop(p)
    <2>1. SUFFICES ASSUME Stop(p) PROVE FALSE
      OBVIOUS
    <2>2. pc[p] = "stop-only" /\ p \in calm
      BY <2>1, <1>3 DEF Stop, Goto, Remember, Changed
    <2> QED  BY <2>2, <1>4 DEF JobKnown, Unlocked
  <1>12. ~WriteTheme(p) /\ ~WriteHome(p) /\ ~BackFormer(p)
    BY <1>3 DEF WriteTheme, WriteHome, BackFormer, End, Goto, Remember
  <1> QED  BY <1>2, <1>5, <1>6, <1>7, <1>8, <1>9, <1>10, <1>11, <1>12

\* An installation that fails and whose recovery does not, has both files, both
\* themes and a job that ran those files as they were, if nobody else touched
\* them: for any renderings, any faults, and any number of other commands.
THEOREM FailureIsRestored == Spec => FailureRestores
  <1>1. (IInv /\ DOMAIN result = Processes) /\ [Next]_vars =>
          [\A p \in Processes :
              /\ task[p].kind = "install" /\ pc[p] \notin Unlocked /\ p \in calm'
              /\ pc'[p] = "idle" /\ result'[p] = "failed"
              => /\ Files' = task[p].prior /\ Styles' = task[p].styles
                 /\ task[p].served => job' = task[p].job]_vars
    BY FailureStep DEF Restores
  <1> QED  BY <1>1, Invariance, PTL DEF Spec, FailureRestores

LEMMA SuccessStep ==
  ASSUME IInv, DOMAIN result = Processes, Next, NEW p \in Processes,
         task[p].kind = "install", pc[p] # "idle", p \in calm', pc'[p] = "idle", result'[p] = "installed"
  PROVE  /\ Files' = Wanted(p) /\ theme' = task[p].want.theme /\ home' = task[p].want.page
         /\ task[p].served => InSync'
  <1>1. Commands(p) \/ Kill(p)
    BY EndsItself
  <1>2. ~Preflight(p) /\ ~RecoverJob(p) /\ ~PreflightFails(p) /\ ~ReadPrior(p) /\ ~Lock(p) /\ ~Kill(p)
    BY DEF Preflight, RecoverJob, PreflightFails, ReadPrior, Lock, Kill, End, Remember, Step, IInv, TypeOK
  <1>3. pc[p] \notin Unlocked
    BY <1>1, <1>2 DEF Unlocked, Commands, Step, Validate, ValidateFails, WriteCaddyfile, WritePlist,
       WriteFails, Reload,
       ReloadFails, Bootout, BootoutFails, Bootstrap, BootstrapFails, InnerCaddyfile, InnerPlist, Inspect,
       Ingress, IngressFails, WriteFormerTheme, WriteTheme, ThemeFails, WriteAssets, WriteFormerHome, WriteHome,
       PageFails, BackTheme, BackFormer, BackCaddyfile, BackPlist, ReloadBack, Stop, Restart, RecoveryFails
  <1>4. pc \in [Processes -> Steps]
    BY DEF IInv, TypeOK
  <1>5. \A how : End(p, how) => how = "installed"
    BY DEF End
  <1>6. \A step : Goto(p, step) => step = "idle"
    BY <1>4 DEF Goto, Remember
  <1>7. ~Validate(p) /\ ~ValidateFails(p) /\ ~Inspect(p) /\ ~BackFormer(p) /\ ~ReloadBack(p) /\ ~Stop(p) /\ ~Restart(p)
    BY <1>4, <1>5, <1>6 DEF Validate, Remember, ValidateFails, Inspect, BackFormer, ReloadBack, Stop,
       Restart
  <1>8. ~InnerPlist(p) /\ ~WriteTheme(p)
    BY <1>5, <1>6, TaskParts DEF InnerPlist, WriteTheme
  <1>9. ~BackPlist(p)
    <2>1. BackPlist(p) => task[p].action \in {"none", "reloaded", "replaced"}
      BY TaskParts DEF BackPlist, Step, IInv, Local, TaskKnown
    <2> QED  BY <1>5, <1>6, <2>1 DEF BackPlist
  <1>10. WriteHome(p)
    BY <1>1, <1>3, <1>7, <1>8, <1>9, LastSteps
  <1>11. pc[p] = "home" /\ home' = task[p].want.page /\ UNCHANGED <<caddy, styles, watch>>
    BY <1>10 DEF WriteHome, Step
  <1> QED
    BY <1>11 DEF IInv, Local, StylesKnown, FilesKnown, Serving, Unlocked, Files, InSync, caddy, styles,
       watch

\* An installation that succeeds has published the Caddyfile, plist, theme and
\* page it rendered, and a job that ran the former files runs these.
THEOREM SuccessIsServed == Spec => SuccessServes
  <1>1. (IInv /\ DOMAIN result = Processes) /\ [Next]_vars =>
          [\A p \in Processes :
              /\ task[p].kind = "install" /\ pc[p] # "idle" /\ p \in calm'
              /\ pc'[p] = "idle" /\ result'[p] = "installed"
              => /\ Files' = Wanted(p) /\ theme' = task[p].want.theme /\ home' = task[p].want.page
                 /\ task[p].served => InSync']_vars
    BY SuccessStep
  <1> QED  BY <1>1, Invariance, PTL DEF Spec, SuccessServes

=============================================================================
