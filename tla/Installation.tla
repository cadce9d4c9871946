----------------------------- MODULE Installation -----------------------------
(***************************************************************************)
(* The installation of the platform (install.py) and the theme store       *)
(* (theme.py).                                                             *)
(*                                                                         *)
(* An installation publishes a Caddyfile and the plist of the Caddy job,   *)
(* makes the loaded job run them, checks the ingress, and then writes the  *)
(* theme, the assets and the home page.  What fails after the job was      *)
(* changed is taken back: theme, Caddyfile, plist, job.  Everything is     *)
(* done under the lock of the theme, except that the job and the two files *)
(* are first looked at before it is taken.  A rollback of the theme takes  *)
(* the same lock.  launchd restarts the job, and operators unload and load *)
(* it, at any time.                                                        *)
(*                                                                         *)
(* The bytes of a file are one value; the service plists, hooks and index  *)
(* registry are written with the assets.                                   *)
(***************************************************************************)
EXTENDS Integers, FiniteSets

CONSTANTS
    Processes,   \* installations and rollbacks
    Sources,     \* what may be rendered: [caddy, plist, theme, page, ingress]
    None,        \* no file, no job, nobody
    MaxRuns,     \* bounds of the model: commands,
    MaxFaults    \* failing operations, kills, and acts of launchd and operators

Caddyfiles ==
    [body: {s.caddy : s \in Sources}, listen: {"wildcard", "both", "loopback"}]
Plists == {s.plist : s \in Sources}
Themes == {s.theme : s \in Sources}
Pages == {s.page : s \in Sources}

ASSUME Parameters ==
    /\ \A s \in Sources : s = [caddy |-> s.caddy, plist |-> s.plist, theme |-> s.theme,
                               page |-> s.page, ingress |-> s.ingress]
                          /\ s.ingress \in {"trusted-lan", "tailscale-serve"}
    /\ None \notin Caddyfiles \cup Plists \cup Themes \cup Pages \cup Processes
    /\ None \notin [caddyfile: Caddyfiles \cup {None}, plist: Plists]
    /\ MaxRuns \in Nat /\ MaxFaults \in Nat

VARIABLES
    caddyfile, plist,    \* the two managed files
    job,                 \* what the loaded Caddy job runs, or None
    theme, formerTheme,  \* theme.css and theme.previous.css
    assets,              \* pages whose assets have been written
    home, formerHome,    \* home.html and home.previous.html
    lock,                \* holder of .theme.lock
    pc, task,            \* each command: next step and what it remembers
    result,              \* how it ended
    known,               \* commands whose Caddy process is still the one they saw
    calm,                \* history: nobody else has touched files or job meanwhile
    worn,                \* history: the theme in use when the lock was last taken
    runs, faults

caddy == <<caddyfile, plist, job>>
styles == <<theme, formerTheme>>
homes == <<assets, home, formerHome>>
counts == <<runs, faults>>
watch == <<known, calm>>
vars == <<caddy, styles, homes, lock, pc, task, result, watch, worn, counts>>

\* render_caddyfile; a prepared migration listens on both sides.
Rendered(s, mode) ==
    [body |-> s.caddy,
     listen |-> IF s.ingress = "trusted-lan" THEN "wildcard"
                ELSE IF mode = "prepare" THEN "both" ELSE "loopback"]

Files == [caddyfile |-> caddyfile, plist |-> plist]
Styles == [theme |-> theme, former |-> formerTheme]

\* A job started now runs the two files (none, and it does not start).
InSync == job # None => job = Files

NoFiles == [caddyfile |-> None, plist |-> None]
NoStyles == [theme |-> None, former |-> None]
NoTask ==
    [kind |-> "none", want |-> None, mode |-> "plain", seen |-> FALSE, live |-> FALSE,
     prior |-> NoFiles, inner |-> NoFiles, styles |-> NoStyles, page |-> None,
     action |-> "none", job |-> None, served |-> FALSE]

\* A new host, or one with an installation whose job is loaded or not.
Init ==
    /\ \/ /\ caddyfile = None /\ plist = None /\ job = None
          /\ theme = None /\ formerTheme = None /\ home = None
       \/ \E s \in Sources :
          /\ caddyfile = Rendered(s, "plain") /\ plist = s.plist
          /\ job \in {None, Files}
          /\ theme = s.theme /\ formerTheme \in {None} \cup Themes
          /\ home = s.page
    /\ formerHome = None /\ assets = {home} \ {None}
    /\ lock = None /\ worn = theme
    /\ pc = [p \in Processes |-> "idle"]
    /\ task = [p \in Processes |-> NoTask]
    /\ result = [p \in Processes |-> "none"]
    /\ known = {} /\ calm = {}
    /\ runs = 0 /\ faults = 0

Step(p, here) == pc[p] = here /\ UNCHANGED runs
Remember(p, step, memory) ==
    /\ pc' = [pc EXCEPT ![p] = step] /\ task' = [task EXCEPT ![p] = memory]
    /\ UNCHANGED <<lock, result>>
Goto(p, step) == Remember(p, step, task[p])
Fault == faults < MaxFaults /\ faults' = faults + 1

\* Mutant: the descriptor of the lock is not closed.
EndHolding(p, how) ==
    /\ pc' = [pc EXCEPT ![p] = "idle"] /\ task' = [task EXCEPT ![p] = NoTask]
    /\ result' = [result EXCEPT ![p] = how] /\ UNCHANGED lock

\* The command ends, and with it its transaction.
End(p, how) ==
    /\ pc' = [pc EXCEPT ![p] = "idle"] /\ task' = [task EXCEPT ![p] = NoTask]
    /\ result' = [result EXCEPT ![p] = how]
    /\ lock' = IF lock = p THEN None ELSE lock

\* The files or the job have been changed by p; the process goes on or not.
Changed(p, sameProcess) ==
    /\ calm' = calm \cap {p}
    /\ known' = IF sameProcess THEN known ELSE {}

-----------------------------------------------------------------------------
(***************************************************************************)
(* Before the lock.                                                        *)
(***************************************************************************)
Begin(p) ==
    /\ pc[p] = "idle" /\ runs < MaxRuns /\ runs' = runs + 1
    /\ \E s \in Sources, mode \in {"plain", "recover", "prepare"} :
          /\ mode = "prepare" => s.ingress = "tailscale-serve"
          /\ task' = [task EXCEPT ![p] = [NoTask EXCEPT !.kind = "install", !.want = s, !.mode = mode]]
    /\ pc' = [pc EXCEPT ![p] = "preflight"] /\ result' = [result EXCEPT ![p] = "none"]
    /\ calm' = calm \cup {p}
    /\ UNCHANGED <<caddy, styles, homes, lock, known, worn, faults>>

Serves(p) == task[p].want.ingress = "tailscale-serve"

\* The listeners an installation behind Tailscale may start from.
Migratable(p) ==
    caddyfile.listen \in (IF task[p].mode = "prepare" THEN {"wildcard", "both"} ELSE {"both", "loopback"})

\* _preflight_caddy_state and the Tailscale preflight.
Preflight(p) ==
    /\ Step(p, "preflight") /\ UNCHANGED <<caddy, styles, homes, worn, faults, calm>>
    /\ LET complete == caddyfile # None /\ plist # None
           recovers == task[p].mode = "recover" /\ ~Serves(p)
           refused ==
              \/ job # None /\ ~complete
              \/ Serves(p) /\ (job = None \/ ~complete \/ ~Migratable(p))
              \/ job = None /\ recovers /\ ~complete /\ (caddyfile # None \/ plist # None)
           continued ==
              Remember(p, IF job = None /\ recovers /\ complete THEN "recover" ELSE "prior",
                       [task[p] EXCEPT !.seen = job # None])
       IN IF refused THEN End(p, "failed") /\ UNCHANGED known
          ELSE /\ continued
               /\ known' = IF job # None THEN known \cup {p} ELSE known

\* An installation for an activation starts the job of an interrupted one.
RecoverJob(p) ==
    /\ Step(p, "recover") /\ job = None /\ plist # None
    /\ job' = Files /\ Changed(p, FALSE)
    /\ Remember(p, "prior", [task[p] EXCEPT !.seen = TRUE])
    /\ UNCHANGED <<caddyfile, plist, styles, homes, worn, faults>>

\* Rendering, the theme gate, an inspection, the start of the job or a directory fails.
PreflightFails(p) ==
    /\ Step(p, "preflight") \/ Step(p, "recover") \/ Step(p, "prior")
    /\ \/ Fault
       \/ pc[p] = "recover" /\ (job # None \/ plist = None) /\ UNCHANGED faults
    /\ End(p, "failed")
    /\ UNCHANGED <<caddy, styles, homes, watch, worn>>

ReadPrior(p) ==
    /\ Step(p, "prior")
    /\ Remember(p, "lock", [task[p] EXCEPT !.prior = Files, !.job = job, !.served = InSync])
    /\ UNCHANGED <<caddy, styles, homes, watch, worn, faults>>

BeginRollback(p) ==
    /\ pc[p] = "idle" /\ runs < MaxRuns /\ runs' = runs + 1
    /\ task' = [task EXCEPT ![p] = [NoTask EXCEPT !.kind = "rollback"]]
    /\ pc' = [pc EXCEPT ![p] = "lock"] /\ result' = [result EXCEPT ![p] = "none"]
    /\ calm' = calm \cup {p}
    /\ UNCHANGED <<caddy, styles, homes, lock, known, worn, faults>>

\* ThemeStore.transaction and the snapshots; a rollback needs both themes.
Lock(p) ==
    /\ Step(p, "lock") /\ lock = None
    /\ worn' = theme
    /\ IF task[p].kind = "rollback" /\ (theme = None \/ formerTheme = None)
       THEN End(p, "failed")
       ELSE /\ lock' = p /\ UNCHANGED result
            /\ task' = [task EXCEPT ![p].styles = Styles, ![p].page = home]
            /\ pc' = [pc EXCEPT ![p] = IF task[p].kind = "install" THEN "validate" ELSE "theme-former"]
    /\ UNCHANGED <<caddy, styles, homes, watch, faults>>

-----------------------------------------------------------------------------
(***************************************************************************)
(* _install_caddy_bundle.                                                  *)
(***************************************************************************)
Wanted(p) == [caddyfile |-> Rendered(task[p].want, task[p].mode), plist |-> task[p].want.plist]

\* A job unloaded meanwhile is loaded again, and the installation fails.
Validate(p) ==
    /\ Step(p, "validate") /\ UNCHANGED <<caddy, styles, homes, watch, worn, faults>>
    /\ IF job # None /\ (caddyfile = None \/ plist = None)
       THEN End(p, "failed")
       ELSE Remember(p, IF task[p].seen /\ job = None THEN "stop" ELSE "caddyfile",
                     [task[p] EXCEPT !.live = job # None, !.inner = Files])

ValidateFails(p) ==
    /\ Step(p, "validate") /\ Fault /\ End(p, "failed")
    /\ UNCHANGED <<caddy, styles, homes, watch, worn>>

WriteCaddyfile(p) ==
    /\ Step(p, "caddyfile")
    /\ caddyfile' = Wanted(p).caddyfile
    /\ IF caddyfile' = caddyfile THEN UNCHANGED watch ELSE Changed(p, TRUE)
    /\ Goto(p, "plist")
    /\ UNCHANGED <<plist, job, styles, homes, worn, faults>>

\* Mutant: a new plist is left to a reload.
ActivationByReload(p) ==
    LET old == task[p].inner IN
    IF ~task[p].live \/ old = Wanted(p) THEN "ingress"
    ELSE IF ~task[p].seen \/ old.caddyfile.listen # Wanted(p).caddyfile.listen
    THEN "bootout" ELSE "reload"

\* How the loaded job is brought to the new files.
Activation(p) ==
    LET old == task[p].inner IN
    IF ~task[p].live \/ old = Wanted(p) THEN "ingress"
    ELSE IF \/ old.plist # Wanted(p).plist \/ ~task[p].seen
            \/ old.caddyfile.listen # Wanted(p).caddyfile.listen
    THEN "bootout" ELSE "reload"

WritePlist(p) ==
    /\ Step(p, "plist")
    /\ plist' = Wanted(p).plist
    /\ IF plist' = plist THEN UNCHANGED watch ELSE Changed(p, TRUE)
    /\ Goto(p, Activation(p))
    /\ UNCHANGED <<caddyfile, job, styles, homes, worn, faults>>

\* A file that cannot be written: both are put back, the job is as it was.
WriteFails(p) ==
    /\ Step(p, "caddyfile") \/ Step(p, "plist")
    /\ Fault /\ Goto(p, "inner-caddyfile")
    /\ UNCHANGED <<caddy, styles, homes, watch, worn>>

Reload(p) ==
    /\ Step(p, "reload") /\ job # None
    /\ job' = [job EXCEPT !.caddyfile = caddyfile] /\ Changed(p, TRUE)
    /\ Remember(p, "ingress", [task[p] EXCEPT !.action = "reloaded"])
    /\ UNCHANGED <<caddyfile, plist, styles, homes, worn, faults>>

ReloadFails(p) ==
    /\ Step(p, "reload")
    /\ \/ job = None /\ UNCHANGED <<job, faults>>
       \/ job # None /\ Fault /\ job' \in {job, [job EXCEPT !.caddyfile = caddyfile]}
    /\ Changed(p, TRUE)
    /\ Remember(p, "inner-caddyfile", [task[p] EXCEPT !.action = "reloaded"])
    /\ UNCHANGED <<caddyfile, plist, styles, homes, worn>>

Bootout(p) ==
    /\ Step(p, "bootout") /\ job # None
    /\ job' = None /\ Changed(p, FALSE)
    /\ Goto(p, "bootstrap")
    /\ UNCHANGED <<caddyfile, plist, styles, homes, worn, faults>>

\* Nothing was shut down (and an unharmed job is kept), or it was.
BootoutFails(p) ==
    /\ Step(p, "bootout")
    /\ \E action \in {"kept", "replaced"} :
          /\ \/ job = None /\ UNCHANGED <<job, watch, faults>>
             \/ job # None /\ action = "kept" /\ Fault /\ UNCHANGED <<job, watch>>
             \/ job # None /\ action = "replaced" /\ Fault /\ job' = None /\ Changed(p, FALSE)
          /\ Remember(p, "inner-caddyfile", [task[p] EXCEPT !.action = action])
    /\ UNCHANGED <<caddyfile, plist, styles, homes, worn>>

Bootstrap(p) ==
    /\ Step(p, "bootstrap") /\ job = None
    /\ job' = Files /\ Changed(p, FALSE)
    /\ Remember(p, "ingress", [task[p] EXCEPT !.action = "replaced"])
    /\ UNCHANGED <<caddyfile, plist, styles, homes, worn, faults>>

BootstrapFails(p) ==
    /\ Step(p, "bootstrap")
    /\ \/ job # None /\ UNCHANGED <<job, watch, faults>>
       \/ job = None /\ Fault /\ job' \in {None, Files} /\ Changed(p, FALSE)
    /\ Remember(p, "inner-caddyfile", [task[p] EXCEPT !.action = "replaced"])
    /\ UNCHANGED <<caddyfile, plist, styles, homes, worn>>

\* What failed there is taken back there: both files, then the job.
InnerCaddyfile(p) ==
    /\ Step(p, "inner-caddyfile")
    /\ caddyfile' = task[p].inner.caddyfile
    /\ IF caddyfile' = caddyfile THEN UNCHANGED watch ELSE Changed(p, TRUE)
    /\ Goto(p, "inner-plist")
    /\ UNCHANGED <<plist, job, styles, homes, worn, faults>>

InnerPlist(p) ==
    /\ Step(p, "inner-plist")
    /\ plist' = task[p].inner.plist
    /\ IF plist' = plist THEN UNCHANGED watch ELSE Changed(p, TRUE)
    /\ CASE task[p].action = "none" -> End(p, "failed")
         [] task[p].action = "kept" -> Goto(p, "inspect")
         [] task[p].action = "reloaded" -> Goto(p, "reload-back")
         [] task[p].action = "replaced" -> Goto(p, "stop")
    /\ UNCHANGED <<caddyfile, job, styles, homes, worn, faults>>

\* A job that was not shut down stays; one that has changed is started again,
\* or, if its shutdown had not begun, left alone.
Inspect(p) ==
    /\ Step(p, "inspect")
    /\ \/ job # None /\ End(p, "failed")
       \/ job = None /\ End(p, "unrestored")
       \/ (job = None \/ p \notin known) /\ Goto(p, "stop")
    /\ UNCHANGED <<caddy, styles, homes, watch, worn, faults>>

-----------------------------------------------------------------------------
(***************************************************************************)
(* After the bundle: ingress, theme, pages.                                *)
(***************************************************************************)
\* The public route answers and the process listens where it should.
Listens(p) ==
    /\ job # None /\ job.caddyfile # None
    /\ job.caddyfile.listen = Wanted(p).caddyfile.listen

Ingress(p) ==
    /\ Step(p, "ingress")
    /\ Serves(p) => Listens(p)
    /\ Goto(p, IF theme = task[p].want.theme THEN "assets" ELSE "theme-former")
    /\ UNCHANGED <<caddy, styles, homes, watch, worn, faults>>

IngressFails(p) ==
    /\ Step(p, "ingress") /\ Serves(p)
    /\ \/ ~Listens(p) /\ UNCHANGED faults
       \/ Fault
    /\ Goto(p, "back-theme")
    /\ UNCHANGED <<caddy, styles, homes, watch, worn>>

\* The pair an activation or a rollback is to leave.
Desired(p) ==
    LET old == task[p].styles IN
    IF task[p].kind = "rollback" THEN [theme |-> old.former, former |-> old.theme]
    ELSE [theme |-> task[p].want.theme, former |-> IF old.theme = None THEN old.former ELSE old.theme]

\* Mutant: the current theme is written first.
WriteThemeFirst(p) ==
    /\ Step(p, "theme-former")
    /\ theme' = Desired(p).theme
    /\ Goto(p, "theme")
    /\ UNCHANGED <<caddy, formerTheme, homes, watch, worn, faults>>

\* _ThemeSession.transition writes the former theme first.
WriteFormerTheme(p) ==
    /\ Step(p, "theme-former")
    /\ formerTheme' = Desired(p).former
    /\ Goto(p, "theme")
    /\ UNCHANGED <<caddy, theme, homes, watch, worn, faults>>

WriteTheme(p) ==
    /\ Step(p, "theme")
    /\ theme' = Desired(p).theme
    /\ IF task[p].kind = "rollback" THEN End(p, "installed") ELSE Goto(p, "assets")
    /\ UNCHANGED <<caddy, formerTheme, homes, watch, worn, faults>>

\* A directory that cannot be synchronised fails after its file was replaced.
ThemeFails(p) ==
    /\ \/ Step(p, "theme-former") /\ formerTheme' \in {formerTheme, Desired(p).former} /\ UNCHANGED theme
       \/ Step(p, "theme") /\ theme' \in {theme, Desired(p).theme} /\ UNCHANGED formerTheme
    /\ Fault /\ Goto(p, "back-theme")
    /\ UNCHANGED <<caddy, homes, watch, worn>>

WriteAssets(p) ==
    /\ Step(p, "assets")
    /\ assets' = assets \cup {task[p].want.page}
    /\ Goto(p, "former-home")
    /\ UNCHANGED <<caddy, styles, home, formerHome, watch, worn, faults>>

WriteFormerHome(p) ==
    /\ Step(p, "former-home")
    /\ formerHome' = IF task[p].page \in {None, task[p].want.page} THEN formerHome ELSE task[p].page
    /\ Goto(p, "home")
    /\ UNCHANGED <<caddy, styles, home, assets, watch, worn, faults>>

WriteHome(p) ==
    /\ Step(p, "home")
    /\ home' = task[p].want.page
    /\ End(p, "installed")
    /\ UNCHANGED <<caddy, styles, assets, formerHome, watch, worn, faults>>

PageFails(p) ==
    /\ Step(p, "assets") \/ Step(p, "former-home") \/ Step(p, "home")
    /\ Fault /\ Goto(p, "back-theme")
    /\ UNCHANGED <<caddy, styles, homes, watch, worn>>

-----------------------------------------------------------------------------
(***************************************************************************)
(* The recovery of what failed after the bundle was published.             *)
(***************************************************************************)
\* _ThemeSession.restore writes the current theme first.
BackTheme(p) ==
    /\ Step(p, "back-theme")
    /\ theme' = task[p].styles.theme
    /\ Goto(p, "back-former")
    /\ UNCHANGED <<caddy, formerTheme, homes, watch, worn, faults>>

BackFormer(p) ==
    /\ Step(p, "back-former")
    /\ formerTheme' = task[p].styles.former
    /\ IF task[p].kind = "rollback" THEN End(p, "failed") ELSE Goto(p, "back-caddyfile")
    /\ UNCHANGED <<caddy, theme, homes, watch, worn, faults>>

BackCaddyfile(p) ==
    /\ Step(p, "back-caddyfile")
    /\ caddyfile' = task[p].prior.caddyfile
    /\ IF caddyfile' = caddyfile THEN UNCHANGED watch ELSE Changed(p, TRUE)
    /\ Goto(p, "back-plist")
    /\ UNCHANGED <<plist, job, styles, homes, worn, faults>>

\* Mutant: a replaced job is reloaded.
BackPlistAndReload(p) ==
    /\ Step(p, "back-plist")
    /\ plist' = task[p].prior.plist
    /\ IF plist' = plist THEN UNCHANGED watch ELSE Changed(p, TRUE)
    /\ IF task[p].action = "none" THEN End(p, "failed") ELSE Goto(p, "reload-back")
    /\ UNCHANGED <<caddyfile, job, styles, homes, worn, faults>>

BackPlist(p) ==
    /\ Step(p, "back-plist")
    /\ plist' = task[p].prior.plist
    /\ IF plist' = plist THEN UNCHANGED watch ELSE Changed(p, TRUE)
    /\ CASE task[p].action = "none" -> End(p, "failed")
         [] task[p].action = "reloaded" -> Goto(p, "reload-back")
         [] task[p].action = "replaced" -> Goto(p, IF task[p].seen THEN "stop" ELSE "stop-only")
    /\ UNCHANGED <<caddyfile, job, styles, homes, worn, faults>>

\* Behind Tailscale the process must still be the one first seen.
ReloadBack(p) ==
    /\ Step(p, "reload-back") /\ job # None
    /\ job' = [job EXCEPT !.caddyfile = caddyfile] /\ Changed(p, TRUE)
    /\ \/ (p \in known \/ ~Serves(p)) /\ End(p, "failed")
       \/ p \notin known /\ Serves(p) /\ End(p, "unrestored")
    /\ UNCHANGED <<caddyfile, plist, styles, homes, worn, faults>>

Stop(p) ==
    /\ Step(p, "stop") \/ Step(p, "stop-only")
    /\ job' = None
    /\ IF job = None THEN UNCHANGED watch ELSE Changed(p, FALSE)
    /\ IF pc[p] = "stop" THEN Goto(p, "start") ELSE End(p, "failed")
    /\ UNCHANGED <<caddyfile, plist, styles, homes, worn, faults>>

Restart(p) ==
    /\ Step(p, "start") /\ job = None /\ plist # None
    /\ job' = Files /\ Changed(p, FALSE)
    /\ End(p, "failed")
    /\ UNCHANGED <<caddyfile, plist, styles, homes, worn, faults>>

\* A recovery that fails says so; its step is done or not.
RecoveryFails(p) ==
    /\ \/ Step(p, "back-theme") /\ theme' \in {theme, task[p].styles.theme} /\ Fault
          /\ UNCHANGED <<caddy, formerTheme, watch>>
       \/ Step(p, "back-former") /\ formerTheme' \in {formerTheme, task[p].styles.former} /\ Fault
          /\ UNCHANGED <<caddy, theme, watch>>
       \/ /\ Step(p, "inner-caddyfile") \/ Step(p, "inner-plist") \/ Step(p, "back-caddyfile")
             \/ Step(p, "back-plist") \/ Step(p, "inspect")
          /\ Fault /\ UNCHANGED <<caddy, styles, watch>>
       \/ Step(p, "reload-back") /\ job = None /\ UNCHANGED <<caddy, styles, watch, faults>>
       \/ Step(p, "reload-back") /\ job # None /\ Fault
          /\ job' \in {job, [job EXCEPT !.caddyfile = caddyfile]} /\ Changed(p, TRUE)
          /\ UNCHANGED <<caddyfile, plist, styles>>
       \/ (Step(p, "stop") \/ Step(p, "stop-only")) /\ Fault /\ job' \in {job, None} /\ Changed(p, FALSE)
          /\ UNCHANGED <<caddyfile, plist, styles>>
       \/ Step(p, "start") /\ (job # None \/ plist = None) /\ UNCHANGED <<caddy, styles, watch, faults>>
       \/ Step(p, "start") /\ job = None /\ plist # None /\ Fault /\ job' \in {None, Files} /\ Changed(p, FALSE)
          /\ UNCHANGED <<caddyfile, plist, styles>>
    /\ End(p, "unrestored")
    /\ UNCHANGED <<homes, worn>>

-----------------------------------------------------------------------------
Kill(p) ==
    /\ pc[p] # "idle" /\ Fault
    /\ End(p, "killed")
    /\ UNCHANGED <<caddy, styles, homes, watch, worn, runs>>

\* launchd restarts the process, or an operator unloads or loads the job.
Happens ==
    /\ Fault
    /\ \/ job # None /\ caddyfile # None /\ job' = [job EXCEPT !.caddyfile = caddyfile]
       \/ job # None /\ job' = None
       \/ job = None /\ caddyfile # None /\ plist # None /\ job' = Files
    /\ calm' = {} /\ known' = {}
    /\ UNCHANGED <<caddyfile, plist, styles, homes, lock, pc, task, result, worn, runs>>

Commands(p) ==
    \/ Preflight(p) \/ RecoverJob(p) \/ PreflightFails(p) \/ ReadPrior(p) \/ Lock(p)
    \/ Validate(p) \/ ValidateFails(p) \/ WriteCaddyfile(p) \/ WritePlist(p) \/ WriteFails(p)
    \/ Reload(p) \/ ReloadFails(p) \/ Bootout(p) \/ BootoutFails(p) \/ Bootstrap(p) \/ BootstrapFails(p)
    \/ InnerCaddyfile(p) \/ InnerPlist(p) \/ Inspect(p)
    \/ Ingress(p) \/ IngressFails(p) \/ WriteFormerTheme(p) \/ WriteTheme(p) \/ ThemeFails(p)
    \/ WriteAssets(p) \/ WriteFormerHome(p) \/ WriteHome(p) \/ PageFails(p)
    \/ BackTheme(p) \/ BackFormer(p) \/ BackCaddyfile(p) \/ BackPlist(p) \/ ReloadBack(p)
    \/ Stop(p) \/ Restart(p) \/ RecoveryFails(p)

\* The bounds are reached: anything else that stops is a deadlock.
Rest == runs = MaxRuns /\ pc = [p \in Processes |-> "idle"] /\ UNCHANGED vars

Next ==
    \/ \E p \in Processes : Begin(p) \/ BeginRollback(p) \/ Commands(p) \/ Kill(p)
    \/ Happens \/ Rest

Spec == Init /\ [][Next]_vars

-----------------------------------------------------------------------------
Steps ==
    {"idle", "preflight", "recover", "prior", "lock", "validate", "caddyfile", "plist", "reload",
     "bootout", "bootstrap", "inner-caddyfile", "inner-plist", "inspect", "ingress",
     "theme-former", "theme", "assets", "former-home", "home", "back-theme", "back-former",
     "back-caddyfile", "back-plist", "reload-back", "stop", "stop-only", "start"}
Unlocked == {"idle", "preflight", "recover", "prior", "lock"}

\* Every variable has a value of its kind, and who is past the lock holds it.
TypeOK ==
    /\ caddyfile \in Caddyfiles \cup {None} /\ plist \in Plists \cup {None}
    /\ job = None \/ job \in [caddyfile: Caddyfiles \cup {None}, plist: Plists]
    /\ theme \in Themes \cup {None} /\ formerTheme \in Themes \cup {None}
    /\ assets \subseteq Pages /\ home \in assets \cup {None} /\ formerHome \in assets \cup {None}
    /\ pc \in [Processes -> Steps]
    /\ \A p \in Processes : lock = p <=> pc[p] \notin Unlocked

\* The theme in use when the lock was last taken is not lost, whatever is killed
\* or fails before the lock is taken again.
ThemeKept == worn # None => worn \in {theme, formerTheme}

\* An installation that fails, though no step of its recovery failed, leaves
\* both files, both themes and the job as they were, unless somebody else has
\* touched files or job.
FailureRestores ==
    [][\A p \in Processes :
          /\ task[p].kind = "install" /\ pc[p] \notin Unlocked /\ p \in calm'
          /\ pc'[p] = "idle" /\ result'[p] = "failed"
          => /\ Files' = task[p].prior /\ Styles' = task[p].styles
             /\ task[p].served => job' = task[p].job]_vars

\* One that succeeds has published what it rendered, and a loaded job that ran
\* the former files runs the new ones.
SuccessServes ==
    [][\A p \in Processes :
          /\ task[p].kind = "install" /\ pc[p] # "idle" /\ p \in calm'
          /\ pc'[p] = "idle" /\ result'[p] = "installed"
          => /\ Files' = Wanted(p) /\ theme' = task[p].want.theme /\ home' = task[p].want.page
             /\ task[p].served => InSync']_vars

=============================================================================
