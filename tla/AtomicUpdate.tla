----------------------------- MODULE AtomicUpdate -----------------------------
(* What publish promises its callers: a compare-and-swap of several files.    *)
(* A plan says which bytes each of its files has and gets; publication        *)
(* replaces all of them at once, if all are as the plan says, or none.        *)
EXTENDS Integers

CONSTANTS Processes, Paths, Bytes, None

VARIABLES
    files,   \* what a reader is entitled to: the bytes of each path, or None
    plan,    \* the changes each process has planned last
    outcome  \* how the last update of each process ended

vars == <<files, plan, outcome>>

Contents == Bytes \cup {None}
Trees == [Paths -> Contents]
Plans == UNION {[S -> [before: Contents, after: Contents]] : S \in SUBSET Paths}

Init ==
    /\ files \in Trees
    /\ plan \in [Processes -> Plans] /\ outcome \in [Processes -> {"none"}]

\* A new plan, or the inverse of the last one.
Intend(p) ==
    /\ plan' \in [Processes -> Plans] /\ \A q \in Processes \ {p} : plan'[q] = plan[q]
    /\ outcome' = [outcome EXCEPT ![p] = "running"]
    /\ UNCHANGED files

Publish(p) ==
    /\ outcome[p] = "running"
    /\ \A f \in DOMAIN plan[p] : files[f] = plan[p][f].before
    /\ files' = [f \in Paths |-> IF f \in DOMAIN plan[p] THEN plan[p][f].after ELSE files[f]]
    /\ outcome' = [outcome EXCEPT ![p] = "published"]
    /\ UNCHANGED plan

\* Refused, failed, killed, or waiting for a recovery: no file has changed.
Abandon(p) ==
    /\ outcome' \in [Processes -> {"none", "running", "published", "current", "refused",
                                   "failed", "unrecovered", "killed"}]
    /\ outcome'[p] \notin {"running", "published"}
    /\ \A q \in Processes \ {p} : outcome'[q] = outcome[q]
    /\ UNCHANGED <<files, plan>>

\* The author edits a file between updates.
Edit(f) ==
    /\ \A q \in Processes : outcome[q] # "running"
    /\ \E c \in Contents : files' = [files EXCEPT ![f] = c]
    /\ UNCHANGED <<plan, outcome>>

Next ==
    \/ \E p \in Processes : Intend(p) \/ Publish(p) \/ Abandon(p)
    \/ \E f \in Paths : Edit(f)

Spec == Init /\ [][Next]_vars

=============================================================================
