---------------------------- MODULE ProfileRegister ----------------------------
(***************************************************************************)
(* What the host profile store promises: an append-only log of registry    *)
(* revisions that clients read and extend by compare-and-append, or fill   *)
(* once, in one step, from a backup.  No crash and no recovery is visible  *)
(* here: an interrupted publication happened entirely or not at all.       *)
(***************************************************************************)
EXTENDS Integers, Sequences

CONSTANTS Clients, Revisions, Backups, None

VARIABLES
    log,      \* the committed chain
    seen,     \* the log each client last read, <<>> when it knows none
    reported  \* revisions whose publication was reported as successful

vars == <<log, seen, reported>>

LogTip == IF log = <<>> THEN None ELSE log[Len(log)].cur
Logged(revision) == \E i \in 1..Len(log) : log[i] = revision

Init == log = <<>> /\ seen = [c \in Clients |-> <<>>] /\ reported = {}

Read(c) ==
    /\ log # <<>>
    /\ seen' = [seen EXCEPT ![c] = log]
    /\ UNCHANGED <<log, reported>>

Forget(c) ==
    /\ seen' = [seen EXCEPT ![c] = <<>>]
    /\ UNCHANGED <<log, reported>>

\* An update is based on the value its client read, still the newest.
CompareAndAppend(c, revision) ==
    /\ revision.prev = LogTip /\ ~Logged(revision)
    /\ log # <<>> => seen[c] # <<>> /\ seen[c][Len(seen[c])].cur = LogTip
    /\ log' = Append(log, revision)
    /\ UNCHANGED <<seen, reported>>

Install(chain) ==
    /\ log = <<>>
    /\ log' = chain
    /\ UNCHANGED <<seen, reported>>

Report(revisions) ==
    /\ \A revision \in revisions : Logged(revision)
    /\ reported' = reported \cup revisions
    /\ UNCHANGED <<log, seen>>

Next ==
    \/ \E c \in Clients : Read(c) \/ Forget(c)
    \/ \E c \in Clients, revision \in Revisions : CompareAndAppend(c, revision)
    \/ \E chain \in Backups : Install(chain)
    \/ \E revisions \in SUBSET Revisions : Report(revisions)

Spec == Init /\ [][Next]_vars

=============================================================================
