------------------------------- MODULE UpdatePlan -------------------------------
(***************************************************************************)
(* What an update makes of the files of an application (app_update.py),    *)
(* and what the doctor says of them (app_doctor.py, app_provenance.py):    *)
(* pure functions of six files.                                            *)
(*                                                                         *)
(*   manifest    None without a platform block, or                         *)
(*               [ui: version, template: Nat, capabilities: set]           *)
(*   provenance  None, or [ui: build, template, capabilities, managed]     *)
(*   package     None, or [ui: how it depends on the UI package,           *)
(*               scripts: for each script what it runs by name]            *)
(*   index       None, or [theme: how it links the theme, legacy: Nat]     *)
(*   lock        None, or the build the lock file resolves to              *)
(*   artifact    None, or the build in vendor/                             *)
(*                                                                         *)
(* What only a parser refuses is not a state here, nor is another platform *)
(* contract, which the parsers of both files refuse.                       *)
(***************************************************************************)
EXTENDS Naturals, FiniteSets

CONSTANTS
    Platform,    \* the build the platform's sources give
    Version,     \* the version of each build
    Template,    \* CURRENT_TEMPLATE_VERSION
    Starter,     \* the package of the foundation template
    None

Parts == {"lint", "test", "build"}
Required == Parts \cup {"dev", "test:e2e", "check"}

-----------------------------------------------------------------------------
(***************************************************************************)
(* AppDoctor.                                                              *)
(***************************************************************************)
\* _reachable_scripts: each round adds what the scripts of the last one run.
Reachable(scripts) ==
    LET reach[n \in Nat] ==
            IF n = 0 THEN {"check", "test:e2e"}
            ELSE reach[n - 1] \cup UNION {scripts[s] : s \in reach[n - 1] \cap DOMAIN scripts}
    IN reach[Cardinality(DOMAIN scripts)]

PackageDiagnostics(package) ==
    LET reached == Reachable(package.scripts) \cap DOMAIN package.scripts IN
    {d \in {"script-missing", "script-recursive", "script-platform-coupled", "dependency-invalid"} :
        \/ d = "script-missing" /\ ~ (Required \subseteq DOMAIN package.scripts)
        \/ d = "script-recursive" /\ \E s \in reached : "check" \in package.scripts[s]
        \/ d = "script-platform-coupled" /\ \E s \in reached : "local-web" \in package.scripts[s]
        \/ d = "dependency-invalid" /\ package.ui # "vendored"}

\* validate_compatibility
Incompatible(manifest, provenance) ==
    {d \in {"template-mismatch", "version-mismatch", "capabilities-mismatch"} :
        \/ d = "template-mismatch" /\ manifest.template # provenance.template
        \/ d = "version-mismatch" /\ manifest.ui # Version[provenance.ui]
        \/ d = "capabilities-mismatch" /\ manifest.capabilities # provenance.capabilities}

ArtifactDiagnostics(f) ==
    IF f.artifact = None THEN {"artifact-missing"}
    ELSE IF f.artifact # f.provenance.ui THEN {"digest-mismatch"} ELSE {}

IndexDiagnostics(index) ==
    IF index # None /\ index.theme = "linked" THEN {} ELSE {"theme-link-invalid"}

\* _inspect_structural
Diagnostics(f) ==
    IF f.manifest = None THEN IF f.provenance = None THEN {"legacy"} ELSE {"provenance-invalid"}
    ELSE IF f.provenance = None THEN {"provenance-missing"}
    ELSE UNION {Incompatible(f.manifest, f.provenance), ArtifactDiagnostics(f),
                IF f.package = None THEN {"package-invalid"} ELSE PackageDiagnostics(f.package),
                IndexDiagnostics(f.index)}

\* inspect_candidate finds no error.
Accepted(candidate) == Diagnostics(candidate) = {}

-----------------------------------------------------------------------------
(***************************************************************************)
(* AppUpdater.preview.                                                     *)
(***************************************************************************)
ManifestCandidate(capabilities) ==
    [ui |-> Version[Platform], template |-> Template, capabilities |-> capabilities]

\* The managed files of an adopted application stay what its provenance says.
ProvenanceCandidate(provenance, capabilities) ==
    [ui |-> Platform, template |-> Template, capabilities |-> capabilities,
     managed |-> IF provenance = None THEN {"manifest", "artifact"} ELSE provenance.managed]

PackageConflicts(package) ==
    \/ package.ui = "other"
    \/ "check" \notin DOMAIN package.scripts /\ ~ (Parts \subseteq DOMAIN package.scripts)

PackageCandidate(package) ==
    [ui |-> "vendored",
     scripts |-> [s \in DOMAIN package.scripts \cup {"check"} |->
                    IF s \in DOMAIN package.scripts THEN package.scripts[s] ELSE Parts]]

\* One copy of the former bootstrap is removed; the link must be absent or right.
IndexConflicts(index) == index.legacy > 1 \/ index.theme = "broken"
IndexCandidate == [theme |-> "linked", legacy |-> 0]

\* Mutant: the former resolution of the package is left in the lock file.
LockKept(lock) == IF lock = None THEN Platform ELSE lock

\* The resolution is removed, and npm resolves again from the artifact.
LockCandidate(lock) == Platform

\* Capabilities are asked for at adoption and kept afterwards.
Capabilities(f, request) == IF f.manifest = None THEN request ELSE f.manifest.capabilities

Candidate(f, request) ==
    [manifest   |-> ManifestCandidate(Capabilities(f, request)),
     provenance |-> ProvenanceCandidate(f.provenance, Capabilities(f, request)),
     package    |-> PackageCandidate(f.package),
     index      |-> IndexCandidate,
     lock       |-> LockCandidate(f.lock),
     artifact   |-> Platform]

\* _preview_existing_foundation goes on to a candidate the doctor accepts.
Plannable(f, request) ==
    /\ f.package # None /\ f.index # None
    /\ IF f.manifest = None THEN f.provenance = None /\ f.artifact = None
       ELSE f.provenance # None /\ request = {}
    /\ ~PackageConflicts(f.package) /\ ~IndexConflicts(f.index)
    /\ Accepted(Candidate(f, request))

Changed(f, request) == {t \in DOMAIN f : Candidate(f, request)[t] # f[t]}
Mode(f, request) ==
    IF f.manifest = None THEN "adopt" ELSE IF Changed(f, request) # {} THEN "refresh" ELSE "current"

\* A service without a frontend is given the one of the template.
FoundationCandidate(request) ==
    [manifest   |-> ManifestCandidate(request),
     provenance |-> ProvenanceCandidate(None, request),
     package    |-> Starter,
     index      |-> IndexCandidate,
     lock       |-> LockCandidate(None),
     artifact   |-> Platform]

\* None of its targets may exist.
FoundationPlannable(f) == f = [t \in DOMAIN f |-> None]

\* The candidate is built and verified before it is a plan.
FoundationPlan(f, request) ==
    IF FoundationPlannable(f) /\ Accepted(FoundationCandidate(request))
    THEN FoundationCandidate(request) ELSE None

\* The plan of a request: the files it would leave, or None.
Planned(f, request, foundation) ==
    IF foundation THEN FoundationPlan(f, request)
    ELSE IF Plannable(f, request) THEN Candidate(f, request) ELSE None

=============================================================================
