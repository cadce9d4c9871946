--------------------------- MODULE UpdatePlan_proofs ---------------------------
(***************************************************************************)
(* Theorems about UpdatePlan, for all builds, versions, templates and      *)
(* contents of the six files.                                              *)
(***************************************************************************)
EXTENDS UpdatePlan, TLAPS

\* The package of a plan: it depends on the vendored artifact and has a check.
IsVendored(package) ==
    /\ package = [ui |-> "vendored", scripts |-> package.scripts]
    /\ package.scripts = [s \in DOMAIN package.scripts |-> package.scripts[s]]
    /\ "check" \in DOMAIN package.scripts

\* The files of a plan, whose manifest has these capabilities.
IsPlan(c, capabilities, provenance) ==
    c = [manifest   |-> ManifestCandidate(capabilities),
         provenance |-> ProvenanceCandidate(provenance, capabilities),
         package    |-> c.package,
         index      |-> IndexCandidate,
         lock       |-> Platform,
         artifact   |-> Platform]

-----------------------------------------------------------------------------
\* What the doctor accepts has a manifest, a provenance, a package and an index.
LEMMA AcceptedIsPresent ==
  ASSUME NEW c, Accepted(c)
  PROVE  c.manifest # None /\ c.provenance # None /\ c.package # None /\ c.index # None
  <1>1. c.manifest # None /\ c.provenance # None
    BY DEF Accepted, Diagnostics
  <1>2. c.package # None
    <2>1. SUFFICES ASSUME c.package = None PROVE FALSE
      OBVIOUS
    <2>2. "package-invalid" \in Diagnostics(c)
      BY <1>1, <2>1 DEF Diagnostics
    <2> QED  BY <2>2 DEF Accepted
  <1>3. c.index # None
    <2>1. SUFFICES ASSUME c.index = None PROVE FALSE
      OBVIOUS
    <2>2. IndexDiagnostics(c.index) = {"theme-link-invalid"}
      BY <2>1 DEF IndexDiagnostics
    <2>3. "theme-link-invalid" \in Diagnostics(c)
      BY <1>1, <2>2 DEF Diagnostics
    <2> QED  BY <2>3 DEF Accepted
  <1> QED  BY <1>1, <1>2, <1>3

LEMMA CandidateIsVendored ==
  ASSUME NEW package PROVE IsVendored(PackageCandidate(package))
  BY DEF IsVendored, PackageCandidate

\* A package that is vendored needs no change and is in no conflict.
LEMMA VendoredIsKept ==
  ASSUME NEW package, IsVendored(package)
  PROVE  PackageCandidate(package) = package /\ ~PackageConflicts(package)
  <1>1. DOMAIN package.scripts \cup {"check"} = DOMAIN package.scripts
    BY DEF IsVendored
  <1>2. [s \in DOMAIN package.scripts |-> IF s \in DOMAIN package.scripts THEN package.scripts[s] ELSE Parts]
          = package.scripts
    BY DEF IsVendored
  <1>3. PackageCandidate(package) = package
    BY <1>1, <1>2 DEF PackageCandidate, IsVendored
  <1>4. package.ui = "vendored" /\ "check" \in DOMAIN package.scripts
    BY DEF IsVendored
  <1> QED  BY <1>3, <1>4 DEF PackageConflicts

\* What a plan made is planned again as it is.
LEMMA PlanIsKept ==
  ASSUME NEW c, NEW capabilities, NEW provenance, Accepted(c),
         IsPlan(c, capabilities, provenance), IsVendored(c.package)
  PROVE  Candidate(c, {}) = c
  <1>1. /\ c.manifest = ManifestCandidate(capabilities)
        /\ c.provenance = ProvenanceCandidate(provenance, capabilities)
        /\ c.manifest # None /\ c.provenance # None
    BY AcceptedIsPresent DEF IsPlan
  <1>2. Capabilities(c, {}) = capabilities
    BY <1>1 DEF Capabilities, ManifestCandidate
  <1>3. ProvenanceCandidate(c.provenance, capabilities) = c.provenance
    BY <1>1 DEF ProvenanceCandidate
  <1>4. PackageCandidate(c.package) = c.package
    BY VendoredIsKept
  <1> QED  BY <1>1, <1>2, <1>3, <1>4 DEF Candidate, IsPlan, LockCandidate

LEMMA PlanIsPlannable ==
  ASSUME NEW c, NEW capabilities, NEW provenance,
         IsPlan(c, capabilities, provenance), IsVendored(c.package), Accepted(c)
  PROVE  Plannable(c, {})
  <1>1. /\ c.manifest # None /\ c.provenance # None /\ c.package # None /\ c.index # None
        /\ c.index = IndexCandidate
    BY AcceptedIsPresent DEF IsPlan
  <1>2. ~IndexConflicts(c.index)
    BY <1>1 DEF IndexConflicts, IndexCandidate
  <1>3. Accepted(Candidate(c, {}))
    BY PlanIsKept
  <1>4. ~PackageConflicts(c.package)
    BY VendoredIsKept
  <1> QED  BY <1>1, <1>2, <1>3, <1>4 DEF Plannable

-----------------------------------------------------------------------------
\* An update settles in one step: the preview of the files it has written
\* accepts them and plans nothing, whatever they were before and whatever
\* capabilities were asked for.
THEOREM UpdateSettles ==
  ASSUME NEW f, NEW request, Plannable(f, request)
  PROVE  /\ Plannable(Candidate(f, request), {})
         /\ Candidate(Candidate(f, request), {}) = Candidate(f, request)
         /\ Mode(Candidate(f, request), {}) = "current"
  <1> DEFINE c == Candidate(f, request)
             capabilities == Capabilities(f, request)
  <1>1. /\ IsPlan(c, capabilities, f.provenance) /\ c.package = PackageCandidate(f.package)
        /\ c.manifest = ManifestCandidate(capabilities)
    BY DEF Candidate, IsPlan, LockCandidate
  <1>2. IsVendored(c.package)
    BY <1>1, CandidateIsVendored
  <1>3. Accepted(c)
    BY DEF Plannable
  <1> HIDE DEF c, capabilities
  <1>4. Candidate(c, {}) = c
    BY <1>1, <1>2, <1>3, PlanIsKept
  <1>5. Plannable(c, {})
    BY <1>1, <1>2, <1>3, PlanIsPlannable
  <1>6. Mode(c, {}) = "current"
    BY <1>1, <1>3, <1>4, AcceptedIsPresent DEF Mode, Changed
  <1> QED  BY <1>4, <1>5, <1>6 DEF c

\* So does the creation of a frontend, if the template's package depends on the
\* vendored artifact and has a check.
THEOREM FoundationSettles ==
  ASSUME NEW f, NEW request, IsVendored(Starter),
         FoundationPlan(f, request) # None
  PROVE  /\ Plannable(FoundationPlan(f, request), {})
         /\ Candidate(FoundationPlan(f, request), {}) = FoundationPlan(f, request)
  <1> DEFINE c == FoundationCandidate(request)
  <1>1. FoundationPlan(f, request) = c /\ Accepted(c)
    BY DEF FoundationPlan
  <1>2. IsPlan(c, request, None) /\ c.package = Starter
    BY DEF FoundationCandidate, IsPlan, LockCandidate
  <1> HIDE DEF c
  <1> QED  BY <1>1, <1>2, PlanIsKept, PlanIsPlannable

=============================================================================
