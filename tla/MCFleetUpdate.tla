----------------------------- MODULE MCFleetUpdate -----------------------------
(* The instance of FleetUpdate for TLC: applications of a former release, one  *)
(* of them with files that disagree, one the doctor refuses, one without a     *)
(* platform block, and what updates make of them.                              *)
EXTENDS FleetUpdate, TLC

MCVersion == [former |-> 1, present |-> 2]
MCStarter ==
    [ui |-> "vendored",
     scripts |-> [s \in Required |-> IF s = "check" THEN Parts ELSE {}]]
OwnScripts(lint) == [s \in Required |-> CASE s = "check" -> {"lint"} [] s = "lint" -> lint [] OTHER -> {}]
Made(build, template, lint) ==
    [manifest   |-> [ui |-> 1, template |-> 2, capabilities |-> {}],
     provenance |-> [ui |-> build, template |-> template, capabilities |-> {}, managed |-> {"manifest", "artifact"}],
     package    |-> [ui |-> "vendored", scripts |-> OwnScripts(lint)],
     index      |-> [theme |-> "linked", legacy |-> 1],
     lock       |-> build, artifact |-> build]
Old == [Made("former", 2, {}) EXCEPT !.lock = None]
Mixed == Made("former", 1, {})
Refused == Made("former", 2, {"check"})
LegacyApp ==
    [manifest |-> None, provenance |-> None, package |-> [ui |-> "absent", scripts |-> OwnScripts({})],
     index |-> [theme |-> "absent", legacy |-> 0], lock |-> None, artifact |-> None]
Service == [LegacyApp EXCEPT !.package = None, !.index = None]

Given ==
    [old |-> Old, mixed |-> Mixed, refused |-> Refused, legacy |-> LegacyApp, service |-> Service]
Plans ==
    [updated |-> Candidate(Old, {}), adopted |-> Candidate(LegacyApp, {}),
     founded |-> FoundationCandidate({})]
MCFiles ==
    Given @@ Plans @@ (IF Candidate(Mixed, {}) = Plans.updated THEN <<>>
                       ELSE [refreshed |-> Candidate(Mixed, {})])
MCContents == DOMAIN MCFiles
MCInitial == {<<"old", "mixed">>, <<"mixed", "old">>, <<"service", "refused">>}

=============================================================================
