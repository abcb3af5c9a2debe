---------------------------- MODULE MCEvidence ----------------------------
(***************************************************************************)
(* Instances of the evidence service.                                       *)
(***************************************************************************)
EXTENDS EvidenceService

\* Test results of both verdicts, which are durable, and health, which is not, about
\* the current generation; and test results about the second one, which the version
\* may not have reached.
About(kind, verdict, g) ==
    {[kind |-> kind, verdict |-> verdict, model_generation |-> g, artifact_generation |-> 0,
      scope |-> s, stage_generation |-> 0, compatibility_generation |-> 0] : s \in Scopes}
FewPublications ==
    UNION {About("TestResult", "Satisfied", 0), About("TestResult", "Unsatisfied", 0),
           About("HealthCheck", "Satisfied", 0), About("TestResult", "Satisfied", 2)}
===========================================================================
