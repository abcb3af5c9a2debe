----------------------------- MODULE AuthorityOps -----------------------------
(***************************************************************************)
(* The authority table as the engine sees it: the set of its live bindings. *)
(* A superseded binding stays in the C++ vectors but grants nothing and is   *)
(* skipped by every operation, so it is not a member.  Two live bindings that *)
(* agree on all the fields kept here are treated alike by every operation, so *)
(* a set loses nothing.                                                       *)
(*   src/src/authority.cpp, src/include/mlf/authority.hpp                     *)
(***************************************************************************)
EXTENDS Naturals

AuthorityKind == {"Exclusive", "Canary", "SplitTraffic", "RollbackRetained", "Draining"}

\* AuthorityBinding: the fields some operation reads.
Binding(s, v, g, k, r) ==
    [scope |-> s, version |-> v, generation |-> g, kind |-> k, rollout |-> r]

\* live_bindings_for
LiveAt(b, s) == {x \in b : x.scope = s}

ExclusiveAt(b, s) == {x \in LiveAt(b, s) : x.kind = "Exclusive"}

\* supersede_scope: every live binding of the scope, whoever holds it.
SupersedeScope(b, s) == {x \in b : x.scope # s}

\* Mutant: only the canaries of the rollout are withdrawn.
SupersedeCanaries(b, r) == {x \in b : x.rollout # r \/ x.kind # "Canary"}

\* supersede_rollout
SupersedeRollout(b, r) == {x \in b : x.rollout # r}

\* retire(): every binding of the version.
SupersedeVersion(b, v) == {x \in b : x.version # v}

\* mark_draining, over every scope of S
MarkDraining(b, v, S) ==
    {IF x.scope \in S /\ x.version = v /\ x.kind \notin {"Draining", "RollbackRetained"}
     THEN [x EXCEPT !.kind = "Draining"] ELSE x : x \in b}

\* holds_live_authority(..., false)
HoldsExclusive(b, v) == \E x \in b : x.version = v /\ x.kind = "Exclusive"

\* holds_live_authority(..., true)
HoldsAuthority(b, v) == \E x \in b : x.version = v /\ x.kind # "RollbackRetained"

==============================================================================
