--------------------------- MODULE ServingAuthority ---------------------------
(***************************************************************************)
(* What the lifecycle engine promises to whoever asks it which version      *)
(* serves a scope (query_authority before inheritance): at every moment at  *)
(* most one version serves a scope, one step hands scopes to at most one     *)
(* version, a version that was retired never serves again, and retirement    *)
(* itself takes nothing away from anybody.                                   *)
(***************************************************************************)
CONSTANTS Versions, Scopes, NoVersion

VARIABLES
    serving,  \* the version that serves each scope, or NoVersion
    retired   \* the versions retired so far

Init ==
    /\ serving = [s \in Scopes |-> NoVersion]
    /\ retired = {}

\* The scopes `given` go to v, the scopes `withdrawn` lose their server.
Handover(v, given, withdrawn) ==
    /\ given # {} => v \notin retired
    /\ serving' = [s \in Scopes |-> IF s \in given THEN v
                                    ELSE IF s \in withdrawn THEN NoVersion
                                    ELSE serving[s]]
    /\ UNCHANGED retired

\* A version is retired while it serves nothing.
Retire(v) ==
    /\ v \notin retired
    /\ \A s \in Scopes : serving[s] # v
    /\ retired' = retired \cup {v}
    /\ UNCHANGED serving

Next ==
    \/ \E v \in Versions, given, withdrawn \in SUBSET Scopes : Handover(v, given, withdrawn)
    \/ \E v \in Versions : Retire(v)

Spec == Init /\ [][Next]_<<serving, retired>>

===============================================================================
