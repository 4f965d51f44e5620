----------------------------- MODULE MCLifecycle -----------------------------
(* Model-checking instances of SessionLifecycle. *)
EXTENDS SessionLifecycle

CONSTANTS h1, h2, v1, v2

Undialled == {c \in Conns : conn'[c] = "new"}

\* Connections of a kind are alike: h1 is dialled before h2, v1 before v2. Bounds: two hosts and a
\* viewer, or, in a first run, a host and two viewers; one connection less when the instance dies.
FewNext ==
    /\ Next
    /\ h1 \in Undialled => h2 \in Undialled
    /\ v1 \in Undialled => v2 \in Undialled
    /\ h2 \in Undialled \/ v2 \in Undialled
    /\ starts' > 1 => v2 \in Undialled
    /\ crashes' > 0 => Cardinality(Undialled) > 1
FewSpec == Init /\ [][FewNext]_vars /\ Fairness
==============================================================================
