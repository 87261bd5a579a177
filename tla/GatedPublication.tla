-------------------------- MODULE GatedPublication --------------------------
(***************************************************************************)
(* What the platform promises about its only side effect: an operation is  *)
(* published only after it was released, and it is released only while the *)
(* last word a person said about it is "allow".  People may change their   *)
(* mind until the release; afterwards their words have no effect on it.    *)
(***************************************************************************)
CONSTANT Operations

VARIABLES
    verdict,    \* the last decision received for each operation
    released,   \* the operations handed to the trusted push
    published   \* the operations with a commit on the pull request's branch

vars == <<verdict, released, published>>

Verdicts == {"none", "allow", "deny"}

TypeOK ==
    /\ verdict \in [Operations -> Verdicts]
    /\ released \subseteq Operations
    /\ published \subseteq Operations

Init ==
    /\ verdict = [o \in Operations |-> "none"]
    /\ released = {}
    /\ published = {}

Decide(o, v) ==
    /\ verdict' = [verdict EXCEPT ![o] = v]
    /\ UNCHANGED <<released, published>>

Release(o) ==
    /\ verdict[o] = "allow"
    /\ released' = released \cup {o}
    /\ UNCHANGED <<verdict, published>>

(* One push takes along whatever released operation left its commit behind.  *)
Publish(S) ==
    /\ S \subseteq released
    /\ published' = published \cup S
    /\ UNCHANGED <<verdict, released>>

Next ==
    \/ \E o \in Operations :
          Release(o) \/ \E v \in {"allow", "deny"} : Decide(o, v)
    \/ \E S \in SUBSET released : Publish(S)

Spec == Init /\ [][Next]_vars
=============================================================================
