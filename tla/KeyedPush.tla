----------------------------- MODULE KeyedPush -----------------------------
(***************************************************************************)
(* What push_changes promises of the operation keys it is given: only a    *)
(* key that was scheduled gets a commit, a commit once on the branch stays *)
(* there, and "pushed" is said only of a key that has one, whoever's push  *)
(* it was that took it there.                                              *)
(*                                                                         *)
(* PushChanges keeps the promise with its git commands, and                *)
(* PRAutofixWorkflow makes no other use of it: what the one module shows   *)
(* of an attempt is what the other takes an attempt to be.                 *)
(***************************************************************************)
CONSTANT Keys

VARIABLES
    scheduled,  \* keys of the operations whose push was scheduled
    published,  \* keys with a commit on the pull request's branch
    told        \* keys some caller was told are pushed

vars == <<scheduled, published, told>>

TypeOK ==
    /\ scheduled \subseteq Keys
    /\ published \subseteq Keys
    /\ told \subseteq Keys

Init == scheduled = {} /\ published = {} /\ told = {}

Schedule(k) ==
    /\ scheduled' = scheduled \cup {k}
    /\ UNCHANGED <<published, told>>

(* A push publishes, reports, or both; or it only finds what is there.       *)
Push(S, T) ==
    /\ S \subseteq scheduled
    /\ published' = published \cup S
    /\ T \subseteq published'
    /\ told' = told \cup T
    /\ UNCHANGED scheduled

Next ==
    \/ \E k \in Keys : Schedule(k)
    \/ \E S \in SUBSET scheduled, T \in SUBSET Keys : Push(S, T)

Spec == Init /\ [][Next]_vars
=============================================================================
