--------------------------- MODULE PayloadHistory ---------------------------
(***************************************************************************)
(* What its peers expect of Temporal's event history: an entry is the list *)
(* of values its sender meant, it never changes, and a reader hears it as  *)
(* it was meant or not at all.                                             *)
(***************************************************************************)
EXTENDS Naturals, Sequences

CONSTANTS
    Peers,
    Lists       \* the lists of payloads a peer may send in one call

VARIABLES
    outbox,     \* what each peer is about to send, <<>> if nothing
    history,    \* the entries Temporal has accepted
    heard       \* the last reading: who took which entry for what

vars == <<outbox, history, heard>>

Init ==
    /\ outbox = [p \in Peers |-> <<>>]
    /\ history = <<>>
    /\ heard = <<>>

Begin(p, list) ==
    /\ outbox[p] = <<>>
    /\ outbox' = [outbox EXCEPT ![p] = list]
    /\ UNCHANGED <<history, heard>>

Send(p) ==
    /\ outbox[p] # <<>>
    /\ history' = Append(history, outbox[p])
    /\ outbox' = [outbox EXCEPT ![p] = <<>>]
    /\ UNCHANGED heard

Read(p, i) ==
    /\ heard' = <<p, i, history[i]>>
    /\ UNCHANGED <<outbox, history>>

Next ==
    \E p \in Peers :
        \/ \E list \in Lists : Begin(p, list)
        \/ Send(p)
        \/ \E i \in DOMAIN history : Read(p, i)

Spec == Init /\ [][Next]_vars
=============================================================================
