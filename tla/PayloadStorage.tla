--------------------------- MODULE PayloadStorage ---------------------------
(***************************************************************************)
(* The payload codec of the worker: a payload over the threshold is put    *)
(* into S3 under a new key, and the history gets a reference to it.        *)
(*                                                                         *)
(* A call sends a list of payloads (an activity's arguments, a result) and *)
(* encodes all of it before anything is sent.  A put may fail after its    *)
(* predecessors succeeded, or take effect and be reported as failed; then  *)
(* the call, or the task that made it, is done again from the start.       *)
(* Peers without the codec (the gateway, the broker's update client) share *)
(* the history.  A content stands for the bytes of a payload and for its   *)
(* metadata, which a reference carries along.                              *)
(***************************************************************************)
EXTENDS Naturals, Sequences, SequencesExt

CONSTANTS
    Peers,
    Coded,          \* peers whose client has the codec: the workers
    Contents,       \* what payloads hold
    Size,           \* the size of each content
    Threshold,      \* threshold_bytes
    Lists,          \* the payload lists calls have
    Keys,           \* bound: the UUIDs that will be drawn
    MaxHistory      \* bound: entries of the history

ASSUME PeersAssumption == Coded \subseteq Peers
ASSUME ListsAssumption == Lists \subseteq Seq(Contents) \ {<<>>}
ASSUME SizesAssumption == Size \in [Contents -> Nat] /\ Threshold \in Nat
ASSUME HistoryBoundAssumption == MaxHistory \in Nat

VARIABLES
    store,          \* the objects of the bucket, by key
    sending,        \* by peer: the list of a call, and what is encoded of it
    history,        \* entries as Temporal has them: the sender and the payloads
    heard,          \* the last reading: who took which entry for what
    unread          \* who could not read which entry

vars == <<store, sending, history, heard, unread>>

-----------------------------------------------------------------------------
(* On the wire: the payload itself, or a reference, whose data is the key.   *)
Inline(content) == [encoding |-> "own", data |-> content]
Reference(k) == [encoding |-> "binary/s3", data |-> k]
Wire == {Inline(c) : c \in Contents} \cup {Reference(k) : k \in Keys}
NoReading == <<>>

TypeOK ==
    /\ DOMAIN store \subseteq Keys /\ \A k \in DOMAIN store : store[k] \in Contents
    /\ \A p \in Peers :
          /\ sending[p].list \in Lists \cup {<<>>}
          /\ sending[p].out \in Seq(Wire)
    /\ \A i \in DOMAIN history :
          /\ history[i].from \in Peers
          /\ history[i].payloads \in Seq(Wire)
    /\ heard \in {NoReading} \cup (Peers \X (1..MaxHistory) \X Lists)
    /\ unread \subseteq Peers \X (1..MaxHistory)

Silent == [list |-> <<>>, out |-> <<>>]

Init ==
    /\ store = <<>>
    /\ sending = [p \in Peers |-> Silent]
    /\ history = <<>>
    /\ heard = NoReading /\ unread = {}

-----------------------------------------------------------------------------
Begin(p, list) ==
    /\ sending[p] = Silent
    /\ sending' = [sending EXCEPT ![p].list = list]
    /\ UNCHANGED <<store, history, heard, unread>>

(* The next payload of the list.                                             *)
Left(p) == Len(sending[p].list) - Len(sending[p].out)
Upcoming(p) == sending[p].list[Len(sending[p].out) + 1]
Emits(p, wire) == sending' = [sending EXCEPT ![p].out = Append(@, wire)]

(* Variant of Spills: everything is.                                         *)
Always(p) == p \in Coded
Spills(p) == p \in Coded /\ Size[Upcoming(p)] > Threshold

KeepInline(p) ==
    /\ Left(p) > 0
    /\ ~Spills(p)
    /\ Emits(p, Inline(Upcoming(p)))
    /\ UNCHANGED <<store, history, heard, unread>>

(* Variant of NewKeys: the key depends on the payload's place in its list.   *)
KeyOfPlace(p) == {SetToSeq(Keys)[Len(sending[p].out) + 1]}
NewKeys(p) == Keys \ DOMAIN store

Stored(k, content) ==
    store' = [x \in DOMAIN store \cup {k} |-> IF x = k THEN content ELSE store[x]]

Put(p) ==
    /\ Left(p) > 0
    /\ Spills(p)
    /\ \E k \in NewKeys(p) :
          /\ Stored(k, Upcoming(p))
          /\ Emits(p, Reference(k))
    /\ UNCHANGED <<history, heard, unread>>

(* put_object raises: what was stored stays, and the call starts over.       *)
PutFails(p) ==
    /\ Left(p) > 0
    /\ Spills(p)
    /\ sending' = [sending EXCEPT ![p].out = <<>>]
    /\ \/ \E k \in NewKeys(p) : Stored(k, Upcoming(p))
       \/ UNCHANGED store
    /\ UNCHANGED <<history, heard, unread>>

Send(p) ==
    /\ sending[p].list # <<>> /\ Left(p) = 0
    /\ Len(history) < MaxHistory
    /\ history' = Append(history, [from |-> p, payloads |-> sending[p].out])
    /\ sending' = [sending EXCEPT ![p] = Silent]
    /\ UNCHANGED <<store, heard, unread>>

-----------------------------------------------------------------------------
IsReference(wire) == wire.encoding = "binary/s3"

Decoded(wire) == IF IsReference(wire) THEN store[wire.data] ELSE wire.data
Entry(i) == [j \in DOMAIN history[i].payloads |-> Decoded(history[i].payloads[j])]

(* Without the codec a reference is a payload of an unknown encoding, and    *)
(* the converter raises.  Variant of Readable: it is taken as data.          *)
TakenAsData(p, i) == TRUE
Readable(p, i) ==
    \/ p \in Coded
    \/ \A j \in DOMAIN history[i].payloads : ~IsReference(history[i].payloads[j])

(* What p makes of the entry's payloads.                                     *)
Understood(p, wire) ==
    IF p \in Coded THEN Decoded(wire) ELSE wire.data

Read(p, i) ==
    /\ IF Readable(p, i)
          THEN /\ heard' = <<p, i, [j \in DOMAIN history[i].payloads |->
                                       Understood(p, history[i].payloads[j])]>>
               /\ UNCHANGED unread
          ELSE unread' = unread \cup {<<p, i>>} /\ UNCHANGED heard
    /\ UNCHANGED <<store, sending, history>>

-----------------------------------------------------------------------------
Encode(p) == KeepInline(p) \/ Put(p) \/ PutFails(p)

Next ==
    \E p \in Peers :
        \/ \E list \in Lists : Begin(p, list)
        \/ Encode(p)
        \/ Send(p)
        \/ \E i \in DOMAIN history : Read(p, i)

Spec == Init /\ [][Next]_vars

-----------------------------------------------------------------------------
(* Whatever fails and is done again, an entry of the history reads for ever  *)
(* as the list its sender meant, and no reader hears anything else, with the *)
(* codec or without it (s3_codec.py:56-100).                                 *)
Meant == INSTANCE PayloadHistory WITH
    outbox <- [p \in Peers |-> sending[p].list],
    history <- [i \in DOMAIN history |-> Entry(i)]
HistoryIsAsMeant == Meant!Spec

(* A peer without the codec fails to read nothing but entries of workers     *)
(* that hold something over the threshold: the gateway's signals and the     *)
(* broker's small answers pass (worker.py:50-65, credential_proxy.py:57).    *)
OnlyLargeIsUnread ==
    \A i \in DOMAIN history, p \in Peers :
        <<p, i>> \in unread =>
            /\ p \notin Coded /\ history[i].from \in Coded
            /\ \E j \in DOMAIN history[i].payloads : Size[Entry(i)[j]] > Threshold
=============================================================================
