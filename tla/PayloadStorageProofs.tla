------------------------ MODULE PayloadStorageProofs ------------------------
(* Proofs about the payload codec, for every set of peers, with and without  *)
(* the codec, every size and threshold, any lists of payloads, any number of *)
(* keys and any length of the history.                                       *)
EXTENDS PayloadStorage, SequenceTheorems, TLAPS

(* What of the types TypeOK leaves open.                                     *)
Calls == [list: Lists \cup {<<>>}, out: Seq(Wire)]
Entries == [from: Peers, payloads: Seq(Wire)]
SequencesInv ==
    /\ sending \in [Peers -> Calls]
    /\ history \in Seq(Entries) /\ Len(history) <= MaxHistory
    /\ \A p \in Peers, i \in 1..MaxHistory : <<p, i>> \in unread => i \in DOMAIN history

(* What p puts on the wire for a content, given the objects st of a bucket.  *)
Large(p, content) == p \in Coded /\ Size[content] > Threshold
Encodes(st, p, wire, content) ==
    \/ ~Large(p, content) /\ wire = Inline(content)
    \/ Large(p, content) /\ \E k \in DOMAIN st : wire = Reference(k) /\ st[k] = content

(* Of every call the first payloads are encoded, and of every entry of the   *)
(* history all payloads of some list.                                        *)
SendingInv ==
    \A p \in Peers :
        /\ Len(sending[p].out) <= Len(sending[p].list)
        /\ \A j \in 1..Len(sending[p].out) :
              Encodes(store, p, sending[p].out[j], sending[p].list[j])
IsOf(st, entry, list) ==
    /\ Len(entry.payloads) = Len(list)
    /\ \A j \in 1..Len(list) : Encodes(st, entry.from, entry.payloads[j], list[j])
HistoryInv == \A i \in DOMAIN history : \E list \in Lists : IsOf(store, history[i], list)

IInv == TypeOK /\ SequencesInv /\ SendingInv /\ HistoryInv /\ OnlyLargeIsUnread

-----------------------------------------------------------------------------
(* Reading.                                                                  *)
DecodedBy(st, wire) == IF IsReference(wire) THEN st[wire.data] ELSE wire.data
Reads(st, entry) == [j \in DOMAIN entry.payloads |-> DecodedBy(st, entry.payloads[j])]

LEMMA EncodesIs ==
    ASSUME NEW st, NEW p, NEW wire, NEW content, Encodes(st, p, wire, content)
    PROVE  /\ DecodedBy(st, wire) = content
           /\ IsReference(wire) <=> Large(p, content)
           /\ ~IsReference(wire) => wire.data = content
<1>1. CASE wire = Inline(content) /\ ~Large(p, content)
  BY <1>1 DEF Inline, IsReference, DecodedBy
<1>2. ASSUME NEW k \in DOMAIN st, wire = Reference(k), st[k] = content, Large(p, content)
      PROVE  IsReference(wire) /\ DecodedBy(st, wire) = content
  BY <1>2 DEF Reference, IsReference, DecodedBy
<1> QED
  BY <1>1, <1>2 DEF Encodes

LEMMA ListIs ==
    ASSUME NEW list \in Lists
    PROVE  /\ Len(list) \in Nat \ {0} /\ DOMAIN list = 1..Len(list) /\ list # <<>>
           /\ list = [j \in 1..Len(list) |-> list[j]]
           /\ \A j \in 1..Len(list) : list[j] \in Contents
<1>1. list \in Seq(Contents) /\ list # <<>>
  BY ListsAssumption DEF ListsAssumption
<1>2. list \in [1..Len(list) -> Contents] /\ DOMAIN list = 1..Len(list)
  BY <1>1, LenProperties
<1>3. Len(list) \in Nat \ {0}
  BY <1>1, EmptySeq
<1> QED
  BY <1>1, <1>2, <1>3

(* An entry that is of a list reads as the list.                             *)
LEMMA EntryIs ==
    ASSUME NEW st, NEW entry \in Entries, NEW list \in Lists, IsOf(st, entry, list)
    PROVE  /\ DOMAIN entry.payloads = 1..Len(list)
           /\ Reads(st, entry) = list
           /\ \A j \in 1..Len(list) :
                 /\ IsReference(entry.payloads[j]) <=> Large(entry.from, list[j])
                 /\ ~IsReference(entry.payloads[j]) => entry.payloads[j].data = list[j]
<1>1. DOMAIN entry.payloads = 1..Len(list)
  <2>1. entry.payloads \in Seq(Wire)
    BY DEF Entries
  <2> QED
    BY <2>1, LenProperties DEF IsOf
<1>2. ASSUME NEW j \in 1..Len(list)
      PROVE  /\ DecodedBy(st, entry.payloads[j]) = list[j]
             /\ IsReference(entry.payloads[j]) <=> Large(entry.from, list[j])
             /\ ~IsReference(entry.payloads[j]) => entry.payloads[j].data = list[j]
  <2>1. Encodes(st, entry.from, entry.payloads[j], list[j])
    BY DEF IsOf
  <2> QED
    BY <2>1, EncodesIs
<1>3. Reads(st, entry) = [j \in 1..Len(list) |-> list[j]]
  BY <1>1, <1>2 DEF Reads
<1> QED
  BY <1>1, <1>2, <1>3, ListIs

(* What is written under a key stays.                                        *)
Extends(t, s) == DOMAIN s \subseteq DOMAIN t /\ \A k \in DOMAIN s : t[k] = s[k]

LEMMA EncodesKept ==
    ASSUME NEW s, NEW t, Extends(t, s), NEW p, NEW wire, NEW content,
           Encodes(s, p, wire, content)
    PROVE  Encodes(t, p, wire, content)
BY DEF Encodes, Extends

LEMMA IsOfKept ==
    ASSUME NEW s, NEW t, Extends(t, s), NEW entry, NEW list, IsOf(s, entry, list)
    PROVE  IsOf(t, entry, list)
BY EncodesKept DEF IsOf

-----------------------------------------------------------------------------
(* The steps of a call.                                                      *)
LEMMA CallIs ==
    ASSUME SequencesInv, NEW p \in Peers
    PROVE  /\ sending[p].list \in Lists \cup {<<>>} /\ sending[p].out \in Seq(Wire)
           /\ Len(sending[p].out) \in Nat /\ Len(sending[p].list) \in Nat
<1>1. sending[p].list \in Lists \cup {<<>>} /\ sending[p].out \in Seq(Wire)
  BY DEF SequencesInv, Calls
<1>2. Len(sending[p].out) \in Nat
  BY <1>1, LenProperties
<1>3. Len(sending[p].list) \in Nat
  <2>1. CASE sending[p].list = <<>>
    BY <2>1
  <2> QED
    BY <1>1, <2>1, ListIs
<1> QED
  BY <1>1, <1>2, <1>3

LEMMA StoredIs ==
    ASSUME NEW p, NEW k \in NewKeys(p), NEW content, Stored(k, content)
    PROVE  /\ Extends(store', store) /\ k \in DOMAIN store' /\ store'[k] = content
           /\ DOMAIN store' = DOMAIN store \cup {k}
BY DEF NewKeys, Stored, Extends

(* The next payload goes out as what its reader takes for it.                *)
LEMMA EncodeIs ==
    ASSUME SequencesInv, NEW p \in Peers, Encode(p)
    PROVE  /\ Left(p) > 0 /\ Upcoming(p) \in Contents
           /\ UNCHANGED <<history, heard, unread>> /\ Extends(store', store)
           /\ \A k \in DOMAIN store' : k \in DOMAIN store \/ (k \in Keys /\ store'[k] \in Contents)
           /\ \/ sending' = [sending EXCEPT ![p].out = <<>>]
              \/ \E wire \in Wire : Emits(p, wire) /\ Encodes(store', p, wire, Upcoming(p))
<1>1. Left(p) > 0 /\ UNCHANGED <<history, heard, unread>>
  BY DEF Encode, KeepInline, Put, PutFails
<1>2. Upcoming(p) \in Contents
  <2>1. Len(sending[p].out) + 1 \in 1..Len(sending[p].list)
    <3> DEFINE m == Len(sending[p].out)
               n == Len(sending[p].list)
    <3>1. m \in Nat /\ n \in Nat
      BY CallIs
    <3>2. n - m > 0
      BY <1>1 DEF Left
    <3> HIDE DEF m, n
    <3>3. m + 1 \in 1..n
      BY <3>1, <3>2
    <3> QED
      BY <3>3 DEF m, n
  <2>2. sending[p].list \in Lists
    <3>1. CASE sending[p].list = <<>>
      BY <2>1, <3>1
    <3> QED
      BY <3>1, CallIs
  <2> QED
    BY <2>1, <2>2, ListIs DEF Upcoming
<1>3. CASE KeepInline(p)
  <2>1. store' = store /\ Emits(p, Inline(Upcoming(p))) /\ ~Large(p, Upcoming(p))
    BY <1>3 DEF KeepInline, Spills, Large
  <2>2. Inline(Upcoming(p)) \in Wire
    BY <1>2 DEF Wire
  <2> QED
    BY <1>1, <1>2, <2>1, <2>2 DEF Encodes, Extends
<1>4. CASE Put(p)
  <2>1. PICK k \in NewKeys(p) : Stored(k, Upcoming(p)) /\ Emits(p, Reference(k))
    BY <1>4 DEF Put
  <2>2. Large(p, Upcoming(p))
    BY <1>4 DEF Put, Spills, Large
  <2>3. k \in Keys /\ Reference(k) \in Wire
    BY DEF NewKeys, Wire
  <2>4. /\ Extends(store', store) /\ k \in DOMAIN store' /\ store'[k] = Upcoming(p)
        /\ DOMAIN store' = DOMAIN store \cup {k}
    BY <2>1, StoredIs
  <2>5. Encodes(store', p, Reference(k), Upcoming(p))
    BY <2>2, <2>4 DEF Encodes
  <2> QED
    BY <1>1, <1>2, <2>1, <2>3, <2>4, <2>5
<1>5. CASE PutFails(p)
  <2>1. sending' = [sending EXCEPT ![p].out = <<>>]
    BY <1>5 DEF PutFails
  <2>2. CASE UNCHANGED store
    BY <1>1, <1>2, <2>1, <2>2 DEF Extends
  <2>3. ASSUME NEW k \in NewKeys(p), Stored(k, Upcoming(p))
        PROVE  /\ Extends(store', store)
               /\ \A x \in DOMAIN store' :
                     x \in DOMAIN store \/ (x \in Keys /\ store'[x] \in Contents)
    <3>1. /\ Extends(store', store) /\ store'[k] = Upcoming(p)
          /\ DOMAIN store' = DOMAIN store \cup {k}
      BY <2>3, StoredIs
    <3>2. k \in Keys
      BY DEF NewKeys
    <3> QED
      BY <1>2, <3>1, <3>2
  <2> QED
    BY <1>1, <1>2, <1>5, <2>1, <2>2, <2>3 DEF PutFails
<1> QED
  BY <1>3, <1>4, <1>5 DEF Encode

(* A payload is added at the end of what the call has encoded.               *)
LEMMA EmitIs ==
    ASSUME SequencesInv, NEW p \in Peers, NEW wire \in Wire, Emits(p, wire)
    PROVE  LET out == sending[p].out
           IN  /\ sending' \in [Peers -> Calls]
               /\ sending'[p].list = sending[p].list
               /\ Len(sending'[p].out) = Len(out) + 1
               /\ sending'[p].out[Len(out) + 1] = wire
               /\ \A j \in 1..Len(out) : sending'[p].out[j] = out[j]
               /\ \A q \in Peers \ {p} : sending'[q] = sending[q]
<1> DEFINE out == sending[p].out
           new == Append(out, wire)
<1>1. out \in Seq(Wire) /\ sending \in [Peers -> Calls]
  BY CallIs DEF SequencesInv
<1>2. /\ new \in Seq(Wire) /\ Len(new) = Len(out) + 1 /\ new[Len(out) + 1] = wire
      /\ \A j \in 1..Len(out) : new[j] = out[j]
  BY <1>1, AppendProperties
<1>3. sending' = [sending EXCEPT ![p].out = new]
  BY DEF Emits
<1> HIDE DEF new
<1>4. sending'[p].out = new /\ sending'[p].list = sending[p].list
  BY <1>1, <1>3 DEF Calls
<1>5. \A q \in Peers \ {p} : sending'[q] = sending[q]
  BY <1>1, <1>3
<1>6. sending' \in [Peers -> Calls]
  BY <1>1, <1>2, <1>3 DEF Calls
<1> QED
  BY <1>2, <1>4, <1>5, <1>6

LEMMA StoreExtends == SequencesInv /\ [Next]_vars => Extends(store', store)
<1> SUFFICES ASSUME SequencesInv, [Next]_vars PROVE Extends(store', store)
  OBVIOUS
<1>1. ASSUME NEW p \in Peers, Encode(p) PROVE Extends(store', store)
  BY <1>1, EncodeIs
<1>2. CASE UNCHANGED store
  BY <1>2 DEF Extends
<1> QED
  BY <1>1, <1>2 DEF Next, Begin, Send, Read, vars

-----------------------------------------------------------------------------
(* Types.                                                                    *)
LEMMA SendIs ==
    ASSUME SequencesInv, SendingInv, NEW p \in Peers, Send(p)
    PROVE  LET new == [from |-> p, payloads |-> sending[p].out]
           IN  /\ new \in Entries /\ history' = Append(history, new)
               /\ sending[p].list \in Lists /\ IsOf(store, new, sending[p].list)
               /\ sending' = [sending EXCEPT ![p] = Silent]
               /\ UNCHANGED <<store, heard, unread>> /\ Len(history) < MaxHistory
<1> DEFINE new == [from |-> p, payloads |-> sending[p].out]
<1>1. /\ sending[p].list \in Lists /\ sending[p].out \in Seq(Wire)
      /\ Len(sending[p].out) \in Nat /\ Len(sending[p].list) \in Nat
  BY CallIs DEF Send
<1>2. Len(sending[p].list) - Len(sending[p].out) = 0
  BY DEF Send, Left
<1>3. Len(sending[p].out) = Len(sending[p].list)
  BY <1>1, <1>2
<1>4. new \in Entries /\ new.from = p /\ new.payloads = sending[p].out
  BY <1>1 DEF Entries
<1>5. IsOf(store, new, sending[p].list)
  BY <1>3, <1>4 DEF IsOf, SendingInv
<1> QED
  BY <1>1, <1>4, <1>5 DEF Send

(* The histories' entries are never touched again.                           *)
LEMMA HistoryIs ==
    ASSUME SequencesInv, SendingInv, [Next]_vars
    PROVE  /\ Len(history) \in Nat /\ DOMAIN history = 1..Len(history)
           /\ history' \in Seq(Entries) /\ DOMAIN history' = 1..Len(history')
           /\ Len(history') \in {Len(history), Len(history) + 1} /\ Len(history') <= MaxHistory
           /\ \A i \in DOMAIN history : i \in DOMAIN history' /\ history'[i] = history[i]
<1>1. /\ history \in Seq(Entries) /\ Len(history) \in Nat /\ Len(history) <= MaxHistory
      /\ DOMAIN history = 1..Len(history)
  BY LenProperties DEF SequencesInv
<1>2. CASE UNCHANGED history
  BY <1>1, <1>2
<1>3. ASSUME NEW p \in Peers, Send(p)
      PROVE  /\ history' \in Seq(Entries) /\ DOMAIN history' = 1..Len(history')
             /\ Len(history') = Len(history) + 1 /\ Len(history') <= MaxHistory
             /\ \A i \in DOMAIN history : i \in DOMAIN history' /\ history'[i] = history[i]
  <2> DEFINE new == [from |-> p, payloads |-> sending[p].out]
  <2>1. new \in Entries /\ history' = Append(history, new) /\ Len(history) < MaxHistory
    BY <1>3, SendIs
  <2> HIDE DEF new
  <2>2. /\ history' \in Seq(Entries) /\ Len(history') = Len(history) + 1
        /\ \A i \in 1..Len(history) : history'[i] = history[i]
    BY <1>1, <2>1, AppendProperties
  <2>3. DOMAIN history' = 1..Len(history')
    BY <2>2, LenProperties
  <2>4. Len(history') <= MaxHistory
    BY <1>1, <2>1, <2>2, HistoryBoundAssumption DEF HistoryBoundAssumption
  <2>5. \A i \in DOMAIN history : i \in DOMAIN history'
    BY <1>1, <2>2, <2>3
  <2> QED
    BY <1>1, <2>2, <2>3, <2>4, <2>5
<1>4. ASSUME NEW p \in Peers, Encode(p) PROVE UNCHANGED history
  BY <1>4 DEF Encode, KeepInline, Put, PutFails
<1> QED
  BY <1>1, <1>2, <1>3, <1>4 DEF Next, Begin, Read, vars

(* What a reader with the codec, or without it, makes of an entry.           *)
LEMMA ReadIs ==
    ASSUME TypeOK, SequencesInv, HistoryInv, NEW p \in Peers, NEW i \in DOMAIN history, Read(p, i)
    PROVE  /\ i \in 1..MaxHistory /\ Entry(i) \in Lists
           /\ \/ heard' = <<p, i, Entry(i)>> /\ UNCHANGED unread
              \/ /\ unread' = unread \cup {<<p, i>>} /\ UNCHANGED heard
                 /\ p \notin Coded /\ history[i].from \in Coded
                 /\ \E j \in DOMAIN history[i].payloads : Size[Entry(i)[j]] > Threshold
<1>1. i \in 1..MaxHistory /\ history[i] \in Entries
  <2>1. /\ history \in Seq(Entries) /\ Len(history) \in Nat /\ Len(history) <= MaxHistory
        /\ DOMAIN history = 1..Len(history)
    BY LenProperties DEF SequencesInv
  <2>2. history[i] \in Entries
    BY <2>1, ElementOfSeq
  <2>3. i \in 1..MaxHistory
    BY <2>1, HistoryBoundAssumption DEF HistoryBoundAssumption
  <2> QED
    BY <2>2, <2>3
<1>2. PICK list \in Lists : IsOf(store, history[i], list)
  BY DEF HistoryInv
<1>3. /\ DOMAIN history[i].payloads = 1..Len(list) /\ Reads(store, history[i]) = list
      /\ \A j \in 1..Len(list) :
            /\ IsReference(history[i].payloads[j]) <=> Large(history[i].from, list[j])
            /\ ~IsReference(history[i].payloads[j]) => history[i].payloads[j].data = list[j]
  BY <1>1, <1>2, EntryIs
<1>4. Entry(i) = list
  BY <1>3 DEF Entry, Decoded, Reads, DecodedBy
<1>5. CASE Readable(p, i)
  <2>1. \A j \in 1..Len(list) : Understood(p, history[i].payloads[j]) = list[j]
    <3>1. CASE p \in Coded
      <4>1. \A j \in 1..Len(list) :
               Understood(p, history[i].payloads[j]) = Reads(store, history[i])[j]
        BY <1>3, <3>1 DEF Understood, Decoded, Reads, DecodedBy
      <4> QED
        BY <1>3, <4>1
    <3>2. CASE p \notin Coded
      BY <1>3, <1>5, <3>2 DEF Understood, Readable
    <3> QED
      BY <3>1, <3>2
  <2>2. [j \in DOMAIN history[i].payloads |-> Understood(p, history[i].payloads[j])] = list
    <3>1. [j \in 1..Len(list) |-> Understood(p, history[i].payloads[j])]
             = [j \in 1..Len(list) |-> list[j]]
      BY <2>1
    <3> QED
      BY <1>3, <3>1, ListIs
  <2> QED
    BY <1>1, <1>4, <1>5, <2>2 DEF Read
<1>6. CASE ~Readable(p, i)
  <2>1. PICK j \in DOMAIN history[i].payloads : IsReference(history[i].payloads[j])
    BY <1>6 DEF Readable
  <2>2. Large(history[i].from, list[j])
    BY <1>3, <2>1
  <2>3. p \notin Coded /\ history[i].from \in Coded /\ Size[Entry(i)[j]] > Threshold
    BY <1>4, <1>6, <2>2 DEF Large, Readable
  <2>4. unread' = unread \cup {<<p, i>>} /\ UNCHANGED heard
    BY <1>6 DEF Read
  <2> QED
    BY <1>1, <1>4, <2>3, <2>4
<1> QED
  BY <1>5, <1>6

LEMMA NextSequences ==
    TypeOK /\ SequencesInv /\ SendingInv /\ HistoryInv /\ [Next]_vars => SequencesInv'
<1> SUFFICES ASSUME TypeOK, SequencesInv, SendingInv, HistoryInv, [Next]_vars
             PROVE  SequencesInv'
  OBVIOUS
<1>1. sending' \in [Peers -> Calls]
  <2>1. sending \in [Peers -> Calls]
    BY DEF SequencesInv
  <2>2. ASSUME NEW p \in Peers, NEW list \in Lists, Begin(p, list)
        PROVE  sending' \in [Peers -> Calls]
    BY <2>1, <2>2 DEF Begin, Calls
  <2>3. ASSUME NEW p \in Peers, Encode(p) PROVE sending' \in [Peers -> Calls]
    <3>1. <<>> \in Seq(Wire)
      BY EmptySeq
    <3>2. CASE sending' = [sending EXCEPT ![p].out = <<>>]
      BY <2>1, <3>1, <3>2 DEF Calls
    <3>3. ASSUME NEW wire \in Wire, Emits(p, wire) PROVE sending' \in [Peers -> Calls]
      BY <3>3, EmitIs
    <3> QED
      BY <2>3, <3>2, <3>3, EncodeIs
  <2>4. ASSUME NEW p \in Peers, Send(p) PROVE sending' \in [Peers -> Calls]
    <3>1. Silent \in Calls
      BY EmptySeq DEF Silent, Calls
    <3> QED
      BY <2>1, <2>4, <3>1 DEF Send
  <2> QED
    BY <2>1, <2>2, <2>3, <2>4 DEF Next, Read, vars
<1>2. \A q \in Peers, i \in 1..MaxHistory : <<q, i>> \in unread' => i \in DOMAIN history'
  <2>1. \A q \in Peers, i \in 1..MaxHistory : <<q, i>> \in unread => i \in DOMAIN history'
    BY HistoryIs DEF SequencesInv
  <2>2. ASSUME NEW p \in Peers, NEW i \in DOMAIN history, Read(p, i)
        PROVE  unread' \subseteq unread \cup {<<p, i>>}
    BY <2>2, ReadIs
  <2>3. ASSUME NEW p \in Peers, Encode(p) PROVE unread' = unread
    BY <2>3, EncodeIs
  <2>4. \/ unread' = unread
        \/ \E p \in Peers : \E i \in DOMAIN history : unread' \subseteq unread \cup {<<p, i>>}
    BY <2>2, <2>3 DEF Next, Begin, Send, vars
  <2> QED
    BY <2>1, <2>4, HistoryIs
<1> QED
  BY <1>1, <1>2, HistoryIs DEF SequencesInv

LEMMA NextType ==
    TypeOK /\ SequencesInv /\ SendingInv /\ HistoryInv /\ [Next]_vars => TypeOK'
<1> SUFFICES ASSUME TypeOK, SequencesInv, SendingInv, HistoryInv, [Next]_vars PROVE TypeOK'
  OBVIOUS
<1>1. DOMAIN store' \subseteq Keys /\ \A k \in DOMAIN store' : store'[k] \in Contents
  <2>1. ASSUME NEW p \in Peers, Encode(p)
        PROVE  DOMAIN store' \subseteq Keys /\ \A k \in DOMAIN store' : store'[k] \in Contents
    <3>1. /\ Extends(store', store)
          /\ \A k \in DOMAIN store' : k \in DOMAIN store \/ (k \in Keys /\ store'[k] \in Contents)
      BY <2>1, EncodeIs
    <3> QED
      BY <3>1 DEF TypeOK, Extends
  <2>2. CASE UNCHANGED store
    BY <2>2 DEF TypeOK
  <2> QED
    BY <2>1, <2>2 DEF Next, Begin, Send, Read, vars
<1>2. SequencesInv'
  BY NextSequences
<1>3. \A p \in Peers : sending'[p].list \in Lists \cup {<<>>} /\ sending'[p].out \in Seq(Wire)
  BY <1>2 DEF SequencesInv, Calls
<1>4. \A i \in DOMAIN history' : /\ history'[i].from \in Peers
                                 /\ history'[i].payloads \in Seq(Wire)
  <2> SUFFICES ASSUME NEW i \in DOMAIN history' PROVE history'[i] \in Entries
    BY DEF Entries
  <2>1. history' \in Seq(Entries) /\ DOMAIN history' = 1..Len(history')
    BY HistoryIs
  <2> QED
    BY <2>1, ElementOfSeq
<1>5. /\ heard' \in {NoReading} \cup (Peers \X (1..MaxHistory) \X Lists)
      /\ unread' \subseteq Peers \X (1..MaxHistory)
  <2>1. ASSUME NEW p \in Peers, NEW i \in DOMAIN history, Read(p, i)
        PROVE  /\ heard' \in {NoReading} \cup (Peers \X (1..MaxHistory) \X Lists)
               /\ unread' \subseteq Peers \X (1..MaxHistory)
    <3>1. i \in 1..MaxHistory /\ Entry(i) \in Lists
      BY <2>1, ReadIs
    <3>2. \/ heard' = <<p, i, Entry(i)>> /\ UNCHANGED unread
          \/ unread' = unread \cup {<<p, i>>} /\ UNCHANGED heard
      BY <2>1, ReadIs
    <3> QED
      BY <3>1, <3>2 DEF TypeOK
  <2>2. ASSUME NEW p \in Peers, Encode(p) PROVE UNCHANGED <<heard, unread>>
    BY <2>2, EncodeIs
  <2>3. CASE UNCHANGED <<heard, unread>>
    BY <2>3 DEF TypeOK
  <2> QED
    BY <2>1, <2>2, <2>3 DEF Next, Begin, Send, vars
<1> QED
  BY <1>1, <1>3, <1>4, <1>5 DEF TypeOK

-----------------------------------------------------------------------------
(* Calls and entries stand for what was meant.                               *)
LEMMA NextSending == SequencesInv /\ SendingInv /\ [Next]_vars => SendingInv'
<1> SUFFICES ASSUME SequencesInv, SendingInv, [Next]_vars, NEW q \in Peers
             PROVE  /\ Len(sending'[q].out) <= Len(sending'[q].list)
                    /\ \A j \in 1..Len(sending'[q].out) :
                          Encodes(store', q, sending'[q].out[j], sending'[q].list[j])
  BY DEF SendingInv, Encodes, Large, Inline, Reference
<1>0. sending \in [Peers -> Calls]
  BY DEF SequencesInv
<1>i. /\ Len(sending[q].out) <= Len(sending[q].list)
      /\ \A j \in 1..Len(sending[q].out) :
            Encodes(store', q, sending[q].out[j], sending[q].list[j])
  BY StoreExtends, EncodesKept DEF SendingInv
<1>1. CASE sending'[q] = sending[q]
  BY <1>i, <1>1
<1>2. CASE sending'[q].out = <<>>
  <2>1. Len(sending'[q].out) = 0
    BY <1>2
  <2>2. Len(sending'[q].list) \in Nat
    <3>1. CASE sending'[q].list = sending[q].list
      BY <3>1, CallIs
    <3>2. CASE sending'[q].list \in Lists
      BY <3>2, ListIs
    <3>3. CASE sending'[q].list = <<>>
      BY <3>3
    <3>4. ASSUME NEW p \in Peers, NEW list \in Lists, Begin(p, list)
          PROVE  sending'[q].list \in {sending[q].list, list}
      BY <1>0, <3>4 DEF Begin, Calls
    <3>5. ASSUME NEW p \in Peers, Encode(p) PROVE sending'[q].list = sending[q].list
      <4>1. CASE sending' = [sending EXCEPT ![p].out = <<>>]
        BY <1>0, <4>1 DEF Calls
      <4>2. ASSUME NEW wire \in Wire, Emits(p, wire) PROVE sending'[q].list = sending[q].list
        BY <4>2, EmitIs
      <4> QED
        BY <3>5, <4>1, <4>2, EncodeIs
    <3>6. ASSUME NEW p \in Peers, Send(p) PROVE sending'[q].list \in {sending[q].list, <<>>}
      BY <1>0, <3>6 DEF Send, Silent, Calls
    <3>7. CASE sending' = sending
      BY <3>1, <3>7
    <3> QED
      BY <3>1, <3>2, <3>3, <3>4, <3>5, <3>6, <3>7 DEF Next, Read, vars
  <2> QED
    BY <2>1, <2>2
<1>3. ASSUME NEW wire \in Wire, Encode(q), Emits(q, wire), Encodes(store', q, wire, Upcoming(q))
      PROVE  /\ Len(sending'[q].out) <= Len(sending'[q].list)
             /\ \A j \in 1..Len(sending'[q].out) :
                   Encodes(store', q, sending'[q].out[j], sending'[q].list[j])
  <2> DEFINE m == Len(sending[q].out)
             n == Len(sending[q].list)
  <2>1. /\ sending'[q].list = sending[q].list /\ Len(sending'[q].out) = m + 1
        /\ sending'[q].out[m + 1] = wire
        /\ \A j \in 1..m : sending'[q].out[j] = sending[q].out[j]
    BY <1>3, EmitIs
  <2>2. m \in Nat /\ n \in Nat /\ n - m > 0
    BY <1>3, CallIs, EncodeIs DEF Left
  <2>3. Encodes(store', q, wire, sending[q].list[m + 1])
    BY <1>3 DEF Upcoming
  <2>4. \A j \in 1..m : Encodes(store', q, sending[q].out[j], sending[q].list[j])
    BY <1>i
  <2>5. Len(sending'[q].list) = n
    BY <2>1
  <2> HIDE DEF m, n
  <2>6. m + 1 <= n /\ \A j \in 1..(m + 1) : j \in 1..m \/ j = m + 1
    BY <2>2
  <2> QED
    BY <2>1, <2>3, <2>4, <2>5, <2>6
<1>4. ASSUME NEW p \in Peers, NEW list \in Lists, Begin(p, list)
      PROVE  sending'[q] = sending[q] \/ sending'[q].out = <<>>
  BY <1>0, <1>4 DEF Begin, Calls, Silent
<1>5. ASSUME NEW p \in Peers, Encode(p)
      PROVE  \/ sending'[q] = sending[q] \/ sending'[q].out = <<>>
             \/ \E wire \in Wire : /\ Encode(q) /\ Emits(q, wire)
                                   /\ Encodes(store', q, wire, Upcoming(q))
  <2>1. CASE sending' = [sending EXCEPT ![p].out = <<>>]
    BY <1>0, <2>1 DEF Calls
  <2>2. ASSUME NEW wire \in Wire, Emits(p, wire), Encodes(store', p, wire, Upcoming(p))
        PROVE  sending'[q] = sending[q] \/ p = q
    BY <2>2, EmitIs
  <2> QED
    BY <1>5, <2>1, <2>2, EncodeIs
<1>6. ASSUME NEW p \in Peers, Send(p) PROVE sending'[q] = sending[q] \/ sending'[q].out = <<>>
  BY <1>0, <1>6 DEF Send, Silent
<1>7. CASE sending' = sending
  BY <1>1, <1>7
<1> QED
  BY <1>1, <1>2, <1>3, <1>4, <1>5, <1>6, <1>7 DEF Next, Read, vars

LEMMA NextHistory == SequencesInv /\ SendingInv /\ HistoryInv /\ [Next]_vars => HistoryInv'
<1> SUFFICES ASSUME SequencesInv, SendingInv, HistoryInv, [Next]_vars, NEW i \in DOMAIN history'
             PROVE  \E list \in Lists : IsOf(store', history'[i], list)
  BY DEF HistoryInv, IsOf, Encodes, Large, Inline, Reference
<1>1. CASE i \in DOMAIN history
  <2>1. PICK list \in Lists : IsOf(store, history[i], list)
    BY <1>1 DEF HistoryInv
  <2>2. IsOf(store', history[i], list)
    BY <2>1, StoreExtends, IsOfKept
  <2> QED
    BY <1>1, <2>2, HistoryIs
<1>2. ASSUME NEW p \in Peers, Send(p), i \notin DOMAIN history
      PROVE  \E list \in Lists : IsOf(store', history'[i], list)
  <2> DEFINE new == [from |-> p, payloads |-> sending[p].out]
  <2>1. /\ new \in Entries /\ history' = Append(history, new) /\ UNCHANGED store
        /\ sending[p].list \in Lists /\ IsOf(store, new, sending[p].list)
    BY <1>2, SendIs
  <2> HIDE DEF new
  <2>2. history \in Seq(Entries)
    BY DEF SequencesInv
  <2>3. Len(history') = Len(history) + 1 /\ history'[Len(history) + 1] = new
    BY <2>1, <2>2, AppendProperties
  <2>4. i = Len(history) + 1
    <3>1. /\ Len(history) \in Nat /\ DOMAIN history = 1..Len(history)
          /\ DOMAIN history' = 1..Len(history')
      BY HistoryIs
    <3> QED
      BY <1>2, <2>3, <3>1
  <2> QED
    BY <2>1, <2>3, <2>4
<1>3. ASSUME NEW p \in Peers, Encode(p) PROVE UNCHANGED history
  BY <1>3, EncodeIs
<1> QED
  BY <1>1, <1>2, <1>3 DEF Next, Begin, Read, vars

(* What an entry reads as does not change.                                   *)
LEMMA EntryStays ==
    ASSUME SequencesInv, SendingInv, HistoryInv, [Next]_vars, NEW i \in DOMAIN history
    PROVE  /\ i \in DOMAIN history' /\ history'[i] = history[i]
           /\ Entry(i) \in Lists /\ Entry(i)' = Entry(i)
<1>1. PICK list \in Lists : IsOf(store, history[i], list)
  BY DEF HistoryInv
<1>2. IsOf(store', history[i], list)
  BY <1>1, StoreExtends, IsOfKept
<1>3. history[i] \in Entries
  <2>1. history \in Seq(Entries) /\ DOMAIN history = 1..Len(history)
    BY LenProperties DEF SequencesInv
  <2> QED
    BY <2>1, ElementOfSeq
<1>4. i \in DOMAIN history' /\ history'[i] = history[i]
  BY HistoryIs
<1>5. Reads(store, history[i]) = list /\ Reads(store', history[i]) = list
  BY <1>1, <1>2, <1>3, EntryIs
<1>6. Entry(i) = Reads(store, history[i])
  BY DEF Entry, Decoded, Reads, DecodedBy
<1>7. Entry(i)' = Reads(store', history'[i])
  BY DEF Entry, Decoded, Reads, DecodedBy
<1> QED
  BY <1>4, <1>5, <1>6, <1>7

(* The entry that is added reads as the list its sender meant.               *)
LEMMA EntryAdded ==
    ASSUME SequencesInv, SendingInv, NEW p \in Peers, Send(p), NEW n, n = Len(history)
    PROVE  /\ n \in Nat /\ DOMAIN history = 1..n /\ DOMAIN history' = 1..(n + 1)
           /\ Entry(n + 1)' = sending[p].list /\ sending[p].list \in Lists
<1> DEFINE new == [from |-> p, payloads |-> sending[p].out]
<1>1. /\ new \in Entries /\ history' = Append(history, new) /\ UNCHANGED store
      /\ sending[p].list \in Lists /\ IsOf(store, new, sending[p].list)
  BY SendIs
<1> HIDE DEF new
<1>2. history \in Seq(Entries) /\ n \in Nat /\ DOMAIN history = 1..n
  BY LenProperties DEF SequencesInv
<1>3. history' \in Seq(Entries) /\ Len(history') = n + 1 /\ history'[n + 1] = new
  BY <1>1, <1>2, AppendProperties
<1>4. DOMAIN history' = 1..(n + 1)
  BY <1>3, LenProperties
<1>5. Reads(store', new) = sending[p].list
  BY <1>1, EntryIs
<1>6. Entry(n + 1)' = Reads(store', history'[n + 1])
  BY DEF Entry, Decoded, Reads, DecodedBy
<1> QED
  BY <1>1, <1>2, <1>3, <1>4, <1>5, <1>6

LEMMA NextUnread == IInv /\ [Next]_vars => OnlyLargeIsUnread'
<1> SUFFICES ASSUME IInv, [Next]_vars PROVE OnlyLargeIsUnread'
  OBVIOUS
<1>i. TypeOK /\ SequencesInv /\ SendingInv /\ HistoryInv /\ OnlyLargeIsUnread
  BY DEF IInv
<1>1. ASSUME NEW i \in DOMAIN history', NEW q \in Peers, <<q, i>> \in unread
      PROVE  /\ q \notin Coded /\ history'[i].from \in Coded
             /\ \E j \in DOMAIN history'[i].payloads : Size[Entry(i)'[j]] > Threshold
  <2>1. i \in DOMAIN history
    BY <1>i, <1>1 DEF TypeOK, SequencesInv
  <2>2. history'[i] = history[i] /\ Entry(i)' = Entry(i)
    BY <1>i, <2>1, EntryStays
  <2> QED
    BY <1>i, <1>1, <2>1, <2>2 DEF OnlyLargeIsUnread
<1>2. ASSUME NEW p \in Peers, NEW i \in DOMAIN history, Read(p, i)
      PROVE  \/ unread' = unread
             \/ /\ unread' = unread \cup {<<p, i>>} /\ p \notin Coded /\ history'[i].from \in Coded
                /\ \E j \in DOMAIN history'[i].payloads : Size[Entry(i)'[j]] > Threshold
  <2>1. history'[i] = history[i] /\ Entry(i)' = Entry(i)
    BY <1>i, EntryStays
  <2> QED
    BY <1>i, <1>2, <2>1, ReadIs
<1>3. CASE unread' = unread
  BY <1>1, <1>3 DEF OnlyLargeIsUnread
<1>4. ASSUME NEW p \in Peers, NEW i \in DOMAIN history, Read(p, i) PROVE OnlyLargeIsUnread'
  <2>1. CASE unread' = unread
    BY <1>3, <2>1
  <2>2. CASE /\ unread' = unread \cup {<<p, i>>} /\ p \notin Coded /\ history'[i].from \in Coded
             /\ \E j \in DOMAIN history'[i].payloads : Size[Entry(i)'[j]] > Threshold
    <3> SUFFICES ASSUME NEW k \in DOMAIN history', NEW q \in Peers, <<q, k>> \in unread'
                 PROVE  /\ q \notin Coded /\ history'[k].from \in Coded
                        /\ \E j \in DOMAIN history'[k].payloads : Size[Entry(k)'[j]] > Threshold
      BY DEF OnlyLargeIsUnread
    <3>1. <<q, k>> \in unread \/ (q = p /\ k = i)
      BY <2>2
    <3> QED
      BY <1>1, <2>2, <3>1
  <2> QED
    BY <1>2, <1>4, <2>1, <2>2
<1>5. ASSUME NEW p \in Peers, Encode(p) PROVE UNCHANGED unread
  BY <1>i, <1>5, EncodeIs
<1> QED
  BY <1>3, <1>4, <1>5 DEF Next, Begin, Send, vars

-----------------------------------------------------------------------------
LEMMA InitInv == Init => IInv
<1> SUFFICES ASSUME Init PROVE IInv
  OBVIOUS
<1> USE DEF Init
<1>1. /\ <<>> \in Seq(Wire) /\ history \in Seq(Entries)
      /\ DOMAIN history = {} /\ Len(history) = 0 /\ DOMAIN store = {}
  BY EmptySeq
<1>2. TypeOK
  BY <1>1 DEF TypeOK, Silent
<1>3. SequencesInv
  BY <1>1, HistoryBoundAssumption DEF SequencesInv, Calls, Silent, HistoryBoundAssumption
<1>4. SendingInv /\ HistoryInv /\ OnlyLargeIsUnread
  BY <1>1 DEF SendingInv, HistoryInv, OnlyLargeIsUnread, Silent
<1> QED
  BY <1>2, <1>3, <1>4 DEF IInv

(* The inductive invariant: what is on the wire, in a call under way or in   *)
(* the history, stands for the content that was meant, and the objects it    *)
(* refers to are there and keep what they hold (s3_codec.py:56-100).         *)
THEOREM Invariance == Spec => []IInv
<1>1. IInv /\ [Next]_vars => IInv'
  BY NextType, NextSequences, NextSending, NextHistory, NextUnread DEF IInv
<1> QED
  BY <1>1, InitInv, PTL DEF Spec

(* TypeOK: every variable keeps to its type.                                 *)
THEOREM TypeCorrect == Spec => []TypeOK
<1>1. IInv => TypeOK
  BY DEF IInv
<1> QED
  BY <1>1, Invariance, PTL

(* A peer without the codec fails to read nothing but entries of workers     *)
(* that hold something over the threshold (worker.py:50-65).                 *)
THEOREM SmallIsRead == Spec => []OnlyLargeIsUnread
<1>1. IInv => OnlyLargeIsUnread
  BY DEF IInv
<1> QED
  BY <1>1, Invariance, PTL

-----------------------------------------------------------------------------
(* The history as its peers are to see it.                                   *)
outbox == [p \in Peers |-> sending[p].list]
meant == [i \in DOMAIN history |-> Entry(i)]
MeantStep == [Meant!Next]_<<outbox, meant, heard>>

(* Encoding is not seen; a call that is begun, sent or read is.              *)
LEMMA NextMeant == IInv /\ [Next]_vars => MeantStep
<1> SUFFICES ASSUME IInv, [Next]_vars PROVE MeantStep
  OBVIOUS
<1>i. TypeOK /\ SequencesInv /\ SendingInv /\ HistoryInv /\ sending \in [Peers -> Calls]
  BY DEF IInv, SequencesInv
<1>1. ASSUME UNCHANGED history PROVE UNCHANGED meant
  <2>1. \A i \in DOMAIN history : Entry(i)' = Entry(i)
    BY <1>i, EntryStays
  <2> QED
    BY <1>1, <2>1 DEF meant
<1>2. ASSUME NEW p \in Peers, NEW list \in Lists, Begin(p, list) PROVE MeantStep
  <2>1. outbox[p] = <<>> /\ outbox' = [outbox EXCEPT ![p] = list]
    <3>1. sending[p].list = <<>>
      BY <1>2 DEF Begin, Silent
    <3>2. /\ sending'[p].list = list
          /\ \A q \in Peers \ {p} : sending'[q] = sending[q]
      BY <1>i, <1>2 DEF Begin, Calls
    <3> QED
      BY <3>1, <3>2 DEF outbox
  <2>2. UNCHANGED <<meant, heard>>
    BY <1>1, <1>2 DEF Begin
  <2>3. Meant!Next
    BY <2>1, <2>2 DEF Meant!Next, Meant!Begin, outbox, meant
  <2> QED
    BY <2>3 DEF MeantStep
<1>3. ASSUME NEW p \in Peers, Encode(p) PROVE MeantStep
  <2>1. UNCHANGED <<history, heard>>
    BY <1>i, <1>3, EncodeIs
  <2>2. UNCHANGED outbox
    <3>1. CASE sending' = [sending EXCEPT ![p].out = <<>>]
      BY <1>i, <3>1 DEF outbox, Calls
    <3>2. ASSUME NEW wire \in Wire, Emits(p, wire) PROVE UNCHANGED outbox
      <4>1. \A q \in Peers : sending'[q].list = sending[q].list
        BY <1>i, <3>2, EmitIs
      <4> QED
        BY <4>1 DEF outbox
    <3> QED
      BY <1>i, <1>3, <3>1, <3>2, EncodeIs
  <2> QED
    BY <1>1, <2>1, <2>2 DEF MeantStep
<1>4. ASSUME NEW p \in Peers, Send(p) PROVE MeantStep
  <2>1. outbox[p] # <<>> /\ outbox' = [outbox EXCEPT ![p] = <<>>]
    BY <1>i, <1>4 DEF Send, Silent, outbox
  <2>2. meant' = Append(meant, outbox[p])
    <3>n. PICK n : n = Len(history)
      OBVIOUS
    <3>1. /\ n \in Nat /\ DOMAIN history = 1..n /\ DOMAIN history' = 1..(n + 1)
          /\ Entry(n + 1)' = outbox[p] /\ outbox[p] \in Lists
      BY <1>i, <1>4, <3>n, EntryAdded DEF outbox
    <3>2. \A i \in 1..n : Entry(i)' = Entry(i) /\ Entry(i) \in Lists
      BY <1>i, <3>1, EntryStays
    <3>3. meant = [i \in 1..n |-> Entry(i)]
      BY <3>1 DEF meant
    <3>4. meant \in Seq(Lists) /\ Len(meant) = n
      BY <3>1, <3>2, <3>3
    <3>5. /\ Append(meant, outbox[p]) \in Seq(Lists) /\ Len(Append(meant, outbox[p])) = n + 1
          /\ \A i \in 1..n : Append(meant, outbox[p])[i] = meant[i]
          /\ Append(meant, outbox[p])[n + 1] = outbox[p]
      BY <3>1, <3>4, AppendProperties
    <3>6. DOMAIN meant' = 1..(n + 1) /\ \A i \in 1..(n + 1) : meant'[i] = Entry(i)'
      BY <3>1 DEF meant
    <3>7. \A i \in 1..(n + 1) :
             meant'[i] = Append(meant, outbox[p])[i] /\ meant'[i] \in Lists
      <4>1. ASSUME NEW i \in 1..n
            PROVE  meant'[i] = Append(meant, outbox[p])[i] /\ meant'[i] \in Lists
        <5>1. i \in 1..(n + 1) /\ meant[i] = Entry(i)
          BY <3>1, <3>3
        <5> QED
          BY <3>2, <3>5, <3>6, <5>1
      <4>2. /\ meant'[n + 1] = Append(meant, outbox[p])[n + 1]
            /\ meant'[n + 1] \in Lists
        <5>1. n + 1 \in 1..(n + 1)
          BY <3>1
        <5> QED
          BY <3>1, <3>5, <3>6, <5>1
      <4>3. \A i \in 1..(n + 1) : i \in 1..n \/ i = n + 1
        BY <3>1
      <4> QED
        BY <4>1, <4>2, <4>3
    <3>8. meant' \in Seq(Lists) /\ Len(meant') = n + 1
      <4>1. meant' = [i \in 1..(n + 1) |-> meant'[i]]
        BY <3>1 DEF meant
      <4> QED
        BY <3>1, <3>7, <4>1
    <3> QED
      BY <3>5, <3>7, <3>8, SeqEqual
  <2>3. UNCHANGED heard
    BY <1>4 DEF Send
  <2>4. Meant!Next
    BY <2>1, <2>2, <2>3 DEF Meant!Next, Meant!Send, outbox, meant
  <2> QED
    BY <2>4 DEF MeantStep
<1>5. ASSUME NEW p \in Peers, NEW i \in DOMAIN history, Read(p, i) PROVE MeantStep
  <2>1. UNCHANGED <<outbox, meant>>
    BY <1>1, <1>5 DEF Read, outbox
  <2>2. CASE heard' = heard
    BY <2>1, <2>2 DEF MeantStep
  <2>3. CASE heard' = <<p, i, Entry(i)>>
    <3>1. i \in DOMAIN meant /\ heard' = <<p, i, meant[i]>>
      BY <2>3 DEF meant
    <3>2. Meant!Next
      BY <2>1, <3>1 DEF Meant!Next, Meant!Read, outbox, meant
    <3> QED
      BY <3>2 DEF MeantStep
  <2> QED
    BY <1>i, <1>5, <2>2, <2>3, ReadIs
<1>6. CASE UNCHANGED vars
  BY <1>1, <1>6 DEF vars, outbox, MeantStep
<1> QED
  BY <1>2, <1>3, <1>4, <1>5, <1>6 DEF Next

(* Temporal's history is, to every peer, the lists that were meant: a        *)
(* reference always leads to the content it stands for, and failed puts and  *)
(* repeated calls leave no trace in it (s3_codec.py:56-100).                 *)
THEOREM HistoryKeepsMeaning == Spec => HistoryIsAsMeant
<1>1. Init => Meant!Init
  BY DEF Init, Meant!Init, Silent, NoReading
<1>2. IInv /\ [Next]_vars => [Meant!Next]_Meant!vars
  BY NextMeant DEF MeantStep, Meant!vars, outbox, meant
<1> QED
  BY <1>1, <1>2, Invariance, PTL DEF Spec, HistoryIsAsMeant, Meant!Spec

=============================================================================
