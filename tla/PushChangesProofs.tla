-------------------------- MODULE PushChangesProofs --------------------------
(* Proofs about the trusted push, for every set of operations, every number  *)
(* of attempts of each and every bound.                                      *)
EXTENDS PushChanges, SequenceTheorems, TLAPS

(* Along a history contents never decrease, and an operation's commit holds  *)
(* something newer than everything before it.                                *)
Grows(history) ==
    \A i, j \in DOMAIN history : i < j =>
        /\ history[i].content <= history[j].content
        /\ history[j].key # Foreign => history[i].content < history[j].content

(* Edits pass from the working tree to the index and on to the branch.       *)
ContentInv ==
    /\ Grows(remote) /\ Grows(head) /\ Grows(fetched)
    /\ Tree(head) <= staged /\ staged <= worktree /\ worktree <= edits
    /\ Tree(remote) <= edits /\ Tree(fetched) <= edits

(* Commits carry the keys of scheduled operations, and what was fetched is   *)
(* still on the branch.                                                      *)
Scheduled == {o \in Operations : current[o] # 0}
KeysAreScheduled(history) ==
    \A i \in DOMAIN history : history[i].key # Foreign => history[i].key \in Scheduled
KeyInv ==
    /\ KeysAreScheduled(remote) /\ KeysAreScheduled(head) /\ KeysAreScheduled(fetched)
    /\ IsPrefixOf(fetched, remote)

(* The commit an attempt has made or found is where the attempt takes it to  *)
(* be, unless the clone was prepared again from under it; once the result is *)
(* in, nobody asks.                                                          *)
Dropped(o) == o \in dropped \/ result[o] # "none"
AttemptInv ==
    \A o \in Operations : \A n \in Attempts(o) :
        /\ attempt[o][n] # "unborn" => n <= current[o]
        /\ attempt[o][n] \in {"compare", "push"} => Keyed(head, o) # {} \/ Dropped(o)
        /\ attempt[o][n] = "pushed" => Keyed(remote, o) # {} \/ Dropped(o)
ResultInv ==
    \A o \in Operations :
        result[o] = "pushed" => Keyed(remote, o) # {} \/ o \in dropped

IInv == TypeOK /\ ContentInv /\ KeyInv /\ AttemptInv /\ ResultInv

-----------------------------------------------------------------------------
(* Histories.                                                                *)
LEMMA PrefixIsPointwise ==
    ASSUME NEW S, NEW s \in Seq(S), NEW t \in Seq(S)
    PROVE  IsPrefixOf(s, t) <=> Len(s) <= Len(t) /\ \A i \in 1..Len(s) : s[i] = t[i]
<1>1. CASE ~(Len(s) <= Len(t))
  BY <1>1 DEF IsPrefixOf
<1>2. CASE Len(s) <= Len(t)
  <2> DEFINE p == SubSeq(t, 1, Len(s))
  <2>1. /\ Len(s) \in Nat /\ Len(t) \in Nat
        /\ \A i \in 1..Len(t) : t[i] \in S
    BY LenProperties, ElementOfSeq
  <2>2. Len(p) = Len(s) /\ \A i \in 1..Len(s) : p[i] = t[i]
    BY <1>2, <2>1
  <2>3. p \in Seq(S)
    BY <1>2, <2>1
  <2> HIDE DEF p
  <2>4. s = p <=> \A i \in 1..Len(s) : s[i] = p[i]
    BY <2>2, <2>3, SeqEqual
  <2> QED
    BY <1>2, <2>2, <2>4 DEF IsPrefixOf, p
<1> QED
  BY <1>1, <1>2

LEMMA PrefixOfItself ==
    ASSUME NEW S, NEW s \in Seq(S)
    PROVE  IsPrefixOf(s, s)
<1>1. Len(s) \in Nat
  BY LenProperties
<1> QED
  BY <1>1, PrefixIsPointwise

LEMMA PrefixOfAppend ==
    ASSUME NEW S, NEW s \in Seq(S), NEW e \in S
    PROVE  IsPrefixOf(s, Append(s, e))
<1> DEFINE t == Append(s, e)
<1>1. Len(s) \in Nat
  BY LenProperties
<1>2. t \in Seq(S) /\ Len(t) = Len(s) + 1 /\ \A i \in 1..Len(s) : t[i] = s[i]
  BY AppendProperties
<1> HIDE DEF t
<1>3. IsPrefixOf(s, t)
  BY <1>1, <1>2, PrefixIsPointwise
<1> QED
  BY <1>3 DEF t

LEMMA PrefixTransitive ==
    ASSUME NEW S, NEW r \in Seq(S), NEW s \in Seq(S), NEW t \in Seq(S),
           IsPrefixOf(r, s), IsPrefixOf(s, t)
    PROVE  IsPrefixOf(r, t)
<1>1. Len(r) \in Nat /\ Len(s) \in Nat /\ Len(t) \in Nat
  BY LenProperties
<1>2. Len(r) <= Len(s) /\ \A i \in 1..Len(r) : r[i] = s[i]
  BY PrefixIsPointwise
<1>3. Len(s) <= Len(t) /\ \A i \in 1..Len(s) : s[i] = t[i]
  BY PrefixIsPointwise
<1>4. Len(r) <= Len(t) /\ \A i \in 1..Len(r) : r[i] = t[i]
  BY <1>1, <1>2, <1>3
<1> QED
  BY <1>4, PrefixIsPointwise

(* Two histories that stand side by side differ in a commit both have a      *)
(* place for.                                                                *)
Apart(s, t) == ~IsPrefixOf(s, t) /\ ~IsPrefixOf(t, s)

LEMMA ApartIsPointwise ==
    ASSUME NEW S, NEW s \in Seq(S), NEW t \in Seq(S)
    PROVE  Apart(s, t) <=> \E i \in 1..Len(s) : i <= Len(t) /\ s[i] # t[i]
<1>1. Len(s) \in Nat /\ Len(t) \in Nat
  BY LenProperties
<1>2. IsPrefixOf(s, t) <=> Len(s) <= Len(t) /\ \A i \in 1..Len(s) : s[i] = t[i]
  BY PrefixIsPointwise
<1>3. IsPrefixOf(t, s) <=> Len(t) <= Len(s) /\ \A i \in 1..Len(t) : s[i] = t[i]
  BY PrefixIsPointwise
<1>4. CASE Len(s) <= Len(t)
  BY <1>1, <1>2, <1>3, <1>4 DEF Apart
<1>5. CASE Len(t) <= Len(s)
  BY <1>1, <1>2, <1>3, <1>5 DEF Apart
<1> QED
  BY <1>1, <1>4, <1>5

LEMMA ApartLasts ==
    ASSUME NEW S, NEW s \in Seq(S), NEW t \in Seq(S), NEW e \in S, Apart(s, t)
    PROVE  Apart(Append(s, e), t)
<1>1. Len(s) \in Nat /\ Len(t) \in Nat
  BY LenProperties
<1>2. PICK i \in 1..Len(s) : i <= Len(t) /\ s[i] # t[i]
  BY ApartIsPointwise
<1>3. /\ Append(s, e) \in Seq(S) /\ Append(s, e)[i] = s[i]
      /\ Len(Append(s, e)) = Len(s) + 1
  BY AppendProperties
<1>4. i \in 1..Len(Append(s, e))
  BY <1>1, <1>3
<1> QED
  BY <1>2, <1>3, <1>4, ApartIsPointwise

LEMMA TreeIsContent ==
    ASSUME NEW h \in Seq(Commit)
    PROVE  /\ Tree(h) \in 0..MaxEdits
           /\ DOMAIN h = 1..Len(h) /\ Len(h) \in Nat
           /\ \A i \in 1..Len(h) :
                 h[i].content \in 0..MaxEdits /\ h[i].key \in Operations \cup {Foreign}
<1>1. DOMAIN h = 1..Len(h) /\ Len(h) \in Nat
  BY LenProperties
<1>2. ASSUME NEW i \in 1..Len(h)
      PROVE  h[i].content \in 0..MaxEdits /\ h[i].key \in Operations \cup {Foreign}
  <2>1. h[i] \in Commit
    BY ElementOfSeq
  <2> QED
    BY <2>1 DEF Commit
<1>3. CASE h = <<>>
  BY <1>1, <1>2, <1>3, PushBoundsAssumption DEF Tree, PushBoundsAssumption
<1>4. CASE h # <<>>
  <2>1. Len(h) \in 1..Len(h)
    BY <1>1, <1>4, EmptySeq
  <2> QED
    BY <1>1, <1>2, <1>4, <2>1 DEF Tree
<1> QED
  BY <1>3, <1>4

-----------------------------------------------------------------------------
(* Types.                                                                    *)

(* An attempt goes where it wants, or is dead to everybody.                  *)
LEMMA GoesIs ==
    ASSUME TypeOK, NEW o \in Operations, NEW n \in Attempts(o), NEW place \in Places,
           Goes(o, n, place)
    PROVE  /\ \A q \in Operations : \A m \in Attempts(q) :
                 ~(q = o /\ m = n) => attempt'[q][m] = attempt[q][m]
           /\ attempt'[o][n] \in {place, "dead"}
           /\ place \in Working => attempt'[o][n] = place
           /\ DOMAIN attempt' = Operations
           /\ \A q \in Operations : attempt'[q] \in [Attempts(q) -> Places]
<1> DEFINE at == IF place \notin Working /\ n # current[o] THEN "dead" ELSE place
<1>1. /\ at \in {place, "dead"} /\ at \in Places
      /\ place \in Working => at = place
  BY DEF Places
<1> HIDE DEF at
<1>2. attempt' = [attempt EXCEPT ![o] = [attempt[o] EXCEPT ![n] = at]]
  BY DEF Goes, at
<1>3. DOMAIN attempt = Operations /\ \A q \in Operations : attempt[q] \in [Attempts(q) -> Places]
  BY DEF TypeOK
<1>4. DOMAIN attempt' = Operations /\ \A q \in Operations \ {o} : attempt'[q] = attempt[q]
  BY <1>2, <1>3
<1>5. attempt'[o] = [attempt[o] EXCEPT ![n] = at]
  BY <1>2, <1>3
<1>6. /\ attempt'[o] \in [Attempts(o) -> Places] /\ attempt'[o][n] = at
      /\ \A m \in Attempts(o) \ {n} : attempt'[o][m] = attempt[o][m]
  BY <1>1, <1>3, <1>5
<1> QED
  BY <1>1, <1>3, <1>4, <1>6

(* A new attempt takes the next number.                                      *)
LEMMA BeginIs ==
    ASSUME TypeOK, NEW o \in Operations, Begin(o), current[o] < MaxAttempts[o]
    PROVE  /\ current[o] + 1 \in Attempts(o)
           /\ DOMAIN current' = Operations
           /\ current'[o] = current[o] + 1
           /\ \A q \in Operations \ {o} : current'[q] = current[q]
           /\ DOMAIN attempt' = Operations
           /\ \A q \in Operations : attempt'[q] \in [Attempts(q) -> Places]
           /\ attempt'[o][current[o] + 1] = "fetch"
           /\ \A q \in Operations : \A m \in Attempts(q) :
                 ~(q = o /\ m = current[o] + 1) => attempt'[q][m] = attempt[q][m]
<1> DEFINE n == current[o] + 1
<1>1. n \in Attempts(o)
  BY AttemptsAssumption DEF TypeOK, Attempts, AttemptsAssumption
<1> HIDE DEF n
<1>2. /\ attempt' = [attempt EXCEPT ![o] = [attempt[o] EXCEPT ![n] = "fetch"]]
      /\ current' = [current EXCEPT ![o] = n]
  BY DEF Begin, n
<1>3. /\ DOMAIN attempt = Operations /\ DOMAIN current = Operations
      /\ \A q \in Operations : attempt[q] \in [Attempts(q) -> Places]
  BY DEF TypeOK
<1>4. /\ DOMAIN current' = Operations /\ current'[o] = n
      /\ \A q \in Operations \ {o} : current'[q] = current[q]
  BY <1>2, <1>3
<1>5. DOMAIN attempt' = Operations /\ \A q \in Operations \ {o} : attempt'[q] = attempt[q]
  BY <1>2, <1>3
<1>6. attempt'[o] = [attempt[o] EXCEPT ![n] = "fetch"]
  BY <1>2, <1>3
<1>7. /\ attempt'[o] \in [Attempts(o) -> Places] /\ attempt'[o][n] = "fetch"
      /\ \A m \in Attempts(o) \ {n} : attempt'[o][m] = attempt[o][m]
  BY <1>1, <1>3, <1>6 DEF Places, Working
<1> QED
  BY <1>1, <1>3, <1>4, <1>5, <1>7 DEF n

(* A step of an attempt that the git commands are made of.                   *)
LEMMA StepGoes ==
    ASSUME NEW o \in Operations, NEW n \in Attempts(o), Steps(o, n) \/ Dies(o, n)
    PROVE  /\ \E place \in Places : Goes(o, n, place)
           /\ attempt[o][n] \in Working
           /\ UNCHANGED <<worktree, edits, preparing, current, result>>
<1>1. CASE Fetch(o, n) \/ Lookup(o, n) \/ Add(o, n) \/ Diff(o, n)
  BY <1>1 DEF Fetch, Lookup, Add, Diff, At, Goes, Places, Working
<1>2. CASE MakeCommit(o, n) \/ Compare(o, n)
  BY <1>2 DEF MakeCommit, Compare, At, Goes, Places, Working
<1>3. CASE Push(o, n) \/ Dies(o, n)
  BY <1>3 DEF Push, Dies, At, Goes, Places, Working
<1> QED
  BY <1>1, <1>2, <1>3 DEF Steps

LEMMA NextType == TypeOK /\ [Next]_vars => TypeOK'
<1> SUFFICES ASSUME TypeOK, [Next]_vars PROVE TypeOK'
  OBVIOUS
<1> USE PushBoundsAssumption DEF PushBoundsAssumption
<1>t. /\ remote \in Seq(Commit) /\ head \in Seq(Commit) /\ fetched \in Seq(Commit)
      /\ staged \in 0..MaxEdits /\ worktree \in 0..MaxEdits /\ edits \in 0..MaxEdits
      /\ Tree(remote) \in 0..MaxEdits /\ Tree(head) \in 0..MaxEdits
      /\ Tree(fetched) \in 0..MaxEdits
  BY TreeIsContent DEF TypeOK
<1>1. CASE Edit
  BY <1>1 DEF Edit, TypeOK, git, preparing
<1>2. CASE ForeignPush
  <2>1. [key |-> Foreign, content |-> Tree(remote)] \in Commit
    BY <1>t DEF Commit
  <2>2. remote' \in Seq(Commit)
    BY <1>2, <1>t, <2>1, AppendProperties DEF ForeignPush
  <2> QED
    BY <1>2, <2>2 DEF ForeignPush, TypeOK, preparing
<1>3. CASE Prepare
  <2>1. CASE PrepareFetch
    BY <2>1 DEF PrepareFetch, PrepareGoes, TypeOK
  <2>2. CASE PrepareReset
    BY <1>t, <2>2 DEF PrepareReset, AtFetched, HeadMoves, PrepareGoes, TypeOK
  <2>3. CASE PrepareCheckout
    BY <1>t, <2>3 DEF PrepareCheckout, AtFetched, HeadMoves, PrepareGoes, TypeOK
  <2> QED
    BY <1>3, <2>1, <2>2, <2>3 DEF Prepare
<1>4. ASSUME NEW o \in Operations, Schedule(o) \/ Retry(o) PROVE TypeOK'
  <2>1. Begin(o) /\ current[o] < MaxAttempts[o]
    BY <1>4, AttemptsAssumption DEF Schedule, Retry, AttemptsAssumption
  <2>2. \A q \in Operations : current'[q] \in {0} \cup Attempts(q)
    BY <2>1, BeginIs DEF TypeOK
  <2> QED
    BY <2>1, <2>2, BeginIs DEF Begin, TypeOK, git, preparing
<1>5. ASSUME NEW o \in Operations, GiveUp(o) \/ Report(o) PROVE TypeOK'
  BY <1>5 DEF GiveUp, Report, ReportOf, TypeOK, Results, git, preparing
<1>6. ASSUME NEW o \in Operations, NEW n \in Attempts(o), Steps(o, n) \/ Dies(o, n)
      PROVE  TypeOK'
  <2>1. UNCHANGED <<worktree, edits, preparing, current, result>>
    BY <1>6, StepGoes
  <2>2. DOMAIN attempt' = Operations /\ \A q \in Operations : attempt'[q] \in [Attempts(q) -> Places]
    BY <1>6, StepGoes, GoesIs
  <2>3. /\ remote' \in Seq(Commit) /\ head' \in Seq(Commit) /\ fetched' \in Seq(Commit)
        /\ staged' \in 0..MaxEdits
    <3>1. CASE MakeCommit(o, n)
      <4>1. [key |-> o, content |-> staged] \in Commit
        BY <1>t DEF Commit
      <4>2. Append(head, [key |-> o, content |-> staged]) \in Seq(Commit)
        BY <1>t, <4>1, AppendProperties
      <4> QED
        BY <1>t, <3>1, <4>2 DEF MakeCommit
    <3>2. CASE Fetch(o, n) \/ Lookup(o, n) \/ Add(o, n) \/ Diff(o, n) \/ Compare(o, n)
      BY <1>t, <3>2 DEF Fetch, Lookup, Add, Diff, Compare, git
    <3>3. CASE Push(o, n) \/ Dies(o, n)
      BY <1>t, <3>3 DEF Push, Dies, git
    <3> QED
      BY <1>6, <3>1, <3>2, <3>3 DEF Steps
  <2> QED
    BY <2>1, <2>2, <2>3 DEF TypeOK, preparing
<1>7. CASE UNCHANGED vars
  BY <1>7 DEF vars, git, preparing, TypeOK
<1> QED
  BY <1>1, <1>2, <1>3, <1>4, <1>5, <1>6, <1>7 DEF Next, Server

-----------------------------------------------------------------------------
(* What a step does to the four histories and contents of the clone.         *)

(* Everything but a push by somebody and a commit leaves the branch and the  *)
(* clone's commits what they were, or takes them over from one another.      *)
LEMMA RemoteIs ==
    ASSUME [Next]_vars
    PROVE  \/ UNCHANGED remote
           \/ ForeignPush
           \/ /\ FastForward /\ remote' = head /\ UNCHANGED <<head, fetched, staged>>
              /\ \E o \in Operations : \E n \in Attempts(o) : Push(o, n)
<1>1. CASE Edit \/ Prepare
  BY <1>1 DEF Edit, git, Prepare, PrepareFetch, PrepareReset, PrepareCheckout, PrepareGoes
<1>2. ASSUME NEW o \in Operations, Schedule(o) \/ Server(o) PROVE UNCHANGED remote
  BY <1>2 DEF Schedule, Server, Retry, GiveUp, Report, Begin, git
<1>3. ASSUME NEW o \in Operations, NEW n \in Attempts(o), Steps(o, n) \/ Dies(o, n), ~Push(o, n)
      PROVE  UNCHANGED remote
  BY <1>3 DEF Steps, Dies, Fetch, Lookup, Add, Diff, MakeCommit, Compare, git
<1>4. ASSUME NEW o \in Operations, NEW n \in Attempts(o), Push(o, n), ~UNCHANGED remote
      PROVE  FastForward /\ remote' = head /\ UNCHANGED <<head, fetched, staged>>
  BY <1>4 DEF Push
<1>5. CASE UNCHANGED vars
  BY <1>5 DEF vars, git
<1> QED
  BY <1>1, <1>2, <1>3, <1>4, <1>5 DEF Next

LEMMA RemoteGrows == TypeOK /\ [Next]_vars => IsPrefixOf(remote, remote')
<1> SUFFICES ASSUME TypeOK, [Next]_vars PROVE IsPrefixOf(remote, remote')
  OBVIOUS
<1>1. remote \in Seq(Commit) /\ Tree(remote) \in 0..MaxEdits
  BY TreeIsContent DEF TypeOK
<1>2. CASE ForeignPush
  <2>1. [key |-> Foreign, content |-> Tree(remote)] \in Commit
    BY <1>1 DEF Commit
  <2> QED
    BY <1>1, <1>2, <2>1, PrefixOfAppend DEF ForeignPush
<1>3. CASE UNCHANGED remote
  BY <1>1, <1>3, PrefixOfItself
<1>4. CASE FastForward /\ remote' = head
  BY <1>4 DEF FastForward
<1> QED
  BY <1>2, <1>3, <1>4, RemoteIs

LEMMA HeadIs ==
    ASSUME [Next]_vars
    PROVE  \/ UNCHANGED head
           \/ HeadMoves /\ UNCHANGED <<remote, fetched, result, attempt, current>>
           \/ \E o \in Operations : \E n \in Attempts(o) :
                 /\ MakeCommit(o, n) /\ ~NothingStaged
                 /\ head' = Append(head, [key |-> o, content |-> staged])
<1>1. CASE Edit \/ ForeignPush
  BY <1>1 DEF Edit, git, ForeignPush
<1>2. CASE Prepare
  BY <1>2 DEF Prepare, PrepareFetch, PrepareReset, PrepareCheckout, PrepareGoes, AtFetched
<1>3. ASSUME NEW o \in Operations, Schedule(o) \/ Server(o) PROVE UNCHANGED head
  BY <1>3 DEF Schedule, Server, Retry, GiveUp, Report, Begin, git
<1>4. ASSUME NEW o \in Operations, NEW n \in Attempts(o), Steps(o, n) \/ Dies(o, n)
      PROVE  \/ UNCHANGED head
             \/ /\ MakeCommit(o, n) /\ ~NothingStaged
                /\ head' = Append(head, [key |-> o, content |-> staged])
  BY <1>4 DEF Steps, Dies, Fetch, Lookup, Add, Diff, MakeCommit, Compare, Push, git
<1>5. CASE UNCHANGED vars
  BY <1>5 DEF vars, git
<1> QED
  BY <1>1, <1>2, <1>3, <1>4, <1>5 DEF Next

LEMMA FetchedIs ==
    ASSUME [Next]_vars
    PROVE  fetched' = fetched \/ (fetched' = remote /\ UNCHANGED remote)
<1>1. CASE Edit \/ ForeignPush
  BY <1>1 DEF Edit, git, ForeignPush
<1>2. CASE Prepare
  BY <1>2 DEF Prepare, PrepareFetch, PrepareReset, PrepareCheckout, PrepareGoes
<1>3. ASSUME NEW o \in Operations, Schedule(o) \/ Server(o) PROVE UNCHANGED fetched
  BY <1>3 DEF Schedule, Server, Retry, GiveUp, Report, Begin, git
<1>4. ASSUME NEW o \in Operations, NEW n \in Attempts(o), Steps(o, n) \/ Dies(o, n)
      PROVE  fetched' = fetched \/ (fetched' = remote /\ UNCHANGED remote)
  BY <1>4 DEF Steps, Dies, Fetch, Lookup, Add, Diff, MakeCommit, Compare, Push, git
<1>5. CASE UNCHANGED vars
  BY <1>5 DEF vars, git
<1> QED
  BY <1>1, <1>2, <1>3, <1>4, <1>5 DEF Next

-----------------------------------------------------------------------------
(* Contents.                                                                 *)
LEMMA GrowsByAppend ==
    ASSUME NEW h \in Seq(Commit), NEW e \in Commit, Grows(h), Tree(h) <= e.content,
           e.key # Foreign => Tree(h) < e.content
    PROVE  Grows(Append(h, e)) /\ Tree(Append(h, e)) = e.content
<1> DEFINE t == Append(h, e)
<1>1. /\ DOMAIN h = 1..Len(h) /\ Len(h) \in Nat /\ Tree(h) \in 0..MaxEdits
      /\ \A i \in 1..Len(h) : h[i].content \in 0..MaxEdits
  BY TreeIsContent
<1>2. /\ t \in Seq(Commit) /\ Len(t) = Len(h) + 1 /\ t # <<>> /\ t[Len(h) + 1] = e
      /\ \A i \in 1..Len(h) : t[i] = h[i]
  BY AppendProperties
<1>3. DOMAIN t = 1..Len(t)
  BY <1>2, LenProperties
<1>4. e.content \in Nat
  BY DEF Commit
<1> HIDE DEF t
<1>5. \A i \in 1..Len(h) : h[i].content <= Tree(h)
  <2> SUFFICES ASSUME NEW i \in 1..Len(h) PROVE h[i].content <= h[Len(h)].content
    BY DEF Tree
  <2>1. CASE i = Len(h)
    BY <1>1, <2>1, PushBoundsAssumption DEF PushBoundsAssumption
  <2>2. CASE i # Len(h)
    <3>0. Len(h) \in Nat
      BY <1>1
    <3>1. i < Len(h) /\ Len(h) \in 1..Len(h)
      BY <2>2, <3>0
    <3> QED
      BY <1>1, <3>1 DEF Grows
  <2> QED
    BY <2>1, <2>2
<1>6. ASSUME NEW i \in DOMAIN t, NEW j \in DOMAIN t, i < j
      PROVE  /\ t[i].content <= t[j].content
             /\ t[j].key # Foreign => t[i].content < t[j].content
  <2>1. i \in 1..Len(h)
    BY <1>1, <1>2, <1>3, <1>6
  <2>2. t[i] = h[i] /\ h[i].content \in 0..MaxEdits /\ h[i].content <= Tree(h)
    BY <1>1, <1>2, <1>5, <2>1
  <2>3. CASE j \in 1..Len(h)
    <3>1. t[j] = h[j]
      BY <1>2, <2>3
    <3> QED
      BY <1>1, <1>6, <2>1, <2>2, <2>3, <3>1 DEF Grows
  <2>4. CASE j = Len(h) + 1
    <3>1. t[j] = e
      BY <1>2, <2>4
    <3> QED
      BY <1>1, <1>4, <2>2, <3>1, PushBoundsAssumption DEF PushBoundsAssumption
  <2> QED
    BY <1>1, <1>2, <1>3, <2>3, <2>4
<1>7. Tree(t) = e.content
  BY <1>2 DEF Tree
<1>8. Grows(t)
  BY <1>6 DEF Grows
<1> QED
  BY <1>7, <1>8 DEF t

(* Contents grow along every history.                                        *)
LEMMA NextContent == TypeOK /\ ContentInv /\ [Next]_vars => ContentInv'
<1> SUFFICES ASSUME TypeOK, ContentInv, [Next]_vars PROVE ContentInv'
  OBVIOUS
<1> USE PushBoundsAssumption DEF PushBoundsAssumption
<1>t. /\ remote \in Seq(Commit) /\ head \in Seq(Commit) /\ fetched \in Seq(Commit)
      /\ staged \in 0..MaxEdits /\ worktree \in 0..MaxEdits /\ edits \in 0..MaxEdits
      /\ Tree(remote) \in 0..MaxEdits /\ Tree(head) \in 0..MaxEdits
      /\ Tree(fetched) \in 0..MaxEdits
  BY TreeIsContent DEF TypeOK
<1>1. Grows(remote')
  <2>1. CASE ForeignPush
    <3>1. [key |-> Foreign, content |-> Tree(remote)] \in Commit
      BY <1>t DEF Commit
    <3>2. Grows(Append(remote, [key |-> Foreign, content |-> Tree(remote)]))
      BY <1>t, <3>1, GrowsByAppend DEF ContentInv
    <3> QED
      BY <2>1, <3>2 DEF ForeignPush
  <2>2. CASE remote' = remote \/ remote' = head
    BY <2>2 DEF ContentInv
  <2> QED
    BY <2>1, <2>2, RemoteIs
<1>2. ASSUME NEW o \in Operations, NEW n \in Attempts(o), MakeCommit(o, n), ~NothingStaged,
             head' = Append(head, [key |-> o, content |-> staged])
      PROVE  Grows(head') /\ Tree(head') = staged
  <2> DEFINE e == [key |-> o, content |-> staged]
  <2>1. e \in Commit /\ e.content = staged
    BY <1>t DEF Commit
  <2>2. Tree(head) < staged
    BY <1>t, <1>2 DEF ContentInv, NothingStaged
  <2>3. Tree(head) <= staged
    BY <1>t, <2>2
  <2> HIDE DEF e
  <2> QED
    BY <1>2, <1>t, <2>1, <2>2, <2>3, GrowsByAppend DEF ContentInv, e
<1>3. Grows(head')
  BY <1>2, HeadIs DEF ContentInv, HeadMoves
<1>4. Grows(fetched')
  BY FetchedIs DEF ContentInv
<1>5. Tree(head') <= staged' /\ staged' <= worktree' /\ worktree' <= edits'
  <2>1. CASE Edit
    BY <1>t, <2>1 DEF Edit, git, ContentInv
  <2>2. CASE ForeignPush
    BY <1>t, <2>2 DEF ForeignPush, ContentInv
  <2>3. CASE PrepareFetch
    BY <1>t, <2>3 DEF PrepareFetch, PrepareGoes, ContentInv
  <2>4. CASE AtFetched /\ edits' = edits
    BY <1>t, <2>4 DEF AtFetched, HeadMoves, ContentInv
  <2>5. CASE /\ UNCHANGED <<staged, worktree, edits>>
             /\ UNCHANGED head \/ (HeadMoves /\ Tree(fetched) = Tree(head))
    BY <1>t, <2>5 DEF HeadMoves, ContentInv
  <2>6. CASE PrepareReset \/ PrepareCheckout
    BY <2>4, <2>5, <2>6 DEF PrepareReset, PrepareCheckout, PrepareGoes
  <2>7. ASSUME NEW o \in Operations, Schedule(o) \/ Server(o)
        PROVE  UNCHANGED <<head, staged, worktree, edits>>
    BY <2>7 DEF Schedule, Server, Retry, GiveUp, Report, Begin, git
  <2>8. ASSUME NEW o \in Operations, NEW n \in Attempts(o), Steps(o, n) \/ Dies(o, n)
        PROVE  Tree(head') <= staged' /\ staged' <= worktree' /\ worktree' <= edits'
    <3>1. UNCHANGED <<worktree, edits>>
      BY <2>8, StepGoes
    <3>2. CASE MakeCommit(o, n)
      <4>1. staged' = staged
        BY <3>2 DEF MakeCommit
      <4>2. head' = head \/ Tree(head') = staged
        BY <1>2, <3>2 DEF MakeCommit
      <4> QED
        BY <1>t, <3>1, <4>1, <4>2 DEF ContentInv
    <3>3. CASE Add(o, n)
      BY <1>t, <3>1, <3>3 DEF Add, ContentInv
    <3>4. CASE Fetch(o, n) \/ Lookup(o, n) \/ Diff(o, n) \/ Compare(o, n) \/ Push(o, n) \/ Dies(o, n)
      BY <1>t, <3>1, <3>4 DEF Fetch, Lookup, Diff, Compare, Push, Dies, git, ContentInv
    <3> QED
      BY <2>8, <3>2, <3>3, <3>4 DEF Steps
  <2>9. CASE UNCHANGED vars
    BY <1>t, <2>9 DEF vars, git, ContentInv
  <2>10. CASE UNCHANGED <<head, staged, worktree, edits>>
    BY <1>t, <2>10 DEF ContentInv
  <2> QED
    BY <2>1, <2>2, <2>3, <2>6, <2>7, <2>8, <2>9, <2>10 DEF Next, Prepare
<1>6. Tree(remote') <= edits' /\ Tree(fetched') <= edits'
  <2>1. edits' \in {edits, edits + 1}
    <3>1. ASSUME NEW o \in Operations, Schedule(o) \/ Server(o) PROVE UNCHANGED edits
      BY <3>1 DEF Schedule, Server, Retry, GiveUp, Report, Begin
    <3>2. ASSUME NEW o \in Operations, NEW n \in Attempts(o), Steps(o, n) \/ Dies(o, n)
          PROVE  UNCHANGED edits
      BY <3>2, StepGoes
    <3> QED
      BY <3>1, <3>2 DEF Next, Edit, ForeignPush, Prepare, PrepareFetch, PrepareReset,
         PrepareCheckout, PrepareGoes, vars
  <2>2. Tree(head) <= edits
    BY <1>t DEF ContentInv
  <2>3. Tree(remote') = Tree(remote) \/ Tree(remote') = Tree(head)
    <3>1. CASE ForeignPush
      <4> DEFINE e == [key |-> Foreign, content |-> Tree(remote)]
      <4>1. e \in Commit /\ e.content = Tree(remote)
        BY <1>t DEF Commit
      <4>2. remote' = Append(remote, e) /\ e.key = Foreign
        BY <3>1 DEF ForeignPush
      <4> HIDE DEF e
      <4>3. Tree(remote) <= e.content
        BY <1>t, <4>1
      <4>4. Grows(remote) /\ remote \in Seq(Commit)
        BY <1>t DEF ContentInv
      <4>5. Tree(Append(remote, e)) = e.content
        BY <4>1, <4>2, <4>3, <4>4, GrowsByAppend
      <4> QED
        BY <4>1, <4>2, <4>5
    <3> QED
      BY <3>1, RemoteIs
  <2>4. Tree(fetched') = Tree(fetched) \/ Tree(fetched') = Tree(remote)
    BY FetchedIs
  <2> QED
    BY <1>t, <2>1, <2>2, <2>3, <2>4 DEF ContentInv
<1> QED
  BY <1>1, <1>3, <1>4, <1>5, <1>6 DEF ContentInv

-----------------------------------------------------------------------------
(* Keys.                                                                     *)

(* An operation keeps its commit when a history is extended.                 *)
LEMMA KeyedByPrefix ==
    ASSUME NEW s \in Seq(Commit), NEW t \in Seq(Commit), IsPrefixOf(s, t), NEW o,
           Keyed(s, o) # {}
    PROVE  Keyed(t, o) # {}
<1>1. /\ DOMAIN s = 1..Len(s) /\ Len(s) \in Nat
      /\ DOMAIN t = 1..Len(t) /\ Len(t) \in Nat
  BY LenProperties
<1>2. Len(s) <= Len(t) /\ \A i \in 1..Len(s) : s[i] = t[i]
  BY PrefixIsPointwise
<1>3. PICK i \in DOMAIN s : s[i].key = o
  BY DEF Keyed
<1>4. i \in DOMAIN t /\ t[i].key = o
  BY <1>1, <1>2, <1>3
<1> QED
  BY <1>4 DEF Keyed

LEMMA KeysOfAppend ==
    ASSUME NEW h \in Seq(Commit), NEW e \in Commit
    PROVE  /\ Keyed(Append(h, e), e.key) # {}
           /\ \A i \in DOMAIN Append(h, e) :
                 \/ Append(h, e)[i] = e
                 \/ i \in DOMAIN h /\ Append(h, e)[i] = h[i]
<1> DEFINE t == Append(h, e)
<1>1. DOMAIN h = 1..Len(h) /\ Len(h) \in Nat
  BY LenProperties
<1>2. /\ t \in Seq(Commit) /\ Len(t) = Len(h) + 1 /\ t[Len(h) + 1] = e
      /\ \A i \in 1..Len(h) : t[i] = h[i]
  BY AppendProperties
<1>3. DOMAIN t = 1..Len(t)
  BY <1>2, LenProperties
<1> HIDE DEF t
<1>4. Len(h) + 1 \in DOMAIN t
  BY <1>1, <1>2, <1>3
<1>5. Keyed(t, e.key) # {}
  BY <1>2, <1>4 DEF Keyed
<1>6. \A i \in DOMAIN t : t[i] = e \/ (i \in DOMAIN h /\ t[i] = h[i])
  BY <1>1, <1>2, <1>3
<1> QED
  BY <1>5, <1>6 DEF t

(* Operations stay scheduled.                                                *)
LEMMA ScheduledGrows == TypeOK /\ [Next]_vars => Scheduled \subseteq Scheduled'
<1> SUFFICES ASSUME TypeOK, [Next]_vars, NEW o \in Operations, current[o] # 0
             PROVE  current'[o] # 0
  BY DEF Scheduled
<1>1. ASSUME NEW q \in Operations, Schedule(q) \/ Retry(q) PROVE current'[o] # 0
  <2>1. Begin(q) /\ current[q] < MaxAttempts[q]
    BY <1>1, AttemptsAssumption DEF Schedule, Retry, AttemptsAssumption
  <2>2. current'[q] = current[q] + 1 /\ current[q] + 1 \in 1..MaxAttempts[q]
    BY <2>1, BeginIs DEF Attempts
  <2> QED
    BY <2>1, <2>2, BeginIs
<1>2. ASSUME NEW q \in Operations, GiveUp(q) \/ Report(q) PROVE current'[o] # 0
  BY <1>2 DEF GiveUp, Report
<1>3. ASSUME NEW q \in Operations, NEW n \in Attempts(q), Steps(q, n) \/ Dies(q, n)
      PROVE  current'[o] # 0
  BY <1>3, StepGoes
<1>4. CASE Edit \/ ForeignPush \/ Prepare \/ UNCHANGED vars
  BY <1>4 DEF Edit, ForeignPush, Prepare, PrepareFetch, PrepareReset, PrepareCheckout,
     PrepareGoes, vars
<1> QED
  BY <1>1, <1>2, <1>3, <1>4 DEF Next, Server

LEMMA NextKeys == TypeOK /\ KeyInv /\ AttemptInv /\ [Next]_vars => KeyInv'
<1> SUFFICES ASSUME TypeOK, KeyInv, AttemptInv, [Next]_vars PROVE KeyInv'
  OBVIOUS
<1>t. /\ remote \in Seq(Commit) /\ head \in Seq(Commit) /\ fetched \in Seq(Commit)
      /\ staged \in 0..MaxEdits /\ Tree(remote) \in 0..MaxEdits
  BY TreeIsContent DEF TypeOK
<1>n. remote' \in Seq(Commit) /\ fetched' \in Seq(Commit)
  BY NextType DEF TypeOK
(* What a history holds already stays scheduled.                             *)
<1>1. ASSUME NEW h, KeysAreScheduled(h), NEW i \in DOMAIN h, h[i].key # Foreign
      PROVE  h[i].key \in Scheduled'
  BY <1>1, ScheduledGrows DEF KeysAreScheduled
<1>2. \A i \in DOMAIN remote' : remote'[i].key # Foreign => remote'[i].key \in Scheduled'
  <2>1. CASE ForeignPush
    <3> DEFINE e == [key |-> Foreign, content |-> Tree(remote)]
    <3>1. e \in Commit /\ e.key = Foreign
      BY <1>t DEF Commit
    <3>2. remote' = Append(remote, e)
      BY <2>1 DEF ForeignPush
    <3> HIDE DEF e
    <3>3. \A i \in DOMAIN remote' :
             remote'[i] = e \/ (i \in DOMAIN remote /\ remote'[i] = remote[i])
      BY <1>t, <3>1, <3>2, KeysOfAppend
    <3> QED
      BY <1>1, <3>1, <3>3 DEF KeyInv
  <2>2. CASE remote' = remote \/ remote' = head
    BY <1>1, <2>2 DEF KeyInv
  <2> QED
    BY <2>1, <2>2, RemoteIs
<1>3. \A i \in DOMAIN head' : head'[i].key # Foreign => head'[i].key \in Scheduled'
  <2>1. ASSUME NEW o \in Operations, NEW n \in Attempts(o), MakeCommit(o, n),
               head' = Append(head, [key |-> o, content |-> staged])
        PROVE  \A i \in DOMAIN head' : head'[i].key # Foreign => head'[i].key \in Scheduled'
    <3> DEFINE e == [key |-> o, content |-> staged]
    <3>1. e \in Commit /\ e.key = o
      BY <1>t DEF Commit
    <3>2. head' = Append(head, e)
      BY <2>1
    <3> HIDE DEF e
    <3>3. \A i \in DOMAIN head' :
             head'[i] = e \/ (i \in DOMAIN head /\ head'[i] = head[i])
      BY <1>t, <3>1, <3>2, KeysOfAppend
    <3>4. o \in Scheduled
      <4>1. n <= current[o] /\ n \in 1..MaxAttempts[o]
        BY <2>1 DEF MakeCommit, At, AttemptInv, Attempts
      <4>2. current[o] # 0
        BY <4>1, AttemptsAssumption DEF AttemptsAssumption
      <4> QED
        BY <4>2 DEF Scheduled
    <3> QED
      BY <1>1, <3>1, <3>3, <3>4, ScheduledGrows DEF KeyInv
  <2>2. CASE head' = head \/ head' = fetched
    BY <1>1, <2>2 DEF KeyInv
  <2> QED
    BY <2>1, <2>2, HeadIs DEF HeadMoves
<1>4. \A i \in DOMAIN fetched' : fetched'[i].key # Foreign => fetched'[i].key \in Scheduled'
  BY <1>1, FetchedIs DEF KeyInv
<1>5. IsPrefixOf(fetched', remote')
  <2>1. CASE fetched' = fetched
    BY <1>t, <1>n, <2>1, RemoteGrows, PrefixTransitive DEF KeyInv
  <2>2. CASE fetched' = remote /\ UNCHANGED remote
    BY <1>t, <2>2, PrefixOfItself
  <2> QED
    BY <2>1, <2>2, FetchedIs
<1> QED
  BY <1>2, <1>3, <1>4, <1>5 DEF KeyInv, KeysAreScheduled

-----------------------------------------------------------------------------
(* Attempts and results.                                                     *)
LEMMA ResultIs ==
    ASSUME TypeOK, [Next]_vars, NEW o \in Operations
    PROVE  /\ dropped \subseteq dropped'
           /\ \/ result'[o] = result[o]
              \/ result[o] = "none" /\ GiveUp(o) /\ result'[o] = "raised"
              \/ result[o] = "none" /\ Report(o) /\ result'[o] = ReportOf(o)
<1>1. CASE Edit \/ ForeignPush \/ UNCHANGED vars
  BY <1>1 DEF Edit, ForeignPush, vars, preparing
<1>2. CASE Prepare
  BY <1>2 DEF Prepare, PrepareFetch, PrepareReset, PrepareCheckout, PrepareGoes, AtFetched,
     HeadMoves
<1>3. ASSUME NEW q \in Operations, Schedule(q) \/ Retry(q)
      PROVE  UNCHANGED <<dropped, result>>
  BY <1>3 DEF Schedule, Retry, Begin, preparing
<1>4. ASSUME NEW q \in Operations, GiveUp(q) \/ Report(q)
      PROVE  /\ UNCHANGED dropped
             /\ \/ result'[o] = result[o]
                \/ result[o] = "none" /\ GiveUp(o) /\ result'[o] = "raised"
                \/ result[o] = "none" /\ Report(o) /\ result'[o] = ReportOf(o)
  <2>1. UNCHANGED dropped /\ result[q] = "none"
    BY <1>4 DEF GiveUp, Report, Overdue, preparing
  <2>2. CASE q # o
    BY <1>4, <2>1, <2>2 DEF GiveUp, Report, TypeOK
  <2>3. CASE q = o
    BY <1>4, <2>1, <2>3 DEF GiveUp, Report, TypeOK
  <2> QED
    BY <2>2, <2>3, <2>1
<1>5. ASSUME NEW q \in Operations, NEW n \in Attempts(q), Steps(q, n) \/ Dies(q, n)
      PROVE  UNCHANGED <<dropped, result>>
  BY <1>5, StepGoes DEF preparing
<1> QED
  BY <1>1, <1>2, <1>3, <1>4, <1>5 DEF Next, Server

(* Where an attempt may be after a step.                                     *)
LEMMA AttemptIs ==
    ASSUME TypeOK, [Next]_vars, NEW o \in Operations, NEW n \in Attempts(o)
    PROVE  \/ attempt'[o][n] = attempt[o][n]
           \/ Begin(o) /\ current[o] < MaxAttempts[o] /\ n = current[o] + 1
           \/ Steps(o, n) \/ Dies(o, n)
<1>1. CASE Edit \/ ForeignPush \/ UNCHANGED vars
  BY <1>1 DEF Edit, ForeignPush, vars
<1>2. CASE Prepare
  BY <1>2 DEF Prepare, PrepareFetch, PrepareReset, PrepareCheckout, PrepareGoes
<1>3. ASSUME NEW q \in Operations, Schedule(q) \/ Retry(q)
      PROVE  \/ attempt'[o][n] = attempt[o][n]
             \/ Begin(o) /\ current[o] < MaxAttempts[o] /\ n = current[o] + 1
  <2>1. Begin(q) /\ current[q] < MaxAttempts[q]
    BY <1>3, AttemptsAssumption DEF Schedule, Retry, AttemptsAssumption
  <2> QED
    BY <2>1, BeginIs
<1>4. ASSUME NEW q \in Operations, GiveUp(q) \/ Report(q) PROVE UNCHANGED attempt
  BY <1>4 DEF GiveUp, Report
<1>5. ASSUME NEW q \in Operations, NEW m \in Attempts(q), Steps(q, m) \/ Dies(q, m),
             ~(q = o /\ m = n)
      PROVE  attempt'[o][n] = attempt[o][n]
  BY <1>5, StepGoes, GoesIs
<1> QED
  BY <1>1, <1>2, <1>3, <1>4, <1>5 DEF Next, Server

(* A commit leaves the clone's branch only when the clone is prepared again, *)
(* and then the operation whose attempt relies on it is marked.              *)
LEMMA HeadKeepsKeys ==
    ASSUME TypeOK, [Next]_vars, NEW o \in Operations, NEW n \in Attempts(o),
           attempt[o][n] \in {"compare", "push"}, Keyed(head, o) # {}
    PROVE  Keyed(head', o) # {} \/ Dropped(o)'
<1>t. head \in Seq(Commit) /\ staged \in 0..MaxEdits
  BY DEF TypeOK
<1>1. CASE HeadMoves /\ result' = result
  <2>1. CASE head = fetched
    BY <1>1, <2>1 DEF HeadMoves
  <2>2. CASE result[o] # "none"
    BY <1>1, <2>2 DEF Dropped
  <2>3. CASE head # fetched /\ result[o] = "none"
    BY <1>1, <2>3 DEF HeadMoves, Dropped
  <2> QED
    BY <2>1, <2>2, <2>3
<1>2. ASSUME NEW q \in Operations, NEW m \in Attempts(q),
             head' = Append(head, [key |-> q, content |-> staged])
      PROVE  Keyed(head', o) # {}
  <2> DEFINE e == [key |-> q, content |-> staged]
  <2>1. e \in Commit
    BY <1>t DEF Commit
  <2>2. head' = Append(head, e)
    BY <1>2
  <2> HIDE DEF e
  <2>3. IsPrefixOf(head, head') /\ head' \in Seq(Commit)
    BY <1>t, <2>1, <2>2, PrefixOfAppend, AppendProperties
  <2> QED
    BY <1>t, <2>3, KeyedByPrefix
<1> QED
  BY <1>1, <1>2, HeadIs

LEMMA NextAttempt == TypeOK /\ KeyInv /\ AttemptInv /\ [Next]_vars => AttemptInv'
<1> SUFFICES ASSUME TypeOK, KeyInv, AttemptInv, [Next]_vars,
                    NEW o \in Operations, NEW n \in Attempts(o)
             PROVE  /\ attempt'[o][n] # "unborn" => n <= current'[o]
                    /\ attempt'[o][n] \in {"compare", "push"} =>
                          Keyed(head', o) # {} \/ Dropped(o)'
                    /\ attempt'[o][n] = "pushed" => Keyed(remote', o) # {} \/ Dropped(o)'
  BY DEF AttemptInv, Attempts
<1>t. /\ remote \in Seq(Commit) /\ head \in Seq(Commit) /\ fetched \in Seq(Commit)
      /\ staged \in 0..MaxEdits
  BY DEF TypeOK
<1>n. remote' \in Seq(Commit)
  BY NextType DEF TypeOK
<1>i. /\ attempt[o][n] # "unborn" => n <= current[o]
      /\ attempt[o][n] \in {"compare", "push"} => Keyed(head, o) # {} \/ Dropped(o)
      /\ attempt[o][n] = "pushed" => Keyed(remote, o) # {} \/ Dropped(o)
  BY DEF AttemptInv
<1>d. Dropped(o) => Dropped(o)'
  BY ResultIs DEF Dropped
<1>r. Keyed(remote, o) # {} => Keyed(remote', o) # {}
  BY <1>t, <1>n, RemoteGrows, KeyedByPrefix
<1>1. CASE attempt'[o][n] = attempt[o][n]
  <2>1. attempt'[o][n] # "unborn" => n <= current'[o]
    <3>1. current[o] <= current'[o] /\ current[o] \in Nat /\ current'[o] \in Nat
      <4>1. ASSUME NEW q \in Operations, Schedule(q) \/ Retry(q)
            PROVE  current'[o] \in {current[o], current[o] + 1}
        <5>1. Begin(q) /\ current[q] < MaxAttempts[q]
          BY <4>1, AttemptsAssumption DEF Schedule, Retry, AttemptsAssumption
        <5> QED
          BY <5>1, BeginIs
      <4>2. ASSUME NEW q \in Operations, NEW m \in Attempts(q), Steps(q, m) \/ Dies(q, m)
            PROVE  current'[o] = current[o]
        BY <4>2, StepGoes
      <4>3. current'[o] \in {current[o], current[o] + 1}
        BY <4>1, <4>2 DEF Next, Server, Edit, ForeignPush, Prepare, PrepareFetch, PrepareReset,
           PrepareCheckout, PrepareGoes, GiveUp, Report, vars
      <4>4. current[o] \in Nat
        BY AttemptsAssumption DEF TypeOK, Attempts, AttemptsAssumption
      <4> QED
        BY <4>3, <4>4
    <3>2. n \in Nat
      BY AttemptsAssumption DEF Attempts, AttemptsAssumption
    <3> QED
      BY <1>1, <1>i, <3>1, <3>2
  <2>2. attempt'[o][n] \in {"compare", "push"} => Keyed(head', o) # {} \/ Dropped(o)'
    BY <1>1, <1>i, <1>d, HeadKeepsKeys
  <2> QED
    BY <1>1, <1>i, <1>d, <1>r, <2>1, <2>2
<1>2. CASE Begin(o) /\ current[o] < MaxAttempts[o] /\ n = current[o] + 1
  <2>1. attempt'[o][n] = "fetch" /\ current'[o] = n
    BY <1>2, BeginIs
  <2>2. n \in Nat
    BY AttemptsAssumption DEF Attempts, AttemptsAssumption
  <2> QED
    BY <2>1, <2>2
<1>3. CASE Steps(o, n) \/ Dies(o, n)
  <2>1. n <= current[o] /\ current' = current
    BY <1>3, <1>i, StepGoes DEF Working
  <2>2. CASE Fetch(o, n) \/ Add(o, n) \/ Diff(o, n) \/ Dies(o, n)
    <3>1. attempt'[o][n] \in {"lookup", "declined", "diff", "commit", "dead"}
      <4>1. PICK place \in {"lookup", "declined", "diff", "commit", "dead"} : Goes(o, n, place)
        BY <2>2 DEF Fetch, Add, Diff, Dies
      <4> QED
        BY <4>1, GoesIs DEF Places, Working
    <3> QED
      BY <2>1, <3>1
  <2>3. CASE Lookup(o, n)
    <3>1. \/ Goes(o, n, "pushed") /\ Found(o)
          \/ Goes(o, n, "add")
      BY <2>3 DEF Lookup
    <3>2. \/ attempt'[o][n] \in {"pushed", "dead"} /\ Found(o)
          \/ attempt'[o][n] \in {"add", "dead"}
      BY <3>1, GoesIs DEF Places, Working
    <3>3. Found(o) => Keyed(remote', o) # {}
      BY <1>t, <1>r, KeyedByPrefix DEF Found, KeyInv
    <3> QED
      BY <2>1, <3>2, <3>3
  <2>4. CASE MakeCommit(o, n)
    <3>1. CASE Goes(o, n, "dead")
      <4>1. attempt'[o][n] = "dead"
        BY <3>1, GoesIs DEF Places
      <4> QED
        BY <2>1, <4>1
    <3>2. CASE Goes(o, n, "compare") /\ head' = Append(head, [key |-> o, content |-> staged])
      <4> DEFINE e == [key |-> o, content |-> staged]
      <4>1. e \in Commit /\ e.key = o
        BY <1>t DEF Commit
      <4>2. head' = Append(head, e)
        BY <3>2
      <4> HIDE DEF e
      <4>3. Keyed(head', o) # {}
        BY <1>t, <4>1, <4>2, KeysOfAppend
      <4>4. attempt'[o][n] = "compare"
        BY <3>2, GoesIs DEF Places, Working
      <4> QED
        BY <2>1, <4>3, <4>4
    <3> QED
      BY <2>4, <3>1, <3>2 DEF MakeCommit
  <2>5. CASE Compare(o, n)
    <3>1. attempt[o][n] = "compare" /\ head' = head
      BY <2>5 DEF Compare, At, git
    <3>2. Goes(o, n, "declined") \/ Goes(o, n, "push")
      BY <2>5 DEF Compare
    <3>3. attempt'[o][n] \in {"declined", "push", "dead"}
      BY <3>2, GoesIs DEF Places, Working
    <3> QED
      BY <1>i, <1>d, <2>1, <3>1, <3>3
  <2>6. CASE Push(o, n)
    <3>1. attempt[o][n] = "push"
      BY <2>6 DEF Push, At
    <3>2. \/ Goes(o, n, "pushed") /\ remote' = head
          \/ Goes(o, n, "declined")
      BY <2>6 DEF Push
    <3>3. \/ attempt'[o][n] \in {"pushed", "dead"} /\ remote' = head
          \/ attempt'[o][n] \in {"declined", "dead"}
      BY <3>2, GoesIs DEF Places, Working
    <3> QED
      BY <1>i, <1>d, <2>1, <3>1, <3>3
  <2> QED
    BY <1>3, <2>2, <2>3, <2>4, <2>5, <2>6 DEF Steps
<1> QED
  BY <1>1, <1>2, <1>3, AttemptIs

LEMMA NextResult == TypeOK /\ AttemptInv /\ ResultInv /\ [Next]_vars => ResultInv'
<1> SUFFICES ASSUME TypeOK, AttemptInv, ResultInv, [Next]_vars,
                    NEW o \in Operations, result'[o] = "pushed"
             PROVE  Keyed(remote', o) # {} \/ o \in dropped'
  BY DEF ResultInv
<1>1. Keyed(remote, o) # {} => Keyed(remote', o) # {}
  <2>1. remote \in Seq(Commit) /\ remote' \in Seq(Commit)
    BY NextType DEF TypeOK
  <2> QED
    BY <2>1, RemoteGrows, KeyedByPrefix
<1>2. Keyed(remote, o) # {} \/ o \in dropped
  <2>1. CASE result[o] = "pushed"
    BY <2>1 DEF ResultInv
  <2>2. CASE result[o] = "none" /\ Report(o) /\ result'[o] = ReportOf(o)
    <3>1. current[o] \in Attempts(o) /\ attempt[o][current[o]] = "pushed"
      BY <2>2 DEF Report, ReportOf, TypeOK
    <3> QED
      BY <2>2, <3>1 DEF AttemptInv, Dropped
  <2> QED
    BY <2>1, <2>2, ResultIs
<1> QED
  BY <1>1, <1>2, ResultIs

-----------------------------------------------------------------------------
(* The keys the abstract push is about.                                      *)
publishedKeys == {o \in Operations : Keyed(remote, o) # {}}
toldKeys == {o \in Operations : result[o] = "pushed"} \ dropped
KeyedStep == [KeyPushes!Next]_<<Scheduled, publishedKeys, toldKeys>>

(* Every step of the git commands is a step of the abstract push: a new      *)
(* operation is scheduled, or keys are published and told.                   *)
LEMMA NextKeyed == IInv /\ IInv' /\ [Next]_vars => KeyedStep
<1> SUFFICES ASSUME IInv, IInv', [Next]_vars PROVE KeyedStep
  OBVIOUS
<1>t. /\ TypeOK /\ KeyInv' /\ ResultInv'
      /\ remote \in Seq(Commit) /\ remote' \in Seq(Commit) /\ DOMAIN current = Operations
  BY DEF IInv, TypeOK
<1>1. ASSUME NEW o \in Operations, Schedule(o) PROVE KeyedStep
  <2>1. Begin(o) /\ current[o] < MaxAttempts[o] /\ UNCHANGED <<remote, result, dropped>>
    BY <1>1, AttemptsAssumption DEF Schedule, Begin, AttemptsAssumption, git, preparing
  <2>2. current'[o] # 0 /\ \A q \in Operations \ {o} : current'[q] = current[q]
    <3>1. current[o] + 1 \in 1..MaxAttempts[o] /\ current'[o] = current[o] + 1
      BY <1>t, <2>1, BeginIs DEF Attempts
    <3>2. \A q \in Operations \ {o} : current'[q] = current[q]
      BY <1>t, <2>1, BeginIs
    <3> QED
      BY <3>1, <3>2
  <2>3. Scheduled' = Scheduled \cup {o}
    BY <2>2 DEF Scheduled
  <2>4. UNCHANGED <<publishedKeys, toldKeys>>
    BY <2>1 DEF publishedKeys, toldKeys
  <2>5. KeyPushes!Next
    BY <2>3, <2>4 DEF KeyPushes!Next, KeyPushes!Schedule, Scheduled, publishedKeys, toldKeys
  <2> QED
    BY <2>5 DEF KeyedStep
<1>2. ASSUME Scheduled' = Scheduled PROVE KeyedStep
  <2> DEFINE S == publishedKeys' \ publishedKeys
             T == toldKeys'
  <2>1. publishedKeys \subseteq publishedKeys'
    BY <1>t, RemoteGrows, KeyedByPrefix DEF publishedKeys
  <2>2. S \in SUBSET Scheduled
    <3> SUFFICES ASSUME NEW o \in Operations, Keyed(remote', o) # {} PROVE o \in Scheduled'
      BY <1>2 DEF publishedKeys
    <3>1. PICK i \in DOMAIN remote' : remote'[i].key = o
      BY DEF Keyed
    <3> QED
      BY <1>t, <3>1, KeysAssumption DEF KeyInv, KeysAreScheduled, KeysAssumption
  <2>3. toldKeys \subseteq toldKeys'
    <3> SUFFICES ASSUME NEW o \in Operations, result[o] = "pushed", o \notin dropped
                 PROVE  result'[o] = "pushed" /\ o \notin dropped'
      BY DEF toldKeys
    <3>1. result'[o] = "pushed"
      BY <1>t, ResultIs
    <3>2. CASE HeadMoves
      BY <3>1, <3>2 DEF HeadMoves
    <3>3. CASE UNCHANGED dropped
      BY <3>1, <3>3
    <3>4. ASSUME NEW q \in Operations, NEW n \in Attempts(q), Steps(q, n) \/ Dies(q, n)
          PROVE  UNCHANGED dropped
      BY <3>4, StepGoes DEF preparing
    <3> QED
      BY <3>1, <3>2, <3>3, <3>4 DEF Next, Server, Schedule, Retry, Begin, GiveUp, Report, Edit,
         ForeignPush, Prepare, PrepareFetch, PrepareReset, PrepareCheckout, AtFetched,
         preparing, vars
  <2>4. T \in SUBSET Operations /\ T \subseteq publishedKeys'
    BY <1>t DEF toldKeys, publishedKeys, ResultInv
  <2>5. publishedKeys' = publishedKeys \cup S /\ toldKeys' = toldKeys \cup T
    BY <2>1, <2>3
  <2> HIDE DEF S, T
  <2>6. KeyPushes!Next
    BY <1>2, <2>2, <2>4, <2>5
       DEF KeyPushes!Next, KeyPushes!Push, Scheduled, publishedKeys, toldKeys
  <2> QED
    BY <2>6 DEF KeyedStep
<1>3. ASSUME NEW o \in Operations, Retry(o) PROVE Scheduled' = Scheduled
  <2>1. Begin(o) /\ current[o] # 0 /\ current[o] < MaxAttempts[o]
    BY <1>3 DEF Retry, Overdue
  <2>2. Scheduled \subseteq Scheduled'
    BY <1>t, ScheduledGrows
  <2>3. \A q \in Operations \ {o} : current'[q] = current[q]
    BY <1>t, <2>1, BeginIs
  <2> QED
    BY <2>1, <2>2, <2>3 DEF Scheduled
<1>4. ASSUME NEW o \in Operations, NEW n \in Attempts(o), Steps(o, n) \/ Dies(o, n)
      PROVE  UNCHANGED current
  BY <1>4, StepGoes
<1>5. CASE UNCHANGED current
  BY <1>2, <1>5 DEF Scheduled
<1> QED
  BY <1>1, <1>2, <1>3, <1>4, <1>5 DEF Next, Server, GiveUp, Report, Edit, ForeignPush, Prepare,
     PrepareFetch, PrepareReset, PrepareCheckout, PrepareGoes, vars

-----------------------------------------------------------------------------
LEMMA InitInv == Init => IInv
<1> SUFFICES ASSUME Init PROVE IInv
  OBVIOUS
<1> USE PushBoundsAssumption DEF Init, PushBoundsAssumption
<1>1. /\ DOMAIN remote = {} /\ DOMAIN head = {} /\ DOMAIN fetched = {}
      /\ Tree(remote) = 0 /\ Tree(head) = 0 /\ Tree(fetched) = 0
      /\ <<>> \in Seq(Commit)
  BY EmptySeq DEF Tree
<1>2. TypeOK
  BY <1>1 DEF TypeOK, Places, Results
<1>3. ContentInv
  BY <1>1 DEF ContentInv, Grows
<1>4. KeyInv
  BY <1>1, PrefixOfItself DEF KeyInv, KeysAreScheduled
<1>5. AttemptInv /\ ResultInv
  BY DEF AttemptInv, ResultInv
<1> QED
  BY <1>2, <1>3, <1>4, <1>5 DEF IInv

(* The inductive invariant: contents grow along every history, commits carry *)
(* scheduled keys, and what an attempt relies on is there or was taken away  *)
(* by prepare_workdir (lifecycle.py:198-248).                                *)
THEOREM Invariance == Spec => []IInv
<1>1. IInv /\ [Next]_vars => IInv'
  BY NextType, NextContent, NextKeys, NextAttempt, NextResult DEF IInv
<1> QED
  BY <1>1, InitInv, PTL DEF Spec

(* TypeOK: every variable keeps to its type.                                 *)
THEOREM TypeCorrect == Spec => []TypeOK
<1>1. IInv => TypeOK
  BY DEF IInv
<1> QED
  BY <1>1, Invariance, PTL

(* A retry adds nothing: a second commit of an operation holds edits that    *)
(* were made after the first (lifecycle.py:219-248).                         *)
THEOREM NothingIsAddedTwice == Spec => []RetriesAddNothing
<1>1. ASSUME IInv PROVE RetriesAddNothing
  BY <1>1, KeysAssumption
     DEF IInv, ContentInv, Grows, RetriesAddNothing, Keyed, KeysAssumption
<1> QED
  BY <1>1, Invariance, PTL

(* Nothing but preparing the clone again ends a divergence from the branch   *)
(* (lifecycle.py:236-241).                                                   *)
THEOREM DivergenceStays == Spec => DivergedIsFinal
<1>1. ASSUME TypeOK, [Next]_vars, Diverged PROVE Diverged' \/ head' = fetched
  <2>t. /\ remote \in Seq(Commit) /\ head \in Seq(Commit)
        /\ staged \in 0..MaxEdits /\ Tree(remote) \in 0..MaxEdits
    BY <1>1, TreeIsContent DEF TypeOK
  <2>1. Apart(head, remote) /\ Apart(remote, head) /\ ~FastForward
    BY <1>1 DEF Diverged, Apart, FastForward
  <2>2. CASE ForeignPush
    <3>1. [key |-> Foreign, content |-> Tree(remote)] \in Commit
      BY <2>t DEF Commit
    <3>2. Apart(Append(remote, [key |-> Foreign, content |-> Tree(remote)]), head)
      BY <2>t, <2>1, <3>1, ApartLasts
    <3> QED
      BY <2>2, <3>2 DEF ForeignPush, Diverged, Apart
  <2>3. ASSUME NEW o \in Operations, NEW n \in Attempts(o), MakeCommit(o, n),
               head' = Append(head, [key |-> o, content |-> staged])
        PROVE  Diverged'
    <3>1. [key |-> o, content |-> staged] \in Commit
      BY <2>t DEF Commit
    <3>2. Apart(Append(head, [key |-> o, content |-> staged]), remote)
      BY <2>t, <2>1, <3>1, ApartLasts
    <3> QED
      BY <2>3, <3>2 DEF MakeCommit, Diverged, Apart
  <2>4. CASE UNCHANGED <<head, remote>>
    BY <1>1, <2>4 DEF Diverged
  <2> QED
    BY <1>1, <2>1, <2>2, <2>3, <2>4, HeadIs, RemoteIs DEF HeadMoves
<1>2. TypeOK /\ [Next]_vars => [Diverged => Diverged' \/ head' = fetched]_vars
  BY <1>1
<1> QED
  BY <1>2, TypeCorrect, PTL DEF Spec, DivergedIsFinal

(* The git commands keep the abstract push's promise: what is said to be     *)
(* pushed is on the branch, and only scheduled operations publish            *)
(* (lifecycle.py:224-225, 242-248).                                          *)
THEOREM PushIsKeyed == Spec => PublicationIsKeyed
<1>1. Init => KeyPushes!Init
  BY DEF Init, KeyPushes!Init, Keyed
<1>2. IInv /\ IInv' /\ [Next]_vars => [KeyPushes!Next]_KeyPushes!vars
  BY NextKeyed DEF KeyedStep, KeyPushes!vars, Scheduled, publishedKeys, toldKeys
<1> QED
  BY <1>1, <1>2, Invariance, PTL DEF Spec, PublicationIsKeyed, KeyPushes!Spec

=============================================================================
