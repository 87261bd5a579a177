---------------------------- MODULE GatewayProofs ----------------------------
(* Proofs about the gateway, for every set of pull requests and webhooks,    *)
(* every allowlist and approver list, and any number of redeliveries and     *)
(* executions.                                                               *)
EXTENDS Gateway, TLAPS

(* What a handler at one of its awaits has already made sure of.             *)
HandlerInv ==
    \A r \in Requests :
        /\ handler[r] = "fetch" => Listed(r[1]) /\ r[1].kind # "command"
        /\ handler[r] = "start" =>
              /\ Listed(r[1]) /\ r[1].kind # "command"
              /\ r[1].kind = "synchronize" /\ r[1].bot => r[1] \in unread
        /\ handler[r] = "signal" => r[1].kind = "command" /\ Authorized(r[1])

(* What an execution recorded was taken by one; its verdicts and, while it is*)
(* open, its pull request are allowed.                                       *)
AtExecution(i) ==
    /\ processed[i] \subseteq taken
    /\ \A v \in verdicts[i] :
          v.kind = "command" /\ v.author \in APPROVER_LOGINS /\ Listed(v)
    /\ open[i] => Allowed(pr[i])
ExecutionInv == \A i \in Ids : AtExecution(i)

WorkedOnInv ==
    /\ \A w \in taken : Listed(w)
    /\ \A p \in published : Allowed(p)

QueueType == DOMAIN queue = Ids

IInv ==
    /\ TypeOK /\ QueueType /\ HandlerInv /\ ExecutionInv /\ WorkedOnInv
    /\ OwnPushIgnored /\ AcceptedIsTaken

-----------------------------------------------------------------------------
(* A request is a webhook's, and its pull request has a workflow id.         *)
LEMMA RequestIs ==
    ASSUME NEW r \in Requests
    PROVE  /\ r[1] \in Webhooks /\ r[1].pr \in PRs /\ r[1].kind \in Kinds
           /\ IdOf(r[1]) \in Ids
<1>1. r[1] \in Webhooks
  BY DEF Requests
<1> QED
  BY <1>1, WebhooksAssumption DEF WebhooksAssumption, IdOf, Ids

Steps(r) ==
    \/ Receive(r) \/ FetchReads(r) \/ FetchFails(r) \/ CallFails(r)
Places == {"none"} \cup Awaiting \cup Answers

LEMMA GoesIs ==
    ASSUME TypeOK, NEW r \in Requests, NEW place \in Places, Goes(r, place)
    PROVE  /\ handler' \in [Requests -> Places]
           /\ handler'[r] = place
           /\ \A q \in Requests \ {r} : handler'[q] = handler[q]
BY DEF TypeOK, Goes, Places

(* Where a handler's steps before its call of Temporal lead.                 *)
LEMMA ReceiveIs ==
    ASSUME NEW r \in Requests, Receive(r)
    PROVE  \/ Goes(r, "204")
           \/ Goes(r, "403")
           \/ Goes(r, "fetch") /\ Listed(r[1]) /\ r[1].kind # "command"
           \/ /\ Goes(r, "start") /\ Listed(r[1]) /\ r[1].kind # "command"
              /\ r[1].kind # "synchronize"
           \/ Goes(r, "signal") /\ r[1].kind = "command" /\ Authorized(r[1])
<1>1. CASE r[1].kind = "command"
  <2>1. Goes(r, RouteCommand(r[1]))
    BY <1>1 DEF Receive
  <2> QED
    BY <1>1, <2>1 DEF RouteCommand
<1>2. CASE r[1].kind # "command"
  <2>1. Goes(r, RouteEvent(r[1]))
    BY <1>2 DEF Receive
  <2>2. \/ RouteEvent(r[1]) = "204"
        \/ RouteEvent(r[1]) = "403"
        \/ RouteEvent(r[1]) = "fetch" /\ Listed(r[1])
        \/ RouteEvent(r[1]) = "start" /\ Listed(r[1]) /\ r[1].kind # "synchronize"
    <3>1. CASE r[1].kind = "other"
      BY <3>1 DEF RouteEvent
    <3>2. CASE r[1].kind # "other" /\ ~Listed(r[1])
      BY <3>2 DEF RouteEvent
    <3>3. CASE r[1].kind = "synchronize" /\ Listed(r[1])
      BY <3>3 DEF RouteEvent
    <3>4. CASE r[1].kind \notin {"other", "synchronize"} /\ Listed(r[1])
      BY <3>4 DEF RouteEvent
    <3> QED
      BY <3>1, <3>2, <3>3, <3>4
  <2> QED
    BY <1>2, <2>1, <2>2
<1> QED
  BY <1>1, <1>2

(* What a step before, or instead of, that call changes.                     *)
LEMMA StepIs ==
    ASSUME NEW r \in Requests, Steps(r)
    PROVE  /\ UNCHANGED <<temporal, published>>
           /\ unread' \in {unread, unread \cup {r[1]}}
           /\ \/ Receive(r)
              \/ Goes(r, "204")
              \/ Goes(r, "500")
              \/ /\ handler[r] = "fetch" /\ Goes(r, "start")
                 /\ r[1].bot => r[1] \in unread'
<1>1. CASE Receive(r)
  BY <1>1 DEF Receive
<1>2. CASE FetchReads(r)
  BY <1>2 DEF FetchReads, OwnPush
<1>3. CASE FetchFails(r)
  BY <1>3 DEF FetchFails
<1>4. CASE CallFails(r)
  BY <1>4 DEF CallFails, Failure
<1> QED
  BY <1>1, <1>2, <1>3, <1>4 DEF Steps

LEMMA StepGoes ==
    ASSUME NEW r \in Requests, Steps(r)
    PROVE  \E place \in Places : Goes(r, place)
<1>1. \E place \in {"204", "403", "500", "fetch", "start", "signal"} : Goes(r, place)
  BY StepIs, ReceiveIs
<1> QED
  BY <1>1 DEF Places, Awaiting, Answers

-----------------------------------------------------------------------------
(* Types.                                                                    *)
LEMMA NextType == TypeOK /\ QueueType /\ [Next]_vars => TypeOK' /\ QueueType'
<1> SUFFICES ASSUME TypeOK, QueueType, [Next]_vars PROVE TypeOK' /\ QueueType'
  OBVIOUS
<1>t. /\ handler \in [Requests -> Places]
      /\ execution \in [Ids -> 0..MaxExecutions] /\ open \in [Ids -> BOOLEAN]
      /\ pr \in [Ids -> PRs]
      /\ processed \in [Ids -> SUBSET Webhooks] /\ verdicts \in [Ids -> SUBSET Webhooks]
      /\ taken \subseteq Webhooks /\ DOMAIN queue = Ids
      /\ \A i \in Ids : queue[i] \subseteq processed[i]
      /\ \A i \in Ids : open[i] => execution[i] > 0
  BY DEF TypeOK, QueueType, Places
<1>1. ASSUME NEW r \in Requests, Steps(r) PROVE TypeOK' /\ QueueType'
  <2>1. handler' \in [Requests -> Places]
    BY <1>1, StepGoes, GoesIs
  <2>2. UNCHANGED <<temporal, published>> /\ unread' \in {unread, unread \cup {r[1]}}
    BY <1>1, StepIs
  <2> QED
    BY <2>1, <2>2, RequestIs DEF TypeOK, QueueType, Places, temporal
<1>2. ASSUME NEW r \in Requests, NEW answer \in {Accepted, Failure}, StartWithSignal(r, answer)
      PROVE  TypeOK' /\ QueueType'
  <2> DEFINE w == r[1]
             i == IdOf(w)
  <2>1. w \in Webhooks /\ w.pr \in PRs /\ i \in Ids
    BY RequestIs
  <2>2. handler' \in [Requests -> Places] /\ UNCHANGED <<unread, published>>
    <3>1. Goes(r, answer) /\ answer \in Places
      BY <1>2 DEF StartWithSignal, Accepted, Failure, Places, Answers
    <3> QED
      BY <1>2, <3>1, GoesIs DEF StartWithSignal
  <2>3. CASE OnEvent(w)
    <3>1. UNCHANGED <<execution, open, pr, verdicts>>
      BY <2>3 DEF OnEvent
    <3>2. /\ taken' \subseteq Webhooks /\ DOMAIN queue' = Ids
          /\ processed' \in [Ids -> SUBSET Webhooks]
          /\ \A j \in Ids : queue'[j] \subseteq processed'[j]
      <4>1. CASE UNCHANGED <<queue, processed, taken>>
        BY <1>t, <4>1
      <4>2. CASE /\ queue' = [queue EXCEPT ![i] = @ \cup {w}]
                 /\ processed' = [processed EXCEPT ![i] = @ \cup {w}]
                 /\ taken' = taken \cup {w}
        <5> HIDE DEF w, i
        <5>1. taken' \subseteq Webhooks /\ DOMAIN queue' = Ids
          BY <1>t, <2>1, <4>2
        <5>2. processed' \in [Ids -> SUBSET Webhooks]
          BY <1>t, <2>1, <4>2
        <5>3. \A j \in Ids : queue'[j] \subseteq processed'[j]
          <6>1. queue'[i] = queue[i] \cup {w} /\ processed'[i] = processed[i] \cup {w}
            BY <1>t, <2>1, <4>2
          <6>2. \A j \in Ids \ {i} : queue'[j] = queue[j] /\ processed'[j] = processed[j]
            BY <1>t, <4>2
          <6> QED
            BY <1>t, <6>1, <6>2
        <5> QED
          BY <5>1, <5>2, <5>3
      <4> QED
        BY <2>3, <4>1, <4>2 DEF OnEvent, Processed
    <3> QED
      BY <1>t, <2>2, <3>1, <3>2 DEF TypeOK, QueueType, Places
  <2>4. CASE FirstEvent(w)
    <3>1. /\ execution' = [execution EXCEPT ![i] = @ + 1] /\ execution[i] < MaxExecutions
          /\ open' = [open EXCEPT ![i] = TRUE] /\ pr' = [pr EXCEPT ![i] = w.pr]
          /\ queue' = [queue EXCEPT ![i] = {w}] /\ processed' = [processed EXCEPT ![i] = {w}]
          /\ verdicts' = [verdicts EXCEPT ![i] = {}] /\ taken' = taken \cup {w}
      BY <2>4 DEF FirstEvent
    <3> HIDE DEF w, i
    <3>2. execution[i] + 1 \in 1..MaxExecutions
      BY <1>t, <2>1, <3>1, GatewayBoundsAssumption DEF GatewayBoundsAssumption
    <3>3. /\ execution' \in [Ids -> 0..MaxExecutions] /\ open' \in [Ids -> BOOLEAN]
          /\ \A j \in Ids : open'[j] => execution'[j] > 0
      <4>1. execution'[i] = execution[i] + 1 /\ \A j \in Ids \ {i} : execution'[j] = execution[j]
        BY <1>t, <2>1, <3>1
      <4>2. \A j \in Ids \ {i} : open'[j] = open[j]
        BY <1>t, <3>1
      <4>3. execution' = [execution EXCEPT ![i] = execution[i] + 1]
        BY <3>1
      <4>4. execution[i] + 1 \in 0..MaxExecutions
        BY <3>2
      <4>5. execution' \in [Ids -> 0..MaxExecutions]
        BY <1>t, <4>3, <4>4
      <4> QED
        BY <1>t, <3>1, <3>2, <4>1, <4>2, <4>5
    <3>4. /\ pr' \in [Ids -> PRs] /\ verdicts' \in [Ids -> SUBSET Webhooks]
          /\ processed' \in [Ids -> SUBSET Webhooks]
      BY <1>t, <2>1, <3>1
    <3>5. DOMAIN queue' = Ids /\ \A j \in Ids : queue'[j] \subseteq processed'[j]
      BY <1>t, <2>1, <3>1
    <3>6. taken' \subseteq Webhooks
      BY <1>t, <2>1, <3>1
    <3> QED
      BY <1>t, <2>2, <3>3, <3>4, <3>5, <3>6 DEF TypeOK, QueueType, Places
  <2> QED
    BY <1>2, <2>3, <2>4 DEF StartWithSignal
<1>3. ASSUME NEW r \in Requests, NEW answer \in {Accepted, Failure}, SignalVerdict(r, answer)
      PROVE  TypeOK' /\ QueueType'
  <2>1. handler' \in [Requests -> Places]
    <3>1. Goes(r, answer) /\ answer \in Places
      BY <1>3 DEF SignalVerdict, Accepted, Failure, Places, Answers
    <3> QED
      BY <3>1, GoesIs
  <2>2. verdicts' \in [Ids -> SUBSET Webhooks]
    BY <1>3, <1>t, RequestIs DEF SignalVerdict
  <2> QED
    BY <1>3, <1>t, <2>1, <2>2 DEF SignalVerdict, TypeOK, QueueType, Places
<1>4. ASSUME NEW i \in Ids, Iterate(i) \/ Publish(i) \/ Return(i) PROVE TypeOK' /\ QueueType'
  <2>1. CASE Iterate(i)
    BY <1>t, <2>1 DEF Iterate, TypeOK, QueueType
  <2>2. CASE Publish(i)
    BY <1>t, <2>2 DEF Publish, TypeOK, QueueType, temporal
  <2>3. CASE Return(i)
    BY <1>t, <2>3 DEF Return, TypeOK, QueueType
  <2> QED
    BY <1>4, <2>1, <2>2, <2>3
<1>5. CASE UNCHANGED vars
  BY <1>5 DEF vars, temporal, TypeOK, QueueType
<1> QED
  BY <1>1, <1>2, <1>3, <1>4, <1>5 DEF Next, Handle, Steps

-----------------------------------------------------------------------------
(* The handlers.                                                             *)
LEMMA NextHandler == TypeOK /\ HandlerInv /\ [Next]_vars => HandlerInv'
<1> SUFFICES ASSUME TypeOK, HandlerInv, [Next]_vars, NEW q \in Requests
             PROVE  /\ handler'[q] = "fetch" => Listed(q[1]) /\ q[1].kind # "command"
                    /\ handler'[q] = "start" =>
                          /\ Listed(q[1]) /\ q[1].kind # "command"
                          /\ q[1].kind = "synchronize" /\ q[1].bot => q[1] \in unread'
                    /\ handler'[q] = "signal" => q[1].kind = "command" /\ Authorized(q[1])
  BY DEF HandlerInv, Listed, Allowed, Authorized
<1>i. /\ handler[q] = "fetch" => Listed(q[1]) /\ q[1].kind # "command"
      /\ handler[q] = "start" =>
            /\ Listed(q[1]) /\ q[1].kind # "command"
            /\ q[1].kind = "synchronize" /\ q[1].bot => q[1] \in unread
      /\ handler[q] = "signal" => q[1].kind = "command" /\ Authorized(q[1])
  BY DEF HandlerInv
<1>1. CASE handler'[q] = handler[q] /\ unread \subseteq unread'
  BY <1>i, <1>1
<1>2. CASE handler'[q] \in Answers
  BY <1>2 DEF Answers
<1>3. ASSUME NEW r \in Requests, Steps(r), r # q
      PROVE  handler'[q] = handler[q] /\ unread \subseteq unread'
  <2>1. handler'[q] = handler[q]
    BY <1>3, StepGoes, GoesIs
  <2> QED
    BY <1>3, <2>1, StepIs
<1>4. CASE Receive(q)
  <2>1. \/ handler'[q] \in Answers
        \/ handler'[q] = "fetch" /\ Listed(q[1]) /\ q[1].kind # "command"
        \/ /\ handler'[q] = "start" /\ Listed(q[1]) /\ q[1].kind # "command"
           /\ q[1].kind # "synchronize"
        \/ handler'[q] = "signal" /\ q[1].kind = "command" /\ Authorized(q[1])
    BY <1>4, ReceiveIs, GoesIs DEF Places, Awaiting, Answers
  <2> QED
    BY <1>2, <2>1
<1>5. CASE Steps(q) /\ ~Receive(q)
  <2>1. \/ handler'[q] \in Answers
        \/ /\ handler[q] = "fetch" /\ handler'[q] = "start"
           /\ q[1].bot => q[1] \in unread'
    BY <1>5, StepIs, GoesIs DEF Places, Awaiting, Answers
  <2> QED
    BY <1>i, <1>2, <2>1
<1>6. ASSUME NEW r \in Requests, NEW answer \in {Accepted, Failure},
             StartWithSignal(r, answer) \/ SignalVerdict(r, answer)
      PROVE  \/ handler'[q] = handler[q] /\ unread \subseteq unread'
             \/ handler'[q] \in Answers
  <2>1. Goes(r, answer) /\ UNCHANGED unread
    BY <1>6 DEF StartWithSignal, SignalVerdict
  <2>2. answer \in Answers /\ answer \in Places
    BY DEF Accepted, Failure, Answers, Places
  <2> QED
    BY <2>1, <2>2, GoesIs
<1>7. ASSUME NEW i \in Ids, Iterate(i) \/ Publish(i) \/ Return(i)
      PROVE  UNCHANGED <<handler, unread>>
  BY <1>7 DEF Iterate, Publish, Return
<1>8. CASE UNCHANGED <<handler, unread>>
  BY <1>1, <1>8
<1>9. UNCHANGED vars => UNCHANGED <<handler, unread>>
  BY DEF vars
<1> QED
  BY <1>1, <1>2, <1>3, <1>4, <1>5, <1>6, <1>7, <1>8, <1>9 DEF Next, Handle, Steps

-----------------------------------------------------------------------------
(* The executions.                                                           *)

(* The call of Temporal, whether it finds an execution open or starts one.   *)
LEMMA CallIs ==
    ASSUME TypeOK, QueueType, ExecutionInv,
           NEW r \in Requests, NEW answer, StartWithSignal(r, answer)
    PROVE  /\ taken' \in {taken, taken \cup {r[1]}} /\ r[1] \in taken'
           /\ \A i \in Ids \ {IdOf(r[1])} :
                 /\ processed'[i] = processed[i] /\ verdicts'[i] = verdicts[i]
                 /\ pr'[i] = pr[i] /\ open'[i] = open[i]
           /\ LET i == IdOf(r[1])
              IN  /\ processed'[i] \subseteq processed[i] \cup {r[1]}
                  /\ verdicts'[i] \subseteq verdicts[i]
                  /\ pr'[i] = r[1].pr \/ (pr'[i] = pr[i] /\ open[i])
<1> DEFINE w == r[1]
           i == IdOf(w)
<1>1. i \in Ids /\ w.pr \in PRs
  BY RequestIs
<1>2. /\ pr \in [Ids -> PRs]
      /\ processed \in [Ids -> SUBSET Webhooks] /\ verdicts \in [Ids -> SUBSET Webhooks]
      /\ open \in [Ids -> BOOLEAN]
  BY DEF TypeOK, QueueType
<1>3. CASE open[i] /\ OnEvent(w) /\ w \in processed[i]
  <2>1. UNCHANGED <<processed, taken, verdicts, pr, open>>
    BY <1>3 DEF OnEvent
  <2>2. w \in taken
    BY <1>1, <1>3 DEF ExecutionInv, AtExecution
  <2> QED
    BY <1>3, <2>1, <2>2
<1>4. CASE open[i] /\ OnEvent(w) /\ w \notin processed[i]
  <2>1. /\ processed' = [processed EXCEPT ![i] = @ \cup {w}]
        /\ taken' = taken \cup {w} /\ UNCHANGED <<verdicts, pr, open>> /\ open[i]
    BY <1>4 DEF OnEvent, Processed
  <2> HIDE DEF w, i
  <2>2. processed'[i] = processed[i] \cup {w}
    BY <1>1, <1>2, <2>1
  <2>3. \A j \in Ids \ {i} : processed'[j] = processed[j]
    BY <1>2, <2>1
  <2>4. taken' \in {taken, taken \cup {w}} /\ w \in taken'
    BY <2>1
  <2> QED
    BY <2>1, <2>2, <2>3, <2>4 DEF w, i
<1>5. CASE FirstEvent(w)
  <2>1. /\ pr' = [pr EXCEPT ![i] = w.pr] /\ open' = [open EXCEPT ![i] = TRUE]
        /\ processed' = [processed EXCEPT ![i] = {w}]
        /\ verdicts' = [verdicts EXCEPT ![i] = {}] /\ taken' = taken \cup {w}
    BY <1>5 DEF FirstEvent
  <2>w. w.pr = r[1].pr
    OBVIOUS
  <2> HIDE DEF w, i
  <2>2. processed'[i] = {w} /\ verdicts'[i] = {} /\ pr'[i] = w.pr
    BY <1>1, <1>2, <2>1
  <2>3. \A j \in Ids \ {i} : /\ processed'[j] = processed[j] /\ open'[j] = open[j]
                             /\ verdicts'[j] = verdicts[j] /\ pr'[j] = pr[j]
    BY <1>2, <2>1
  <2>4. taken' \in {taken, taken \cup {w}} /\ w \in taken'
    BY <2>1
  <2> QED
    BY <2>2, <2>3, <2>4 DEF w, i
<1> QED
  BY <1>3, <1>4, <1>5 DEF StartWithSignal

LEMMA NextExecution ==
    TypeOK /\ QueueType /\ HandlerInv /\ ExecutionInv /\ [Next]_vars => ExecutionInv'
<1> SUFFICES ASSUME TypeOK, QueueType, HandlerInv, ExecutionInv, [Next]_vars, NEW i \in Ids
             PROVE  AtExecution(i)'
  BY DEF ExecutionInv
<1>i. AtExecution(i)
  BY DEF ExecutionInv
<1>1. ASSUME pr'[i] = pr[i], verdicts'[i] = verdicts[i], taken \subseteq taken',
             open'[i] => open[i], processed'[i] = processed[i]
      PROVE  AtExecution(i)'
  BY <1>i, <1>1 DEF AtExecution, Listed, Allowed
<1>2. ASSUME UNCHANGED temporal PROVE AtExecution(i)'
  BY <1>1, <1>2 DEF temporal
<1>3. ASSUME NEW r \in Requests, Steps(r) PROVE AtExecution(i)'
  BY <1>2, <1>3, StepIs
<1>4. ASSUME NEW r \in Requests, NEW answer, StartWithSignal(r, answer) PROVE AtExecution(i)'
  <2>1. CASE IdOf(r[1]) # i
    BY <1>1, <1>4, <2>1, CallIs
  <2>2. CASE IdOf(r[1]) = i
    <3>1. /\ taken \subseteq taken' /\ r[1] \in taken'
          /\ processed'[i] \subseteq processed[i] \cup {r[1]}
          /\ verdicts'[i] \subseteq verdicts[i]
          /\ pr'[i] = r[1].pr \/ (pr'[i] = pr[i] /\ open[i])
      BY <1>4, <2>2, CallIs
    <3>2. Allowed(r[1].pr)
      BY <1>4 DEF StartWithSignal, HandlerInv, Listed
    <3>3. Allowed(pr'[i])
      BY <1>i, <3>1, <3>2 DEF AtExecution, Allowed
    <3> QED
      BY <1>i, <3>1, <3>3 DEF AtExecution, Listed, Allowed
  <2> QED
    BY <2>1, <2>2
<1>5. ASSUME NEW r \in Requests, NEW answer, SignalVerdict(r, answer) PROVE AtExecution(i)'
  <2>1. UNCHANGED <<pr, open, processed, taken>>
    BY <1>5 DEF SignalVerdict
  <2>2. r[1].kind = "command" /\ r[1].author \in APPROVER_LOGINS /\ Listed(r[1])
    BY <1>5 DEF SignalVerdict, HandlerInv, Authorized
  <2>3. verdicts'[i] \subseteq verdicts[i] \cup {r[1]}
    <3>1. verdicts \in [Ids -> SUBSET Webhooks]
      BY DEF TypeOK
    <3> QED
      BY <1>5, <3>1 DEF SignalVerdict
  <2> QED
    BY <1>i, <2>1, <2>2, <2>3 DEF AtExecution, Listed, Allowed
<1>6. ASSUME NEW j \in Ids, Iterate(j) \/ Publish(j) \/ Return(j) PROVE AtExecution(i)'
  <2>1. UNCHANGED <<pr, verdicts, taken, processed>>
    BY <1>6 DEF Iterate, Publish, Return, temporal
  <2>2. open'[i] => open[i]
    <3>1. open \in [Ids -> BOOLEAN]
      BY DEF TypeOK
    <3> QED
      BY <1>6, <3>1 DEF Iterate, Publish, Return, temporal
  <2> QED
    BY <1>1, <2>1, <2>2
<1>7. UNCHANGED vars => UNCHANGED temporal
  BY DEF vars
<1> QED
  BY <1>2, <1>3, <1>4, <1>5, <1>6, <1>7 DEF Next, Handle, Steps

LEMMA NextWorkedOn ==
    TypeOK /\ QueueType /\ HandlerInv /\ ExecutionInv /\ WorkedOnInv /\ [Next]_vars
        => WorkedOnInv'
<1> SUFFICES ASSUME TypeOK, QueueType, HandlerInv, ExecutionInv, WorkedOnInv, [Next]_vars
             PROVE  WorkedOnInv'
  OBVIOUS
<1>1. ASSUME \A w \in taken' : w \in taken \/ Listed(w),
             \A p \in published' : p \in published \/ Allowed(p)
      PROVE  WorkedOnInv'
  BY <1>1 DEF WorkedOnInv, Listed, Allowed
<1>2. ASSUME NEW r \in Requests, Steps(r) PROVE WorkedOnInv'
  BY <1>1, <1>2, StepIs DEF temporal
<1>3. ASSUME NEW r \in Requests, NEW answer, StartWithSignal(r, answer) PROVE WorkedOnInv'
  <2>1. Listed(r[1]) /\ UNCHANGED published
    BY <1>3 DEF StartWithSignal, HandlerInv
  <2>2. taken' \in {taken, taken \cup {r[1]}}
    BY <1>3, CallIs
  <2> QED
    BY <1>1, <2>1, <2>2
<1>4. ASSUME NEW r \in Requests, NEW answer, SignalVerdict(r, answer) PROVE WorkedOnInv'
  BY <1>1, <1>4 DEF SignalVerdict
<1>5. ASSUME NEW i \in Ids, Iterate(i) \/ Return(i) PROVE WorkedOnInv'
  BY <1>1, <1>5 DEF Iterate, Return
<1>6. ASSUME NEW i \in Ids, Publish(i) PROVE WorkedOnInv'
  <2>1. Allowed(pr[i])
    BY <1>6 DEF Publish, ExecutionInv, AtExecution
  <2> QED
    BY <1>1, <1>6, <2>1 DEF Publish, temporal
<1>7. CASE UNCHANGED vars
  BY <1>1, <1>7 DEF vars, temporal
<1> QED
  BY <1>2, <1>3, <1>4, <1>5, <1>6, <1>7 DEF Next, Handle, Steps

-----------------------------------------------------------------------------
(* What the executions were ever given.                                      *)
LEMMA NextTaken ==
    IInv /\ [Next]_vars => OwnPushIgnored' /\ AcceptedIsTaken'
<1> SUFFICES ASSUME IInv, [Next]_vars PROVE OwnPushIgnored' /\ AcceptedIsTaken'
  OBVIOUS
<1>i. /\ TypeOK /\ QueueType /\ HandlerInv /\ ExecutionInv
      /\ OwnPushIgnored /\ AcceptedIsTaken
  BY DEF IInv
<1>1. CASE UNCHANGED <<handler, taken, unread>>
  BY <1>i, <1>1 DEF OwnPushIgnored, AcceptedIsTaken
<1>2. ASSUME NEW r \in Requests, Steps(r) PROVE OwnPushIgnored' /\ AcceptedIsTaken'
  <2>1. UNCHANGED taken /\ unread \subseteq unread'
    BY <1>2, StepIs DEF temporal
  <2>2. handler'[r] # "202" /\ \A q \in Requests \ {r} : handler'[q] = handler[q]
    <3>1. PICK place \in {"204", "403", "500", "fetch", "start", "signal"} : Goes(r, place)
      BY <1>2, StepIs, ReceiveIs
    <3>2. place \in Places
      BY DEF Places, Awaiting, Answers
    <3> QED
      BY <1>i, <3>1, <3>2, GoesIs
  <2>3. OwnPushIgnored'
    BY <1>i, <2>1 DEF OwnPushIgnored
  <2>4. AcceptedIsTaken'
    BY <1>i, <2>1, <2>2 DEF AcceptedIsTaken
  <2> QED
    BY <2>3, <2>4
<1>3. ASSUME NEW r \in Requests, NEW answer \in {Accepted, Failure}, StartWithSignal(r, answer)
      PROVE  OwnPushIgnored' /\ AcceptedIsTaken'
  <2>1. /\ taken' \in {taken, taken \cup {r[1]}} /\ r[1] \in taken'
    BY <1>i, <1>3, CallIs
  <2>2. UNCHANGED unread /\ Goes(r, answer) /\ handler[r] = "start"
    BY <1>3 DEF StartWithSignal
  <2>3. r[1].kind = "synchronize" /\ r[1].bot => r[1] \in unread
    BY <1>i, <2>2 DEF HandlerInv
  <2>4. OwnPushIgnored'
    BY <1>i, <2>1, <2>2, <2>3 DEF OwnPushIgnored
  <2>5. \A q \in Requests \ {r} : handler'[q] = handler[q]
    <3>1. answer \in Places
      BY DEF Accepted, Failure, Answers, Places
    <3> QED
      BY <1>i, <2>2, <3>1, GoesIs
  <2>6. AcceptedIsTaken'
    BY <1>i, <2>1, <2>5 DEF AcceptedIsTaken
  <2> QED
    BY <2>4, <2>6
<1>4. ASSUME NEW r \in Requests, NEW answer \in {Accepted, Failure}, SignalVerdict(r, answer)
      PROVE  OwnPushIgnored' /\ AcceptedIsTaken'
  <2>1. UNCHANGED <<taken, unread>> /\ Goes(r, answer) /\ handler[r] = "signal"
    BY <1>4 DEF SignalVerdict
  <2>2. r[1].kind = "command"
    BY <1>i, <2>1 DEF HandlerInv
  <2>3. \A q \in Requests \ {r} : handler'[q] = handler[q]
    <3>1. answer \in Places
      BY DEF Accepted, Failure, Answers, Places
    <3> QED
      BY <1>i, <2>1, <3>1, GoesIs
  <2>4. AcceptedIsTaken'
    BY <1>i, <2>1, <2>2, <2>3 DEF AcceptedIsTaken
  <2>5. OwnPushIgnored'
    BY <1>i, <2>1 DEF OwnPushIgnored
  <2> QED
    BY <2>4, <2>5
<1>5. ASSUME NEW i \in Ids, Iterate(i) \/ Publish(i) \/ Return(i)
      PROVE  UNCHANGED <<handler, taken, unread>>
  BY <1>5 DEF Iterate, Publish, Return, temporal
<1>6. UNCHANGED vars => UNCHANGED <<handler, taken, unread>>
  BY DEF vars, temporal
<1> QED
  BY <1>1, <1>2, <1>3, <1>4, <1>5, <1>6 DEF Next, Handle, Steps

LEMMA InitInv == Init => IInv
<1> SUFFICES ASSUME Init PROVE IInv
  OBVIOUS
<1> USE DEF Init
<1>1. \A i \in Ids : pr[i] \in PRs
  <2> SUFFICES ASSUME NEW i \in Ids PROVE pr[i] \in PRs
    OBVIOUS
  <2>1. \E p \in PRs : WorkflowId(p) = i
    BY DEF Ids
  <2>2. pr[i] = CHOOSE p \in PRs : WorkflowId(p) = i
    OBVIOUS
  <2> QED
    BY <2>1, <2>2
<1>2. TypeOK /\ QueueType
  <2>1. pr \in [Ids -> PRs]
    <3>1. pr = [i \in Ids |-> pr[i]]
      OBVIOUS
    <3> QED
      BY <1>1, <3>1
  <2>2. execution \in [Ids -> 0..MaxExecutions]
    BY GatewayBoundsAssumption DEF GatewayBoundsAssumption
  <2> QED
    BY <2>1, <2>2 DEF TypeOK, QueueType
<1>3. HandlerInv /\ OwnPushIgnored /\ AcceptedIsTaken
  BY DEF HandlerInv, OwnPushIgnored, AcceptedIsTaken
<1>4. ExecutionInv /\ WorkedOnInv
  BY DEF ExecutionInv, AtExecution, WorkedOnInv
<1> QED
  BY <1>2, <1>3, <1>4 DEF IInv

-----------------------------------------------------------------------------
(* The inductive invariant: what a handler has checked still holds when its  *)
(* call reaches Temporal, and what reaches an execution is allowed           *)
(* (app.py:138-200).                                                         *)
THEOREM Invariance == Spec => []IInv
<1>1. IInv /\ [Next]_vars => IInv'
  <2> SUFFICES ASSUME IInv, [Next]_vars PROVE IInv'
    OBVIOUS
  <2>1. TypeOK /\ QueueType /\ HandlerInv /\ ExecutionInv /\ WorkedOnInv
    BY DEF IInv
  <2> QED
    BY <2>1, NextType, NextHandler, NextExecution, NextWorkedOn, NextTaken DEF IInv
<1> QED
  BY <1>1, InitInv, PTL DEF Spec

(* TypeOK: every variable keeps to its type, and what an execution has       *)
(* queued it has recorded as processed.                                      *)
THEOREM TypeCorrect == Spec => []TypeOK
<1>1. IInv => TypeOK
  BY DEF IInv
<1> QED
  BY <1>1, Invariance, PTL

(* The bot's own push wakes an execution only if its head commit could not   *)
(* be read (app.py:180-188).                                                 *)
THEOREM OwnPushStops == Spec => []OwnPushIgnored
<1>1. IInv => OwnPushIgnored
  BY DEF IInv
<1> QED
  BY <1>1, Invariance, PTL

(* A webhook answered 202 was taken by an execution, whatever was delivered  *)
(* twice or failed on the way (app.py:191-200).                              *)
THEOREM AcceptedEventsArrive == Spec => []AcceptedIsTaken
<1>1. IInv => AcceptedIsTaken
  BY DEF IInv
<1> QED
  BY <1>1, Invariance, PTL

(* A verdict that reached an execution is an approver's command              *)
(* (app.py:138-168).                                                         *)
THEOREM OnlyApproversDecide == Spec => []VerdictsAreAuthorized
<1>1. IInv => VerdictsAreAuthorized
  BY DEF IInv, ExecutionInv, AtExecution, VerdictsAreAuthorized
<1> QED
  BY <1>1, Invariance, PTL

(* Only pull requests of allowed repositories are worked on, whichever pull  *)
(* requests share a workflow id (app.py:148-151, 175-199).                   *)
THEOREM OnlyAllowedAreWorkedOn == Spec => []OnlyAllowedRepos
<1>1. IInv => OnlyAllowedRepos
  BY DEF IInv, ExecutionInv, AtExecution, WorkedOnInv, OnlyAllowedRepos
<1> QED
  BY <1>1, Invariance, PTL

=============================================================================
