---------------------- MODULE PRAutofixWorkflowProofs ----------------------
(* Proofs about the workflow, for every set of deliveries and update calls   *)
(* and every value of the bounds.                                            *)
EXTENDS PRAutofixWorkflow, TLAPS

(* The copy given to post_status differs from the state only where a signal  *)
(* or an update can write.                                                   *)
CopyAgrees ==
    loop = "post" =>
        /\ argument.iterations = state.iterations
        /\ argument.sandbox = state.sandbox
        /\ argument.posted_status_comment_id = state.posted_status_comment_id

BudgetInv ==
    /\ CopyAgrees
    /\ BudgetKept
    /\ loop = "wait" => state.iterations < MaxIterations
    /\ Running /\ ~state.posted_status_comment_id => statusComments < MaxStatusComments
    /\ Running => execution # 0

TypeInv == TypeOK /\ BudgetInv

(* A handler carries the number of the execution it serves; while it awaits, *)
(* that execution is open.                                                   *)
OwnerInv ==
    \A u \in Updates :
        /\ task[u] # "none" => handler[u].execution # 0
        /\ handler[u].at \in Awaiting \cup {"raised"} => Running
        /\ handler[u].at \in Awaiting => handler[u].execution = execution
        /\ handler[u].at = "push" <=> /\ task[u] # "none"
                                      /\ handler[u].at \notin Ended
        /\ task[u] # "none" => handler[u].at \notin {"idle", "calling"}

LEMMA FreshStateType == FreshState \in WorkflowState
BY IterationsAssumption DEF FreshState, WorkflowState, Keys, Statuses

LEMMA ZeroIsAKey == 0 \in Keys
BY IterationsAssumption DEF Keys

LEMMA IdleHandlerType == IdleHandler \in Handlers
BY ZeroIsAKey, BoundsAssumption DEF IdleHandler, Handlers, Statuses

LEMMA InitType == Init => TypeInv
<1> SUFFICES ASSUME Init PROVE TypeInv
  OBVIOUS
<1>1. TypeOK
  <2>1. state \in WorkflowState /\ argument \in WorkflowState
    BY FreshStateType DEF Init
  <2>2. handler \in [Updates -> Handlers]
    BY IdleHandlerType DEF Init
  <2>3. approvals \in [Keys -> Decisions]
    BY DEF Init, NoApprovals, Decisions
  <2>4. statusComments \in 0..MaxStatusComments /\ execution \in 0..MaxExecutions
        /\ continues \in 0..MaxContinueAsNew /\ dispatched \in 0..MaxIterations
    BY BoundsAssumption, IterationsAssumption DEF Init
  <2> QED
    BY <2>1, <2>2, <2>3, <2>4 DEF Init, TypeOK, Loops
<1>2. BudgetInv
  BY DEF Init, BudgetInv, CopyAgrees, BudgetKept, Running
<1> QED
  BY <1>1, <1>2 DEF TypeInv

LEMMA OutsideType == TypeInv /\ Outside => TypeInv'
<1> SUFFICES ASSUME TypeInv, Outside PROVE TypeInv'
  OBVIOUS
<1> USE IterationsAssumption, BoundsAssumption
<1>1. ASSUME NEW d \in Deliveries, StartWithSignal(d) PROVE TypeInv'
  <2>1. state' \in WorkflowState
    BY <1>1, FreshStateType DEF StartWithSignal, WorkflowState
  <2> QED
    BY <1>1, <2>1 DEF StartWithSignal, TypeInv, TypeOK, BudgetInv, CopyAgrees, BudgetKept, Running,
       Loops, NoApprovals, Decisions, FreshState
(* A signal writes only what nothing here counts.                            *)
<1>s. ASSUME NEW s \in WorkflowState, state' = s,
             s.iterations = state.iterations, s.sandbox = state.sandbox,
             s.posted_status_comment_id = state.posted_status_comment_id,
             UNCHANGED <<loop, argument, approvals, handler, task, world, execution,
                         continues, ghosts>>
      PROVE  TypeInv'
  <2>1. TypeOK'
    BY <1>s DEF TypeInv, TypeOK, world, ghosts
  <2>2. BudgetInv'
    BY <1>s DEF TypeInv, BudgetInv, CopyAgrees, BudgetKept, Running, world, ghosts
  <2> QED
    BY <2>1, <2>2 DEF TypeInv
<1>2. ASSUME NEW d \in Deliveries, on_event(d) PROVE TypeInv'
  <2> DEFINE s == [state EXCEPT !.pending_events = @ \cup {d},
                                !.processed_delivery_ids = @ \cup {d}]
  <2>1. /\ s \in WorkflowState
        /\ s.iterations = state.iterations /\ s.sandbox = state.sandbox
        /\ s.posted_status_comment_id = state.posted_status_comment_id
    BY DEF TypeInv, TypeOK, WorkflowState
  <2> QED
    BY <1>2, <1>s, <2>1 DEF on_event
<1>3. CASE close
  <2> DEFINE s == [state EXCEPT !.closed = TRUE]
  <2>1. /\ s \in WorkflowState
        /\ s.iterations = state.iterations /\ s.sandbox = state.sandbox
        /\ s.posted_status_comment_id = state.posted_status_comment_id
    BY DEF TypeInv, TypeOK, WorkflowState
  <2> QED
    BY <1>3, <1>s, <2>1 DEF close
<1>4. ASSUME NEW k \in Keys, NEW v \in {"allow", "deny"}, submit_approval_decision(k, v)
      PROVE TypeInv'
  BY <1>4 DEF submit_approval_decision, TypeInv, TypeOK, BudgetInv, CopyAgrees, BudgetKept, Running,
     world, Decisions
<1>5. ASSUME NEW u \in Updates, request_push_changes(u) PROVE TypeInv'
  <2> USE <1>5 DEF request_push_changes
  <2>1. state.iterations \in Keys /\ execution \in 0..MaxExecutions
    BY DEF TypeInv, TypeOK, WorkflowState, Keys
  <2>2. handler' \in [Updates -> Handlers]
    <3>1. \E w \in {"notify", "other", "answered"}, a \in Statuses :
            handler' = [handler EXCEPT ![u] =
              [at |-> w, key |-> state.iterations, execution |-> execution, answer |-> a]]
      BY DEF Statuses, Final
    <3>2. PICK w \in {"notify", "other", "answered"}, a \in Statuses :
            handler' = [handler EXCEPT ![u] =
              [at |-> w, key |-> state.iterations, execution |-> execution, answer |-> a]]
      BY <3>1
    <3> QED
      BY <2>1, <3>2 DEF Handlers, Awaiting, Ended, TypeInv, TypeOK
  <2>3. /\ state' \in WorkflowState
        /\ state' = [state EXCEPT !.operations = state'.operations]
        /\ approvals' \in [Keys -> Decisions]
    BY <2>1 DEF TypeInv, TypeOK, WorkflowState, Records, Statuses, Decisions
  <2> QED
    BY <2>2, <2>3 DEF TypeInv, TypeOK, BudgetInv, CopyAgrees, BudgetKept, Running,
       WorkflowState, world, ghosts
<1>6. ASSUME NEW u \in Updates, CallTool(u) \/ CallFails(u) PROVE TypeInv'
  <2>1. handler' \in [Updates -> Handlers]
    BY <1>6 DEF CallTool, CallFails, HandlerGoes, Handlers, Ended, TypeInv, TypeOK
  <2> QED
    BY <1>6, <2>1 DEF CallTool, CallFails, TypeInv, TypeOK, BudgetInv, CopyAgrees, BudgetKept,
       Running, world, ghosts
<1> QED
  BY <1>1, <1>2, <1>3, <1>4, <1>5, <1>6 DEF Outside

LEMMA HandlerType == TypeInv /\ OwnerInv /\ (\E u \in Updates : Handler(u)) => TypeInv'
<1> SUFFICES ASSUME TypeInv, OwnerInv, NEW u \in Updates, Handler(u) PROVE TypeInv'
  OBVIOUS
<1>k. KeyOf(u) \in Keys
  BY DEF KeyOf, TypeInv, TypeOK, Handlers
(* Writing one operation's record keeps the rest of the state.               *)
<1>r. ASSUME NEW st \in Statuses, Records(KeyOf(u), st)
      PROVE  /\ state' \in WorkflowState
             /\ state'.iterations = state.iterations
             /\ state'.sandbox = state.sandbox
             /\ state'.posted_status_comment_id = state.posted_status_comment_id
  BY <1>k, <1>r DEF Records, TypeInv, TypeOK, WorkflowState
<1>g. ASSUME NEW w \in Awaiting \cup Ended \cup {"raised"}, HandlerGoes(u, w)
      PROVE  handler' \in [Updates -> Handlers]
  BY <1>g DEF HandlerGoes, TypeInv, TypeOK, Handlers
<1>a. ASSUME NEW st \in Statuses, HandlerAnswers(u, st)
      PROVE  handler' \in [Updates -> Handlers]
  <2>1. handler \in [Updates -> Handlers]
    BY DEF TypeInv, TypeOK
  <2>2. [handler[u] EXCEPT !.at = "answered", !.answer = st] \in Handlers
    BY <2>1 DEF Handlers, Ended
  <2>3. handler' = [handler EXCEPT ![u] = [handler[u] EXCEPT !.at = "answered", !.answer = st]]
    BY <1>a, <2>1 DEF HandlerAnswers
  <2> QED
    BY <2>1, <2>2, <2>3
<1>p. ASSUME Popped(KeyOf(u)) PROVE approvals' \in [Keys -> Decisions]
  BY <1>p DEF Popped, TypeInv, TypeOK, Decisions
<1> USE DEF Awaiting, Ended
<1>1. CASE NotifyPosts(u)
  <2>1. handler' \in [Updates -> Handlers] /\ asked' \subseteq Keys
    BY <1>1, <1>k, <1>g DEF NotifyPosts, TypeInv, TypeOK
  <2> QED
    BY <1>1, <2>1 DEF NotifyPosts, TypeInv, TypeOK, BudgetInv, CopyAgrees, BudgetKept,
       Running, ghosts
<1>2. CASE NotifyDone(u)
  BY <1>2, <1>g DEF NotifyDone, TypeInv, TypeOK, BudgetInv, CopyAgrees, BudgetKept,
     Running, world, ghosts
<1>3. CASE DecisionResume(u)
  <2>1. handler' \in [Updates -> Handlers] /\ approvals' \in [Keys -> Decisions]
    BY <1>3, <1>g, <1>a, <1>p DEF DecisionResume, Statuses
  <2>2. task' \in [Updates -> {"none", "scheduled", "pushed", "declined", "raised"}]
    BY <1>3 DEF DecisionResume, TypeInv, TypeOK
  <2>3. CASE Allowed(KeyOf(u))
    BY <1>3, <2>1, <2>2, <2>3 DEF DecisionResume, TypeInv, TypeOK, BudgetInv, CopyAgrees,
       BudgetKept, Running, world, ghosts
  <2>4. CASE ~Allowed(KeyOf(u))
    BY <1>3, <1>r, <2>1, <2>2, <2>4 DEF DecisionResume, TypeInv, TypeOK, BudgetInv, CopyAgrees,
       BudgetKept, Running, world, ghosts, Statuses
  <2> QED
    BY <2>3, <2>4
<1>4. CASE SecondPopRaises(u)
  BY <1>4, <1>g DEF SecondPopRaises, TypeInv, TypeOK, BudgetInv, CopyAgrees, BudgetKept,
     Running, world, ghosts
<1>5. CASE DecisionTimeout(u)
  BY <1>5, <1>r, <1>a, <1>p DEF DecisionTimeout, TypeInv, TypeOK, BudgetInv, CopyAgrees,
     BudgetKept, Running, world, ghosts, Statuses
<1>6. CASE WaiterResume(u)
  BY <1>6, <1>a DEF WaiterResume, TypeInv, TypeOK, BudgetInv, CopyAgrees, BudgetKept,
     Running, world, ghosts, Final, Statuses
<1>7. CASE WaiterTimeout(u)
  BY <1>7, <1>g DEF WaiterTimeout, TypeInv, TypeOK, BudgetInv, CopyAgrees, BudgetKept,
     Running, world, ghosts
<1>8. CASE PushFinds(u)
  BY <1>8 DEF PushFinds, TypeInv, TypeOK, BudgetInv, CopyAgrees, BudgetKept,
     Running, world, ghosts
<1>9. CASE PushRecorded(u)
  <2>1. StatusOf(task[u]) \in Statuses
    BY DEF StatusOf, Statuses
  <2> QED
    BY <1>9, <1>r, <1>a, <2>1 DEF PushRecorded, TypeInv, TypeOK, BudgetInv, CopyAgrees,
       BudgetKept, Running, world, ghosts
<1>10. CASE PushRaises(u)
  BY <1>10, <1>g DEF PushRaises, TypeInv, TypeOK, BudgetInv, CopyAgrees, BudgetKept,
     Running, world, ghosts
<1>o. task[u] # "none" => OperationOf(u) \in Operations
  BY DEF OwnerInv, OperationOf, Operations, TypeInv, TypeOK, Handlers
<1>11. CASE PushFails(u)
  <2>1. unpushed' \subseteq Operations
    BY <1>11, <1>o DEF PushFails, TypeInv, TypeOK
  <2> QED
    BY <1>11, <2>1 DEF PushFails, TypeInv, TypeOK, BudgetInv, CopyAgrees, BudgetKept,
       Running, ghosts
<1>12. CASE PushPublishes(u)
  <2>1. branch' \subseteq Operations /\ unpushed' \subseteq Operations
    BY <1>12, <1>o DEF PushPublishes, TypeInv, TypeOK
  <2> QED
    BY <1>12, <2>1 DEF PushPublishes, TypeInv, TypeOK, BudgetInv, CopyAgrees, BudgetKept,
       Running, ghosts
<1> QED
  BY <1>1, <1>2, <1>3, <1>4, <1>5, <1>6, <1>7, <1>8, <1>9, <1>10, <1>11, <1>12
     DEF Handler, Notify, Decision, Waiter, PushAttempt, PushResult

LEMMA RunType == TypeInv /\ (Run \/ Faults) => TypeInv'
<1> SUFFICES ASSUME TypeInv, Run \/ Faults PROVE TypeInv'
  OBVIOUS
<1> USE IterationsAssumption, BoundsAssumption
(* The handlers only lose their place when an execution ends.                *)
<1>h. AbortHandlers \in [Updates -> Handlers]
  BY DEF AbortHandlers, TypeInv, TypeOK, Handlers, Ended
<1>n. NoApprovals \in [Keys -> Decisions]
  BY DEF NoApprovals, Decisions
<1>1. CASE PrepareDone
  BY <1>1 DEF PrepareDone, Prepared, TypeInv, TypeOK, BudgetInv, CopyAgrees, BudgetKept, Running, Awake,
     Loops, ghosts
<1>2. CASE ProvisionDone
  <2>1. state' \in WorkflowState /\ state'.iterations = state.iterations
        /\ state'.posted_status_comment_id = state.posted_status_comment_id
    BY <1>2 DEF ProvisionDone, TypeInv, TypeOK, WorkflowState
  <2> QED
    BY <1>2, <2>1 DEF ProvisionDone, TypeInv, TypeOK, BudgetInv, CopyAgrees, BudgetKept, Running,
       Awake, Loops, ghosts, AfterIteration
<1>3. CASE LoopWake
  <2>0. /\ state \in WorkflowState /\ state.pending_events \subseteq Deliveries
        /\ state.iterations + 1 \in 0..MaxIterations
        /\ state' = [state EXCEPT !.iterations = state.iterations + 1, !.pending_events = {}]
    BY <1>3 DEF LoopWake, TypeInv, TypeOK, BudgetInv, WorkflowState
  <2>1. state' \in WorkflowState /\ state'.iterations = state.iterations + 1
        /\ state'.posted_status_comment_id = state.posted_status_comment_id
    BY <2>0 DEF WorkflowState
  <2> QED
    BY <1>3, <2>0, <2>1 DEF LoopWake, TypeInv, TypeOK, BudgetInv, CopyAgrees, BudgetKept, Running,
       Awake, Loops, world, WorkflowState
<1>4. CASE LoopExit
  BY <1>4 DEF LoopExit, TypeInv, TypeOK, BudgetInv, CopyAgrees, BudgetKept, Running, Loops,
     world, ghosts
(* Closing keeps the rest of the state.                                      *)
<1>c. LET closed == [state EXCEPT !.closed = TRUE]
      IN  /\ closed \in WorkflowState
          /\ closed.iterations = state.iterations
          /\ closed.sandbox = state.sandbox
          /\ closed.posted_status_comment_id = state.posted_status_comment_id
  BY DEF TypeInv, TypeOK, WorkflowState
<1>5. CASE IdleTimeout
  BY <1>5, <1>c DEF IdleTimeout, TypeInv, TypeOK, BudgetInv, CopyAgrees, BudgetKept, Running,
     Loops, world, ghosts
<1>s. ASSUME NEW s \in WorkflowState, SchedulePostStatus(s), loop = "agent",
             s.iterations = state.iterations,
             s.posted_status_comment_id = state.posted_status_comment_id,
             UNCHANGED <<approvals, handler, task, world, execution, continues, ghosts>>
      PROVE  TypeInv'
  <2>1. TypeOK'
    BY <1>s DEF SchedulePostStatus, TypeInv, TypeOK, Loops, world, ghosts
  <2>2. BudgetInv'
    BY <1>s DEF SchedulePostStatus, TypeInv, BudgetInv, CopyAgrees, BudgetKept, Running,
       world, ghosts
  <2> QED
    BY <2>1, <2>2 DEF TypeInv
<1>6. CASE AgentDone \/ AgentFails
  <2>1. CASE AgentDone
    BY <2>1, <1>s DEF AgentDone, TypeInv, TypeOK
  <2>2. CASE AgentFails
    BY <2>2, <1>s, <1>c DEF AgentFails
  <2> QED
    BY <1>6, <2>1, <2>2
<1>7. CASE StatusPosted /\ (PostDone \/ PostDoneContinueAsNew)
  <2>1. /\ ReturnedState \in WorkflowState
        /\ ReturnedState.iterations = state.iterations
        /\ ReturnedState.posted_status_comment_id
    BY <1>7 DEF ReturnedState, StatusPosted, TypeInv, TypeOK, BudgetInv, CopyAgrees, WorkflowState
  <2>2. statusComments' \in 0..MaxStatusComments
    BY <1>7 DEF StatusPosted, Created, TypeInv, TypeOK, BudgetInv, CopyAgrees, Running,
       WorkflowState
  <2>3. CASE PostDone
    BY <2>1, <2>2, <2>3, FreshStateType DEF PostDone, StatusPosted, TypeInv, TypeOK, BudgetInv,
       CopyAgrees, BudgetKept, Running, Loops, ghosts, AfterIteration
  <2>4. CASE PostDoneContinueAsNew
    BY <2>1, <2>2, <2>4, <1>h, <1>n, FreshStateType DEF PostDoneContinueAsNew, StatusPosted,
       TypeInv, TypeOK, BudgetInv, CopyAgrees, BudgetKept, Running, Loops, ghosts
  <2> QED
    BY <1>7, <2>3, <2>4
<1>8. CASE TeardownDone
  BY <1>8 DEF TeardownDone, TypeInv, TypeOK, BudgetInv, CopyAgrees, BudgetKept, Running, Loops,
     ghosts
<1>9. CASE CleanupDone
  BY <1>9, <1>h, <1>n DEF CleanupDone, CleanedUp, TypeInv, TypeOK, BudgetInv, CopyAgrees, BudgetKept,
     Running, Loops, ghosts
<1>10. CASE ProvisionLost \/ AgentLost \/ LeftoverExits
  BY <1>10 DEF ProvisionLost, AgentLost, LeftoverExits, TypeInv, TypeOK, BudgetInv, CopyAgrees,
     BudgetKept, Running, ghosts
<1>11. CASE PostLost
  <2>1. /\ statusComments' \in 0..MaxStatusComments
        /\ ~state.posted_status_comment_id => statusComments' < MaxStatusComments
    BY <1>11 DEF PostLost, Created, TypeInv, TypeOK, BudgetInv, CopyAgrees, WorkflowState
  <2> QED
    BY <1>11, <2>1 DEF PostLost, TypeInv, TypeOK, BudgetInv, CopyAgrees, BudgetKept, Running, ghosts
<1> QED
  BY <1>1, <1>2, <1>3, <1>4, <1>5, <1>6, <1>7, <1>8, <1>9, <1>10, <1>11
     DEF Run, Faults, Wait, Agent, Post, PostDone, PostDoneContinueAsNew

(* The bookkeeping of handlers and their push tasks.                         *)
LEMMA InitOwner == Init => OwnerInv
BY DEF Init, OwnerInv, IdleHandler, Awaiting, Ended

LEMMA NextOwner == TypeInv /\ OwnerInv /\ [Next]_vars => OwnerInv'
<1> SUFFICES ASSUME TypeInv, OwnerInv, [Next]_vars PROVE OwnerInv'
  OBVIOUS
<1> USE DEF OwnerInv, Awaiting, Ended, Running
<1>t. /\ handler \in [Updates -> Handlers] /\ execution \in 0..MaxExecutions
      /\ task \in [Updates -> {"none", "scheduled", "pushed", "declined", "raised"}]
  BY DEF TypeInv, TypeOK
<1>1. CASE UNCHANGED <<loop, handler, task, execution>>
  BY <1>1
<1>2. CASE /\ UNCHANGED <<handler, task, execution>>
           /\ loop # "stopped" /\ loop' # "stopped"
  BY <1>2
<1>3. ASSUME NEW d \in Deliveries, StartWithSignal(d) PROVE OwnerInv'
  BY <1>3 DEF StartWithSignal
<1>c. ASSUME NEW u \in Updates, CallTool(u) \/ CallFails(u) PROVE OwnerInv'
  BY <1>c, <1>t DEF CallTool, CallFails, HandlerGoes, Handlers, world
<1>4. ASSUME NEW u \in Updates, request_push_changes(u) PROVE OwnerInv'
  <2>1. PICK w \in {"notify", "other", "answered"} :
           /\ handler' = [handler EXCEPT ![u] = handler'[u]]
           /\ handler'[u].at = w /\ handler'[u].execution = execution
    BY <1>4, <1>t DEF request_push_changes
  <2> QED
    BY <1>4, <1>t, <2>1 DEF request_push_changes, Awake, TypeInv, BudgetInv
<1>5. ASSUME NEW u \in Updates, Handler(u) PROVE OwnerInv'
  <2>1. CASE Notify(u)
    BY <2>1, <1>t DEF Notify, NotifyPosts, NotifyDone, HandlerGoes, Handlers, world, Awake
  <2>2. CASE DecisionResume(u)
    BY <2>2, <1>t DEF DecisionResume, HandlerGoes, HandlerAnswers, Handlers, world, Awake,
       TypeInv, BudgetInv
  <2>3. CASE SecondPopRaises(u)
    BY <2>3, <1>t DEF SecondPopRaises, HandlerGoes, Handlers, world, Awake
  <2>4. CASE DecisionTimeout(u)
    BY <2>4, <1>t DEF DecisionTimeout, HandlerAnswers, Handlers, world
  <2>5. CASE Waiter(u)
    BY <2>5, <1>t DEF Waiter, WaiterResume, WaiterTimeout, HandlerGoes, HandlerAnswers, Handlers, world
  <2>6. CASE PushAttempt(u)
    BY <2>6, <1>t DEF PushAttempt, PushFinds, PushPublishes, PushFails
  <2>7. CASE PushResult(u)
    BY <2>7, <1>t DEF PushResult, PushRecorded, PushRaises, HandlerGoes, HandlerAnswers, Handlers, world
  <2> QED
    BY <1>5, <2>1, <2>2, <2>3, <2>4, <2>5, <2>6, <2>7 DEF Handler, Decision
<1>6. CASE PostDoneContinueAsNew \/ CleanupDone
  <2>1. /\ handler' = AbortHandlers /\ ~TaskFailing
        /\ task' = task /\ execution' = execution
    BY <1>6 DEF PostDoneContinueAsNew, CleanupDone, CleanedUp, StatusPosted, Awake
  <2>2. ASSUME NEW u \in Updates
        PROVE  /\ handler'[u].at \notin Awaiting \cup {"raised"}
               /\ handler'[u].execution = handler[u].execution
               /\ handler[u].at \in Awaiting => handler'[u].at = "aborted"
               /\ handler[u].at \notin Awaiting => handler'[u] = handler[u]
    BY <2>1, <1>t DEF AbortHandlers, TaskFailing, Handlers
  <2> QED
    BY <2>1, <2>2
<1> QED
  <2>1. ASSUME NEW d \in Deliveries, on_event(d) PROVE OwnerInv'
    BY <2>1, <1>1 DEF on_event
  <2>2. ASSUME NEW k \in Keys, NEW v \in {"allow", "deny"}, submit_approval_decision(k, v)
        PROVE OwnerInv'
    BY <2>2, <1>1 DEF submit_approval_decision
  <2>3. CASE close
    BY <2>3, <1>1 DEF close
  <2>4. CASE Run /\ ~PostDoneContinueAsNew /\ ~CleanupDone
    BY <2>4, <1>2 DEF Run, PrepareDone, Prepared, ProvisionDone, Wait, LoopWake, LoopExit, IdleTimeout,
       Agent, AgentDone, AgentFails, SchedulePostStatus, Post, PostDone, StatusPosted,
       TeardownDone, AfterIteration
  <2>5. CASE Faults
    BY <2>5, <1>1 DEF Faults, ProvisionLost, AgentLost, LeftoverExits, PostLost
  <2>6. CASE UNCHANGED vars
    BY <2>6, <1>1 DEF vars
  <2> QED
    BY <2>1, <2>2, <2>3, <2>4, <2>5, <2>6, <1>3, <1>4, <1>5, <1>6, <1>c DEF Next, Outside, Run

-----------------------------------------------------------------------------
(* Deliveries.  Both the state and the copy know every delivery that was     *)
(* handed out, so neither can queue it again.                                *)
QueueOK(s) ==
    /\ handed \subseteq s.processed_delivery_ids
    /\ s.pending_events \subseteq s.processed_delivery_ids
    /\ s.pending_events \cap handed = {}

QueueInv == QueueOK(state) /\ (loop = "post" => QueueOK(argument))

LEMMA InitQueue == Init => QueueInv
BY DEF Init, QueueInv, QueueOK, FreshState

LEMMA NextQueue == TypeInv /\ QueueInv /\ [Next]_vars => QueueInv'
<1> SUFFICES ASSUME TypeInv, QueueInv, [Next]_vars PROVE QueueInv'
  OBVIOUS
<1> USE DEF QueueInv, QueueOK
<1>t. state \in WorkflowState /\ argument \in WorkflowState
  BY DEF TypeInv, TypeOK
(* Most steps leave the queue alone, or only schedule the copy.              *)
<1>1. ASSUME UNCHANGED handed,
             state'.pending_events = state.pending_events,
             state'.processed_delivery_ids = state.processed_delivery_ids,
             loop' = "post" => argument' \in {state', argument},
             loop' = "post" /\ argument' # state' => loop = "post"
      PROVE  QueueInv'
  BY <1>1
<1>2. ASSUME NEW d \in Deliveries, StartWithSignal(d) PROVE QueueInv'
  BY <1>2 DEF StartWithSignal, FreshState
<1>3. ASSUME NEW d \in Deliveries, on_event(d) PROVE QueueInv'
  <2>1. state'.pending_events = state.pending_events \cup {d}
        /\ state'.processed_delivery_ids = state.processed_delivery_ids \cup {d}
        /\ UNCHANGED <<argument, handed, loop>>
    BY <1>3, <1>t DEF on_event, WorkflowState, ghosts
  <2> QED
    BY <1>3, <2>1 DEF on_event, AlreadyProcessed
<1>c. ASSUME NEW u \in Updates, CallTool(u) \/ CallFails(u) PROVE QueueInv'
  BY <1>c DEF CallTool, CallFails, ghosts
<1>4. ASSUME NEW u \in Updates, request_push_changes(u) \/ Handler(u) PROVE QueueInv'
  <2>1. UNCHANGED <<loop, argument, handed>>
    BY <1>4 DEF request_push_changes, Handler, Notify, NotifyPosts, NotifyDone, Decision,
       DecisionResume, SecondPopRaises, DecisionTimeout, Waiter, WaiterResume, WaiterTimeout,
       PushAttempt, PushFinds, PushPublishes, PushFails, PushResult, PushRecorded, PushRaises, ghosts
  <2>2. state' = state \/ state' = [state EXCEPT !.operations = state'.operations]
    BY <1>4, <1>t DEF request_push_changes, Handler, Notify, NotifyPosts, NotifyDone, Decision,
       DecisionResume, SecondPopRaises, DecisionTimeout, Waiter, WaiterResume, WaiterTimeout,
       PushAttempt, PushFinds, PushPublishes, PushFails, PushResult, PushRecorded, PushRaises,
       Records, WorkflowState
  <2> QED
    BY <1>1, <1>t, <2>1, <2>2 DEF WorkflowState
<1>5. CASE LoopWake
  <2>1. /\ state'.pending_events = {}
        /\ state'.processed_delivery_ids = state.processed_delivery_ids
        /\ handed' = handed \cup state.pending_events
        /\ loop' = "agent"
    BY <1>5, <1>t DEF LoopWake, WorkflowState
  <2> QED
    BY <2>1
<1>6. CASE StatusPosted /\ (PostDone \/ PostDoneContinueAsNew)
  <2>1. /\ state'.pending_events = argument.pending_events
        /\ state'.processed_delivery_ids = argument.processed_delivery_ids
        /\ loop = "post" /\ loop' # "post" /\ handed' = handed
    BY <1>6, <1>t DEF StatusPosted, PostDone, PostDoneContinueAsNew, ReturnedState, AfterIteration,
       WorkflowState, ghosts
  <2> QED
    BY <2>1
<1> QED
  <2>1. ASSUME NEW k \in Keys, NEW v \in {"allow", "deny"}, submit_approval_decision(k, v)
        PROVE QueueInv'
    BY <2>1, <1>1 DEF submit_approval_decision
  <2>2. CASE close \/ ProvisionDone \/ IdleTimeout
    BY <2>2, <1>1, <1>t DEF close, ProvisionDone, IdleTimeout, WorkflowState, ghosts, AfterIteration
  <2>3. CASE AgentDone \/ AgentFails
    BY <2>3, <1>1, <1>t DEF AgentDone, AgentFails, SchedulePostStatus, WorkflowState, ghosts
  <2>4. CASE PrepareDone \/ LoopExit \/ TeardownDone \/ CleanupDone
    BY <2>4, <1>1 DEF PrepareDone, Prepared, LoopExit, TeardownDone, CleanupDone,
         CleanedUp, ghosts
  <2>5. CASE Faults \/ UNCHANGED vars
    BY <2>5, <1>1 DEF Faults, ProvisionLost, AgentLost, LeftoverExits, PostLost, ghosts, vars
  <2> QED
    BY <2>1, <2>2, <2>3, <2>4, <2>5, <1>2, <1>3, <1>4, <1>5, <1>6, <1>c
       DEF Next, Outside, Run, Wait, Agent, Post, PostDone, PostDoneContinueAsNew

-----------------------------------------------------------------------------
(* The host.  The handle is in the state from the moment the container is    *)
(* known until teardown.                                                     *)
HostInv ==
    /\ loop \in {"wait", "agent", "post", "teardown"} => state.sandbox
    /\ loop = "cleanup" => container # "ours" /\ ~leftover
    /\ NothingLeftBehind

LEMMA InitHost == Init => HostInv
BY DEF Init, HostInv, NothingLeftBehind, Running

LEMMA NextHost == TypeInv /\ HostInv /\ [Next]_vars => HostInv'
<1> SUFFICES ASSUME TypeInv, HostInv, [Next]_vars PROVE HostInv'
  OBVIOUS
<1> USE DEF HostInv, NothingLeftBehind, Running
<1>t. state \in WorkflowState /\ argument \in WorkflowState
  BY DEF TypeInv, TypeOK
<1>1. ASSUME UNCHANGED <<loop, container, workdir, leftover>>, state'.sandbox = state.sandbox
      PROVE  HostInv'
  BY <1>1
<1>2. ASSUME NEW d \in Deliveries, StartWithSignal(d) PROVE HostInv'
  BY <1>2 DEF StartWithSignal
<1>c. ASSUME NEW u \in Updates, CallTool(u) \/ CallFails(u) PROVE HostInv'
  BY <1>c DEF CallTool, CallFails, world
<1>3. ASSUME NEW u \in Updates, request_push_changes(u) \/ Handler(u) PROVE HostInv'
  <2>1. UNCHANGED <<loop, container, workdir, leftover>>
    BY <1>3 DEF request_push_changes, Handler, Notify, NotifyPosts, NotifyDone, Decision,
       DecisionResume, SecondPopRaises, DecisionTimeout, Waiter, WaiterResume, WaiterTimeout,
       PushAttempt, PushFinds, PushPublishes, PushFails, PushResult, PushRecorded, PushRaises, world
  <2>2. state'.sandbox = state.sandbox
    BY <1>3, <1>t DEF request_push_changes, Handler, Notify, NotifyPosts, NotifyDone, Decision,
       DecisionResume, SecondPopRaises, DecisionTimeout, Waiter, WaiterResume, WaiterTimeout,
       PushAttempt, PushFinds, PushPublishes, PushFails, PushResult, PushRecorded, PushRaises,
       Records, WorkflowState
  <2> QED
    BY <1>1, <2>1, <2>2
<1>4. CASE PrepareDone \/ LoopExit \/ IdleTimeout \/ LoopWake \/ ProvisionDone
  BY <1>4, <1>t DEF PrepareDone, Prepared, LoopExit, IdleTimeout, LoopWake, ProvisionDone, world,
     AfterIteration, WorkflowState
<1>5. CASE AgentDone \/ AgentFails
  BY <1>5, <1>t DEF AgentDone, AgentFails, SchedulePostStatus, world, WorkflowState
<1>6. CASE StatusPosted /\ (PostDone \/ PostDoneContinueAsNew)
  <2>1. state'.sandbox /\ loop' \in {"wait", "teardown", "prepare"}
    BY <1>6, <1>t DEF StatusPosted, PostDone, PostDoneContinueAsNew, ReturnedState, AfterIteration,
       WorkflowState, TypeInv, BudgetInv, CopyAgrees
  <2> QED
    BY <2>1
<1>7. CASE TeardownDone \/ CleanupDone
  BY <1>7 DEF TeardownDone, CleanupDone, CleanedUp
<1>8. CASE Faults
  BY <1>8 DEF Faults, ProvisionLost, AgentLost, LeftoverExits, PostLost
<1> QED
  <2>1. ASSUME NEW k \in Keys, NEW v \in {"allow", "deny"}, submit_approval_decision(k, v)
        PROVE HostInv'
    BY <2>1, <1>1 DEF submit_approval_decision, world
  <2>2. ASSUME NEW d \in Deliveries, on_event(d) PROVE HostInv'
    BY <2>2, <1>1, <1>t DEF on_event, WorkflowState, world
  <2>3. CASE close
    BY <2>3, <1>1, <1>t DEF close, WorkflowState, world
  <2>4. CASE UNCHANGED vars
    BY <2>4, <1>1 DEF vars, world
  <2> QED
    BY <2>1, <2>2, <2>3, <2>4, <1>2, <1>3, <1>4, <1>5, <1>6, <1>7, <1>8, <1>c
       DEF Next, Outside, Run, Wait, Agent, Post, PostDone, PostDoneContinueAsNew

-----------------------------------------------------------------------------
(* Results.  A report of success comes from an attempt that found or made    *)
(* the commit, and a commit stays on the branch.                             *)
ResultInv ==
    /\ PushedIsOnBranch
    /\ \A u \in Updates : task[u] = "pushed" => Published(KeyOf(u))
    /\ loop = "post" =>
          \A k \in Keys : argument.operations[k] = "pushed" => Published(k)

LEMMA InitResult == Init => ResultInv
BY DEF Init, ResultInv, PushedIsOnBranch, IdleHandler, FreshState

LEMMA NextResult == TypeInv /\ OwnerInv /\ ResultInv /\ [Next]_vars => ResultInv'
<1> SUFFICES ASSUME TypeInv, OwnerInv, ResultInv, [Next]_vars PROVE ResultInv'
  OBVIOUS
<1> USE DEF ResultInv, PushedIsOnBranch
<1>t. /\ state \in WorkflowState /\ argument \in WorkflowState
      /\ handler \in [Updates -> Handlers]
      /\ task \in [Updates -> {"none", "scheduled", "pushed", "declined", "raised"}]
  BY DEF TypeInv, TypeOK
(* Nothing but the workflow's loop and the copy moves.                       *)
<1>1. ASSUME UNCHANGED <<handler, task, branch>>,
             state'.operations = state.operations,
             loop' = "post" => \/ argument' = state'
                              \/ (argument' = argument /\ loop = "post")
      PROVE  ResultInv'
  BY <1>1 DEF KeyOf, Published
<1>2. ASSUME NEW d \in Deliveries, StartWithSignal(d) PROVE ResultInv'
  BY <1>2 DEF StartWithSignal, FreshState, KeyOf, Published
<1>c. ASSUME NEW u \in Updates, CallTool(u) \/ CallFails(u) PROVE ResultInv'
  <2>1. /\ \A w \in Updates : /\ handler'[w].answer = handler[w].answer
                              /\ handler'[w].key = handler[w].key
        /\ UNCHANGED <<loop, state, argument, task, branch>>
    BY <1>c, <1>t DEF CallTool, CallFails, HandlerGoes, Handlers, world
  <2> QED
    BY <2>1, <1>t DEF KeyOf, Published, Handlers
<1>3. ASSUME NEW u \in Updates, request_push_changes(u) PROVE ResultInv'
  <2>1. /\ \A w \in Updates \ {u} : handler'[w] = handler[w]
        /\ UNCHANGED <<loop, argument, task, branch>>
        /\ handler'[u].key = state.iterations
        /\ handler'[u].answer = "pushed" => state.operations[state.iterations] = "pushed"
    BY <1>3, <1>t DEF request_push_changes, world, Final
  <2>2. /\ task[u] = "none" /\ state.iterations \in Keys
    BY <1>3, <1>t DEF request_push_changes, OwnerInv, WorkflowState, Keys
  <2>3. \A k \in Keys : state'.operations[k] = "pushed" => state.operations[k] = "pushed"
    BY <1>3, <1>t, <2>2 DEF request_push_changes, Records, WorkflowState
  <2> QED
    BY <2>1, <2>2, <2>3, <1>t DEF KeyOf, Published
(* The steps of a handler or its attempt.                                    *)
<1>4. ASSUME NEW u \in Updates, Handler(u) PROVE ResultInv'
  <2>k. /\ KeyOf(u) \in Keys
        /\ \A w \in Updates : KeyOf(w)' = KeyOf(w)
    BY <1>4, <1>t DEF KeyOf, Handlers, Handler, Notify, NotifyPosts, NotifyDone, Decision,
       DecisionResume, SecondPopRaises, DecisionTimeout, Waiter, WaiterResume, WaiterTimeout,
       PushAttempt, PushFinds, PushPublishes, PushFails, PushResult, PushRecorded, PushRaises,
       HandlerGoes, HandlerAnswers
  <2>b. /\ UNCHANGED <<loop, argument>>
        /\ branch \subseteq branch'
    BY <1>4 DEF Handler, Notify, NotifyPosts, NotifyDone, Decision,
       DecisionResume, SecondPopRaises, DecisionTimeout, Waiter, WaiterResume, WaiterTimeout,
       PushAttempt, PushFinds, PushPublishes, PushFails, PushResult, PushRecorded, PushRaises, world
  <2>p. \A k \in Keys : Published(k) => Published(k)'
    BY <2>b DEF Published
  <2>1. CASE Notify(u) \/ SecondPopRaises(u) \/ WaiterTimeout(u) \/ PushRaises(u)
    <3>1. UNCHANGED <<state, task>> /\ \A w \in Updates : handler'[w].answer = handler[w].answer
      BY <2>1, <1>t DEF Notify, NotifyPosts, NotifyDone, SecondPopRaises, WaiterTimeout,
         PushRaises, HandlerGoes, Handlers
    <3> QED
      BY <3>1, <2>k, <2>b, <2>p, <1>t DEF KeyOf, Handlers
  <2>2. CASE DecisionResume(u) \/ DecisionTimeout(u)
    <3>1. /\ \A w \in Updates : handler'[w].answer = "pushed" => handler[w].answer = "pushed"
          /\ \A w \in Updates : task'[w] = "pushed" => task[w] = "pushed"
          /\ \A k \in Keys : state'.operations[k] = "pushed" => state.operations[k] = "pushed"
      <4>1. \A w \in Updates : handler'[w].answer = "pushed" => handler[w].answer = "pushed"
        BY <2>2, <1>t DEF DecisionResume, DecisionTimeout, HandlerGoes, HandlerAnswers, Handlers
      <4>2. \A w \in Updates : task'[w] = "pushed" => task[w] = "pushed"
        BY <2>2, <1>t DEF DecisionResume, DecisionTimeout
      <4>3. state' = state \/ Records(KeyOf(u), "denied")
        BY <2>2 DEF DecisionResume, DecisionTimeout
      <4>4. \A k \in Keys : state'.operations[k] = "pushed" => state.operations[k] = "pushed"
        BY <1>t, <2>k, <4>3 DEF Records, WorkflowState
      <4> QED
        BY <4>1, <4>2, <4>4
    <3> QED
      BY <3>1, <2>k, <2>b, <2>p, <1>t DEF KeyOf, Handlers
  <2>3. CASE WaiterResume(u)
    <3>1. /\ UNCHANGED <<state, task>>
          /\ \A w \in Updates \ {u} : handler'[w] = handler[w]
          /\ handler'[u].answer = state.operations[KeyOf(u)]
      BY <2>3, <1>t DEF WaiterResume, HandlerAnswers, Handlers
    <3> QED
      BY <3>1, <2>k, <2>b, <2>p, <1>t DEF KeyOf, Handlers
  <2>4. CASE PushAttempt(u)
    <3>1. /\ UNCHANGED <<state, handler>>
          /\ \A w \in Updates \ {u} : task'[w] = task[w]
      BY <2>4, <1>t DEF PushAttempt, PushFinds, PushPublishes, PushFails
    <3>2. task'[u] = "pushed" => Published(KeyOf(u))'
      <4>1. CASE PushFinds(u)
        BY <4>1, <2>k, <2>p DEF PushFinds, Found
      <4>2. CASE PushPublishes(u)
        <5>1. OperationOf(u) \in branch' /\ handler[u].execution \in 1..MaxExecutions
          BY <4>2, <1>t DEF PushPublishes, OwnerInv, Handlers
        <5> QED
          BY <5>1, <2>k DEF Published, OperationOf, KeyOf
      <4>3. CASE PushFails(u)
        BY <4>3, <1>t DEF PushFails
      <4> QED
        BY <2>4, <4>1, <4>2, <4>3 DEF PushAttempt
    <3> QED
      BY <3>1, <3>2, <2>k, <2>b, <2>p, <1>t DEF KeyOf, Handlers
  <2>5. CASE PushRecorded(u)
    <3>1. /\ task' = task
          /\ \A w \in Updates \ {u} : handler'[w] = handler[w]
          /\ handler'[u].answer = "pushed" => task[u] = "pushed"
          /\ \A k \in Keys \ {KeyOf(u)} : state'.operations[k] = state.operations[k]
          /\ state'.operations[KeyOf(u)] = "pushed" => task[u] = "pushed"
      BY <2>5, <1>t, <2>k DEF PushRecorded, HandlerAnswers, Handlers, Records, WorkflowState,
         StatusOf
    <3> QED
      BY <3>1, <2>k, <2>b, <2>p, <1>t DEF KeyOf, Handlers
  <2> QED
    BY <1>4, <2>1, <2>2, <2>3, <2>4, <2>5 DEF Handler, Decision, Waiter, PushResult
<1>5. CASE StatusPosted /\ (PostDone \/ PostDoneContinueAsNew)
  <2>1. /\ state'.operations = argument.operations
        /\ loop = "post" /\ loop' # "post" /\ UNCHANGED <<task, branch>>
        /\ \A u \in Updates : /\ handler'[u].answer = handler[u].answer
                               /\ handler'[u].key = handler[u].key
    BY <1>5, <1>t DEF StatusPosted, PostDone, PostDoneContinueAsNew, ReturnedState, AfterIteration,
       WorkflowState, AbortHandlers, Handlers
  <2> QED
    BY <2>1, <1>t DEF KeyOf, Published, Handlers
<1>6. CASE CleanupDone
  <2>1. /\ UNCHANGED <<state, task, branch>> /\ loop' # "post"
        /\ \A u \in Updates : /\ handler'[u].answer = handler[u].answer
                               /\ handler'[u].key = handler[u].key
    BY <1>6, <1>t DEF CleanupDone, CleanedUp, AbortHandlers, Handlers
  <2> QED
    BY <2>1, <1>t DEF KeyOf, Published, Handlers
<1> QED
  <2>1. ASSUME NEW k \in Keys, NEW v \in {"allow", "deny"}, submit_approval_decision(k, v)
        PROVE ResultInv'
    BY <2>1, <1>1 DEF submit_approval_decision, world
  <2>2. ASSUME NEW d \in Deliveries, on_event(d) PROVE ResultInv'
    BY <2>2, <1>1, <1>t DEF on_event, WorkflowState, world
  <2>3. CASE close \/ ProvisionDone \/ IdleTimeout \/ LoopWake
    BY <2>3, <1>1, <1>t DEF close, ProvisionDone, IdleTimeout, LoopWake, WorkflowState, world,
       AfterIteration
  <2>4. CASE AgentDone \/ AgentFails
    <3>1. /\ argument' = state' /\ UNCHANGED <<handler, task, branch>>
          /\ state'.operations = state.operations
      BY <2>4, <1>t DEF AgentDone, AgentFails, SchedulePostStatus, WorkflowState, world
    <3> QED
      BY <3>1 DEF KeyOf, Published
  <2>5. CASE PrepareDone \/ LoopExit \/ TeardownDone
    BY <2>5, <1>1 DEF PrepareDone, Prepared, LoopExit, TeardownDone, world
  <2>6. CASE Faults \/ UNCHANGED vars
    BY <2>6, <1>1 DEF Faults, ProvisionLost, AgentLost, LeftoverExits, PostLost, vars, world
  <2> QED
    BY <2>1, <2>2, <2>3, <2>4, <2>5, <2>6, <1>2, <1>3, <1>4, <1>5, <1>6, <1>c
       DEF Next, Outside, Run, Wait, Agent, Post, PostDone, PostDoneContinueAsNew

-----------------------------------------------------------------------------
(* The gate.  A registered "allow" is the last verdict on the operation of   *)
(* this execution, and only operations with a scheduled push are published,  *)
(* or have a commit in the clone that waits to be.                           *)
GateInv ==
    /\ \A k \in Keys : approvals[k] = "allow" => verdict[<<execution, k>>] = "allow"
    /\ \A o \in branch \cup unpushed :
          \E u \in Updates : task[u] # "none" /\ OperationOf(u) = o

released == {OperationOf(u) : u \in {w \in Updates : task[w] # "none"}}

LEMMA InitGate == Init => GateInv
BY DEF Init, GateInv, NoApprovals

(* One step of the workflow is one step of the gate, or none.                *)
LEMMA NextGate ==
    TypeInv /\ OwnerInv /\ GateInv /\ [Next]_vars
        => GateInv' /\ [Gated!Next]_<<verdict, released, branch>>
<1> SUFFICES ASSUME TypeInv, OwnerInv, GateInv, [Next]_vars
             PROVE  GateInv' /\ [Gated!Next]_<<verdict, released, branch>>
  OBVIOUS
<1> DEFINE Goal == GateInv' /\ [Gated!Next]_<<verdict, released, branch>>
<1>t. /\ handler \in [Updates -> Handlers] /\ approvals \in [Keys -> Decisions]
      /\ verdict \in [Operations -> {"none", "allow", "deny"}]
      /\ task \in [Updates -> {"none", "scheduled", "pushed", "declined", "raised"}]
      /\ branch \subseteq Operations
  BY DEF TypeInv, TypeOK
(* A step that keeps these four and who scheduled what is a stutter.         *)
<1>1. ASSUME UNCHANGED <<execution, verdict, task, branch>>, unpushed' \subseteq unpushed,
             \A u \in Updates : task[u] # "none" =>
                 /\ handler'[u].key = handler[u].key
                 /\ handler'[u].execution = handler[u].execution,
             \A k \in Keys : approvals'[k] = "allow" => approvals[k] = "allow"
      PROVE  Goal
  <2>1. \A u \in Updates : task[u] # "none" => OperationOf(u)' = OperationOf(u)
    BY <1>1 DEF OperationOf
  <2> QED
    BY <1>1, <2>1 DEF GateInv, released
<1>2. ASSUME NEW d \in Deliveries, StartWithSignal(d) PROVE Goal
  BY <1>2 DEF StartWithSignal, GateInv, released, OperationOf, NoApprovals
<1>3. ASSUME NEW k \in Keys, NEW v \in {"allow", "deny"}, submit_approval_decision(k, v)
      PROVE  Goal
  <2>1. <<execution, k>> \in Operations
    BY <1>3 DEF submit_approval_decision, Awake, TypeInv, TypeOK, BudgetInv, Operations
  <2>2. Gated!Decide(<<execution, k>>, v)
    BY <1>3 DEF submit_approval_decision, Gated!Decide, world, OperationOf
  <2>3. GateInv'
    BY <1>3, <1>t, <2>1 DEF submit_approval_decision, GateInv, world, OperationOf
  <2> QED
    BY <2>1, <2>2, <2>3 DEF Gated!Next
<1>4. ASSUME NEW u \in Updates, request_push_changes(u) PROVE Goal
  <2>1. /\ task[u] = "none" /\ \A w \in Updates \ {u} : handler'[w] = handler[w]
        /\ UNCHANGED <<execution, verdict, task, branch, unpushed>>
    BY <1>4, <1>t DEF request_push_changes, OwnerInv, world, ghosts
  <2>2. \A k \in Keys : approvals'[k] = "allow" => approvals[k] = "allow"
    BY <1>4, <1>t DEF request_push_changes
  <2>3. \A w \in Updates : task[w] # "none" =>
            handler'[w].key = handler[w].key /\ handler'[w].execution = handler[w].execution
    BY <2>1
  <2> QED
    BY <1>1, <2>1, <2>2, <2>3
<1>5. ASSUME NEW u \in Updates, DecisionResume(u), Allowed(KeyOf(u)) PROVE Goal
  <2>e. handler[u].execution = execution /\ execution \in 1..MaxExecutions
    BY <1>5 DEF DecisionResume, Awake, OwnerInv, Awaiting, TypeInv, TypeOK, BudgetInv
  <2>0. /\ OperationOf(u) = <<execution, KeyOf(u)>> /\ OperationOf(u) \in Operations
        /\ KeyOf(u) \in Keys
    BY <2>e, <1>t DEF OperationOf, KeyOf, Operations, Handlers
  <2>1. verdict[OperationOf(u)] = "allow"
    BY <1>5, <2>0 DEF Allowed, GateInv
  <2>2. \A w \in Updates : OperationOf(w)' = OperationOf(w)
    BY <1>5, <1>t DEF DecisionResume, HandlerGoes, OperationOf, Handlers
  <2>3. /\ UNCHANGED <<execution, verdict, branch, unpushed>> /\ task'[u] # "none"
        /\ \A w \in Updates \ {u} : task'[w] = task[w]
    BY <1>5, <1>t DEF DecisionResume, world, ghosts
  <2>4. released' = released \cup {OperationOf(u)}
    BY <2>2, <2>3 DEF released
  <2>6. \A k \in Keys : approvals'[k] = "allow" => approvals[k] = "allow"
    BY <1>5, <1>t DEF DecisionResume, Popped
  <2>7. GateInv'
    BY <2>2, <2>3, <2>6, <1>t DEF GateInv
  <2>8. Gated!Next
    BY <2>0, <2>1, <2>3, <2>4 DEF Gated!Next, Gated!Release, released
  <2> QED
    BY <2>7, <2>8
<1>6. ASSUME NEW u \in Updates, PushPublishes(u) PROVE Goal
  <2> DEFINE taken == unpushed \cup {OperationOf(u)}
  <2>1. /\ branch' = branch \cup taken /\ unpushed' = {}
        /\ UNCHANGED <<execution, verdict, approvals, handler>>
        /\ \A w \in Updates : task'[w] # "none" <=> task[w] # "none"
        /\ task[u] # "none"
    BY <1>6, <1>t DEF PushPublishes, ghosts
  <2>2. released' = released /\ taken \subseteq released
    BY <2>1 DEF released, OperationOf, GateInv
  <2>3. Gated!Publish(taken)
    BY <2>1, <2>2 DEF Gated!Publish, released
  <2>4. taken \in SUBSET released
    BY <2>2
  <2>5. GateInv'
    BY <2>1 DEF GateInv, OperationOf
  <2> QED
    BY <2>3, <2>4, <2>5 DEF Gated!Next, released
<1>7. ASSUME NEW u \in Updates, PushFinds(u) \/ PushFails(u) PROVE Goal
  <2>1. /\ UNCHANGED <<execution, verdict, approvals, handler, branch>>
        /\ unpushed' \subseteq unpushed \cup {OperationOf(u)}
        /\ \A w \in Updates : task'[w] # "none" <=> task[w] # "none"
        /\ task[u] # "none"
    BY <1>7, <1>t DEF PushFinds, PushFails, world, ghosts
  <2> QED
    BY <2>1 DEF GateInv, released, OperationOf
(* The other steps of a handler only move it, and may pop its approval.      *)
<1>8. ASSUME NEW u \in Updates,
             \/ Notify(u) \/ SecondPopRaises(u) \/ DecisionTimeout(u) \/ Waiter(u)
             \/ PushResult(u) \/ (DecisionResume(u) /\ ~Allowed(KeyOf(u)))
      PROVE  Goal
  <2>1. UNCHANGED <<execution, verdict, task, branch, unpushed>>
    BY <1>8 DEF Notify, NotifyPosts, NotifyDone, SecondPopRaises, DecisionTimeout, Waiter,
       WaiterResume, WaiterTimeout, PushResult, PushRecorded, PushRaises, DecisionResume, world, ghosts
  <2>2. \A w \in Updates : handler'[w].key = handler[w].key
                           /\ handler'[w].execution = handler[w].execution
    BY <1>8, <1>t DEF Notify, NotifyPosts, NotifyDone, SecondPopRaises, DecisionTimeout, Waiter,
       WaiterResume, WaiterTimeout, PushResult, PushRecorded, PushRaises, DecisionResume,
       HandlerGoes, HandlerAnswers, Handlers
  <2>3. \A k \in Keys : approvals'[k] = "allow" => approvals[k] = "allow"
    BY <1>8, <1>t DEF Notify, NotifyPosts, NotifyDone, SecondPopRaises, DecisionTimeout, Waiter,
       WaiterResume, WaiterTimeout, PushResult, PushRecorded, PushRaises, DecisionResume, Popped
  <2> QED
    BY <1>1, <2>1, <2>2, <2>3
<1>9. CASE PostDoneContinueAsNew \/ CleanupDone
  <2>1. /\ handler' = AbortHandlers /\ approvals' = NoApprovals
        /\ UNCHANGED <<execution, verdict, task, branch>> /\ unpushed' \subseteq unpushed
    BY <1>9 DEF PostDoneContinueAsNew, CleanupDone, CleanedUp, ghosts
  <2> QED
    BY <1>1, <1>t, <2>1 DEF AbortHandlers, NoApprovals, Handlers
<1>c. ASSUME NEW u \in Updates, CallTool(u) \/ CallFails(u) PROVE Goal
  <2>1. /\ \A w \in Updates : /\ handler'[w].key = handler[w].key
                              /\ handler'[w].execution = handler[w].execution
        /\ UNCHANGED <<execution, verdict, task, branch, unpushed, approvals>>
    BY <1>c, <1>t DEF CallTool, CallFails, HandlerGoes, Handlers, world, ghosts
  <2> QED
    BY <1>1, <2>1
<1> QED
  <2>1. ASSUME UNCHANGED <<execution, verdict, task, branch, handler, approvals>>,
               unpushed' \subseteq unpushed
        PROVE  Goal
    BY <2>1, <1>1
  <2>2. ASSUME NEW d \in Deliveries, on_event(d) PROVE Goal
    BY <2>1, <2>2 DEF on_event, world, ghosts
  <2>3. CASE close \/ ProvisionDone \/ IdleTimeout \/ LoopWake
    BY <2>1, <2>3 DEF close, ProvisionDone, IdleTimeout, LoopWake, world, ghosts
  <2>4. CASE Agent
    BY <2>1, <2>4 DEF Agent, AgentDone, AgentFails, world, ghosts
  <2>5. CASE PrepareDone \/ LoopExit \/ TeardownDone \/ PostDone
    BY <2>1, <2>5 DEF PrepareDone, Prepared, LoopExit, TeardownDone, PostDone, world, ghosts
  <2>6. CASE Faults \/ UNCHANGED vars
    BY <2>1, <2>6 DEF Faults, ProvisionLost, AgentLost, LeftoverExits, PostLost, vars, world, ghosts
  <2> QED
    BY <2>2, <2>3, <2>4, <2>5, <2>6, <1>2, <1>3, <1>4, <1>5, <1>6, <1>7, <1>8, <1>9, <1>c
       DEF Next, Outside, Run, Wait, Post, Handler, Decision, PushAttempt

-----------------------------------------------------------------------------
(* What KeyedPush sees of the workflow.                                      *)
scheduledKeys == {KeyOf(u) : u \in {w \in Updates : task[w] # "none"}}
publishedKeys == {k \in Keys : Published(k)}
toldKeys == {KeyOf(u) : u \in {w \in Updates : task[w] = "pushed"}}
KeyedStep == [KeyPushes!Next]_<<scheduledKeys, publishedKeys, toldKeys>>

(* Every step of the workflow is a step of KeyedPush or a stutter.           *)
LEMMA NextKeyed == TypeInv /\ OwnerInv /\ GateInv /\ [Next]_vars => KeyedStep
<1> SUFFICES ASSUME TypeInv, OwnerInv, GateInv, [Next]_vars PROVE KeyedStep
  OBVIOUS
<1>t. /\ handler \in [Updates -> Handlers] /\ branch \subseteq Operations
      /\ task \in [Updates -> {"none", "scheduled", "pushed", "declined", "raised"}]
      /\ \A u \in Updates : KeyOf(u) \in Keys
  BY DEF TypeInv, TypeOK, KeyOf, Handlers
(* A step that keeps the tasks and the branch, and the key of whoever has a  *)
(* task, is a stutter.                                                       *)
<1>1. ASSUME UNCHANGED <<task, branch>>,
             \A u \in Updates : task[u] # "none" => handler'[u].key = handler[u].key
      PROVE  KeyedStep
  <2>1. \A u \in Updates : task[u] # "none" => KeyOf(u)' = KeyOf(u)
    BY <1>1 DEF KeyOf
  <2>2. scheduledKeys' = scheduledKeys /\ toldKeys' = toldKeys
    BY <1>1, <2>1 DEF scheduledKeys, toldKeys
  <2>3. publishedKeys' = publishedKeys
    BY <1>1 DEF publishedKeys, Published
  <2> QED
    BY <2>2, <2>3 DEF KeyedStep
<1>2. ASSUME NEW u \in Updates, DecisionResume(u), Allowed(KeyOf(u)) PROVE KeyedStep
  <2>1. /\ branch' = branch /\ task'[u] = "scheduled"
        /\ \A w \in Updates \ {u} : task'[w] = task[w]
        /\ \A w \in Updates : KeyOf(w)' = KeyOf(w)
        /\ task[u] # "pushed"
    BY <1>2, <1>t DEF DecisionResume, HandlerGoes, KeyOf, Handlers, world, OwnerInv, Ended
  <2>2. scheduledKeys' = scheduledKeys \cup {KeyOf(u)}
    BY <2>1 DEF scheduledKeys
  <2>3. toldKeys' = toldKeys
    BY <2>1 DEF toldKeys
  <2>4. publishedKeys' = publishedKeys
    BY <2>1 DEF publishedKeys, Published
  <2> DEFINE k == KeyOf(u)
  <2>5. /\ k \in Keys
        /\ scheduledKeys' = scheduledKeys \cup {k}
        /\ UNCHANGED <<publishedKeys, toldKeys>>
    BY <1>t, <2>2, <2>3, <2>4
  <2> HIDE DEF k
  <2>6. KeyPushes!Next
    BY <2>5 DEF KeyPushes!Next, KeyPushes!Schedule, scheduledKeys, publishedKeys, toldKeys
  <2> QED
    BY <2>6 DEF KeyedStep
<1>3. ASSUME NEW u \in Updates, PushAttempt(u) PROVE KeyedStep
  <2> DEFINE taken == {k \in publishedKeys' : k \notin publishedKeys}
             heard == {k \in {KeyOf(u)} : task'[u] = "pushed"}
  <2>1. /\ task[u] = "scheduled" /\ task'[u] # "none"
        /\ \A w \in Updates \ {u} : task'[w] = task[w]
        /\ \A w \in Updates : KeyOf(w)' = KeyOf(w)
    BY <1>3, <1>t DEF PushAttempt, PushFinds, PushPublishes, PushFails, KeyOf
  <2>2. /\ branch \subseteq branch'
        /\ branch' \subseteq branch \cup unpushed \cup {OperationOf(u)}
    BY <1>3 DEF PushAttempt, PushFinds, PushPublishes, PushFails, world
  <2>3. scheduledKeys' = scheduledKeys /\ toldKeys' = toldKeys \cup heard
    <3>1. scheduledKeys' = scheduledKeys
      BY <2>1 DEF scheduledKeys
    <3>2. toldKeys' = toldKeys \cup heard
      BY <2>1 DEF toldKeys
    <3> QED
      BY <3>1, <3>2
  (* What the push takes along was scheduled.                                *)
  <2>4. taken \subseteq scheduledKeys
    <3> SUFFICES ASSUME NEW k \in taken PROVE k \in scheduledKeys
      OBVIOUS
    <3>1. PICK e \in 1..MaxExecutions : <<e, k>> \in branch' /\ <<e, k>> \notin branch
      BY DEF publishedKeys, Published
    <3>2. <<e, k>> \in unpushed \cup {OperationOf(u)}
      BY <2>2, <3>1
    <3>3. PICK w \in Updates : task[w] # "none" /\ <<e, k>> = OperationOf(w)
      BY <2>1, <3>2 DEF GateInv, released
    <3>4. KeyOf(w) = k
      BY <3>3 DEF OperationOf, KeyOf
    <3> QED
      BY <3>3, <3>4 DEF scheduledKeys
  <2>5. publishedKeys' = publishedKeys \cup taken
    BY <2>2 DEF publishedKeys, Published
  (* "pushed" is reported of a key that was found, or has just been pushed.  *)
  <2>6. heard \subseteq publishedKeys'
    <3>1. CASE PushFinds(u)
      BY <1>t, <3>1, <2>5 DEF PushFinds, Found, publishedKeys
    <3>2. CASE PushPublishes(u)
      <4>1. OperationOf(u) \in branch' /\ OperationOf(u) = <<handler[u].execution, KeyOf(u)>>
        BY <3>2 DEF PushPublishes, OperationOf, KeyOf
      <4>2. handler[u].execution \in 1..MaxExecutions
        BY <1>t, <2>1, BoundsAssumption DEF OwnerInv, Handlers
      <4> QED
        BY <1>t, <4>1, <4>2 DEF publishedKeys, Published
    <3>3. CASE PushFails(u)
      BY <1>t, <3>3 DEF PushFails
    <3> QED
      BY <1>3, <3>1, <3>2, <3>3 DEF PushAttempt
  <2>7. heard \in SUBSET Keys
    BY <1>t
  <2> HIDE DEF taken, heard
  <2>8. KeyPushes!Next
    BY <2>3, <2>4, <2>5, <2>6, <2>7
       DEF KeyPushes!Next, KeyPushes!Push, scheduledKeys, publishedKeys, toldKeys
  <2> QED
    BY <2>8 DEF KeyedStep
<1>4. ASSUME NEW u \in Updates,
             \/ Notify(u) \/ SecondPopRaises(u) \/ DecisionTimeout(u) \/ Waiter(u)
             \/ PushResult(u) \/ (DecisionResume(u) /\ ~Allowed(KeyOf(u)))
             \/ CallTool(u) \/ CallFails(u) \/ request_push_changes(u)
      PROVE  KeyedStep
  <2>1. UNCHANGED <<task, branch>>
    BY <1>4 DEF Notify, NotifyPosts, NotifyDone, SecondPopRaises, DecisionTimeout, Waiter,
       WaiterResume, WaiterTimeout, PushResult, PushRecorded, PushRaises, DecisionResume,
       CallTool, CallFails, request_push_changes, world, ghosts
  <2>2. CASE request_push_changes(u)
    <3>1. task[u] = "none" /\ \A w \in Updates \ {u} : handler'[w] = handler[w]
      BY <1>t, <2>2 DEF request_push_changes, OwnerInv
    <3> QED
      BY <1>1, <2>1, <3>1
  <2>3. CASE ~request_push_changes(u)
    <3>1. \A w \in Updates : handler'[w].key = handler[w].key
      BY <1>4, <1>t, <2>3 DEF Notify, NotifyPosts, NotifyDone, SecondPopRaises, DecisionTimeout,
         Waiter, WaiterResume, WaiterTimeout, PushResult, PushRecorded, PushRaises,
         DecisionResume, CallTool, CallFails, HandlerGoes, HandlerAnswers, Handlers
    <3> QED
      BY <1>1, <2>1, <3>1
  <2> QED
    BY <2>2, <2>3
<1>5. CASE PostDoneContinueAsNew \/ CleanupDone
  <2>1. handler' = AbortHandlers /\ UNCHANGED <<task, branch>>
    BY <1>5 DEF PostDoneContinueAsNew, CleanupDone, ghosts
  <2> QED
    BY <1>1, <1>t, <2>1 DEF AbortHandlers, Handlers
<1> QED
  <2>1. ASSUME UNCHANGED <<task, branch, handler>> PROVE KeyedStep
    BY <2>1, <1>1
  <2>2. ASSUME NEW d \in Deliveries, StartWithSignal(d) \/ on_event(d) PROVE KeyedStep
    BY <2>1, <2>2 DEF StartWithSignal, on_event, world, ghosts
  <2>3. ASSUME NEW k \in Keys, NEW v \in {"allow", "deny"}, submit_approval_decision(k, v)
        PROVE  KeyedStep
    BY <2>1, <2>3 DEF submit_approval_decision, world
  <2>4. CASE close \/ ProvisionDone \/ IdleTimeout \/ LoopWake \/ Agent
    BY <2>1, <2>4 DEF close, ProvisionDone, IdleTimeout, LoopWake, Agent, AgentDone, AgentFails,
       world, ghosts
  <2>5. CASE PrepareDone \/ LoopExit \/ TeardownDone \/ PostDone
    BY <2>1, <2>5 DEF PrepareDone, Prepared, LoopExit, TeardownDone, PostDone, world, ghosts
  <2>6. CASE Faults \/ UNCHANGED vars
    BY <2>1, <2>6 DEF Faults, ProvisionLost, AgentLost, LeftoverExits, PostLost, vars, world, ghosts
  <2> QED
    BY <2>2, <2>3, <2>4, <2>5, <2>6, <1>2, <1>3, <1>4, <1>5
       DEF Next, Outside, Run, Wait, Post, Handler, Decision

-----------------------------------------------------------------------------
(* Who pops the decision of key k, once it is there.                         *)
Pops(u, k) ==
    KeyOf(u) = k /\ handler[u].at \in {"notify", "notified", "decision", "raised"}

(* A registered approval keeps somebody to pop it: the handler that          *)
(* registered it pops it before it leaves, and no other step takes it away.  *)
LEMMA NextOrphan == TypeInv /\ NoOrphanApproval /\ [Next]_vars => NoOrphanApproval'
<1> SUFFICES ASSUME TypeInv, NoOrphanApproval, [Next]_vars PROVE NoOrphanApproval'
  OBVIOUS
<1> USE DEF Pops
<1>t. handler \in [Updates -> Handlers] /\ approvals \in [Keys -> Decisions]
  BY DEF TypeInv, TypeOK
(* Handlers only move on, and nothing new is registered.                     *)
<1>1. ASSUME \A k \in Keys : approvals'[k] # "absent" => approvals[k] # "absent",
             \A k \in Keys, u \in Updates :
                 Pops(u, k) /\ approvals'[k] # "absent" => Pops(u, k)'
      PROVE  NoOrphanApproval'
  <2> SUFFICES ASSUME NEW k \in Keys, approvals'[k] # "absent"
               PROVE  \E u \in Updates : Pops(u, k)'
    BY DEF NoOrphanApproval
  <2>1. PICK u \in Updates : Pops(u, k)
    BY <1>1 DEF NoOrphanApproval
  <2> QED
    BY <1>1, <2>1
(* Nothing is registered any more.                                           *)
<1>2. ASSUME approvals' = NoApprovals PROVE NoOrphanApproval'
  BY <1>2 DEF NoApprovals, NoOrphanApproval
<1>3. ASSUME UNCHANGED <<approvals, handler>> PROVE NoOrphanApproval'
  BY <1>1, <1>3 DEF KeyOf
(* One handler moves, and pops if it leaves.                                 *)
<1>4. ASSUME NEW u \in Updates, approvals' = approvals \/ Popped(KeyOf(u)),
             \A w \in Updates \ {u} : handler'[w] = handler[w],
             \A k \in Keys : Pops(u, k) => Pops(u, k)' \/ Popped(k)
      PROVE  NoOrphanApproval'
  <2>1. ASSUME NEW k \in Keys, approvals'[k] # "absent"
        PROVE  approvals[k] # "absent" /\ ~Popped(k)
    BY <1>4, <1>t, <2>1 DEF Popped
  <2>2. ASSUME NEW k \in Keys, NEW w \in Updates, Pops(w, k), approvals'[k] # "absent"
        PROVE  Pops(w, k)'
    <3>1. CASE w = u
      BY <1>4, <2>1, <2>2, <3>1
    <3>2. CASE w # u
      BY <1>4, <2>2, <3>2 DEF KeyOf
    <3> QED
      BY <3>1, <3>2
  <2> QED
    BY <1>1, <2>1, <2>2
<1>5. ASSUME NEW k \in Keys, NEW v \in {"allow", "deny"}, submit_approval_decision(k, v)
      PROVE  NoOrphanApproval'
  <2>1. handler' = handler
    BY <1>5 DEF submit_approval_decision
  <2>2. \A j \in Keys : approvals'[j] # "absent" => approvals[j] # "absent"
    BY <1>5, <1>t DEF submit_approval_decision
  <2> QED
    BY <1>1, <2>1, <2>2 DEF KeyOf
<1>6. ASSUME NEW u \in Updates, request_push_changes(u) PROVE NoOrphanApproval'
  <2>1. /\ handler[u].at = "calling" /\ handler'[u].key = state.iterations
        /\ \A w \in Updates \ {u} : handler'[w] = handler[w]
    BY <1>6, <1>t DEF request_push_changes
  <2>2. \/ approvals' = approvals
        \/ /\ approvals' = [approvals EXCEPT ![state.iterations] = "pending"]
           /\ handler'[u].at = "notify"
    BY <1>6, <1>t DEF request_push_changes
  <2>3. \A k \in Keys, w \in Updates : Pops(w, k) => Pops(w, k)'
    BY <2>1 DEF KeyOf
  <2>4. CASE approvals' = approvals
    BY <1>1, <2>3, <2>4
  <2>5. ASSUME approvals' = [approvals EXCEPT ![state.iterations] = "pending"],
               handler'[u].at = "notify", NEW k \in Keys, approvals'[k] # "absent"
        PROVE  \E w \in Updates : Pops(w, k)'
    <3>1. CASE k = state.iterations
      BY <2>1, <2>5, <3>1 DEF KeyOf
    <3>2. CASE k # state.iterations
      <4>1. approvals[k] # "absent"
        BY <1>t, <2>5, <3>2
      <4> QED
        BY <2>3, <4>1 DEF NoOrphanApproval
    <3> QED
      BY <3>1, <3>2
  <2> QED
    BY <2>2, <2>4, <2>5 DEF NoOrphanApproval
<1>7. ASSUME NEW u \in Updates, CallTool(u) \/ CallFails(u) \/ Notify(u) \/ SecondPopRaises(u)
      PROVE  NoOrphanApproval'
  <2>1. PICK at : /\ HandlerGoes(u, at)
                  /\ \/ handler[u].at \in {"idle", "calling"}
                     \/ at \in {"notified", "decision", "raised"}
    BY <1>7 DEF CallTool, CallFails, Notify, NotifyPosts, NotifyDone, SecondPopRaises
  <2>2. /\ handler'[u].at = at /\ handler'[u].key = handler[u].key
        /\ \A w \in Updates \ {u} : handler'[w] = handler[w]
    BY <1>t, <2>1 DEF HandlerGoes, Handlers
  <2>3. approvals' = approvals
    BY <1>7 DEF CallTool, CallFails, Notify, NotifyPosts, NotifyDone, SecondPopRaises
  <2> QED
    BY <1>4, <2>1, <2>2, <2>3 DEF KeyOf
<1>8. ASSUME NEW u \in Updates, DecisionResume(u) \/ DecisionTimeout(u) PROVE NoOrphanApproval'
  <2>1. Popped(KeyOf(u)) /\ \A w \in Updates \ {u} : handler'[w] = handler[w]
    BY <1>8, <1>t DEF DecisionResume, DecisionTimeout, HandlerGoes, HandlerAnswers
  <2> QED
    BY <1>4, <2>1
<1>9. ASSUME NEW u \in Updates, Waiter(u) \/ PushResult(u) PROVE NoOrphanApproval'
  <2>1. /\ approvals' = approvals /\ \A w \in Updates \ {u} : handler'[w] = handler[w]
        /\ handler[u].at \in {"other", "push"}
    BY <1>9, <1>t DEF Waiter, WaiterResume, WaiterTimeout, PushResult, PushRecorded, PushRaises,
       HandlerGoes, HandlerAnswers
  <2> QED
    BY <1>4, <2>1
<1>10. ASSUME NEW u \in Updates, PushAttempt(u) PROVE NoOrphanApproval'
  BY <1>3, <1>10 DEF PushAttempt, PushFinds, PushPublishes, PushFails
<1>11. ASSUME NEW d \in Deliveries, StartWithSignal(d) \/ on_event(d) PROVE NoOrphanApproval'
  BY <1>2, <1>3, <1>11 DEF StartWithSignal, on_event
<1>12. CASE PostDoneContinueAsNew \/ CleanupDone
  BY <1>2, <1>12 DEF PostDoneContinueAsNew, CleanupDone
<1>13. CASE close \/ ProvisionDone \/ Wait \/ Agent
  BY <1>3, <1>13 DEF close, ProvisionDone, Wait, LoopWake, LoopExit, IdleTimeout, Agent,
     AgentDone, AgentFails
<1>14. CASE PrepareDone \/ PostDone \/ TeardownDone
  BY <1>3, <1>14 DEF PrepareDone, PostDone, TeardownDone
<1>15. CASE Faults \/ UNCHANGED vars
  BY <1>3, <1>15 DEF Faults, ProvisionLost, AgentLost, LeftoverExits, PostLost, vars
<1> QED
  BY <1>5, <1>6, <1>7, <1>8, <1>9, <1>10, <1>11, <1>12, <1>13, <1>14, <1>15
     DEF Next, Outside, Run, Post, Handler, Decision

-----------------------------------------------------------------------------
(* The inductive invariant.                                                  *)
IInv ==
    TypeInv /\ OwnerInv /\ QueueInv /\ HostInv /\ ResultInv /\ GateInv /\ NoOrphanApproval

LEMMA NextType == TypeInv /\ OwnerInv /\ [Next]_vars => TypeInv'
<1>1. TypeInv /\ UNCHANGED vars => TypeInv'
  BY DEF vars, world, ghosts, TypeInv, TypeOK, BudgetInv, CopyAgrees, BudgetKept, Running
<1> QED
  BY <1>1, OutsideType, HandlerType, RunType DEF Next

THEOREM Invariance == Spec => []IInv
<1>1. Init => IInv
  <2>1. Init => NoOrphanApproval
    BY DEF Init, NoApprovals, NoOrphanApproval
  <2> QED
    BY <2>1, InitType, InitOwner, InitQueue, InitHost, InitResult, InitGate DEF IInv
<1>2. IInv /\ [Next]_vars => IInv'
  BY NextType, NextOwner, NextQueue, NextHost, NextResult, NextGate, NextOrphan DEF IInv
<1> QED
  BY <1>1, <1>2, PTL DEF Spec

(* Every variable keeps to its type, so no more iterations are dispatched    *)
(* than MAX_ITERATIONS allows.                                               *)
THEOREM TypeCorrect == Spec => []TypeOK
<1>1. IInv => TypeOK
  BY DEF IInv, TypeInv
<1> QED
  BY <1>1, Invariance, PTL

(* The count in the state is the number of iterations dispatched, through    *)
(* every overwrite by post_status and every continue-as-new.                 *)
THEOREM BudgetIsKept == Spec => []BudgetKept
<1>1. IInv => BudgetKept
  BY DEF IInv, TypeInv, BudgetInv
<1> QED
  BY <1>1, Invariance, PTL

(* No delivery reaches an agent twice in one execution.                      *)
THEOREM HandedOnce == Spec => []NeverHandedTwice
<1>1. IInv => NeverHandedTwice
  BY DEF IInv, QueueInv, QueueOK, NeverHandedTwice
<1> QED
  BY <1>1, Invariance, PTL

(* A result "pushed" always has a commit with its key on the branch.         *)
THEOREM PushedHasCommit == Spec => []PushedIsOnBranch
<1>1. IInv => PushedIsOnBranch
  BY DEF IInv, ResultInv
<1> QED
  BY <1>1, Invariance, PTL

(* A decision the workflow takes in finds somebody to act on it.             *)
THEOREM DecisionIsAwaited == Spec => []NoOrphanApproval
<1>1. IInv => NoOrphanApproval
  BY DEF IInv
<1> QED
  BY <1>1, Invariance, PTL

(* An execution that has returned left neither clone nor agent, nor a        *)
(* container it had the handle of.                                           *)
THEOREM HostIsClean == Spec => []NothingLeftBehind
<1>1. IInv => NothingLeftBehind
  BY DEF IInv, HostInv
<1> QED
  BY <1>1, Invariance, PTL

(* The workflow implements the gate: no push is scheduled but on the word of *)
(* a person, and nothing is published that was not scheduled.                *)
THEOREM Refinement == Spec => PublicationIsGated
<1>1. Init => Gated!Init
  BY DEF Init, Gated!Init
<1>2. IInv /\ [Next]_vars => [Gated!Next]_Gated!vars
  BY NextGate DEF IInv, Gated!vars, released
<1> QED
  BY <1>1, <1>2, Invariance, PTL DEF Spec, PublicationIsGated, Gated!Spec

(* Whatever the workflow does with operation keys is what KeyedPush allows,  *)
(* and PushChanges is proved to do no more with its git commands.           *)
THEOREM KeyedRefinement == Spec => PublicationIsKeyed
<1>1. Init => KeyPushes!Init
  BY DEF Init, KeyPushes!Init, Published
<1>2. IInv /\ [Next]_vars => [KeyPushes!Next]_KeyPushes!vars
  BY NextKeyed DEF IInv, KeyedStep, KeyPushes!vars, scheduledKeys, publishedKeys, toldKeys
<1> QED
  BY <1>1, <1>2, Invariance, PTL DEF Spec, PublicationIsKeyed, KeyPushes!Spec
=============================================================================
