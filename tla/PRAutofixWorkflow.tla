------------------------- MODULE PRAutofixWorkflow -------------------------
(***************************************************************************)
(* The durable workflow that owns one pull request, with the activities it *)
(* schedules.  One Temporal activation runs handlers without interruption  *)
(* up to their next await, so an action is the code between two awaits, or *)
(* the effect of an activity on the world (a comment, a container, a       *)
(* commit), which the worker has before the workflow hears of it.          *)
(*                                                                         *)
(* The workflow id is fixed by the pull request, so it lives through many  *)
(* executions: the gateway starts a new one after the last has returned,   *)
(* and an execution may continue as new.  Timers carry no clock: a timeout *)
(* may fire whenever its condition is false.                               *)
(***************************************************************************)
EXTENDS Naturals, FiniteSets

CONSTANTS
    Deliveries,         \* ids of the webhook deliveries GitHub makes
    Updates,            \* calls of the request_push_changes update
    MaxIterations,      \* agent iterations an execution may dispatch
    MaxExecutions,      \* bound: executions started under the workflow id
    MaxContinueAsNew,   \* bound: times an execution continues as new
    MaxStatusComments   \* bound: status comments created on the PR

ASSUME IterationsAssumption == MaxIterations \in Nat \ {0}
ASSUME BoundsAssumption ==
    /\ MaxExecutions \in Nat \ {0}
    /\ MaxContinueAsNew \in Nat
    /\ MaxStatusComments \in Nat \ {0}

VARIABLES
    loop,               \* where run() awaits; "stopped" outside an execution
    state,              \* self._state, the WorkflowState
    argument,           \* the copy of it that post_status was given
    approvals,          \* self._approvals, by approval id (the operation key)
    handler,            \* the calls of request_push_changes: on the way through
                        \* the broker ("calling"), then an update handler
    task,               \* the push_changes activity each handler scheduled
    container,          \* the container of this name on the Docker host: none,
                        \* "ours", which an execution has the handle of, or
                        \* "stray", whose creation no execution heard of
    workdir,            \* the prepared clone exists on the worker
    leftover,           \* an agent outlives its activity inside the sandbox
    asked,              \* approval ids that were posted on the PR
    branch,             \* operations with a keyed commit on the PR's branch
    unpushed,           \* operations whose commit is in the clone only
    statusComments,     \* status comments this execution created
    execution,          \* executions started so far
    continues,          \* times this execution continued as new
    verdict,            \* the last decision that met a registered approval
    handed,             \* deliveries this execution gave to an agent
    dispatched          \* iterations this execution dispatched

world == <<container, workdir, leftover, asked, branch, unpushed, statusComments>>
ghosts == <<verdict, handed, dispatched>>
vars == <<loop, state, argument, approvals, handler, task, world,
          execution, continues, ghosts>>

-----------------------------------------------------------------------------
(* push_operation_key hashes (workflow id, iteration): the id is fixed here, *)
(* so a key is an iteration, and every execution draws from the same keys.   *)
Keys == 0..MaxIterations
Operations == (1..MaxExecutions) \X Keys

Statuses == {"absent", "pending", "denied", "pushed", "failed"}
Final == {"denied", "pushed", "failed"}
Decisions == {"absent", "pending", "allow", "deny"}
Loops == {"stopped", "prepare", "provision", "wait", "agent", "post",
          "teardown", "cleanup"}
Awaiting == {"notify", "notified", "decision", "other", "push"}
Ended == {"answered", "failed", "aborted"}

WorkflowState ==
    [pending_events: SUBSET Deliveries, processed_delivery_ids: SUBSET Deliveries,
     iterations: 0..MaxIterations, closed: BOOLEAN, sandbox: BOOLEAN,
     posted_status_comment_id: BOOLEAN, operations: [Keys -> Statuses]]

FreshState ==
    [pending_events |-> {}, processed_delivery_ids |-> {}, iterations |-> 0,
     closed |-> FALSE, sandbox |-> FALSE, posted_status_comment_id |-> FALSE,
     operations |-> [k \in Keys |-> "absent"]]

Handlers ==
    [at: {"idle", "calling", "raised"} \cup Awaiting \cup Ended, key: Keys,
     execution: 0..MaxExecutions, answer: Statuses]
IdleHandler == [at |-> "idle", key |-> 0, execution |-> 0, answer |-> "absent"]
NoApprovals == [k \in Keys |-> "absent"]

(* Deliveries form a set: nothing here depends on the order of the list.     *)
TypeOK ==
    /\ loop \in Loops
    /\ state \in WorkflowState
    /\ argument \in WorkflowState
    /\ approvals \in [Keys -> Decisions]
    /\ handler \in [Updates -> Handlers]
    /\ task \in [Updates -> {"none", "scheduled", "pushed", "declined", "raised"}]
    /\ container \in {"none", "ours", "stray"}
    /\ workdir \in BOOLEAN /\ leftover \in BOOLEAN
    /\ asked \subseteq Keys
    /\ branch \subseteq Operations /\ unpushed \subseteq Operations
    /\ statusComments \in 0..MaxStatusComments
    /\ execution \in 0..MaxExecutions
    /\ continues \in 0..MaxContinueAsNew
    /\ verdict \in [Operations -> {"none", "allow", "deny"}]
    /\ handed \subseteq Deliveries
    /\ dispatched \in 0..MaxIterations

Init ==
    /\ loop = "stopped"
    /\ state = FreshState
    /\ argument = FreshState
    /\ approvals = NoApprovals
    /\ handler = [u \in Updates |-> IdleHandler]
    /\ task = [u \in Updates |-> "none"]
    /\ container = "none" /\ workdir = FALSE /\ leftover = FALSE
    /\ asked = {} /\ branch = {} /\ unpushed = {} /\ statusComments = 0
    /\ execution = 0 /\ continues = 0
    /\ verdict = [o \in Operations |-> "none"]
    /\ handed = {} /\ dispatched = 0

-----------------------------------------------------------------------------
(* The conditions of wait_condition are evaluated after every activation.    *)
(* One that raises KeyError fails the workflow task, which Temporal retries: *)
(* nothing of the workflow moves until the exception can no longer happen.   *)
KeyOf(u) == handler[u].key
OperationOf(u) == <<handler[u].execution, handler[u].key>>
Raised == \E u \in Updates : handler[u].at = "raised"
TaskFailing ==
    \E u \in Updates :
        \/ handler[u].at = "raised"
        \/ handler[u].at = "decision" /\ approvals[KeyOf(u)] = "absent"
        \/ handler[u].at = "other" /\ state.operations[KeyOf(u)] = "absent"

Running == loop # "stopped"
Awake == Running /\ ~TaskFailing

AbortHandlers ==
    [u \in Updates |->
        IF handler[u].at \in Awaiting
            THEN [handler[u] EXCEPT !.at = "aborted"] ELSE handler[u]]

AgentMayCall == container = "ours" /\ (loop = "agent" \/ leftover)

(* Variant of AlreadyProcessed: only what is still queued is remembered.     *)
AlreadyQueued(d) == d \in state.pending_events
AlreadyProcessed(d) == d \in state.processed_delivery_ids

AfterIteration(s) == IF s.iterations < MaxIterations THEN "wait" ELSE "teardown"

-----------------------------------------------------------------------------
(* The gateway's signal-with-start, when no execution is open.               *)
StartWithSignal(d) ==
    /\ ~Running
    /\ execution < MaxExecutions
    /\ execution' = execution + 1
    /\ loop' = "prepare"
    /\ state' = [FreshState EXCEPT !.pending_events = {d},
                                   !.processed_delivery_ids = {d}]
    /\ approvals' = NoApprovals
    /\ statusComments' = 0 /\ continues' = 0
    /\ handed' = {} /\ dispatched' = 0
    /\ UNCHANGED <<argument, handler, task, container, workdir, leftover, asked,
                   branch, unpushed, verdict>>

(* The same call when one is open; a delivery already seen changes nothing.  *)
on_event(d) ==
    /\ Awake
    /\ ~AlreadyProcessed(d)
    /\ state' = [state EXCEPT !.pending_events = @ \cup {d},
                              !.processed_delivery_ids = @ \cup {d}]
    /\ UNCHANGED <<loop, argument, approvals, handler, task, world, execution,
                   continues, ghosts>>

close ==
    /\ Awake
    /\ state' = [state EXCEPT !.closed = TRUE]
    /\ UNCHANGED <<loop, argument, approvals, handler, task, world, execution,
                   continues, ghosts>>

(* A person answers a posted approval id.  An id that is not registered (not *)
(* yet, no longer, or of an earlier execution) is dropped: a stuttering step.*)
submit_approval_decision(k, v) ==
    /\ Awake
    /\ k \in asked
    /\ approvals[k] # "absent"
    /\ approvals' = [approvals EXCEPT ![k] = v]
    /\ verdict' = [verdict EXCEPT ![<<execution, k>>] = v]
    /\ UNCHANGED <<loop, state, argument, handler, task, world, execution,
                   continues, handed, dispatched>>

-----------------------------------------------------------------------------
(* request_push_changes.  Its first part runs up to the first await.         *)
HandlerGoes(u, where) == handler' = [handler EXCEPT ![u].at = where]
HandlerAnswers(u, status) ==
    handler' = [handler EXCEPT ![u].at = "answered", ![u].answer = status]
Records(k, status) == state' = [state EXCEPT !.operations[k] = status]

(* Variant of Popped: the decision is read and left in place.                *)
NotPopped(k) == approvals' = approvals
Popped(k) == approvals' = [approvals EXCEPT ![k] = "absent"]

(* Decided also serves as a variant of Allowed: any answer releases.         *)
Decided(k) == approvals[k] \in {"allow", "deny"}
Allowed(k) == approvals[k] = "allow"

(* The agent's tool call, which the broker passes on.  It may be under way   *)
(* when its agent or its sandbox is gone, and reach a later execution.       *)
CallTool(u) ==
    /\ AgentMayCall
    /\ handler[u].at = "idle"
    /\ HandlerGoes(u, "calling")
    /\ UNCHANGED <<loop, state, argument, approvals, task, world, execution,
                   continues, ghosts>>

(* No execution is open: Temporal does not know the workflow.                *)
CallFails(u) ==
    /\ handler[u].at = "calling"
    /\ ~Running
    /\ HandlerGoes(u, "failed")
    /\ UNCHANGED <<loop, state, argument, approvals, task, world, execution,
                   continues, ghosts>>

request_push_changes(u) ==
    LET k == state.operations[state.iterations]
        Begin(where, answer) ==
            handler' = [handler EXCEPT ![u] =
                [at |-> where, key |-> state.iterations,
                 execution |-> execution, answer |-> answer]]
    IN  /\ Awake
        /\ handler[u].at = "calling"
        /\ \/ /\ k = "absent"
              /\ Begin("notify", "absent")
              /\ Records(state.iterations, "pending")
              /\ approvals' = [approvals EXCEPT ![state.iterations] = "pending"]
           \/ /\ k = "pending"
              /\ Begin("other", "absent")
              /\ UNCHANGED <<state, approvals>>
           \/ /\ k \in Final
              /\ Begin("answered", k)
              /\ UNCHANGED <<state, approvals>>
        /\ UNCHANGED <<loop, argument, task, world, execution, continues, ghosts>>

(* The notify activity reaches the PR before the workflow hears of it.       *)
NotifyPosts(u) ==
    /\ handler[u].at = "notify"
    /\ asked' = asked \cup {KeyOf(u)}
    /\ HandlerGoes(u, "notified")
    /\ UNCHANGED <<loop, state, argument, approvals, task, container, workdir,
                   leftover, branch, unpushed, statusComments, execution, continues, ghosts>>

(* The await's first look at self._approvals[approval_id] raises if another  *)
(* handler of the same key has popped it.                                    *)
NotifyDone(u) ==
    /\ Awake
    /\ handler[u].at = "notified"
    /\ HandlerGoes(u, IF approvals[KeyOf(u)] = "absent" THEN "raised" ELSE "decision")
    /\ UNCHANGED <<loop, state, argument, approvals, task, world, execution,
                   continues, ghosts>>

OthersDeciding(u) ==
    \E w \in Updates \ {u} : handler[w].at = "decision" /\ KeyOf(w) = KeyOf(u)

(* The decision is popped.  Two handlers awaiting one key wake in the same   *)
(* activation and the second pop raises, so nothing of either is kept.       *)
DecisionResume(u) ==
    /\ Awake
    /\ handler[u].at = "decision"
    /\ Decided(KeyOf(u))
    /\ ~OthersDeciding(u)
    /\ Popped(KeyOf(u))
    /\ \/ /\ ~Allowed(KeyOf(u))
          /\ Records(KeyOf(u), "denied")
          /\ HandlerAnswers(u, "denied")
          /\ UNCHANGED task
       \/ /\ Allowed(KeyOf(u))
          /\ task' = [task EXCEPT ![u] = "scheduled"]
          /\ HandlerGoes(u, "push")
          /\ UNCHANGED state
    /\ UNCHANGED <<loop, argument, world, execution, continues, ghosts>>

SecondPopRaises(u) ==
    /\ Awake
    /\ handler[u].at = "decision"
    /\ Decided(KeyOf(u))
    /\ OthersDeciding(u)
    /\ HandlerGoes(u, "raised")
    /\ UNCHANGED <<loop, state, argument, approvals, task, world, execution,
                   continues, ghosts>>

(* Variant of DecisionTimeout: without the return of line 101 the handler    *)
(* would still be there.                                                     *)
DecisionTimeoutFallsThrough(u) ==
    /\ Running /\ ~Raised
    /\ handler[u].at = "decision"
    /\ ~Decided(KeyOf(u))
    /\ Popped(KeyOf(u))
    /\ Records(KeyOf(u), "denied")
    /\ UNCHANGED <<loop, argument, handler, task, world, execution, continues, ghosts>>

DecisionTimeout(u) ==
    /\ Running /\ ~Raised
    /\ handler[u].at = "decision"
    /\ ~Decided(KeyOf(u))
    /\ Popped(KeyOf(u))
    /\ Records(KeyOf(u), "denied")
    /\ HandlerAnswers(u, "denied")
    /\ UNCHANGED <<loop, argument, task, world, execution, continues, ghosts>>

WaiterResume(u) ==
    /\ Awake
    /\ handler[u].at = "other"
    /\ state.operations[KeyOf(u)] \in Final
    /\ HandlerAnswers(u, state.operations[KeyOf(u)])
    /\ UNCHANGED <<loop, state, argument, approvals, task, world, execution,
                   continues, ghosts>>

WaiterTimeout(u) ==
    /\ Running /\ ~Raised
    /\ handler[u].at = "other"
    /\ state.operations[KeyOf(u)] \notin Final
    /\ HandlerGoes(u, "failed")
    /\ UNCHANGED <<loop, state, argument, approvals, task, world, execution,
                   continues, ghosts>>

-----------------------------------------------------------------------------
(* push_changes on the worker, one whole attempt at a time (PushChanges      *)
(* splits it).  An attempt outlives the execution that scheduled it.         *)
Published(k) == \E e \in 1..MaxExecutions : <<e, k>> \in branch

(* Variant of Found: the lookup takes any keyed commit for its own.          *)
FoundAny(k) == branch # {}

(* The key's trailer is on the fetched branch: that commit is the result.    *)
Found(k) == Published(k)

PushFinds(u) ==
    /\ task[u] = "scheduled" /\ workdir
    /\ Found(KeyOf(u))
    /\ task' = [task EXCEPT ![u] = "pushed"]
    /\ UNCHANGED <<loop, state, argument, approvals, handler, world, execution,
                   continues, ghosts>>

(* The push reaches the remote, with every commit that stood in the clone;   *)
(* the report may be an error, or may be lost with the worker, and then the  *)
(* attempt is made again.                                                    *)
PushPublishes(u) ==
    /\ task[u] = "scheduled" /\ workdir
    /\ ~Found(KeyOf(u))
    /\ branch' = branch \cup unpushed \cup {OperationOf(u)}
    /\ unpushed' = {}
    /\ \E report \in {"pushed", "declined", "scheduled"} :
           task' = [task EXCEPT ![u] = report]
    /\ UNCHANGED <<loop, state, argument, approvals, handler, container, workdir,
                   leftover, asked, statusComments, execution, continues, ghosts>>

(* Fetch failed, no changes, remote advanced, or the push was refused; or    *)
(* all three attempts raised.  A commit may have been made before.           *)
PushFails(u) ==
    /\ task[u] = "scheduled"
    /\ \E report \in IF workdir THEN {"declined", "raised"} ELSE {"raised"} :
           task' = [task EXCEPT ![u] = report]
    /\ \/ unpushed' = unpushed
       \/ /\ workdir /\ ~Found(KeyOf(u))
          /\ unpushed' = unpushed \cup {OperationOf(u)}
    /\ UNCHANGED <<loop, state, argument, approvals, handler, container, workdir,
                   leftover, asked, branch, statusComments, execution, continues,
                   ghosts>>

(* Variant of StatusOf: pushed.pushed is not looked at.                      *)
RecordsAnyReport(report) == IF report = "raised" THEN "failed" ELSE "pushed"
StatusOf(report) == IF report = "pushed" THEN "pushed" ELSE "failed"

PushRecorded(u) ==
    LET status == StatusOf(task[u])
    IN  /\ Awake
        /\ handler[u].at = "push"
        /\ task[u] \in {"pushed", "declined"}
        /\ Records(KeyOf(u), status)
        /\ HandlerAnswers(u, status)
        /\ UNCHANGED <<loop, argument, approvals, task, world, execution,
                       continues, ghosts>>

(* The ActivityError leaves the handler; the operation stays as it was.      *)
PushRaises(u) ==
    /\ Awake
    /\ handler[u].at = "push"
    /\ task[u] = "raised"
    /\ HandlerGoes(u, "failed")
    /\ UNCHANGED <<loop, state, argument, approvals, task, world, execution,
                   continues, ghosts>>

-----------------------------------------------------------------------------
(* prepare_workdir clones or resets to the branch, and cleanup_workdir        *)
(* removes: both may be repeated at will, and drop commits not pushed.       *)
Prepared == workdir' = TRUE /\ unpushed' = {}
CleanedUp == workdir' = FALSE /\ unpushed' = {}

(* run().                                                                    *)
PrepareDone ==
    /\ Awake
    /\ loop = "prepare"
    /\ loop' = "provision"
    /\ Prepared
    /\ UNCHANGED <<state, argument, approvals, handler, task, container, leftover,
                   asked, branch, statusComments, execution, continues, ghosts>>

(* containers.run needs the container's name to be free: when the answer is  *)
(* lost, or the execution continued as new, every further attempt fails.     *)
NameFree == container = "none"

ProvisionDone ==
    /\ Awake
    /\ loop = "provision"
    /\ NameFree
    /\ container' = "ours"
    /\ state' = [state EXCEPT !.sandbox = TRUE]
    /\ loop' = AfterIteration(state)
    /\ UNCHANGED <<argument, approvals, handler, task, workdir, leftover, asked,
                   branch, unpushed, statusComments, execution, continues, ghosts>>

(* An attempt whose answer is lost, or that comes to it after its time, when *)
(* a later attempt has succeeded and even the execution may be over.         *)
ProvisionLost ==
    /\ execution # 0
    /\ execution = 1 /\ continues = 0 => loop # "prepare"
    /\ NameFree
    /\ container' = "stray"
    /\ UNCHANGED <<loop, state, argument, approvals, handler, task, workdir,
                   leftover, asked, branch, unpushed, statusComments, execution, continues,
                   ghosts>>

(* Variant of NothingLeft: a closed workflow leaves at once.                 *)
ClosedMeansExit == state.closed
NothingLeft == state.closed /\ state.pending_events = {}

LoopWake ==
    /\ Awake
    /\ loop = "wait"
    /\ state.pending_events # {} \/ state.closed
    /\ ~NothingLeft
    /\ state' = [state EXCEPT !.iterations = @ + 1, !.pending_events = {}]
    /\ handed' = handed \cup state.pending_events
    /\ dispatched' = dispatched + 1
    /\ loop' = "agent"
    /\ UNCHANGED <<argument, approvals, handler, task, world, execution, continues,
                   verdict>>

LoopExit ==
    /\ Awake
    /\ loop = "wait"
    /\ NothingLeft
    /\ loop' = "teardown"
    /\ UNCHANGED <<state, argument, approvals, handler, task, world, execution,
                   continues, ghosts>>

IdleTimeout ==
    /\ Awake
    /\ loop = "wait"
    /\ state.pending_events = {} /\ ~state.closed
    /\ state' = [state EXCEPT !.closed = TRUE]
    /\ loop' = "teardown"
    /\ UNCHANGED <<argument, approvals, handler, task, world, execution, continues,
                   ghosts>>

(* The plan reaches the state only as comment ids, which nothing here reads. *)
(* post_status is given a copy of the state as it is now.                    *)
SchedulePostStatus(s) ==
    /\ state' = s
    /\ argument' = s
    /\ loop' = "post"

AgentDone ==
    /\ Awake
    /\ loop = "agent"
    /\ SchedulePostStatus(state)
    /\ UNCHANGED <<approvals, handler, task, world, execution, continues, ghosts>>

(* An attempt that times out or loses its worker leaves its agent running.   *)
AgentLost ==
    /\ loop = "agent"
    /\ ~leftover
    /\ leftover' = TRUE
    /\ UNCHANGED <<loop, state, argument, approvals, handler, task, container,
                   workdir, asked, branch, unpushed, statusComments, execution, continues,
                   ghosts>>

AgentFails ==
    /\ Awake
    /\ loop = "agent"
    /\ SchedulePostStatus([state EXCEPT !.closed = TRUE])
    /\ UNCHANGED <<approvals, handler, task, world, execution, continues, ghosts>>

LeftoverExits ==
    /\ leftover
    /\ leftover' = FALSE
    /\ UNCHANGED <<loop, state, argument, approvals, handler, task, container,
                   workdir, asked, branch, unpushed, statusComments, execution, continues,
                   ghosts>>

-----------------------------------------------------------------------------
(* post_status creates the comment or updates it, and returns its argument.  *)
(* Variant of Created: the comment's id is not looked at.                    *)
AlwaysCreated == 1
Created == IF argument.posted_status_comment_id THEN 0 ELSE 1

PostLost ==
    /\ loop = "post"
    /\ statusComments + Created < MaxStatusComments
    /\ statusComments' = statusComments + Created
    /\ UNCHANGED <<loop, state, argument, approvals, handler, task, container,
                   workdir, leftover, asked, branch, unpushed, execution, continues, ghosts>>

(* Variants of ReturnedState: the activity rebuilds the state without the    *)
(* handle, or was given one from before the iteration was counted.           *)
RebuiltState ==
    [argument EXCEPT !.posted_status_comment_id = TRUE, !.sandbox = FALSE]
StaleIterationState ==
    [argument EXCEPT !.posted_status_comment_id = TRUE, !.iterations = @ - 1]
ReturnedState == [argument EXCEPT !.posted_status_comment_id = TRUE]

(* self._state is REPLACED by what the activity returned: whatever signals   *)
(* and updates wrote since it was scheduled is gone.                         *)
StatusPosted ==
    /\ Awake
    /\ loop = "post"
    /\ statusComments' = statusComments + Created
    /\ state' = ReturnedState
    /\ argument' = FreshState

PostDone ==
    /\ StatusPosted
    /\ loop' = AfterIteration(ReturnedState)
    /\ UNCHANGED <<approvals, handler, task, container, workdir, leftover, asked,
                   branch, unpushed, execution, continues, ghosts>>

(* The new run is built from the state alone: self._approvals is empty and   *)
(* no handler survives; nothing is torn down.                                *)
PostDoneContinueAsNew ==
    /\ continues < MaxContinueAsNew
    /\ StatusPosted
    /\ loop' = "prepare"
    /\ continues' = continues + 1
    /\ approvals' = NoApprovals
    /\ handler' = AbortHandlers
    /\ UNCHANGED <<task, container, workdir, leftover, asked, branch, unpushed, execution,
                   ghosts>>

-----------------------------------------------------------------------------
(* finally: the sandbox, if the state knows of one, then the clone.          *)
TeardownDone ==
    /\ Awake
    /\ loop = "teardown"
    /\ IF state.sandbox
          THEN /\ container' = IF container = "ours" THEN "none" ELSE container
               /\ leftover' = FALSE
          ELSE UNCHANGED <<container, leftover>>
    /\ loop' = "cleanup"
    /\ UNCHANGED <<state, argument, approvals, handler, task, workdir, asked, branch, unpushed,
                   statusComments, execution, continues, ghosts>>

(* run() returns; update handlers still awaiting are abandoned with it.      *)
CleanupDone ==
    /\ Awake
    /\ loop = "cleanup"
    /\ CleanedUp
    /\ loop' = "stopped"
    /\ handler' = AbortHandlers
    /\ approvals' = NoApprovals
    /\ UNCHANGED <<state, argument, task, container, leftover, asked, branch,
                   statusComments, execution, continues, ghosts>>

-----------------------------------------------------------------------------
Outside ==
    \/ \E d \in Deliveries : StartWithSignal(d) \/ on_event(d)
    \/ close
    \/ \E k \in Keys, v \in {"allow", "deny"} : submit_approval_decision(k, v)
    \/ \E u \in Updates : CallTool(u) \/ CallFails(u) \/ request_push_changes(u)

Notify(u) == NotifyPosts(u) \/ NotifyDone(u)
Decision(u) == DecisionResume(u) \/ SecondPopRaises(u) \/ DecisionTimeout(u)
Waiter(u) == WaiterResume(u) \/ WaiterTimeout(u)
PushAttempt(u) == PushFinds(u) \/ PushPublishes(u) \/ PushFails(u)
PushResult(u) == PushRecorded(u) \/ PushRaises(u)
Handler(u) == Notify(u) \/ Decision(u) \/ Waiter(u) \/ PushAttempt(u) \/ PushResult(u)

Wait == LoopWake \/ LoopExit \/ IdleTimeout
Agent == AgentDone \/ AgentFails
Post == PostDone \/ PostDoneContinueAsNew
Run == PrepareDone \/ ProvisionDone \/ Wait \/ Agent \/ Post \/ TeardownDone \/ CleanupDone

Faults == ProvisionLost \/ AgentLost \/ LeftoverExits \/ PostLost

Next == Outside \/ (\E u \in Updates : Handler(u)) \/ Run \/ Faults

Spec == Init /\ [][Next]_vars

(* Temporal delivers what it accepted, retries activities and fires timers,  *)
(* so what the workflow and its activities can do forever, they do.  Nothing *)
(* is assumed of GitHub, people, agents or faults.                           *)
FairSpec ==
    /\ Spec
    /\ WF_vars(Run)
    /\ \A u \in Updates :
          /\ WF_vars(Notify(u))
          /\ WF_vars(Decision(u))
          /\ WF_vars(Waiter(u))
          /\ WF_vars(PushAttempt(u))
          /\ WF_vars(PushResult(u))

-----------------------------------------------------------------------------
(* Safety.                                                                   *)

(* No delivery is given to an agent twice in one execution, although the     *)
(* overwrite by post_status brings back an older list of pending events      *)
(* (pr_autofix.py:45-48, 170-171, 195).                                      *)
NeverHandedTwice == state.pending_events \cap handed = {}

(* The budget of iterations survives the overwrite and continue-as-new: the  *)
(* state's count is the number of agent iterations really dispatched         *)
(* (pr_autofix.py:157, 169, 195, 203).                                       *)
BudgetKept == Running => state.iterations = dispatched

(* Whatever a request is told or the state records as "pushed" has a commit  *)
(* with its key on the branch, across retries, lost reports and overwritten  *)
(* records (pr_autofix.py:113-128, lifecycle.py:224-248).                    *)
PushedIsOnBranch ==
    /\ \A u \in Updates : handler[u].answer = "pushed" => Published(KeyOf(u))
    /\ \A k \in Keys : state.operations[k] = "pushed" => Published(k)

(* An approval is registered only while some handler of this execution is    *)
(* there to pop it, so a decision the workflow takes in is never orphaned    *)
(* (pr_autofix.py:74, 100, 102, 135-140).                                    *)
NoOrphanApproval ==
    \A k \in Keys : approvals[k] # "absent" =>
        \E u \in Updates :
            /\ KeyOf(u) = k
            /\ handler[u].at \in {"notify", "notified", "decision", "raised"}

(* When no execution is open, nothing an execution knew of is left on the    *)
(* host: the handle that teardown needs survives every overwrite             *)
(* (pr_autofix.py:204-218).                                                  *)
NothingLeftBehind == ~Running => container # "ours" /\ ~workdir /\ ~leftover

(* Publication is gated: a push is scheduled only when the last decision a   *)
(* person made about that operation, in that execution, is to allow it, and  *)
(* only scheduled operations reach the branch (pr_autofix.py:86-118).        *)
Gated == INSTANCE GatedPublication WITH
    released <- {OperationOf(u) : u \in {w \in Updates : task[w] # "none"}},
    published <- branch
PublicationIsGated == Gated!Spec

(* By key, which executions share, the workflow does with commits what       *)
(* PushChanges is shown to do: no commit without a scheduled push, none      *)
(* taken back, and none reported that is not there (pr_autofix.py:113-128,   *)
(* lifecycle.py:219-248).                                                    *)
KeyPushes == INSTANCE KeyedPush WITH
    scheduled <- {KeyOf(u) : u \in {w \in Updates : task[w] # "none"}},
    published <- {k \in Keys : Published(k)},
    told <- {KeyOf(u) : u \in {w \in Updates : task[w] = "pushed"}}
PublicationIsKeyed == KeyPushes!Spec

-----------------------------------------------------------------------------
(* Progress.                                                                 *)

ContainerNameTaken == loop = "provision" /\ ~NameFree

(* An execution that was started ends, unless the container's name is taken  *)
(* or an exception fails its tasks for ever.                                 *)
Settles == Running ~> ~Running \/ ContainerNameTaken \/ Raised

(* Every publication request is answered, fails or is abandoned with its     *)
(* execution: none waits for ever (the 24-hour waits of lines 65 and 89).    *)
RequestEnds ==
    \A u \in Updates :
        handler[u].at \in Awaiting ~> handler[u].at \in Ended \/ Raised

(* A delivery queued while the loop waits or an agent works is given to an   *)
(* agent, even if the workflow is closed meanwhile or post_status overwrites *)
(* the state, unless the budget ends first (pr_autofix.py:157-171, 195).     *)
QueuedEventHandled ==
    \A d \in Deliveries :
        loop \in {"wait", "agent"} /\ d \in state.pending_events
            ~> \/ d \in handed
               \/ state.iterations = MaxIterations
               \/ ContainerNameTaken \/ Raised

-----------------------------------------------------------------------------
(* What the documentation says and the code does not keep.                   *)

(* docs/pattern-c-platform.md:70-72: the decision and the pushed commit are  *)
(* persisted in workflow state.  A record written while post_status runs is  *)
(* overwritten by the copy the activity returns (pr_autofix.py:195).         *)
RecordedResultPersists ==
    [][\A k \in Keys :
         state.operations[k] = "pushed" /\ execution' = execution
            => state'.operations[k] = "pushed"]_vars

(* README.md:75-76: after approval, a commit is created and pushed.  An      *)
(* execution draws the keys of the one before it, so the lookup finds that   *)
(* one's commit and reports it, and this one's edits are never pushed        *)
(* (idempotency.py:18, lifecycle.py:219-225).                                *)
ApprovedIsPushed ==
    \A u \in Updates : handler[u].answer = "pushed" => OperationOf(u) \in branch
=============================================================================
