------------------------------ MODULE Gateway ------------------------------
(***************************************************************************)
(* The webhook gateway and the workflow executions it starts and signals.  *)
(* Every delivery, and every redelivery of it, is a request with a handler *)
(* of its own, and the handlers interleave at their awaits: the fetch of   *)
(* the head commit's message and the call of Temporal.  GitHub may deliver *)
(* in any order, again, and while an earlier delivery is still handled.    *)
(***************************************************************************)
EXTENDS Naturals, Sequences, FiniteSets

CONSTANTS
    PRs,            \* pull requests: [owner, name, number]; owner and name are
                    \* the sequences of the words between their hyphens
    ALLOWED_REPOS,  \* pairs of an owner and a name
    APPROVER_LOGINS,
    Webhooks,       \* what GitHub has to tell: [kind, pr, author, bot]; the last
                    \* is whether the head commit has AUTOFIX_COMMIT_TRAILER
    MaxRedelivered, \* bound: webhooks delivered a second time
    MaxExecutions   \* bound: executions of one workflow id

Kinds == {"opened", "synchronize", "review_comment", "check_suite", "command", "other"}

ASSUME WebhooksAssumption ==
    \A w \in Webhooks : w.kind \in Kinds /\ w.pr \in PRs /\ w.bot \in BOOLEAN
ASSUME GatewayBoundsAssumption == MaxRedelivered \in Nat /\ MaxExecutions \in Nat

VARIABLES
    handler,    \* where the handler of each request is, or what it answered
    unread,     \* webhooks whose head commit could not be fetched once
    execution,  \* executions started under each workflow id
    open,       \* whether the latest of them is open
    pr,         \* the pull request it was started with
    queue,      \* its state.pending_events
    processed,  \* its state.processed_delivery_ids
    verdicts,   \* the commands it was signalled
    taken,      \* the webhooks any execution ever queued
    published   \* pull requests whose branch got a commit of the bot

temporal == <<execution, open, pr, queue, processed, verdicts, taken>>
vars == <<handler, unread, temporal, published>>

-----------------------------------------------------------------------------
(* Owner, name and number joined with hyphens: acme/web-app and acme-web/app *)
(* make the same ids of their numbers.                                       *)
WorkflowId(p) == p.owner \o p.name \o <<p.number>>

Ids == {WorkflowId(p) : p \in PRs}
Requests == Webhooks \X {"delivery", "redelivery"}
Redelivered == {w \in Webhooks : handler[<<w, "redelivery">>] # "none"}
Awaiting == {"fetch", "start", "signal"}
Answers == {"202", "204", "403", "500"}

TypeOK ==
    /\ handler \in [Requests -> {"none"} \cup Awaiting \cup Answers]
    /\ unread \subseteq Webhooks /\ taken \subseteq Webhooks
    /\ execution \in [Ids -> 0..MaxExecutions]
    /\ open \in [Ids -> BOOLEAN]
    /\ pr \in [Ids -> PRs]
    /\ \A i \in Ids : open[i] => execution[i] > 0
    /\ processed \in [Ids -> SUBSET Webhooks]
    /\ \A i \in Ids : queue[i] \subseteq processed[i]
    /\ verdicts \in [Ids -> SUBSET Webhooks]
    /\ published \subseteq PRs

Init ==
    /\ handler = [r \in Requests |-> "none"]
    /\ unread = {} /\ taken = {} /\ published = {}
    /\ execution = [i \in Ids |-> 0]
    /\ open = [i \in Ids |-> FALSE]
    /\ pr = [i \in Ids |-> CHOOSE p \in PRs : WorkflowId(p) = i]
    /\ queue = [i \in Ids |-> {}]
    /\ processed = [i \in Ids |-> {}]
    /\ verdicts = [i \in Ids |-> {}]

IdOf(w) == WorkflowId(w.pr)

-----------------------------------------------------------------------------
(* A request up to its first await.  The routes of an approval command and   *)
(* of an event check the allowlist each on their own.                        *)
Goes(r, place) == handler' = [handler EXCEPT ![r] = place]

Allowed(p) == <<p.owner, p.name>> \in ALLOWED_REPOS
Listed(w) == Allowed(w.pr)

(* Variant of Authorized: anybody's command is signalled.                    *)
Anybody(w) == Listed(w)
Authorized(w) == w.author \in APPROVER_LOGINS /\ Listed(w)

RouteCommand(w) == IF Authorized(w) THEN "signal" ELSE "403"

(* Variant of RouteEvent: a synchronize is fetched before the check, and not *)
(* checked after it.                                                         *)
FetchFirst(w) ==
    CASE w.kind = "other"                                           -> "204"
      [] w.kind = "synchronize"                                     -> "fetch"
      [] w.kind \notin {"other", "synchronize"} /\ ~Listed(w)       -> "403"
      [] OTHER                                                      -> "start"

(* _project_event keeps four kinds; only a synchronize may be the bot's own. *)
RouteEvent(w) ==
    CASE w.kind = "other"                      -> "204"
      [] w.kind # "other" /\ ~Listed(w)        -> "403"
      [] w.kind = "synchronize" /\ Listed(w)   -> "fetch"
      [] OTHER                                 -> "start"

Receive(r) ==
    LET w == r[1] IN
    /\ handler[r] = "none"
    /\ w.bot => w.pr \in published
    /\ r[2] = "redelivery" =>
          /\ handler[<<w, "delivery">>] # "none"
          /\ Cardinality(Redelivered) < MaxRedelivered
    /\ Goes(r, IF w.kind = "command" THEN RouteCommand(w) ELSE RouteEvent(w))
    /\ UNCHANGED <<unread, temporal, published>>

(* Variant of OwnPush: the trailer is not looked for.                        *)
NoGuard(w) == FALSE
OwnPush(w) == w.bot

FetchReads(r) ==
    /\ handler[r] = "fetch"
    /\ Goes(r, IF OwnPush(r[1]) THEN "204" ELSE "start")
    /\ UNCHANGED <<unread, temporal, published>>

(* An empty message: five seconds are over, GitHub refuses, no token.        *)
FetchFails(r) ==
    /\ handler[r] = "fetch"
    /\ Goes(r, "start")
    /\ unread' = unread \cup {r[1]}
    /\ UNCHANGED <<temporal, published>>

-----------------------------------------------------------------------------
(* What start_workflow does at the server: the signal goes to the execution  *)
(* that is open, or to a new one; on_event drops a delivery it has had.      *)
(* Variant of Processed: the delivery's id is not remembered.                *)
Forgotten(i, w) == processed' = processed
Processed(i, w) == processed' = [processed EXCEPT ![i] = @ \cup {w}]

OnEvent(w) ==
    LET i == IdOf(w) IN
    /\ IF w \in processed[i]
          THEN UNCHANGED <<queue, processed, taken>>
          ELSE /\ queue' = [queue EXCEPT ![i] = @ \cup {w}]
               /\ Processed(i, w)
               /\ taken' = taken \cup {w}
    /\ UNCHANGED <<execution, open, pr, verdicts>>

FirstEvent(w) ==
    LET i == IdOf(w) IN
    /\ execution[i] < MaxExecutions
    /\ execution' = [execution EXCEPT ![i] = @ + 1]
    /\ open' = [open EXCEPT ![i] = TRUE]
    /\ pr' = [pr EXCEPT ![i] = w.pr]
    /\ queue' = [queue EXCEPT ![i] = {w}]
    /\ processed' = [processed EXCEPT ![i] = {w}]
    /\ verdicts' = [verdicts EXCEPT ![i] = {}]
    /\ taken' = taken \cup {w}

(* Variant of Failure: the error of the call is swallowed.                   *)
Accepted == "202"
Failure == "500"

StartWithSignal(r, answer) ==
    /\ handler[r] = "start"
    /\ IF open[IdOf(r[1])] THEN OnEvent(r[1]) ELSE FirstEvent(r[1])
    /\ Goes(r, answer)
    /\ UNCHANGED <<unread, published>>

SignalVerdict(r, answer) ==
    LET i == IdOf(r[1]) IN
    /\ handler[r] = "signal"
    /\ open[i]
    /\ verdicts' = [verdicts EXCEPT ![i] = @ \cup {r[1]}]
    /\ Goes(r, answer)
    /\ UNCHANGED <<unread, execution, open, pr, queue, processed, taken, published>>

(* The call raises: no execution to signal, or the server is out of reach.   *)
CallFails(r) ==
    /\ handler[r] \in {"start", "signal"}
    /\ Goes(r, Failure)
    /\ UNCHANGED <<unread, temporal, published>>

-----------------------------------------------------------------------------
(* The executions: an agent is given the queue, a commit is pushed, run()    *)
(* returns.                                                                  *)
Iterate(i) ==
    /\ open[i] /\ queue[i] # {}
    /\ queue' = [queue EXCEPT ![i] = {}]
    /\ UNCHANGED <<handler, unread, execution, open, pr, processed, verdicts, taken,
                   published>>

Publish(i) ==
    /\ open[i]
    /\ verdicts[i] # {}
    /\ published' = published \cup {pr[i]}
    /\ UNCHANGED <<handler, unread, temporal>>

Return(i) ==
    /\ open[i]
    /\ open' = [open EXCEPT ![i] = FALSE]
    /\ UNCHANGED <<handler, unread, execution, pr, queue, processed, verdicts, taken,
                   published>>

-----------------------------------------------------------------------------
Handle(r) ==
    \/ Receive(r) \/ FetchReads(r) \/ FetchFails(r) \/ CallFails(r)
    \/ \E answer \in {Accepted, Failure} : StartWithSignal(r, answer) \/ SignalVerdict(r, answer)

Next ==
    \/ \E r \in Requests : Handle(r)
    \/ \E i \in Ids : Iterate(i) \/ Publish(i) \/ Return(i)

Spec == Init /\ [][Next]_vars

-----------------------------------------------------------------------------
(* The bot's push wakes an execution only if its head commit could not be    *)
(* read, however often and concurrently it is delivered (app.py:180-188).    *)
OwnPushIgnored ==
    \A w \in taken : w.kind = "synchronize" /\ w.bot => w \in unread

(* A webhook answered 202 was taken by an execution, whatever was lost or    *)
(* delivered twice on the way (app.py:191-200).                              *)
AcceptedIsTaken ==
    \A r \in Requests :
        handler[r] = "202" /\ r[1].kind # "command" => r[1] \in taken

(* A verdict that an execution was signalled is an approver's command        *)
(* (app.py:138-168).                                                         *)
VerdictsAreAuthorized ==
    \A i \in Ids : \A v \in verdicts[i] : v.kind = "command" /\ v.author \in APPROVER_LOGINS

(* Only pull requests of repositories in the allowlist are worked on: no     *)
(* other is an execution started with, none of its webhooks reaches one, and *)
(* no commit is pushed to it, whichever pull requests share a workflow id    *)
(* (app.py:148-151, 175-199).                                                *)
OnlyAllowedRepos ==
    /\ \A w \in taken : Listed(w)
    /\ \A i \in Ids :
          /\ \A v \in verdicts[i] : Listed(v)
          /\ open[i] => Allowed(pr[i])
    /\ \A p \in published : Allowed(p)
=============================================================================
