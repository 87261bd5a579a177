# PR autofix on Temporal: verification project

A webhook on a pull request starts, or signals, one durable Temporal workflow
per pull request. The workflow clones the branch, starts a sandbox container,
lets a coding agent edit the clone for at most five iterations, and publishes
the edits only after a person approved that operation. This directory models
that system in TLA+, checks the models with TLC on small instances, and proves
the central theorems with TLAPS. Paths below are relative to the repository.

## 1. Inventory

| Component | State it keeps | Operations | Interacts with |
| --- | --- | --- | --- |
| PR workflow (`src/workflows/pr_autofix.py`, `src/models.py`) | `WorkflowState` (pending events, delivery ids, iteration count, closed, sandbox handle, status comment, operation records), `_approvals`, one coroutine per update | `on_event`, `close`, `submit_approval_decision` (signals), `request_push_changes` (update), `run` | schedules every activity; signalled by the gateway; updated by the broker |
| Lifecycle activities (`src/activities/lifecycle.py`) | the clone on the worker, the status comment, the remote branch | `prepare_workdir`, `cleanup_workdir`, `post_status`, `push_changes` | called by the workflow; share the clone with the agent |
| Sandbox (`src/activities/sandbox.py`) | one container per workflow, named after it | provision, teardown (pause, resume, exec unused by the workflow) | registers a run token with the broker |
| Agent iteration (`src/activities/agent_iteration.py`) | socket buffers, last result message | dispatch, demultiplex, parse the plan, heartbeat | docker exec into the sandbox |
| Capability broker (`src/proxy/credential_proxy.py`) | token registry, in memory | register, model relay, MCP tools | sandbox -> broker -> workflow update |
| Gateway (`src/gateway/app.py`, `src/repo_allowlist.py`) | none | verify, route approvals, project events, self-trigger guard, signal-with-start | GitHub -> gateway -> Temporal |
| Orphan collector (`src/activities/cleanup_orphans.py`, `scripts/gc_orphans.py`) | none | list, look up, reap | Docker host, Temporal |
| Payload storage (`src/payload_storage/s3_codec.py`) | objects in S3 | encode, decode | every payload of the worker |
| File tools of the agent (`src/tools/`, `plugins/tf-guardrails/`, `src/agents/pr_fixer.py`) | the files of the clone | `read_file`, `apply_edit`, the builtin tools behind the path hook | the agent; the trusted push takes what they wrote |
| Secret hook, options, observability, scripts | none | pure decisions and I/O | the agent |

What is hard here: signals and updates run interleaved with `run()` at every
await; `post_status` is given a copy of the state and its return value replaces
the state; activities are retried, may be done although their answer is lost,
and keep running after a timeout; continue-as-new drops everything that is not
in the state; an execution may return while update handlers still wait; the
workflow id, the container name and the operation keys are reused by later
executions of the same pull request.

What makes each component correct:

* workflow: no event handled twice or forgotten, the iteration budget holds,
  nothing is published without a standing approval, "pushed" is never said of
  something that is not on the branch, every request and every execution ends,
  the host is clean afterwards;
* push: a retry adds nothing, "pushed" is not reported of a commit that is not
  there, a clone that diverged publishes nothing;
* sandbox, broker, collector: a running workflow has a usable sandbox, an
  abandoned sandbox disappears, a late step takes no sandbox in use;
* agent stream: the lines are those the agent wrote, however the socket cuts them;
* gateway: only authorised people decide, only allowed repositories are worked on,
  the bot does not wake itself;
* payload storage: the history reads as its senders meant it, whatever failed;
* file tools: what they change is where the trusted push looks for it.

## 2. Modules

| Module | What it is |
| --- | --- |
| `GatedPublication` | abstract: decide, release, publish |
| `KeyedPush` | abstract: what a push may do with the commits of operation keys |
| `PRAutofixWorkflow` | the workflow and the effects of its activities; implements `GatedPublication` and `KeyedPush` |
| `PRAutofixWorkflowProofs` | its theorems |
| `PushChanges` | `_push_changes_at` and `_prepare_workdir_at`, command by command, with overlapping attempts; implements `KeyedPush` |
| `PushChangesProofs` | its theorems |
| `SandboxLifecycle` | provision attempts, the broker's registry, teardown and the collector on one Docker host |
| `SandboxLifecycleProofs` | its theorems |
| `AgentStream` | frames, chunks, lines and the plan of one iteration |
| `AgentStreamProofs` | its theorems |
| `SequenceLemmas` | lemmas on sequences that they rest on: flattening, cutting, marks, prefixes |
| `Gateway` | concurrent webhook handlers and the executions they start and signal |
| `GatewayProofs` | its theorems |
| `PayloadHistory` | abstract: an event history that means what was sent |
| `PayloadStorage` | the S3 codec, with puts that fail and peers without it; implements `PayloadHistory` |
| `PayloadStorageProofs` | its theorems |
| `RepoTools` | the agent's file tools: `safe_join`, the path hook, and the files they reach |
| `RepoToolsProofs` | its theorems |
| `MC*` | the instances TLC checks |

### PRAutofixWorkflow

A Temporal activation runs every coroutine up to its next await without
interruption, so an action is the code between two awaits. `loop` is the await
`run()` stands at (`prepare`, `provision`, `wait`, `agent`, `post`, `teardown`,
`cleanup`, or `stopped` when no execution is open); `handler[u]` is the await the
update handler of call `u` stands at; `task[u]` is the push activity it
scheduled. `state` is `self._state`, `argument` the copy that `post_status` got,
`approvals` is `self._approvals`. What activities do to the world (container,
clone, comments, commits on the branch) is separate from what the workflow hears
of it, so that a lost answer is a state: `NotifyPosts` / `NotifyDone`,
`PushPublishes` / `PushRecorded`, `ProvisionLost`, `AgentLost`, `PostLost`.

Conditions of `wait_condition` that raise `KeyError` fail the workflow task,
which Temporal retries: `TaskFailing` stops all activations but the timers of
the handlers concerned. `DecisionResume` has the pop and what follows it;
`SecondPopRaises` is the case of two handlers on one key waking together.

The workflow id is fixed, so a key is an iteration number (`push_operation_key`
hashes the two), and an operation is an execution and a key: several executions
draw the same keys. Events are sets, since nothing depends on their order.
Timers carry no clock; a timeout may fire whenever its condition is false, which
covers every real schedule. `leftover` is an agent that outlived its activity
attempt. A tool call is made by an agent in its sandbox (`CallTool`), is under way
through the broker, and then reaches whatever execution is open
(`request_push_changes`) or none (`CallFails`): by that time its agent, sandbox or
execution may be gone. `unpushed` are the operations with a commit in the clone
only: a later push of any operation takes them along, and preparing or removing the
clone drops them.

Left out: `processed_comment_ids` and `last_check_run_id` (written, never read),
the text of comments, and the plan's content except that a failed iteration
closes the workflow.

### PushChanges

Each attempt of `push_changes` is a process of its own, since a synchronous
activity is not interrupted by its timeout. All attempts of all operations share
`head`, `staged`, `worktree` and `fetched` (FETCH_HEAD) of one clone, and the
`remote` branch. A history is a sequence of commits, a commit has the key in its
trailer and a content; `Dies` lets a worker vanish before or after any command;
`Push` may succeed and be reported as a failure. Agents edit at any time: the one
that asked is timed out after ten minutes, while its request may wait a day for the
approval, and the next iteration works in the same clone. `PrepareFetch`,
`PrepareReset` and `PrepareCheckout` are `prepare_workdir` in a clone that exists;
it runs beside a push when the execution continued as new, or when an attempt of it
is late. `Lookup` may miss a commit that is there: `git log` runs with `check=False`, so
one that fails counts as "not found", and none looks beyond the 50 commits fetched
(`lifecycle.py:207-225`). The clone's removal under a push is not modelled (the
commands then fail, which is `Dies`).

`PRAutofixWorkflow` has an attempt in one step (`PushFinds`, `PushPublishes`,
`PushFails`). Both modules implement `KeyedPush`, through the same kind of mapping
(scheduled, published and told keys): that is the contract on which the one step
rests, and it has one gap. If `prepare_workdir` moves HEAD between an attempt's
commit and its push, `git push` has nothing to send, succeeds, and the attempt
reports `pushed=True`; such operations are in `dropped`, and the refinement does not
count what is told of them. So `PushedIsOnBranch` of the workflow holds as far as no
prepare runs inside a push attempt.

### SandboxLifecycle

`PRAutofixWorkflow` has one container name; this module has several workflows,
every provision attempt as a process of its own (`Register`, `Create`, or it
`Dies`), and the collector that runs beside them. An attempt's number is also
its token and the id of its container, because each attempt draws a new one;
`container[w]` is the container that has the name of `w`. A synchronous activity
cannot be interrupted, so an attempt that ran out of time may still create its
container (`Retry` leaves it alone). `known` is history: the attempts whose
container some execution had a handle of. Teardown and the collector find a
container by id, provision meets it by name: that is what makes
`RunningHasItsSandbox` hold although the name is reused.
`Lookup` is the injected lookup: one that `"answers"`, or the one
`gc_orphan_sandboxes` passes, which `"raises"`. One that answers may also fail, and
then says "not running" (`LookedUp`, `cleanup_orphans.py:80-84`): the collector then
takes the sandbox of a running workflow for an orphan and reaps it. `misjudged` is
history: the containers this happened to while their workflow was open, and
`RunningHasItsSandbox` exempts exactly these, so a stale answer, a late attempt and a
repeated teardown are what it rules out. That the Temporal server cannot be connected
to (line 79, outside the `try`) is not in the run that answers: it ends the collection,
as the lookup that raises does. That workflow ids turn into
names without loss is assumed (ids of the gateway consist of legal characters);
the 24-hour expiry of a binding is left out.

### AgentStream

A line is at most two bytes, a frame's header is two bytes instead of eight; a
frame may hold any piece of the output and a chunk any piece of the wire, so all
the cuts of the real sizes have a counterpart. Standard error carries a line that
would be a plan if the streams were mixed up. `Break` closes the connection at
any byte, which the reader sees as the end of the output. `SendPrompt` sends the prompt
and closes that direction; the agent prints only afterwards. `Fails` is a `sendall`,
`shutdown` or `recv` that raises, or a cancellation in one of them: the iteration then
ends in `raised`, what is in `stdout_buf` is lost, and no plan is returned.
`PlanIsTheAgents` is therefore about a plan that is returned. Each line is yielded and consumed in one step, as an async generator
does. One attempt of the activity is modelled; its time-out is `AgentLost` in
`PRAutofixWorkflow`.

### Gateway

`handler[r]` is the await a request's handler stands at, or its answer. A
pull request is an owner, a name and a number, the first two as the words between their
hyphens, and `WorkflowId` joins them as `app.py:157-158, 190` do: `acme/web-app` and
`acme-web/app` make the same ids, and events and verdicts of one go to the execution
of the other. A webhook
is what `_project_event` and the routing look at: its kind, pull request, author
and whether the head commit carries the bot's trailer. Temporal is modelled by
what the gateway uses of it: signal-with-start and signal, each of which may take
effect and still raise. Executions only take their queue, publish and return
here; the rest is `PRAutofixWorkflow`. Bad signatures are left out. The guard
concerns `synchronize` only: a completed check suite on the bot's commit does
wake the workflow, in the model as in the code.

### PayloadStorage

A payload stands for its bytes and its metadata, which a reference carries along
(`s3_codec.py:68-79`). A call encodes its list payload by payload (`KeepInline`,
`Put`, `PutFails`) and is sent when all of it is encoded; a failed put starts the
list over, and what it stored stays. `Readable` is the data converter of a peer
without the codec (gateway and broker: `gateway/app.py` and
`credential_proxy.py:57` connect without one), which raises on an encoding it does not know.
Keys are UUIDs, so `NewKeys` never repeats one; a read says what is heard and
changes nothing else. A `get_object` that fails raises, nothing is heard and no state
changes, so it is no step here; `unread` is what a peer could not read because it lacks
the codec.

### RepoTools

A path is absolute or starts at the working directory, and is a sequence of
segments; `Longer` says which names only begin like another, which is what
`startswith` and a regular expression can confuse. `Resolved` is `normpath` and
`Path.resolve` without symbolic links. `read_file` and `apply_edit` go through
`safe_join` (`Inside`), the builtin tools through the hook (`CheckPath`). The
reference, `Named`, does not evaluate a path step by step: it keeps the names no
later ".." climbs over. `run_pytest` runs the code of the pull request, which can write
where the sandbox lets it: it is not modelled, and `ChangesStayInClone` is about the
tools that edit files. `InitialFiles` has a neighbour of the clone whose name begins
with the clone's.

## 3. Runs

| Run | Bounds | Shows |
| --- | --- | --- |
| `workflow_safety` | 2 deliveries, 2 requests, 2 iterations, 2 executions, 1 continue-as-new | type, at-most-once hand-over, budget, "pushed" is on the branch, no orphaned approval, clean host, refinement of the gate and of `KeyedPush` |
| `workflow_progress` | the same with 1 execution and no continue-as-new, after which no provision can succeed | executions settle, requests end, queued events are handled |
| `record_lost` | 1 of each | **violated**: a recorded "pushed" is overwritten |
| `own_commit` | 2 executions of 1 iteration | **violated**: approved and "pushed", but the commit is the earlier execution's |
| `push_changes` | 2 operations (one of 2 attempts, one of 1), 2 edits, 1 foreign commit, 1 prepare | a retry adds nothing, with lookups that fail; refinement of `KeyedPush`, divergence final, operations end |
| `sandbox_lifecycle` | 2 workflows, 3 attempts, 1 broker restart, lookups that are answered or fail | a running execution has its sandbox unless a lookup of it failed, its token is bound, nothing known is left, orphans are reaped |
| `orphan_stays` | 1 workflow, 2 attempts, the lookup as wired | **violated**: the orphan is never reaped |
| `agent_stream` | outputs of 2 lines of 4 kinds, 1 frame of standard error, any byte lost, any socket call raising | the lines and a plan returned are the agent's, the end is noticed |
| `gateway` | 3 pull requests of 3 repositories, of which 2 are allowed and share a workflow id, 6 webhooks, 1 redelivered, 2 executions | own pushes ignored, accepted means taken, verdicts are approvers', only allowed repositories are worked on |
| `payload_storage` | 2 workers and the broker, lists of 1 or 2 payloads at and over the threshold, 3 keys, 2 entries | the history reads as meant, and only large payloads of workers are unreadable without the codec |
| `repo_tools` | 51 paths (17 tails from 3 starts), 2 edits | the hook judges the place a path names, nothing outside the clone is changed |
| `repo_unreachable` | the same | **violated**: reading the existing file `/work/a` with a builtin tool is denied |

Two of everything is where the races are: two requests in one iteration (same
key) or in two; an event before and one after the copy is taken; a second
execution that finds the first one's keys; an attempt and its retry. A third
would repeat a pair. Bounds on executions, continue-as-new, status comments,
edits, foreign commits, prepares, attempts, keys and redeliveries only keep the state
space finite. The trusted push has three attempts among two operations, which gives
every overlap of two attempts, of one operation or of two, with one more to come.
`CHECK_DEADLOCK FALSE`: executions end, the bounds run out, and a workflow whose
task fails for ever really stops.

### Fairness

`FairSpec` of the workflow: the run loop, each handler's steps and the push
attempts are weakly fair. Temporal redelivers workflow tasks and retries
activities until they are done (or, for the push, three times), and its timers
fire. Nothing is assumed of GitHub's webhooks, people, agents, or faults, and an
effect that loses its answer is not assumed to stop. This takes for granted that
GitHub accepts the status comment in the end. `FairSpec` of the push: only the
server (retry, give up, report) is fair; an attempt may hang. `FairSpec` of the sandboxes:
cron starts the collector again and again (`scripts/gc_orphans.py:4-6`), and
Docker does not refuse the same removal for ever (strong fairness of `Reap`,
since `ReapFails` competes with it); nothing is assumed of workflows. `FairSpec` of
the stream: the activity's own steps; nothing is assumed of the agent or Docker.

### What the runs say that the code's authors may not expect

* `Settles` has two exceptions that are reached: `ContainerNameTaken` (a
  provision whose answer was lost, or any continue-as-new, meets its own
  container for ever) and `Raised` (two handlers on one approval id).
* `RecordedResultPersists` fails: `docs/pattern-c-platform.md:70-72` promises the
  result is persisted, `pr_autofix.py:195` may overwrite it.
* `ApprovedIsPushed` fails: keys repeat in every execution of a pull request, so
  its second session reports the first one's commit (`README.md:75-76`).
* `OrphanReaped` fails with the lookup as wired: `asyncio.run` inside a running
  loop raises (`src/activities/cleanup_orphans.py:96`). With a lookup that answers
  it holds, and then a collector that is slow does no harm either; but a lookup that
  fails lets a sandbox in use be reaped (`cleanup_orphans.py:83-84`).
* The ids of pull requests of `acme/web-app` and `acme-web/app` coincide, and with them
  their executions (`app.py:158, 190`). So an approval is only known to be an
  approver's, not to be about the pull request of the execution it is signalled to.
* Lookup and push are not one step: an attempt that timed out and its retry may both
  commit. `RetriesAddNothing` says what is left of "one commit per operation"
  (`docs/pattern-c-platform.md:33-35`): a second one only has edits made after the first.
* An operation reported "failed" may be published all the same, by a lost answer of
  `git push` or by the next operation's push, which takes its commit along.
* An operation may be reported "pushed" with no commit on the branch, if the clone is
  prepared again between its commit and its push (`dropped`; `lifecycle.py:90, 242-248`).
* A retried `post_status` may post a second status comment, and a retried provision
  meets the name of its own container (`Settles` has the exception for it).
* `BuiltinsReachTheClone` fails: a `Read` of a file that is in the clone, outside the
  protected subtrees, is denied, for the hook's pattern is the worker's path of the clone
  (`restrict_paths.py:46`) and in the sandbox it is `/work` (`sandbox.py:44, 132`). With
  `/work` in the pattern the property holds.
* `DivergedIsFinal`: after "remote_advanced" no operation of that clone can be
  published any more.

## 4. Proofs

`PRAutofixWorkflowProofs` proves, for every set of deliveries and requests and
every value of the bounds (assumptions: `IterationsAssumption`,
`BoundsAssumption`), with `IInv` as the inductive invariant:

* `TypeInv`: types, plus the facts they need: while `post_status` runs, its copy
  agrees with the state on everything signals and updates do not write
  (`CopyAgrees`), the count equals the iterations dispatched, and the loop waits
  only below the budget;
* `OwnerInv`: a handler belongs to the execution that is open while it awaits, and
  has a push task exactly if it got to the push;
* `QueueInv`: in the state and in the copy, pending events are processed ids and
  disjoint from those handed over (this is why the overwrite is harmless here:
  the copy was taken after the queue was cleared);
* `HostInv`: a container exists only if the state and the copy have the handle, or
  the loop is still provisioning;
* `ResultInv`: every "pushed" in the state, the copy, an answer or a task has a
  commit on the branch;
* `GateInv`: a registered "allow" is the last verdict, and what is on the branch
  was scheduled;
* `NoOrphanApproval`, which the runs check and which is inductive given the types: a
  decision is only entered while its entry is open, and every way out of the wait
  removes the entry.

Theorems: `TypeCorrect`, `BudgetIsKept`, `HandedOnce`, `PushedHasCommit`,
`HostIsClean`, `DecisionIsAwaited` (`NoOrphanApproval`), `Refinement` (`Spec => PublicationIsGated`) and `KeyedRefinement`
(`Spec => PublicationIsKeyed`): every step is a step of the gate, or of `KeyedPush`,
or a stutter. For the second, a push takes along only what was scheduled (`GateInv`
covers `unpushed` too), and a task's key does not change while it runs (`OwnerInv`).

`SandboxLifecycleProofs` proves, for every set of workflows, any number of
attempts and broker restarts and either kind of lookup (assumptions:
`LookupAssumption`, `SandboxBoundsAssumption`), the theorems `TypeCorrect`,
`RunningHasSandbox`, `SandboxesAreBound` and `KnownSandboxesGo`. None of the three
properties is inductive; the invariant that is says, beside the types:

* `OwnerInv`: an attempt is used only after it was made, and what is awaited, held
  or exists for a workflow was made for that workflow; the handle is never the
  attempt still awaited;
* `ContainerInv`: unless it was misjudged, an awaited attempt that has created its
  container still has it, and a running execution's container is that of its handle; a
  container that was ever known is a current handle's;
* `OrphanInv`: what the collector is about to reap is misjudged, or neither awaited nor
  a handle. In the second case it was looked up while its workflow was closed, and
  whatever came later has a later number: that is why removal by id is safe and removal by name is not;
* `BindInv`: until the broker restarts, an attempt about to create, and every
  container, is bound.

`PushChangesProofs` proves, for every set of operations and any number of attempts,
edits, foreign commits and prepares (assumptions: `AttemptsAssumption`,
`PushBoundsAssumption`, and `KeysAssumption`: the trailer of somebody else's commit is
no operation's key, since keys are SHA-256 digests, `idempotency.py:11-18`), the
theorems `TypeCorrect`, `NothingIsAddedTwice` (`RetriesAddNothing`), `DivergenceStays`
(`DivergedIsFinal`) and `PushIsKeyed` (`Spec => PublicationIsKeyed`, the contract
`KeyedRefinement` proves for the workflow).
`RetriesAddNothing` looks at the branch alone, but a commit gets there through the
clone, which attempts and prepares share; the invariant therefore says of all of them:

* `ContentInv`: contents never decrease along a history, and a keyed commit is newer
  than all before it; an edit is in the working tree before it is in the index, and
  there before it is on the branch;
* `KeyInv`: commits have keys of scheduled operations, and what was fetched is a
  prefix of the branch;
* `AttemptInv`, `ResultInv`: the commit an attempt relies on is in the clone, or on the
  branch once it has pushed, unless a prepare dropped it; and so is that of a result.

`GatewayProofs` proves, for every set of pull requests, webhooks, allowed repositories
and approvers and any number of redeliveries and executions (assumptions:
`WebhooksAssumption`, `GatewayBoundsAssumption`; nothing is assumed of the workflow ids,
which pull requests may share), the theorems `TypeCorrect`, `OwnPushStops`
(`OwnPushIgnored`), `AcceptedEventsArrive` (`AcceptedIsTaken`), `OnlyApproversDecide`
(`VerdictsAreAuthorized`) and `OnlyAllowedAreWorkedOn` (`OnlyAllowedRepos`).
`HandlerInv` says what a handler has made sure of at each await, for
whatever happens meanwhile cannot undo it; `ExecutionInv` what is under a workflow id,
and `WorkedOnInv` that no webhook and no commit got past the allowlist.

`PayloadStorageProofs` proves, for every set of peers with and without the codec, any
sizes, threshold, lists and length of history (assumptions: `PeersAssumption`,
`ListsAssumption`, `SizesAssumption`, `HistoryBoundAssumption`), the theorems
`TypeCorrect`, `SmallIsRead` (`OnlyLargeIsUnread`) and `HistoryKeepsMeaning`
(`HistoryIsAsMeant`: the codec implements `PayloadHistory`). `SendingInv` and
`HistoryInv` say that what was encoded so far is that of a list of the sender's, in the
objects of now: the bucket grows, and no step changes what a key in use stands for.

`AgentStreamProofs` proves, for any number of lines and of frames, however cut
(assumptions: `StreamBoundsAssumption`, `KindsAssumption`), the theorems `TypeCorrect`,
`LinesArrive` (`LinesAreTheAgents`) and `PlanArrives` (`PlanIsTheAgents`). Neither
property is inductive, since nothing in them speaks of the bytes in between:

* `StreamInv`: what is in `raw` and on the wire is a sequence of frames, of which a
  break lost the end; and what is in `stdout_buf`, then the text of those frames, then
  something more, is what the agent prints after the lines yielded so far. Without a
  break nothing is lost and what is more is what was not sent yet;
* `LinesInv`, `PlanInv`: while the reader works, the lines yielded are whole lines and
  the plan is that of their last result; and the two properties.

The proof finds the frame at the head of `raw` by its length field (`WholeFrame`), and
the line before the first newline of the text by the fact that lines hold none
(`NextLine`); at the end, a rest of the buffer is the beginning of the next line
(`LastLine`), which is either the whole of it or no JSON (`KindOfPart`).

`RepoToolsProofs` proves, for every working directory, set of paths of any length and
number of edits (assumptions: `FilesAssumption`, `EditsAssumption`, `PathsAssumption`,
and `ImageAssumption`: the image puts no file where the hook lets a path go unless it is
the clone's, `sandbox/Dockerfile:9-44`), the theorems `TypeCorrect`, `HookJudges`
(`HookSeesThroughSpelling`) and `ChangesStay` (`ChangesStayInClone`). `PlaceInv`, that a
file the hook lets a path reach is in the clone, carries the last. The second needs that
`Normal`, a fold over the segments, and `Named`, a count over the whole path, agree on
every path (`NormalIsNamed`):

* `NormalAppend`: one more segment is one more step of the fold. `FoldLeft` chooses a
  function on sets of positions; `FoldExists` and `FoldsAgree` show that there is one
  and that it does not depend on what comes later;
* `Balanced`: after a name that counts, the descents are the climbs and the later names
  that count. So one more ".." takes away exactly the last of them (`DotDotPlaces`),
  and `Named` does what `Step` does (`NamedDot`, `NamedName`, `NamedDotDot`).

The conjuncts of every invariant were checked by TLC on the run of the module before they
were proved; `StreamInv`, whose quantifiers are unbounded, in a form that parses the
frames. `LeastNumber` (every set of numbers has a least one, from the library's
`NatLessThanWellFounded`) replaces induction on lengths, so what `FlattenSeq` does to
every sequence is proved in `SequenceLemmas`, and what `FoldLeft` does in
`RepoToolsProofs`.

Only model-checked: the liveness properties (`Settles`, `RequestEnds`, and the others
of section 3), since liveness under fairness is out of the prover's reach.

## 5. Plan

1. done: `PRAutofixWorkflow`, `GatedPublication`, `KeyedPush` and their proofs;
   `PushChanges`; `SandboxLifecycle` and its proofs; `AgentStream`; `Gateway`;
   `PayloadStorage`; `RepoTools`.
2. done: the safety properties, action properties and refinements of all modules,
   proved.
3. Next, the properties no run states yet of what is only partly modelled: the
   approval's summary against what is committed, and what a shared workflow id mixes up.

## 6. Not modelled

* Options, observability, scripts, deployment, the secret hook, the CVE query and the
  snapshots: single calls without state, or used by no workflow (reasons in `PROJECT.json`).
* The 24-hour expiry of a run token: a request after it is answered 401, as one after a
  broker restart is.
* The fallback of the first clone for forks; symbolic links in the clone; the
  subprocesses of the local tools; the check run of `post_status`, which nothing reads.
* The contents of an approval: the code publishes whatever the clone holds by then, and
  no document relates a summary to a tree.
