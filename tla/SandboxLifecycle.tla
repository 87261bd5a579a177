-------------------------- MODULE SandboxLifecycle --------------------------
(***************************************************************************)
(* The sandbox containers of one Docker host, step by step: the attempts   *)
(* of provision_sandbox, the broker that knows their tokens, the teardown  *)
(* at the end of an execution, and the collector that cron starts beside   *)
(* them.  A container's name is fixed by its workflow, so there is at most *)
(* one of a workflow; its id, and its token, are the number of the attempt *)
(* that created it.                                                        *)
(***************************************************************************)
EXTENDS Naturals, Sequences

CONSTANTS
    Workflows,      \* workflow ids
    MaxAttempts,    \* bound: provision attempts ever made
    MaxRestarts,    \* bound: restarts of the broker
    Lookup          \* the is_workflow_running given to list_orphan_containers:
                    \* one that "answers", or the one of gc_orphan_sandboxes,
                    \* which "raises"

ASSUME LookupAssumption == Lookup \in {"answers", "raises"}
ASSUME SandboxBoundsAssumption == MaxAttempts \in Nat \ {0} /\ MaxRestarts \in Nat

VARIABLES
    stage,      \* where the latest execution of each workflow is
    attempt,    \* where each provision attempt is
    owner,      \* the workflow each attempt so far was made for
    awaited,    \* the attempt whose answer Temporal would accept; 0 for none
    handle,     \* state.sandbox: the attempt whose container it names, or 0
    known,      \* attempts whose container an execution ever had a handle of
    container,  \* the attempt that created the existing container, or 0
    bindings,   \* CapabilityRegistry._bindings: the tokens it accepts
    restarts,   \* restarts of the broker so far
    collector,  \* where the collector is
    listed,     \* containers it listed and has not looked up
    orphans,    \* containers it is going to reap
    misjudged   \* history: those of open workflows it took for orphans

temporal == <<stage, attempt, owner, awaited, handle, known>>
gc == <<collector, listed, orphans, misjudged>>
vars == <<temporal, container, bindings, restarts, gc>>

-----------------------------------------------------------------------------
Attempts == 1..MaxAttempts
Working == {"register", "create", "created"}
Places == {"unborn", "raised", "done"} \cup Working
Stages == {"closed", "provision", "running", "teardown"}

TypeOK ==
    /\ stage \in [Workflows -> Stages]
    /\ attempt \in [Attempts -> Places]
    /\ owner \in Seq(Workflows) /\ Len(owner) <= MaxAttempts
    /\ awaited \in [Workflows -> 0..MaxAttempts]
    /\ handle \in [Workflows -> 0..MaxAttempts]
    /\ known \subseteq Attempts
    /\ \A w \in Workflows : stage[w] \in {"running", "teardown"} => handle[w] # 0
    /\ container \in [Workflows -> 0..MaxAttempts]
    /\ bindings \subseteq Attempts
    /\ restarts \in 0..MaxRestarts
    /\ collector \in {"idle", "look up", "reap"}
    /\ listed \subseteq Attempts /\ orphans \subseteq Attempts
    /\ misjudged \subseteq Attempts

Init ==
    /\ stage = [w \in Workflows |-> "closed"]
    /\ attempt = [n \in Attempts |-> "unborn"]
    /\ owner = <<>>
    /\ awaited = [w \in Workflows |-> 0]
    /\ handle = [w \in Workflows |-> 0]
    /\ known = {}
    /\ container = [w \in Workflows |-> 0]
    /\ bindings = {} /\ restarts = 0
    /\ collector = "idle" /\ listed = {} /\ orphans = {} /\ misjudged = {}

Existing == {container[w] : w \in Workflows} \ {0}
IsRunning(w) == stage[w] # "closed"

-----------------------------------------------------------------------------
(* The workflow's side.  provision_sandbox is retried without a last attempt.*)
Provision(w) ==
    /\ Len(owner) < MaxAttempts
    /\ stage' = [stage EXCEPT ![w] = "provision"]
    /\ owner' = Append(owner, w)
    /\ awaited' = [awaited EXCEPT ![w] = Len(owner')]
    /\ attempt' = [attempt EXCEPT ![Len(owner')] = "register"]
    /\ UNCHANGED <<known, container, bindings, restarts, gc>>

Start(w) ==
    /\ stage[w] = "closed"
    /\ Provision(w)
    /\ handle' = [handle EXCEPT ![w] = 0]

(* The attempt raised, its worker died, or its two minutes are over, which   *)
(* does not stop the thread it runs in.                                      *)
Retry(w) ==
    /\ stage[w] = "provision"
    /\ Provision(w)
    /\ UNCHANGED handle

(* Variant of Kept: the handle that was returned is dropped.                 *)
Dropped(w) == handle' = handle
Kept(w) == handle' = [handle EXCEPT ![w] = awaited[w]]

Provisioned(w) ==
    /\ stage[w] = "provision"
    /\ attempt[awaited[w]] = "created"
    /\ stage' = [stage EXCEPT ![w] = "running"]
    /\ Kept(w)
    /\ known' = known \cup {awaited[w]}
    /\ attempt' = [attempt EXCEPT ![awaited[w]] = "done"]
    /\ awaited' = [awaited EXCEPT ![w] = 0]
    /\ UNCHANGED <<owner, container, bindings, restarts, gc>>

(* The new run provisions again although its state has a handle.             *)
ContinueAsNew(w) ==
    /\ stage[w] = "running"
    /\ Provision(w)
    /\ UNCHANGED handle

Finish(w) ==
    /\ stage[w] = "running"
    /\ stage' = [stage EXCEPT ![w] = "teardown"]
    /\ UNCHANGED <<attempt, owner, awaited, handle, known, container, bindings,
                   restarts, gc>>

(* Variant of Removed: stopped only, which keeps the name taken.             *)
Stopped(n) == container' = container

(* The container of the handle, found by its id, is stopped and removed; one *)
(* that does not exist is no error.                                          *)
Removed(n) ==
    container' = [w \in Workflows |-> IF container[w] = n THEN 0 ELSE container[w]]

TeardownDone(w) ==
    /\ stage[w] = "teardown"
    /\ Removed(handle[w])
    /\ stage' = [stage EXCEPT ![w] = "closed"]
    /\ handle' = [handle EXCEPT ![w] = 0]
    /\ UNCHANGED <<attempt, owner, awaited, known, bindings, restarts, gc>>

TeardownLost(w) ==
    /\ stage[w] = "teardown"
    /\ container[w] = handle[w]
    /\ Removed(handle[w])
    /\ UNCHANGED <<temporal, bindings, restarts, gc>>

-----------------------------------------------------------------------------
(* One attempt: register a new token, then containers.run.                   *)
Goes(n, place) ==
    /\ attempt' = [attempt EXCEPT ![n] = place]
    /\ UNCHANGED <<stage, owner, awaited, handle, known, restarts, gc>>

(* Variant of Unregistered: without raise_for_status the attempt goes on.    *)
Unchecked == "create"
Unregistered == "raised"

Register(n) ==
    /\ attempt[n] = "register"
    /\ \/ bindings' = bindings \cup {n} /\ Goes(n, "create")
       \/ bindings' = bindings /\ Goes(n, Unregistered)
    /\ UNCHANGED container

Create(n) ==
    /\ attempt[n] = "create"
    /\ IF container[owner[n]] = 0
          THEN container' = [container EXCEPT ![owner[n]] = n] /\ Goes(n, "created")
          ELSE container' = container /\ Goes(n, "raised")
    /\ UNCHANGED bindings

(* The worker is lost, or the answer comes after the attempt's time.         *)
Dies(n) ==
    /\ attempt[n] \in Working
    /\ Goes(n, "raised")
    /\ UNCHANGED <<container, bindings>>

BrokerRestart ==
    /\ restarts < MaxRestarts
    /\ restarts' = restarts + 1
    /\ bindings' = {}
    /\ UNCHANGED <<temporal, container, gc>>

-----------------------------------------------------------------------------
(* The collector lists every sandbox, looks its workflow up, and reaps those *)
(* whose workflow was not running.                                           *)
CollectorGoes(where) ==
    /\ collector' = where
    /\ UNCHANGED <<temporal, bindings, restarts>>

List ==
    /\ collector = "idle"
    /\ Existing # {}
    /\ listed' = Existing
    /\ orphans' = {}
    /\ CollectorGoes("look up")
    /\ UNCHANGED <<container, misjudged>>

(* Variant of Orphan: that Temporal can describe the workflow is enough to   *)
(* spare its sandbox, and it can describe every one that was ever started.   *)
Undescribed(n) == n \notin DOMAIN owner
Orphan(n) == ~IsRunning(owner[n])

(* A lookup that fails says that the workflow is not running.                *)
LookedUp(c) ==
    \/ /\ orphans' = IF Orphan(c) THEN orphans \cup {c} ELSE orphans
       /\ UNCHANGED misjudged
    \/ /\ ~Orphan(c)
       /\ orphans' = orphans \cup {c}
       /\ misjudged' = misjudged \cup {c}

(* asyncio.run refuses to run inside the loop gc_orphan_sandboxes runs in.   *)
LookUp(c) ==
    /\ collector = "look up"
    /\ c \in listed
    /\ IF Lookup = "raises"
          THEN /\ listed' = {} /\ orphans' = {}
               /\ CollectorGoes("idle")
               /\ UNCHANGED misjudged
          ELSE /\ listed' = listed \ {c}
               /\ LookedUp(c)
               /\ CollectorGoes(IF listed' = {} THEN "reap" ELSE "look up")
    /\ UNCHANGED container

(* Variant of ReapedBy: the container is found by its name.                  *)
ReapedByName(c) == container' = [container EXCEPT ![owner[c]] = 0]
ReapedBy(c) == Removed(c)

Reap(c) ==
    /\ collector = "reap"
    /\ c \in orphans
    /\ ReapedBy(c)
    /\ orphans' = orphans \ {c}
    /\ UNCHANGED <<listed, misjudged>>
    /\ CollectorGoes("reap")

(* One that cannot be stopped or removed is left for the next time.          *)
ReapFails(c) ==
    /\ collector = "reap"
    /\ c \in orphans \cap Existing
    /\ orphans' = orphans \ {c}
    /\ UNCHANGED <<container, listed, misjudged>>
    /\ CollectorGoes("reap")

Collected ==
    /\ collector = "reap"
    /\ orphans = {}
    /\ CollectorGoes("idle")
    /\ UNCHANGED <<container, listed, orphans, misjudged>>

-----------------------------------------------------------------------------
Execution(w) ==
    \/ Start(w) \/ Retry(w) \/ Provisioned(w) \/ ContinueAsNew(w) \/ Finish(w)
    \/ TeardownDone(w) \/ TeardownLost(w)

Collector ==
    \/ List \/ Collected
    \/ \E c \in Attempts : LookUp(c) \/ Reap(c)

Next ==
    \/ \E w \in Workflows : Execution(w)
    \/ \E n \in Attempts : Register(n) \/ Create(n) \/ Dies(n)
    \/ BrokerRestart
    \/ Collector
    \/ \E c \in Attempts : ReapFails(c)

Spec == Init /\ [][Next]_vars

(* cron starts the collector again and again, and Docker does not refuse to  *)
(* remove the same container for ever.  Nothing is assumed of workflows.     *)
FairSpec ==
    /\ Spec
    /\ WF_vars(Collector)
    /\ \A c \in Attempts : SF_vars(Reap(c))

-----------------------------------------------------------------------------
(* While an execution runs its agent, the sandbox its handle names exists,   *)
(* unless a lookup of its workflow failed while it was open: no late attempt,*)
(* teardown or collector of an earlier execution takes it away, although they*)
(* act on the same container name, and a collector that is answered takes no *)
(* sandbox in use however stale the answer is when it reaps                  *)
(* (sandbox.py:185-198, cleanup_orphans.py:37-69, 83-84).                    *)
RunningHasItsSandbox ==
    \A w \in Workflows :
        stage[w] = "running" => container[w] = handle[w] \/ handle[w] \in misjudged

(* A sandbox that exists can talk to the broker: its token was registered    *)
(* before it was created, and only a broker restart loses it (100-106, 159). *)
SandboxIsBound == restarts = 0 => Existing \subseteq bindings

(* When an execution is over, no container it ever had a handle of is left,  *)
(* even if a teardown was repeated; only one that a late attempt created can *)
(* be, and no execution knows of it (sandbox.py:185-198).                    *)
KnownSandboxIsGone ==
    \A w \in Workflows : stage[w] = "closed" => container[w] \notin known

(* An orphan is reaped in the end, unless its workflow is started again      *)
(* (cleanup_orphans.py:3-10, 89-90).                                         *)
OrphanReaped ==
    \A w \in Workflows :
        stage[w] = "closed" /\ container[w] # 0
            ~> stage[w] # "closed" \/ container[w] = 0
=============================================================================
