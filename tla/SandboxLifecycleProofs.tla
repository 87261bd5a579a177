----------------------- MODULE SandboxLifecycleProofs -----------------------
(* Proofs about the sandboxes, for every set of workflows, every bound and   *)
(* either kind of lookup.                                                    *)
EXTENDS SandboxLifecycle, TLAPS

Made == 1..Len(owner)

(* Attempts, handles and containers belong to the workflow they were made    *)
(* for; a handle is never that of the attempt still awaited.                 *)
OwnerInv ==
    /\ \A n \in Attempts : attempt[n] # "unborn" => n \in Made
    /\ \A n \in known : n \in Made /\ attempt[n] = "done"
    /\ \A w \in Workflows :
          /\ awaited[w] # 0 => awaited[w] \in Made /\ owner[awaited[w]] = w
          /\ stage[w] = "provision" <=> awaited[w] # 0
          /\ handle[w] # 0 => /\ handle[w] \in Made /\ owner[handle[w]] = w
                              /\ stage[w] # "closed" /\ handle[w] # awaited[w]
          /\ container[w] # 0 => container[w] \in Made /\ owner[container[w]] = w

(* The attempt that is awaited, when it has its container, and the execution *)
(* that runs still have it, unless it was misjudged; what was ever known is  *)
(* still known.                                                              *)
ContainerInv ==
    \A w \in Workflows :
        /\ awaited[w] # 0 /\ attempt[awaited[w]] = "created"
              => /\ container[w] = awaited[w] \/ awaited[w] \in misjudged
                 /\ container[w] \notin known
        /\ stage[w] = "running" => container[w] = handle[w] \/ handle[w] \in misjudged
        /\ container[w] \in known => container[w] = handle[w]

(* The workflow of an orphan was closed when it was looked up, and what came *)
(* later has a later number; or the lookup failed, and it was misjudged.     *)
OrphanInv ==
    /\ listed \subseteq Made
    /\ \A c \in orphans :
          /\ c \in Made
          /\ c \in misjudged \/ (c # awaited[owner[c]] /\ c # handle[owner[c]])

BindInv ==
    restarts = 0 =>
        /\ \A n \in Attempts : attempt[n] = "create" => n \in bindings
        /\ Existing \subseteq bindings

IInv == TypeOK /\ OwnerInv /\ ContainerInv /\ OrphanInv /\ BindInv

-----------------------------------------------------------------------------
(* TypeOK without the sequence: what is known of the owners, and the rest.   *)
Fields ==
    /\ stage \in [Workflows -> Stages]
    /\ attempt \in [Attempts -> Places]
    /\ awaited \in [Workflows -> 0..MaxAttempts]
    /\ handle \in [Workflows -> 0..MaxAttempts]
    /\ known \subseteq Attempts
    /\ \A w \in Workflows : stage[w] \in {"running", "teardown"} => handle[w] # 0
    /\ container \in [Workflows -> 0..MaxAttempts]
    /\ bindings \subseteq Attempts
    /\ restarts \in 0..MaxRestarts
    /\ collector \in {"idle", "look up", "reap"}
    /\ listed \subseteq Attempts /\ orphans \subseteq Attempts
    /\ misjudged \subseteq Attempts

Owners == owner \in Seq(Workflows) /\ Len(owner) <= MaxAttempts

LEMMA TypeParts == TypeOK <=> Fields /\ Owners
BY DEF TypeOK, Fields, Owners

(* Attempts that were made are attempts, and not the 0 that stands for none. *)
LEMMA MadeFacts ==
    ASSUME Owners
    PROVE  /\ Made \subseteq Attempts /\ 0 \notin Made
           /\ \A n \in Made : owner[n] \in Workflows
BY SandboxBoundsAssumption DEF Owners, Made, Attempts

(* A new attempt has the next number; the others keep theirs.                *)
LEMMA Provisions ==
    ASSUME Owners, NEW w \in Workflows, Provision(w)
    PROVE  LET k == Len(owner) + 1
           IN  /\ k \in Attempts /\ k \notin Made /\ Made' = Made \cup {k}
               /\ Owners'
               /\ owner'[k] = w
               /\ \A n \in Made : owner'[n] = owner[n]
               /\ stage' = [stage EXCEPT ![w] = "provision"]
               /\ awaited' = [awaited EXCEPT ![w] = k]
               /\ attempt' = [attempt EXCEPT ![k] = "register"]
<1> DEFINE k == Len(owner) + 1
<1>1. Len(owner) \in Nat /\ Len(owner) < MaxAttempts /\ owner \in Seq(Workflows)
  BY DEF Owners, Provision
<1>2. owner' = Append(owner, w) /\ Len(owner') = k /\ owner' \in Seq(Workflows)
  BY <1>1 DEF Provision
<1>3. owner'[k] = w /\ \A n \in Made : owner'[n] = owner[n]
  BY <1>1, <1>2 DEF Made
<1>4. k \in Attempts /\ k \notin Made /\ Made' = Made \cup {k}
  BY <1>1, <1>2, SandboxBoundsAssumption DEF Made, Attempts
<1>5. Owners'
  BY <1>1, <1>2, SandboxBoundsAssumption DEF Owners
<1> QED
  BY <1>2, <1>3, <1>4, <1>5 DEF Provision

(* Steps that make no attempt leave the numbers alone.                       *)
LEMMA OwnersStay ==
    ASSUME UNCHANGED owner PROVE Made' = Made /\ (Owners => Owners')
BY DEF Made, Owners

-----------------------------------------------------------------------------
(* An empty host and no execution.                                           *)
LEMMA InitInv == Init => IInv
<1> SUFFICES ASSUME Init PROVE IInv
  OBVIOUS
<1>1. owner = <<>> /\ owner \in Seq(Workflows) /\ Len(owner) = 0
  BY DEF Init
<1>2. Owners
  BY <1>1, SandboxBoundsAssumption DEF Owners
<1>3. Fields
  BY SandboxBoundsAssumption DEF Init, Fields, Stages, Places
<1>4. OwnerInv /\ ContainerInv /\ OrphanInv /\ BindInv
  BY DEF Init, OwnerInv, ContainerInv, OrphanInv, BindInv, Existing
<1> QED
  BY <1>2, <1>3, <1>4, TypeParts DEF IInv

(* Owners.                                                                   *)
LEMMA NextOwners == ASSUME Owners, [Next]_vars PROVE Owners'
<1>1. ASSUME NEW w \in Workflows, Start(w) \/ Retry(w) \/ ContinueAsNew(w) PROVE Owners'
  BY <1>1, Provisions DEF Start, Retry, ContinueAsNew
<1>2. CASE UNCHANGED owner
  BY <1>2, OwnersStay
<1>3. (\E w \in Workflows : Start(w) \/ Retry(w) \/ ContinueAsNew(w)) \/ UNCHANGED owner
  BY DEF Next, Execution, Collector, Provisioned, Finish, TeardownDone, TeardownLost,
         Register, Create, Dies, Goes, BrokerRestart, List, Collected, LookUp, Reap,
         ReapFails, CollectorGoes, temporal, vars
<1> QED
  BY <1>1, <1>2, <1>3

(* Types.                                                                    *)
LEMMA NextType ==
    ASSUME Fields, Owners, OwnerInv, [Next]_vars PROVE Fields'
<1>p. /\ \A s \in {"register", "create", "created", "raised", "done"} : s \in Places
      /\ \A s \in {"closed", "provision", "running", "teardown"} : s \in Stages
  BY DEF Places, Stages, Working
<1>q. Attempts \subseteq 0..MaxAttempts /\ 0 \in 0..MaxAttempts /\ 0 \notin Attempts
  BY SandboxBoundsAssumption DEF Attempts
<1>a. \A w \in Workflows : awaited[w] # 0 => awaited[w] \in Attempts
  BY MadeFacts DEF OwnerInv
<1>1. ASSUME NEW w \in Workflows, Start(w) \/ Retry(w) \/ ContinueAsNew(w) PROVE Fields'
  <2> DEFINE k == Len(owner) + 1
  <2>1. Provision(w)
    BY <1>1 DEF Start, Retry, ContinueAsNew
  <2>2. k \in Attempts /\ stage' = [stage EXCEPT ![w] = "provision"]
          /\ awaited' = [awaited EXCEPT ![w] = k]
          /\ attempt' = [attempt EXCEPT ![k] = "register"]
    BY <2>1, Provisions
  <2>3. UNCHANGED <<known, container, bindings, restarts, collector, listed, orphans,
                   misjudged>>
    BY <2>1 DEF Provision, gc
  <2>4. handle' \in [Workflows -> 0..MaxAttempts]
    BY <1>1, <1>q DEF Start, Retry, ContinueAsNew, Fields
  <2>5. \A v \in Workflows : v # w => handle'[v] = handle[v]
    BY <1>1 DEF Start, Retry, ContinueAsNew, Fields
  <2> HIDE DEF k
  <2>6. /\ stage' \in [Workflows -> Stages] /\ awaited' \in [Workflows -> 0..MaxAttempts]
        /\ attempt' \in [Attempts -> Places]
    BY <2>2, <1>p, <1>q DEF Fields
  <2>7. \A v \in Workflows : stage'[v] \in {"running", "teardown"} => handle'[v] # 0
    BY <2>2, <2>5 DEF Fields
  <2> QED
    BY <2>3, <2>4, <2>6, <2>7 DEF Fields
<1>2. ASSUME NEW w \in Workflows, Finish(w) PROVE Fields'
  BY <1>2, <1>p DEF Finish, Fields, gc
<1>3. ASSUME NEW w \in Workflows, Provisioned(w) PROVE Fields'
  <2>1. awaited[w] # 0 /\ awaited[w] \in Attempts
    BY <1>3, <1>a DEF Provisioned, OwnerInv
  <2>2. known' \subseteq Attempts /\ handle' \in [Workflows -> 0..MaxAttempts]
          /\ awaited' \in [Workflows -> 0..MaxAttempts]
    BY <1>3, <2>1, <1>q DEF Provisioned, Kept, Fields
  <2>3. stage' \in [Workflows -> Stages] /\ attempt' \in [Attempts -> Places]
    BY <1>3, <2>1, <1>p DEF Provisioned, Fields
  <2>4. \A v \in Workflows : stage'[v] \in {"running", "teardown"} => handle'[v] # 0
    BY <1>3, <2>1 DEF Provisioned, Kept, Fields
  <2> QED
    BY <1>3, <2>2, <2>3, <2>4 DEF Provisioned, Fields, gc
<1>4. ASSUME NEW w \in Workflows, TeardownDone(w) PROVE Fields'
  <2>1. container' \in [Workflows -> 0..MaxAttempts] /\ handle' \in [Workflows -> 0..MaxAttempts]
    BY <1>4, <1>q DEF TeardownDone, Removed, Fields
  <2>2. stage' \in [Workflows -> Stages]
          /\ \A v \in Workflows : stage'[v] \in {"running", "teardown"} => handle'[v] # 0
    BY <1>4, <1>p DEF TeardownDone, Fields
  <2> QED
    BY <1>4, <2>1, <2>2 DEF TeardownDone, Fields, gc
<1>r. ASSUME NEW c \in 0..MaxAttempts, Removed(c) PROVE container' \in [Workflows -> 0..MaxAttempts]
  BY <1>r, <1>q DEF Removed, Fields
<1>5. ASSUME NEW w \in Workflows, TeardownLost(w) PROVE Fields'
  <2>1. container' \in [Workflows -> 0..MaxAttempts]
    BY <1>5, <1>r DEF TeardownLost, Fields
  <2> QED
    BY <1>5, <2>1 DEF TeardownLost, Fields, temporal, gc
<1>g. ASSUME NEW n \in Attempts, NEW place \in Places, Goes(n, place),
             container' \in [Workflows -> 0..MaxAttempts], bindings' \subseteq Attempts
      PROVE  Fields'
  BY <1>g DEF Goes, Fields, gc
<1>6. ASSUME NEW n \in Attempts, Register(n) PROVE Fields'
  BY <1>6, <1>p, <1>g DEF Register, Unregistered, Fields
<1>7. ASSUME NEW n \in Attempts, Create(n) PROVE Fields'
  <2>1. container' \in [Workflows -> 0..MaxAttempts] /\ bindings' \subseteq Attempts
    BY <1>7, <1>q DEF Create, Fields
  <2> QED
    BY <1>7, <1>p, <1>g, <2>1 DEF Create
<1>8. ASSUME NEW n \in Attempts, Dies(n) PROVE Fields'
  BY <1>8, <1>p, <1>g DEF Dies, Fields
<1>9. ASSUME BrokerRestart PROVE Fields'
  <2>0. restarts \in 0..MaxRestarts /\ restarts < MaxRestarts /\ restarts' = restarts + 1
    BY <1>9 DEF BrokerRestart, Fields
  <2>1. restarts' \in 0..MaxRestarts
    BY <2>0, SandboxBoundsAssumption
  <2> QED
    BY <1>9, <2>1 DEF BrokerRestart, Fields, temporal, gc
<1>c. ASSUME NEW where \in {"idle", "look up", "reap"}, CollectorGoes(where),
             container' \in [Workflows -> 0..MaxAttempts],
             listed' \subseteq Attempts, orphans' \subseteq Attempts,
             misjudged' \subseteq Attempts
      PROVE  Fields'
  BY <1>c DEF CollectorGoes, Fields, temporal
<1>10. ASSUME List PROVE Fields'
  <2>1. Existing \subseteq Attempts
    BY MadeFacts DEF Existing, OwnerInv
  <2> QED
    BY <1>10, <1>c, <2>1 DEF List, Fields
<1>11. ASSUME NEW c \in Attempts, LookUp(c) PROVE Fields'
  <2>1. container' \in [Workflows -> 0..MaxAttempts]
          /\ listed' \subseteq Attempts /\ orphans' \subseteq Attempts
          /\ misjudged' \subseteq Attempts
    <3>1. /\ container' = container
          /\ listed' \subseteq listed
          /\ orphans' \subseteq orphans \cup {c}
          /\ misjudged' \subseteq misjudged \cup {c}
      BY <1>11 DEF LookUp, LookedUp
    <3> QED
      BY <3>1 DEF Fields
  <2>2. \E where \in {"idle", "look up", "reap"} : CollectorGoes(where)
    BY <1>11 DEF LookUp
  <2> QED
    BY <1>c, <2>1, <2>2
<1>12. ASSUME NEW c \in Attempts, Reap(c) PROVE Fields'
  BY <1>12, <1>c, <1>r, <1>q DEF Reap, ReapedBy, Fields
<1>13. ASSUME NEW c \in Attempts, ReapFails(c) PROVE Fields'
  BY <1>13, <1>c DEF ReapFails, Fields
<1>14. ASSUME Collected PROVE Fields'
  BY <1>14, <1>c DEF Collected, Fields
<1>15. CASE UNCHANGED vars
  BY <1>15 DEF vars, temporal, gc, Fields
<1> QED
  BY <1>1, <1>2, <1>3, <1>4, <1>5, <1>6, <1>7, <1>8, <1>9, <1>10, <1>11, <1>12, <1>13,
     <1>14, <1>15 DEF Next, Execution, Collector

(* What the three actions that provision do.                                 *)
LEMMA ProvisionSteps ==
    ASSUME Owners, Fields, NEW w \in Workflows, Start(w) \/ Retry(w) \/ ContinueAsNew(w)
    PROVE  \E k \in Attempts :
               /\ k \notin Made /\ Made' = Made \cup {k}
               /\ owner'[k] = w /\ \A n \in Made : owner'[n] = owner[n]
               /\ stage' = [stage EXCEPT ![w] = "provision"]
               /\ awaited' = [awaited EXCEPT ![w] = k]
               /\ attempt' = [attempt EXCEPT ![k] = "register"]
               /\ handle'[w] \in {0, handle[w]}
               /\ stage[w] # "closed" => handle' = handle
               /\ \A v \in Workflows : v # w => handle'[v] = handle[v]
               /\ UNCHANGED <<known, container, bindings, restarts, listed, orphans, misjudged>>
<1>1. Provision(w)
  BY DEF Start, Retry, ContinueAsNew
<1>2. /\ handle'[w] \in {0, handle[w]}
      /\ stage[w] # "closed" => handle' = handle
      /\ \A v \in Workflows : v # w => handle'[v] = handle[v]
  BY DEF Start, Retry, ContinueAsNew, Fields
<1>3. UNCHANGED <<known, container, bindings, restarts, listed, orphans, misjudged>>
  BY <1>1 DEF Provision, gc
<1> QED
  BY <1>1, <1>2, <1>3, Provisions

(* Whose attempts, handles and containers they are.                          *)
LEMMA NextOwner ==
    ASSUME Fields, Owners, OwnerInv, [Next]_vars PROVE OwnerInv'
<1>m. Made \subseteq Attempts /\ 0 \notin Made
  BY MadeFacts
<1>1. ASSUME NEW w \in Workflows, Start(w) \/ Retry(w) \/ ContinueAsNew(w) PROVE OwnerInv'
  <2>1. PICK k \in Attempts :
               /\ k \notin Made /\ Made' = Made \cup {k}
               /\ owner'[k] = w /\ \A n \in Made : owner'[n] = owner[n]
               /\ stage' = [stage EXCEPT ![w] = "provision"]
               /\ awaited' = [awaited EXCEPT ![w] = k]
               /\ attempt' = [attempt EXCEPT ![k] = "register"]
               /\ handle'[w] \in {0, handle[w]}
               /\ \A v \in Workflows : v # w => handle'[v] = handle[v]
               /\ UNCHANGED <<known, container>>
    BY <1>1, ProvisionSteps
  <2>2. \A n \in Attempts : attempt'[n] # "unborn" => n \in Made'
    <3>1. \A n \in Attempts \ {k} : attempt'[n] = attempt[n]
      BY <2>1 DEF Fields
    <3> QED
      BY <2>1, <3>1 DEF OwnerInv
  <2>3. \A n \in known' : n \in Made' /\ attempt'[n] = "done"
    BY <2>1, <1>m DEF Fields, OwnerInv
  <2>4. ASSUME NEW v \in Workflows
        PROVE  /\ awaited'[v] # 0 => awaited'[v] \in Made' /\ owner'[awaited'[v]] = v
               /\ stage'[v] = "provision" <=> awaited'[v] # 0
               /\ container'[v] # 0 => container'[v] \in Made' /\ owner'[container'[v]] = v
    <3>1. k # 0 /\ (container[v] # 0 => container[v] # k) /\ (awaited[v] # 0 => awaited[v] # k)
      BY <2>1, SandboxBoundsAssumption DEF OwnerInv, Attempts
    <3>2. CASE v = w
      <4>1. stage'[v] = "provision" /\ awaited'[v] = k
        BY <2>1, <3>2 DEF Fields
      <4> QED
        BY <2>1, <3>1, <3>2, <4>1 DEF OwnerInv
    <3>3. CASE v # w
      <4>1. stage'[v] = stage[v] /\ awaited'[v] = awaited[v]
        BY <2>1, <3>3 DEF Fields
      <4> QED
        BY <2>1, <3>1, <4>1 DEF OwnerInv
    <3> QED
      BY <3>2, <3>3
  <2>5. ASSUME NEW v \in Workflows, handle'[v] # 0
        PROVE  /\ handle'[v] \in Made' /\ owner'[handle'[v]] = v
               /\ stage'[v] # "closed" /\ handle'[v] # awaited'[v]
    <3>1. handle[v] = handle'[v] /\ handle[v] \in Made /\ handle[v] # k
      BY <2>1, <2>5 DEF OwnerInv
    <3>2. /\ stage'[v] = IF v = w THEN "provision" ELSE stage[v]
          /\ awaited'[v] = IF v = w THEN k ELSE awaited[v]
      BY <2>1 DEF Fields
    <3> QED
      BY <2>1, <2>5, <3>1, <3>2 DEF OwnerInv
  <2> QED
    BY <2>2, <2>3, <2>4, <2>5 DEF OwnerInv
<1>s. ASSUME UNCHANGED owner PROVE Made' = Made
  BY <1>s, OwnersStay
<1>2. ASSUME NEW w \in Workflows, Finish(w) PROVE OwnerInv'
  BY <1>2, <1>s DEF Finish, Fields, OwnerInv
<1>3. ASSUME NEW w \in Workflows, Provisioned(w) PROVE OwnerInv'
  <2>1. awaited[w] \in Made /\ owner[awaited[w]] = w /\ awaited[w] # 0 /\ awaited[w] \in Attempts
    BY <1>3, <1>m DEF Provisioned, OwnerInv
  <2>2. Made' = Made /\ owner' = owner /\ container' = container
    BY <1>3, <1>s DEF Provisioned
  <2>3. \A n \in Attempts : attempt'[n] # "unborn" => n \in Made'
    <3>1. \A n \in Attempts \ {awaited[w]} : attempt'[n] = attempt[n]
      BY <1>3 DEF Provisioned, Fields
    <3> QED
      BY <2>1, <2>2, <3>1 DEF OwnerInv
  <2>4. \A n \in known' : n \in Made' /\ attempt'[n] = "done"
    <3>1. /\ known' = known \cup {awaited[w]}
          /\ attempt' = [attempt EXCEPT ![awaited[w]] = "done"]
          /\ attempt \in [Attempts -> Places] /\ known \subseteq Attempts
      BY <1>3 DEF Provisioned, Fields
    <3>2. \A n \in known : n \in Made /\ attempt[n] = "done"
      BY DEF OwnerInv
    <3> QED
      BY <2>1, <2>2, <3>1, <3>2
  <2>5. ASSUME NEW v \in Workflows
        PROVE  /\ awaited'[v] # 0 => awaited'[v] \in Made' /\ owner'[awaited'[v]] = v
               /\ stage'[v] = "provision" <=> awaited'[v] # 0
               /\ handle'[v] # 0 => /\ handle'[v] \in Made' /\ owner'[handle'[v]] = v
                                    /\ stage'[v] # "closed" /\ handle'[v] # awaited'[v]
               /\ container'[v] # 0 => container'[v] \in Made' /\ owner'[container'[v]] = v
    <3>1. /\ stage'[v] = IF v = w THEN "running" ELSE stage[v]
          /\ awaited'[v] = IF v = w THEN 0 ELSE awaited[v]
          /\ handle'[v] = IF v = w THEN awaited[w] ELSE handle[v]
      BY <1>3 DEF Provisioned, Kept, Fields
    <3> QED
      BY <2>1, <2>2, <3>1 DEF OwnerInv
  <2> QED
    BY <2>3, <2>4, <2>5 DEF OwnerInv
<1>r. ASSUME NEW c, Removed(c) PROVE \A w \in Workflows : container'[w] \in {0, container[w]}
  BY <1>r DEF Removed
<1>4. ASSUME NEW w \in Workflows, TeardownDone(w) PROVE OwnerInv'
  <2>1. /\ UNCHANGED <<attempt, owner, awaited, known>> /\ Made' = Made
        /\ stage[w] = "teardown"
        /\ \A v \in Workflows : container'[v] \in {0, container[v]}
    BY <1>4, <1>r, <1>s DEF TeardownDone
  <2>2. \A v \in Workflows :
           /\ stage'[v] = IF v = w THEN "closed" ELSE stage[v]
           /\ handle'[v] = IF v = w THEN 0 ELSE handle[v]
    BY <1>4 DEF TeardownDone, Fields
  <2>3. ASSUME NEW v \in Workflows
        PROVE  /\ awaited'[v] # 0 => awaited'[v] \in Made' /\ owner'[awaited'[v]] = v
               /\ stage'[v] = "provision" <=> awaited'[v] # 0
               /\ handle'[v] # 0 => /\ handle'[v] \in Made' /\ owner'[handle'[v]] = v
                                    /\ stage'[v] # "closed" /\ handle'[v] # awaited'[v]
               /\ container'[v] # 0 => container'[v] \in Made' /\ owner'[container'[v]] = v
    BY <2>1, <2>2 DEF OwnerInv
  <2> QED
    BY <2>1, <2>3 DEF OwnerInv
<1>5. ASSUME NEW w \in Workflows, TeardownLost(w) PROVE OwnerInv'
  BY <1>5, <1>r, <1>s DEF TeardownLost, OwnerInv, temporal
<1>g. ASSUME NEW n \in Attempts, NEW place, Goes(n, place), attempt[n] \in Working,
             \A w \in Workflows : container'[w] = container[w]
                                   \/ (owner[n] = w /\ container'[w] = n)
      PROVE  OwnerInv'
  <2>1. n \in Made /\ n \notin known
    BY <1>g DEF OwnerInv, Working
  <2>2. UNCHANGED <<stage, owner, awaited, handle, known>> /\ Made' = Made
    BY <1>g, <1>s DEF Goes
  <2>3. \A m \in Attempts : m # n => attempt'[m] = attempt[m]
    BY <1>g DEF Goes, Fields
  <2>4. known \subseteq Attempts
    BY DEF Fields
  <2> QED
    BY <1>g, <2>1, <2>2, <2>3, <2>4 DEF OwnerInv
<1>6. ASSUME NEW n \in Attempts, Register(n) PROVE OwnerInv'
  <2>1. attempt[n] \in Working /\ (Goes(n, "create") \/ Goes(n, "raised"))
    BY <1>6 DEF Register, Unregistered, Working
  <2>2. \A w \in Workflows : container'[w] = container[w]
    BY <1>6 DEF Register
  <2> QED
    BY <1>g, <2>1, <2>2
<1>7. ASSUME NEW n \in Attempts, Create(n) PROVE OwnerInv'
  <2>1. \A w \in Workflows : container'[w] = container[w]
                              \/ (owner[n] = w /\ container'[w] = n)
    <3>1. container' = container \/ container' = [container EXCEPT ![owner[n]] = n]
      BY <1>7 DEF Create
    <3>2. container \in [Workflows -> 0..MaxAttempts]
      BY DEF Fields
    <3> QED
      BY <3>1, <3>2
  <2> QED
    BY <1>7, <1>g, <2>1 DEF Create, Working
<1>8. ASSUME NEW n \in Attempts, Dies(n) PROVE OwnerInv'
  <2>1. attempt[n] \in Working /\ Goes(n, "raised")
    BY <1>8 DEF Dies
  <2>2. \A w \in Workflows : container'[w] = container[w]
    BY <1>8 DEF Dies
  <2> QED
    BY <1>g, <2>1, <2>2
<1>9. ASSUME BrokerRestart PROVE OwnerInv'
  BY <1>9, <1>s DEF BrokerRestart, OwnerInv, temporal
<1>c. ASSUME NEW where, CollectorGoes(where),
             \A w \in Workflows : container'[w] \in {0, container[w]}
      PROVE  OwnerInv'
  BY <1>c, <1>s DEF CollectorGoes, OwnerInv, temporal
<1>10. ASSUME List PROVE OwnerInv'
  BY <1>10, <1>c DEF List
<1>11. ASSUME NEW c \in Attempts, LookUp(c) PROVE OwnerInv'
  <2>1. container' = container /\ \E where : CollectorGoes(where)
    BY <1>11 DEF LookUp
  <2> QED
    BY <1>c, <2>1
<1>12. ASSUME NEW c \in Attempts, Reap(c) PROVE OwnerInv'
  BY <1>12, <1>c, <1>r DEF Reap, ReapedBy
<1>13. ASSUME NEW c \in Attempts, ReapFails(c) PROVE OwnerInv'
  BY <1>13, <1>c DEF ReapFails
<1>14. ASSUME Collected PROVE OwnerInv'
  BY <1>14, <1>c DEF Collected
<1>15. CASE UNCHANGED vars
  BY <1>15, <1>s DEF vars, temporal, OwnerInv
<1> QED
  BY <1>1, <1>2, <1>3, <1>4, <1>5, <1>6, <1>7, <1>8, <1>9, <1>10, <1>11, <1>12, <1>13,
     <1>14, <1>15 DEF Next, Execution, Collector

(* The container of the handle stays.                                        *)
LEMMA NextContainer ==
    ASSUME Fields, Owners, OwnerInv, ContainerInv, OrphanInv, [Next]_vars
    PROVE  ContainerInv'
<1>m. Made \subseteq Attempts /\ 0 \notin Made
  BY MadeFacts
<1>1. ASSUME NEW w \in Workflows, Start(w) \/ Retry(w) \/ ContinueAsNew(w) PROVE ContainerInv'
  <2>1. PICK k \in Attempts :
               /\ k \notin Made
               /\ stage' = [stage EXCEPT ![w] = "provision"]
               /\ awaited' = [awaited EXCEPT ![w] = k]
               /\ attempt' = [attempt EXCEPT ![k] = "register"]
               /\ stage[w] # "closed" => handle' = handle
               /\ \A v \in Workflows : v # w => handle'[v] = handle[v]
               /\ UNCHANGED <<known, container, misjudged>>
    BY <1>1, ProvisionSteps
  <2>2. ASSUME NEW v \in Workflows
        PROVE  /\ stage'[v] = IF v = w THEN "provision" ELSE stage[v]
               /\ awaited'[v] = IF v = w THEN k ELSE awaited[v]
    BY <2>1 DEF Fields
  <2>3. attempt'[k] = "register" /\ \A n \in Made : attempt'[n] = attempt[n]
    BY <2>1, <1>m DEF Fields
  <2>4. \A v \in Workflows : awaited[v] # 0 => awaited[v] \in Made
    BY DEF OwnerInv
  <2>5. stage[w] = "closed" => handle[w] = 0 /\ container[w] \notin known
    <3>1. stage[w] = "closed" => handle[w] = 0
      BY DEF OwnerInv
    <3>2. 0 \notin known
      BY <1>m DEF OwnerInv
    <3> QED
      BY <3>1, <3>2 DEF ContainerInv
  <2>6. ASSUME NEW v \in Workflows, container[v] \in known PROVE container[v] = handle'[v]
    BY <2>1, <2>5, <2>6 DEF ContainerInv
  <2> QED
    BY <2>1, <2>2, <2>3, <2>4, <2>6 DEF ContainerInv
<1>2. ASSUME NEW w \in Workflows, Finish(w) PROVE ContainerInv'
  BY <1>2 DEF Finish, Fields, ContainerInv, gc
<1>3. ASSUME NEW w \in Workflows, Provisioned(w) PROVE ContainerInv'
  <2>1. awaited[w] \in Made /\ owner[awaited[w]] = w /\ awaited[w] # 0
    BY <1>3 DEF Provisioned, OwnerInv
  <2>2. /\ container' = container /\ known' = known \cup {awaited[w]}
        /\ container[w] = awaited[w] \/ awaited[w] \in misjudged
        /\ misjudged' = misjudged
    BY <1>3, <2>1 DEF Provisioned, ContainerInv, gc
  <2>3. ASSUME NEW v \in Workflows
        PROVE  /\ stage'[v] = IF v = w THEN "running" ELSE stage[v]
               /\ awaited'[v] = IF v = w THEN 0 ELSE awaited[v]
               /\ handle'[v] = IF v = w THEN awaited[w] ELSE handle[v]
               /\ awaited[v] # 0 => awaited[v] \in Made /\ owner[awaited[v]] = v
               /\ container[v] # 0 => owner[container[v]] = v
    <3>1. /\ stage'[v] = IF v = w THEN "running" ELSE stage[v]
          /\ awaited'[v] = IF v = w THEN 0 ELSE awaited[v]
          /\ handle'[v] = IF v = w THEN awaited[w] ELSE handle[v]
      BY <1>3 DEF Provisioned, Kept, Fields
    <3> QED
      BY <3>1 DEF OwnerInv
  <2>4. \A n \in Made : n # awaited[w] => attempt'[n] = attempt[n]
    BY <1>3, <1>m DEF Provisioned, Fields
  <2>5. ASSUME NEW v \in Workflows, awaited'[v] # 0 /\ attempt'[awaited'[v]] = "created"
        PROVE  /\ container[v] = awaited'[v] \/ awaited'[v] \in misjudged
               /\ container[v] \notin known'
    <3>1. v # w /\ awaited'[v] = awaited[v] /\ awaited[v] \in Made /\ owner[awaited[v]] = v
      BY <2>3, <2>5
    <3>2. attempt[awaited[v]] = "created"
      BY <2>1, <2>4, <2>5, <3>1
    <3>3. container[v] # awaited[w]
      BY <2>1, <2>3, <3>1
    <3> QED
      BY <2>2, <2>5, <3>1, <3>2, <3>3 DEF ContainerInv
  <2>6. ASSUME NEW v \in Workflows, stage'[v] = "running"
        PROVE  container[v] = handle'[v] \/ handle'[v] \in misjudged
    BY <2>2, <2>3, <2>6 DEF ContainerInv
  <2>7. ASSUME NEW v \in Workflows, container[v] \in known \cup {awaited[w]}
        PROVE  container[v] = handle'[v]
    <3>1. container[w] \notin known
      BY <1>3, <2>1 DEF Provisioned, ContainerInv
    <3>2. CASE v = w
      BY <2>3, <2>7, <3>1, <3>2
    <3>3. CASE v # w
      <4>1. container[v] # awaited[w]
        BY <2>1, <2>3, <3>3
      <4> QED
        BY <2>3, <2>7, <3>3, <4>1 DEF ContainerInv
    <3> QED
      BY <3>2, <3>3
  <2> QED
    BY <2>2, <2>5, <2>6, <2>7 DEF ContainerInv
(* A container that goes is neither awaited, nor a handle elsewhere, unless  *)
(* it was misjudged.                                                         *)
<1>r. ASSUME NEW c \in Made, Removed(c), c # awaited[owner[c]] \/ c \in misjudged,
             UNCHANGED <<attempt, awaited, known, misjudged>>,
             \A w \in Workflows : stage'[w] = "running"
                => /\ stage[w] = "running" /\ handle'[w] = handle[w]
                   /\ c # handle[w] \/ owner[c] # w \/ c \in misjudged,
             \A w \in Workflows : handle'[w] = handle[w] \/ handle[w] = c
      PROVE  ContainerInv'
  <2>0. c # 0 /\ 0 \notin known
    BY <1>m DEF OwnerInv
  <2>1. ASSUME NEW w \in Workflows
        PROVE  container'[w] = IF container[w] = c THEN 0 ELSE container[w]
    BY <1>r DEF Removed
  <2>2. ASSUME NEW w \in Workflows, awaited'[w] # 0 /\ attempt'[awaited'[w]] = "created"
        PROVE  /\ container'[w] = awaited'[w] \/ awaited'[w] \in misjudged
               /\ container'[w] \notin known
    BY <1>r, <2>0, <2>1, <2>2 DEF OwnerInv, ContainerInv
  <2>3. ASSUME NEW w \in Workflows, stage'[w] = "running"
        PROVE  container'[w] = handle'[w] \/ handle'[w] \in misjudged
    <3>1. /\ stage[w] = "running" /\ handle[w] # 0
          /\ container[w] = handle[w] \/ handle[w] \in misjudged
      BY <1>r, <2>3 DEF ContainerInv, Fields
    <3>2. owner[handle[w]] = w
      BY <3>1 DEF OwnerInv
    <3>3. CASE c # handle[w]
      BY <1>r, <2>1, <3>1, <3>3
    <3>4. CASE c = handle[w]
      BY <1>r, <2>3, <3>2, <3>4
    <3> QED
      BY <3>3, <3>4
  <2>4. ASSUME NEW w \in Workflows, container'[w] \in known PROVE container'[w] = handle'[w]
    BY <1>r, <2>0, <2>1, <2>4 DEF ContainerInv
  <2> QED
    BY <1>r, <2>2, <2>3, <2>4 DEF ContainerInv
<1>4. ASSUME NEW w \in Workflows, TeardownDone(w) PROVE ContainerInv'
  <2>1. /\ handle[w] # 0 /\ handle[w] \in Made /\ owner[handle[w]] = w
        /\ handle[w] # awaited[w]
    BY <1>4 DEF TeardownDone, Fields, OwnerInv
  <2>2. \A v \in Workflows : handle'[v] = handle[v] \/ handle[v] = handle[w]
    BY <1>4 DEF TeardownDone, Fields
  <2>3. \A v \in Workflows : stage'[v] = "running" => stage[v] = "running" /\ v # w
    BY <1>4 DEF TeardownDone, Fields
  <2> QED
    BY <1>4, <1>r, <2>1, <2>2, <2>3 DEF TeardownDone, gc
<1>5. ASSUME NEW w \in Workflows, TeardownLost(w) PROVE ContainerInv'
  <2>1. /\ handle[w] # 0 /\ handle[w] \in Made /\ owner[handle[w]] = w
        /\ handle[w] # awaited[w] /\ stage[w] # "running"
    BY <1>5 DEF TeardownLost, Fields, OwnerInv
  <2> QED
    BY <1>5, <1>r, <2>1 DEF TeardownLost, temporal, gc
<1>k. ASSUME UNCHANGED <<temporal, container>>, misjudged \subseteq misjudged' PROVE ContainerInv'
  BY <1>k DEF ContainerInv, temporal
(* An attempt that creates nothing.                                          *)
<1>g. ASSUME NEW n \in Attempts, NEW place, place # "created", Goes(n, place),
             container' = container
      PROVE  ContainerInv'
  <2>1. UNCHANGED <<stage, awaited, handle, known, misjudged>>
    BY <1>g DEF Goes, gc
  <2>2. \A m \in Attempts : attempt'[m] = "created" => attempt[m] = "created"
    BY <1>g DEF Goes, Fields
  <2>3. \A w \in Workflows : awaited[w] # 0 => awaited[w] \in Attempts
    BY <1>m DEF OwnerInv
  <2> QED
    BY <1>g, <2>1, <2>2, <2>3 DEF ContainerInv
<1>6. ASSUME NEW n \in Attempts, Register(n) PROVE ContainerInv'
  <2>1. container' = container /\ (Goes(n, "create") \/ Goes(n, "raised"))
    BY <1>6 DEF Register, Unregistered
  <2> QED
    BY <1>g, <2>1
<1>7. ASSUME NEW n \in Attempts, Create(n) PROVE ContainerInv'
  <2>1. CASE container[owner[n]] # 0
    BY <1>7, <1>g, <2>1 DEF Create
  <2>2. CASE container[owner[n]] = 0
    <3>1. /\ container' = [container EXCEPT ![owner[n]] = n] /\ Goes(n, "created")
          /\ attempt[n] = "create"
      BY <1>7, <2>2 DEF Create
    <3>2. UNCHANGED <<stage, awaited, handle, known, misjudged>>
            /\ attempt' = [attempt EXCEPT ![n] = "created"]
      BY <3>1 DEF Goes, gc
    <3>3. n \in Made /\ n \notin known /\ owner[n] \in Workflows
      BY <3>1, MadeFacts DEF OwnerInv
    <3>4. ASSUME NEW w \in Workflows
          PROVE  container'[w] = IF w = owner[n] THEN n ELSE container[w]
      BY <3>1 DEF Fields
    <3>5. \A m \in Made : m # n => attempt'[m] = attempt[m]
      BY <3>2, <1>m DEF Fields
    <3>6. ASSUME NEW w \in Workflows, awaited[w] # 0 /\ attempt'[awaited[w]] = "created"
          PROVE  /\ container'[w] = awaited[w] \/ awaited[w] \in misjudged
                 /\ container'[w] \notin known
      <4>1. awaited[w] \in Made /\ owner[awaited[w]] = w
        BY <3>6 DEF OwnerInv
      <4>2. CASE awaited[w] = n
        BY <3>3, <3>4, <4>1, <4>2
      <4>3. CASE awaited[w] # n
        BY <2>2, <3>3, <3>4, <3>5, <3>6, <4>1, <4>3 DEF ContainerInv
      <4> QED
        BY <4>2, <4>3
    <3>7. ASSUME NEW w \in Workflows, stage[w] = "running"
          PROVE  container'[w] = handle[w] \/ handle[w] \in misjudged
      <4>1. (container[w] = handle[w] \/ handle[w] \in misjudged) /\ handle[w] # 0
        BY <3>7 DEF ContainerInv, Fields
      <4> QED
        BY <2>2, <3>4, <4>1
    <3>8. ASSUME NEW w \in Workflows, container'[w] \in known PROVE container'[w] = handle[w]
      BY <3>3, <3>4, <3>8 DEF ContainerInv
    <3> QED
      BY <3>2, <3>6, <3>7, <3>8 DEF ContainerInv
  <2> QED
    BY <2>1, <2>2
<1>8. ASSUME NEW n \in Attempts, Dies(n) PROVE ContainerInv'
  <2>1. container' = container /\ Goes(n, "raised")
    BY <1>8 DEF Dies
  <2> QED
    BY <1>g, <2>1
<1>9. ASSUME BrokerRestart PROVE ContainerInv'
  BY <1>9, <1>k DEF BrokerRestart, gc
<1>10. ASSUME List PROVE ContainerInv'
  BY <1>10, <1>k DEF List, CollectorGoes
<1>11. ASSUME NEW c \in Attempts, LookUp(c) PROVE ContainerInv'
  <2>1. UNCHANGED <<temporal, container>> /\ misjudged \subseteq misjudged'
    BY <1>11 DEF LookUp, LookedUp, CollectorGoes
  <2> QED
    BY <1>k, <2>1
<1>12. ASSUME NEW c \in Attempts, Reap(c) PROVE ContainerInv'
  <2>1. /\ c \in Made /\ Removed(c)
        /\ c \in misjudged \/ (c # awaited[owner[c]] /\ c # handle[owner[c]])
        /\ UNCHANGED <<temporal, misjudged>>
    BY <1>12 DEF Reap, ReapedBy, CollectorGoes, OrphanInv
  <2>2. UNCHANGED <<stage, attempt, awaited, handle, known>>
    BY <2>1 DEF temporal
  <2> QED
    BY <1>r, <2>1, <2>2
<1>13. ASSUME NEW c \in Attempts, ReapFails(c) PROVE ContainerInv'
  BY <1>13, <1>k DEF ReapFails, CollectorGoes
<1>14. ASSUME Collected PROVE ContainerInv'
  BY <1>14, <1>k DEF Collected, CollectorGoes
<1>15. CASE UNCHANGED vars
  BY <1>15, <1>k DEF vars, gc
<1> QED
  BY <1>1, <1>2, <1>3, <1>4, <1>5, <1>6, <1>7, <1>8, <1>9, <1>10, <1>11, <1>12, <1>13,
     <1>14, <1>15 DEF Next, Execution, Collector

(* What is listed and what is an orphan.                                     *)
LEMMA NextOrphan ==
    ASSUME Fields, Owners, OwnerInv, OrphanInv, [Next]_vars PROVE OrphanInv'
<1>m. Made \subseteq Attempts /\ 0 \notin Made /\ \A n \in Made : owner[n] \in Workflows
  BY MadeFacts
<1>1. ASSUME NEW w \in Workflows, Start(w) \/ Retry(w) \/ ContinueAsNew(w) PROVE OrphanInv'
  <2>1. PICK k \in Attempts :
               /\ k \notin Made /\ Made' = Made \cup {k}
               /\ \A n \in Made : owner'[n] = owner[n]
               /\ awaited' = [awaited EXCEPT ![w] = k]
               /\ handle'[w] \in {0, handle[w]}
               /\ \A v \in Workflows : v # w => handle'[v] = handle[v]
               /\ UNCHANGED <<listed, orphans, misjudged>>
    BY <1>1, ProvisionSteps
  <2>2. ASSUME NEW v \in Workflows
        PROVE  awaited'[v] \in {k, awaited[v]} /\ handle'[v] \in {0, handle[v]}
    BY <2>1 DEF Fields
  <2> QED
    BY <1>m, <2>1, <2>2 DEF OrphanInv
(* No other step of an execution gives a workflow a number it did not have.  *)
<1>t. ASSUME UNCHANGED <<owner, listed, orphans, misjudged>>,
             \A w \in Workflows : /\ awaited'[w] \in {0, awaited[w]}
                                  /\ handle'[w] \in {0, handle[w], awaited[w]}
      PROVE  OrphanInv'
  BY <1>m, <1>t, OwnersStay DEF OrphanInv
<1>2. ASSUME NEW w \in Workflows, Finish(w) PROVE OrphanInv'
  BY <1>2, <1>t DEF Finish, gc
<1>3. ASSUME NEW w \in Workflows, Provisioned(w) PROVE OrphanInv'
  <2>1. \A v \in Workflows : /\ awaited'[v] \in {0, awaited[v]}
                             /\ handle'[v] \in {handle[v], awaited[v]}
    BY <1>3 DEF Provisioned, Kept, Fields
  <2> QED
    BY <1>3, <1>t, <2>1 DEF Provisioned, gc
<1>4. ASSUME NEW w \in Workflows, TeardownDone(w) PROVE OrphanInv'
  <2>1. \A v \in Workflows : awaited'[v] = awaited[v] /\ handle'[v] \in {0, handle[v]}
    BY <1>4 DEF TeardownDone, Fields
  <2> QED
    BY <1>4, <1>t, <2>1 DEF TeardownDone, gc
<1>5. ASSUME NEW w \in Workflows, TeardownLost(w) PROVE OrphanInv'
  BY <1>5, <1>t DEF TeardownLost, temporal, gc
<1>g. ASSUME NEW n, NEW place, Goes(n, place) PROVE OrphanInv'
  BY <1>g, <1>t DEF Goes, gc
<1>6. ASSUME NEW n \in Attempts, Register(n) PROVE OrphanInv'
  <2>1. Goes(n, "create") \/ Goes(n, "raised")
    BY <1>6 DEF Register, Unregistered
  <2> QED
    BY <1>g, <2>1
<1>7. ASSUME NEW n \in Attempts, Create(n) PROVE OrphanInv'
  <2>1. Goes(n, "created") \/ Goes(n, "raised")
    BY <1>7 DEF Create
  <2> QED
    BY <1>g, <2>1
<1>8. ASSUME NEW n \in Attempts, Dies(n) PROVE OrphanInv'
  BY <1>8, <1>g DEF Dies
<1>9. ASSUME BrokerRestart PROVE OrphanInv'
  BY <1>9, <1>t DEF BrokerRestart, temporal, gc
(* The collector lists what was made, and finds what is closed or misjudges. *)
<1>c. ASSUME UNCHANGED temporal, listed' \subseteq Made, misjudged \subseteq misjudged',
             \A c \in orphans' : \/ c \in orphans
                                 \/ (c \in listed /\ (Orphan(c) \/ c \in misjudged'))
      PROVE  OrphanInv'
  <2>1. Made' = Made /\ UNCHANGED <<owner, awaited, handle>>
    BY <1>c, OwnersStay DEF temporal
  <2>2. ASSUME NEW c \in Made, Orphan(c)
        PROVE  c # awaited[owner[c]] /\ c # handle[owner[c]]
    <3>1. owner[c] \in Workflows /\ stage[owner[c]] = "closed" /\ c # 0
      BY <1>m, <2>2 DEF Orphan, IsRunning
    <3> QED
      BY <3>1 DEF OwnerInv
  <2>3. listed \subseteq Made
    BY DEF OrphanInv
  <2> QED
    BY <1>c, <2>1, <2>2, <2>3 DEF OrphanInv
<1>10. ASSUME List PROVE OrphanInv'
  <2>1. Existing \subseteq Made
    BY DEF Existing, OwnerInv
  <2> QED
    BY <1>10, <1>c, <2>1 DEF List, CollectorGoes
<1>11. ASSUME NEW c \in Attempts, LookUp(c) PROVE OrphanInv'
  <2>1. UNCHANGED temporal /\ listed' \subseteq listed /\ misjudged \subseteq misjudged'
    BY <1>11 DEF LookUp, LookedUp, CollectorGoes
  <2>2. \A d \in orphans' : \/ d \in orphans
                             \/ (d \in listed /\ (Orphan(d) \/ d \in misjudged'))
    <3>1. c \in listed /\ (orphans' = {} \/ LookedUp(c))
      BY <1>11 DEF LookUp
    <3>2. CASE LookedUp(c)
      <4>1. CASE orphans' = IF Orphan(c) THEN orphans \cup {c} ELSE orphans
        BY <3>1, <4>1
      <4>2. CASE orphans' = orphans \cup {c} /\ misjudged' = misjudged \cup {c}
        BY <3>1, <4>2
      <4> QED
        BY <3>2, <4>1, <4>2 DEF LookedUp
    <3> QED
      BY <3>1, <3>2
  <2>3. listed \subseteq Made
    BY DEF OrphanInv
  <2> QED
    BY <1>c, <2>1, <2>2, <2>3
<1>12. ASSUME NEW c \in Attempts, Reap(c) PROVE OrphanInv'
  BY <1>12, <1>c DEF Reap, CollectorGoes, OrphanInv
<1>13. ASSUME NEW c \in Attempts, ReapFails(c) PROVE OrphanInv'
  BY <1>13, <1>c DEF ReapFails, CollectorGoes, OrphanInv
<1>14. ASSUME Collected PROVE OrphanInv'
  BY <1>14, <1>c DEF Collected, CollectorGoes, OrphanInv
<1>15. CASE UNCHANGED vars
  BY <1>15, <1>t DEF vars, temporal, gc
<1> QED
  BY <1>1, <1>2, <1>3, <1>4, <1>5, <1>6, <1>7, <1>8, <1>9, <1>10, <1>11, <1>12, <1>13,
     <1>14, <1>15 DEF Next, Execution, Collector

(* Registration comes before creation.                                       *)
LEMMA NextBind ==
    ASSUME Fields, Owners, OwnerInv, BindInv, [Next]_vars PROVE BindInv'
<1>b. BindInv <=> (restarts = 0 =>
                    /\ \A n \in Attempts : attempt[n] = "create" => n \in bindings
                    /\ \A w \in Workflows : container[w] # 0 => container[w] \in bindings)
  BY DEF BindInv, Existing
<1>c. BindInv' <=> (restarts' = 0 =>
                    /\ \A n \in Attempts : attempt'[n] = "create" => n \in bindings'
                    /\ \A w \in Workflows : container'[w] # 0 => container'[w] \in bindings')
  BY DEF BindInv, Existing
(* Nothing is created or bound.                                              *)
<1>k. ASSUME UNCHANGED <<bindings, restarts>>,
             \A n \in Attempts : attempt'[n] = "create" => attempt[n] = "create",
             \A w \in Workflows : container'[w] \in {0, container[w]}
      PROVE  BindInv'
  BY <1>b, <1>c, <1>k
<1>1. ASSUME NEW w \in Workflows, Start(w) \/ Retry(w) \/ ContinueAsNew(w) PROVE BindInv'
  <2>1. PICK k \in Attempts :
               /\ attempt' = [attempt EXCEPT ![k] = "register"]
               /\ UNCHANGED <<container, bindings, restarts>>
    BY <1>1, ProvisionSteps
  <2>2. \A n \in Attempts : attempt'[n] = "create" => attempt[n] = "create"
    BY <2>1 DEF Fields
  <2> QED
    BY <1>k, <2>1, <2>2
<1>2. ASSUME NEW w \in Workflows, Finish(w) PROVE BindInv'
  BY <1>2, <1>k DEF Finish
<1>3. ASSUME NEW w \in Workflows, Provisioned(w) PROVE BindInv'
  <2>1. \A n \in Attempts : attempt'[n] = "create" => attempt[n] = "create"
    BY <1>3 DEF Provisioned, Fields
  <2> QED
    BY <1>3, <1>k, <2>1 DEF Provisioned
<1>r. ASSUME NEW c, Removed(c) PROVE \A w \in Workflows : container'[w] \in {0, container[w]}
  BY <1>r DEF Removed
<1>4. ASSUME NEW w \in Workflows, TeardownDone(w) PROVE BindInv'
  BY <1>4, <1>k, <1>r DEF TeardownDone
<1>5. ASSUME NEW w \in Workflows, TeardownLost(w) PROVE BindInv'
  BY <1>5, <1>k, <1>r DEF TeardownLost, temporal
<1>g. ASSUME NEW n \in Attempts, NEW place, Goes(n, place)
      PROVE  /\ restarts' = restarts
             /\ \A m \in Attempts : attempt'[m] = IF m = n THEN place ELSE attempt[m]
  BY <1>g DEF Goes, Fields
<1>6. ASSUME NEW n \in Attempts, Register(n) PROVE BindInv'
  <2>1. container' = container
    BY <1>6 DEF Register
  <2>2. CASE bindings' = bindings \cup {n} /\ Goes(n, "create")
    BY <1>b, <1>c, <1>g, <2>1, <2>2
  <2>3. CASE bindings' = bindings /\ Goes(n, "raised")
    BY <1>b, <1>c, <1>g, <2>1, <2>3
  <2> QED
    BY <1>6, <2>2, <2>3 DEF Register, Unregistered
<1>7. ASSUME NEW n \in Attempts, Create(n) PROVE BindInv'
  <2>1. bindings' = bindings /\ attempt[n] = "create"
    BY <1>7 DEF Create
  <2>2. restarts' = restarts
          /\ \A m \in Attempts : attempt'[m] = "create" => attempt[m] = "create"
    BY <1>7, <1>g DEF Create
  <2>3. \A w \in Workflows : container'[w] \in {n, container[w]}
    <3>1. container' = container \/ container' = [container EXCEPT ![owner[n]] = n]
      BY <1>7 DEF Create
    <3>2. container \in [Workflows -> 0..MaxAttempts]
      BY DEF Fields
    <3> QED
      BY <3>1, <3>2
  <2> QED
    BY <1>b, <1>c, <2>1, <2>2, <2>3
<1>8. ASSUME NEW n \in Attempts, Dies(n) PROVE BindInv'
  <2>1. Goes(n, "raised") /\ UNCHANGED <<container, bindings>>
    BY <1>8 DEF Dies
  <2>2. restarts' = restarts
          /\ \A m \in Attempts : attempt'[m] = "create" => attempt[m] = "create"
    BY <1>g, <2>1
  <2> QED
    BY <1>k, <2>1, <2>2
<1>9. ASSUME BrokerRestart PROVE BindInv'
  <2>1. restarts \in Nat /\ restarts' = restarts + 1
    <3>1. restarts \in 0..MaxRestarts
      BY DEF Fields
    <3> QED
      BY <1>9, <3>1, SandboxBoundsAssumption DEF BrokerRestart
  <2> QED
    BY <1>c, <2>1
<1>10. ASSUME List PROVE BindInv'
  BY <1>10, <1>k DEF List, CollectorGoes, temporal
<1>11. ASSUME NEW c \in Attempts, LookUp(c) PROVE BindInv'
  <2>1. UNCHANGED <<temporal, container, bindings, restarts>>
    BY <1>11 DEF LookUp, CollectorGoes
  <2> QED
    BY <1>k, <2>1 DEF temporal
<1>12. ASSUME NEW c \in Attempts, Reap(c) PROVE BindInv'
  BY <1>12, <1>k, <1>r DEF Reap, ReapedBy, CollectorGoes, temporal
<1>13. ASSUME NEW c \in Attempts, ReapFails(c) PROVE BindInv'
  BY <1>13, <1>k DEF ReapFails, CollectorGoes, temporal
<1>14. ASSUME Collected PROVE BindInv'
  BY <1>14, <1>k DEF Collected, CollectorGoes, temporal
<1>15. CASE UNCHANGED vars
  BY <1>15, <1>k DEF vars, temporal
<1> QED
  BY <1>1, <1>2, <1>3, <1>4, <1>5, <1>6, <1>7, <1>8, <1>9, <1>10, <1>11, <1>12, <1>13,
     <1>14, <1>15 DEF Next, Execution, Collector

-----------------------------------------------------------------------------
(* The inductive invariant holds: an attempt's number ties a token, a        *)
(* container and a handle together (sandbox.py:87-198, cleanup_orphans.py).   *)
THEOREM Invariance == Spec => []IInv
<1>1. IInv /\ [Next]_vars => IInv'
  <2> SUFFICES ASSUME IInv, [Next]_vars PROVE IInv'
    OBVIOUS
  <2>1. Fields /\ Owners /\ OwnerInv /\ ContainerInv /\ OrphanInv /\ BindInv
    BY TypeParts DEF IInv
  <2>2. TypeOK'
    <3>1. Fields' /\ Owners'
      BY <2>1, NextType, NextOwners
    <3> QED
      BY <3>1 DEF TypeOK, Fields, Owners
  <2> QED
    BY <2>1, <2>2, NextOwner, NextContainer, NextOrphan, NextBind DEF IInv
<1> QED
  BY <1>1, InitInv, PTL DEF Spec

(* TypeOK: every variable keeps to its type, and an execution past its       *)
(* provisioning has a handle.                                                *)
THEOREM TypeCorrect == Spec => []TypeOK
<1>1. IInv => TypeOK
  BY DEF IInv
<1> QED
  BY <1>1, Invariance, PTL

(* A running execution has its sandbox, however many attempts there are, late*)
(* ones included, and with the collector at work, unless a lookup of its     *)
(* workflow failed while it was open (sandbox.py:185-198,                    *)
(* cleanup_orphans.py:37-69, 83-84).                                         *)
THEOREM RunningHasSandbox == Spec => []RunningHasItsSandbox
<1>1. IInv => RunningHasItsSandbox
  BY DEF IInv, ContainerInv, RunningHasItsSandbox
<1> QED
  BY <1>1, Invariance, PTL

(* Unless the broker restarts, the token of every sandbox is registered      *)
(* (sandbox.py:100-106, 159).                                                *)
THEOREM SandboxesAreBound == Spec => []SandboxIsBound
<1>1. IInv => SandboxIsBound
  BY DEF IInv, BindInv, SandboxIsBound
<1> QED
  BY <1>1, Invariance, PTL

(* After an execution no container is left that any execution had a handle   *)
(* of (sandbox.py:185-198).                                                  *)
THEOREM KnownSandboxesGo == Spec => []KnownSandboxIsGone
<1>1. ASSUME IInv PROVE KnownSandboxIsGone
  <2>1. \A w \in Workflows : stage[w] = "closed" => handle[w] = 0
    BY <1>1 DEF IInv, OwnerInv
  <2>2. 0 \notin known
    <3>1. known \subseteq Attempts
      BY <1>1 DEF IInv, TypeOK
    <3> QED
      BY <3>1 DEF Attempts
  <2> QED
    BY <1>1, <2>1, <2>2 DEF IInv, ContainerInv, KnownSandboxIsGone
<1> QED
  BY <1>1, Invariance, PTL
=============================================================================
