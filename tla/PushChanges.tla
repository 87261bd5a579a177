---------------------------- MODULE PushChanges ----------------------------
(***************************************************************************)
(* The trusted push at the level of its git commands, in the one clone     *)
(* that prepare_workdir makes and resets. Each approved operation is a     *)
(* push_changes activity of up to MaxAttempts attempts. An attempt is a    *)
(* process of its own: a synchronous activity is not interrupted when its  *)
(* two minutes are over, so an attempt that timed out works on beside its  *)
(* retry, and so does the push of another operation. All of them share the *)
(* clone's HEAD, index, working tree and FETCH_HEAD with prepare_workdir,  *)
(* which an execution that continues as new runs again, and with agents    *)
(* that edit the files: one whose request waits for approval is timed out  *)
(* long before (10 minutes against 24 hours), and another follows it.      *)
(*                                                                         *)
(* A history is the sequence of commits that lead to a tip; the content of *)
(* a tree is the number of the last edit it holds.                         *)
(***************************************************************************)
EXTENDS Naturals, Sequences, FiniteSets

CONSTANTS
    Operations,     \* operation keys whose push was approved
    MaxAttempts,    \* RetryPolicy(maximum_attempts=3), by operation
    MaxEdits,       \* bound: edits the agent makes
    MaxForeign,     \* bound: commits others push to the branch
    MaxPrepares     \* bound: times the clone is prepared again

ASSUME AttemptsAssumption == MaxAttempts \in [Operations -> Nat \ {0}]
ASSUME PushBoundsAssumption ==
    MaxEdits \in Nat /\ MaxForeign \in Nat /\ MaxPrepares \in Nat

VARIABLES
    remote,     \* history of the pull request's branch at the remote
    head,       \* history of the clone's checked out branch
    fetched,    \* history FETCH_HEAD names
    staged,     \* content of the index
    worktree,   \* content of the working tree
    edits,      \* edits made so far
    prepare,    \* the git command prepare_workdir is at
    prepares,   \* times it was started again
    dropped,    \* operations whose commit it dropped from under their push
    attempt,    \* the attempts of each operation, by number
    current,    \* the attempt whose report Temporal would accept; 0 before
    result      \* what the activity returned to the workflow

git == <<remote, head, fetched, staged>>
preparing == <<prepare, prepares, dropped>>
vars == <<git, worktree, edits, preparing, attempt, current, result>>

-----------------------------------------------------------------------------
Foreign == "other"
Commit == [key: Operations \cup {Foreign}, content: 0..MaxEdits]

(* Nobody else writes the trailer with a key of the workflow's.              *)
ASSUME KeysAssumption == Foreign \notin Operations

Attempts(o) == 1..MaxAttempts[o]
Working == {"fetch", "lookup", "add", "diff", "commit", "compare", "push"}
Places == {"unborn", "dead", "pushed", "declined"} \cup Working
Results == {"none", "pushed", "failed", "raised"}

Tree(history) ==
    IF history = <<>> THEN 0 ELSE history[Len(history)].content
IsPrefixOf(s, t) == Len(s) <= Len(t) /\ s = SubSeq(t, 1, Len(s))
Keyed(history, o) == {i \in DOMAIN history : history[i].key = o}

TypeOK ==
    /\ remote \in Seq(Commit) /\ head \in Seq(Commit) /\ fetched \in Seq(Commit)
    /\ staged \in 0..MaxEdits /\ worktree \in 0..MaxEdits /\ edits \in 0..MaxEdits
    /\ prepare \in {"idle", "reset", "checkout"} /\ prepares \in 0..MaxPrepares
    /\ dropped \subseteq Operations
    /\ DOMAIN attempt = Operations /\ DOMAIN current = Operations
    /\ \A o \in Operations :
          /\ attempt[o] \in [Attempts(o) -> Places]
          /\ current[o] \in {0} \cup Attempts(o)
    /\ result \in [Operations -> Results]

(* prepare_workdir left the clone at the tip of the branch, and clean.       *)
Init ==
    /\ remote = <<>> /\ head = <<>> /\ fetched = <<>>
    /\ staged = 0 /\ worktree = 0 /\ edits = 0
    /\ prepare = "idle" /\ prepares = 0 /\ dropped = {}
    /\ attempt = [o \in Operations |-> [n \in Attempts(o) |-> "unborn"]]
    /\ current = [o \in Operations |-> 0]
    /\ result = [o \in Operations |-> "none"]

-----------------------------------------------------------------------------
(* An agent, or one left over from a lost attempt, writes a file.            *)
Edit ==
    /\ edits < MaxEdits
    /\ edits' = edits + 1
    /\ worktree' = edits'
    /\ UNCHANGED <<git, preparing, attempt, current, result>>

(* Somebody else pushes to the branch.                                       *)
ForeignPush ==
    /\ Cardinality(Keyed(remote, Foreign)) < MaxForeign
    /\ remote' = Append(remote, [key |-> Foreign, content |-> Tree(remote)])
    /\ UNCHANGED <<head, fetched, staged, worktree, edits, preparing, attempt,
                   current, result>>

-----------------------------------------------------------------------------
(* _prepare_workdir_at, in a clone that exists.  An attempt of it that fails *)
(* or is overtaken is started again.                                         *)
PrepareGoes(place) ==
    /\ prepare' = place
    /\ UNCHANGED <<remote, edits, attempt, current, result>>

PrepareFetch ==
    /\ prepare = "idle"
    /\ prepares < MaxPrepares
    /\ prepares' = prepares + 1
    /\ fetched' = remote
    /\ PrepareGoes("reset")
    /\ UNCHANGED <<head, staged, worktree, dropped>>

(* The branch is moved; a push that has committed to it will find nothing    *)
(* to send, and git calls that a success.                                    *)
HeadMoves ==
    /\ head' = fetched
    /\ dropped' = dropped \cup
           {o \in Operations :
               /\ head # fetched /\ result[o] = "none"
               /\ \E n \in Attempts(o) : attempt[o][n] \in {"compare", "push"}}
AtFetched == HeadMoves /\ staged' = Tree(fetched) /\ worktree' = Tree(fetched)

PrepareReset ==
    /\ prepare = "reset"
    /\ AtFetched
    /\ PrepareGoes("checkout")
    /\ UNCHANGED <<fetched, prepares>>

(* By now an attempt may have fetched something newer, or an agent may have  *)
(* edited: what the two tips share keeps the edits, else git refuses.        *)
Clean == staged = Tree(head) /\ worktree = staged

PrepareCheckout ==
    /\ prepare = "checkout"
    /\ \/ Clean /\ AtFetched
       \/ /\ ~Clean /\ Tree(fetched) = Tree(head)
          /\ HeadMoves
          /\ UNCHANGED <<staged, worktree>>
       \/ /\ ~Clean /\ Tree(fetched) # Tree(head)
          /\ UNCHANGED <<head, staged, worktree, dropped>>
    /\ PrepareGoes("idle")
    /\ UNCHANGED <<fetched, prepares>>

Prepare == PrepareFetch \/ PrepareReset \/ PrepareCheckout

-----------------------------------------------------------------------------
(* The activity, as the Temporal server drives it.                           *)
Begin(o) ==
    /\ current' = [current EXCEPT ![o] = @ + 1]
    /\ attempt' = [attempt EXCEPT ![o][current[o] + 1] = "fetch"]
    /\ UNCHANGED <<git, worktree, edits, preparing, result>>

Schedule(o) == current[o] = 0 /\ Begin(o)

(* Variant of Overdue: no start_to_close timeout.                            *)
Crashed(o) ==
    /\ current[o] # 0 /\ result[o] = "none"
    /\ attempt[o][current[o]] = "dead"

(* The attempt raised, its worker died, or it is out of time.                *)
Overdue(o) ==
    /\ current[o] # 0 /\ result[o] = "none"
    /\ attempt[o][current[o]] \in Working \cup {"dead"}

(* Variant of Retry: Temporal's default policy has no last attempt.          *)
RetryForever(o) == Overdue(o) /\ Begin(o)
Retry(o) == Overdue(o) /\ current[o] < MaxAttempts[o] /\ Begin(o)

GiveUp(o) ==
    /\ Overdue(o)
    /\ current[o] = MaxAttempts[o]
    /\ result' = [result EXCEPT ![o] = "raised"]
    /\ UNCHANGED <<git, worktree, edits, preparing, attempt, current>>

(* Variant of ReportOf: that the activity returned at all is a success.      *)
AnyReport(o) ==
    IF attempt[o][current[o]] \in {"pushed", "declined"} THEN "pushed" ELSE "failed"
ReportOf(o) == IF attempt[o][current[o]] = "pushed" THEN "pushed" ELSE "failed"

(* Only the current attempt is listened to.                                  *)
Report(o) ==
    /\ current[o] # 0 /\ result[o] = "none"
    /\ attempt[o][current[o]] \in {"pushed", "declined"}
    /\ result' = [result EXCEPT ![o] = ReportOf(o)]
    /\ UNCHANGED <<git, worktree, edits, preparing, attempt, current>>

-----------------------------------------------------------------------------
(* _push_changes_at, one git command at a time.                              *)
At(o, n, place) == attempt[o][n] = place

(* What an attempt that was given up on returns is not heard.                *)
Goes(o, n, place) ==
    /\ attempt' = [attempt EXCEPT ![o][n] =
           IF place \notin Working /\ n # current[o] THEN "dead" ELSE place]
    /\ UNCHANGED <<worktree, edits, preparing, current, result>>

Fetch(o, n) ==
    /\ At(o, n, "fetch")
    /\ \/ fetched' = remote /\ Goes(o, n, "lookup")
       \/ fetched' = fetched /\ Goes(o, n, "declined")
    /\ UNCHANGED <<remote, head, staged>>

(* Variant of Found: the lookup takes any keyed commit for its own.          *)
FoundAny(o) == \E k \in Operations : Keyed(fetched, k) # {}

(* Some commit reachable from FETCH_HEAD carries the key in its trailer.     *)
Found(o) == Keyed(fetched, o) # {}

(* A git log that fails is taken for one that found nothing, and none looks  *)
(* further back than the fifty commits that were fetched.                    *)
Lookup(o, n) ==
    /\ At(o, n, "lookup")
    /\ \/ Found(o) /\ Goes(o, n, "pushed")
       \/ Goes(o, n, "add")
    /\ UNCHANGED git

Add(o, n) ==
    /\ At(o, n, "add")
    /\ staged' = worktree
    /\ Goes(o, n, "diff")
    /\ UNCHANGED <<remote, head, fetched>>

(* Variant of NothingStaged: empty commits are made too.                     *)
AllowEmpty == FALSE
NothingStaged == staged = Tree(head)

(* git diff --cached --quiet: nothing staged is "no_changes".                *)
Diff(o, n) ==
    /\ At(o, n, "diff")
    /\ Goes(o, n, IF NothingStaged THEN "declined" ELSE "commit")
    /\ UNCHANGED git

(* git commit fails, and the attempt raises, if another one was faster.      *)
MakeCommit(o, n) ==
    /\ At(o, n, "commit")
    /\ IF NothingStaged
          THEN head' = head /\ Goes(o, n, "dead")
          ELSE /\ head' = Append(head, [key |-> o, content |-> staged])
               /\ Goes(o, n, "compare")
    /\ UNCHANGED <<remote, fetched, staged>>

(* HEAD..FETCH_HEAD is not empty: "remote_advanced".  The commit stays.      *)
Behind == ~IsPrefixOf(fetched, head)

Compare(o, n) ==
    /\ At(o, n, "compare")
    /\ Goes(o, n, IF Behind THEN "declined" ELSE "push")
    /\ UNCHANGED git

(* Variant of FastForward: a forced push.                                    *)
Forced == TRUE

(* The remote takes only a fast-forward; a push it took may be reported as   *)
(* failed, when the connection breaks before the answer.                     *)
FastForward == IsPrefixOf(remote, head)

Push(o, n) ==
    /\ At(o, n, "push")
    /\ \/ FastForward /\ remote' = head /\ Goes(o, n, "pushed")
       \/ FastForward /\ remote' = head /\ Goes(o, n, "declined")
       \/ remote' = remote /\ Goes(o, n, "declined")
    /\ UNCHANGED <<head, fetched, staged>>

(* An attempt can raise or lose its worker before any command, and after any:*)
(* the command was done and the next one never comes.                        *)
Dies(o, n) ==
    /\ attempt[o][n] \in Working
    /\ Goes(o, n, "dead")
    /\ UNCHANGED git

-----------------------------------------------------------------------------
Steps(o, n) ==
    \/ Fetch(o, n) \/ Lookup(o, n) \/ Add(o, n) \/ Diff(o, n)
    \/ MakeCommit(o, n) \/ Compare(o, n) \/ Push(o, n)

Server(o) == Retry(o) \/ GiveUp(o) \/ Report(o)

Next ==
    \/ Edit
    \/ ForeignPush
    \/ Prepare
    \/ \E o \in Operations : Schedule(o) \/ Server(o)
    \/ \E o \in Operations : \E n \in Attempts(o) : Steps(o, n) \/ Dies(o, n)

Spec == Init /\ [][Next]_vars

(* The server times an attempt out and retries it for as long as the policy  *)
(* lets it.  Nothing is assumed of the attempts themselves.                  *)
FairSpec == Spec /\ \A o \in Operations : WF_vars(Server(o))

-----------------------------------------------------------------------------
(* A retry adds nothing: the lookup may fail, and it and the push are not one*)
(* step, so an operation may get a second commit, but only with edits that   *)
(* were made after the first, whatever crashes, overlaps, is reset or is     *)
(* reported wrongly (lifecycle.py:219-248).                                  *)
RetriesAddNothing ==
    \A o \in Operations : \A i, j \in Keyed(remote, o) :
        i < j => remote[i].content < remote[j].content

(* Commits reach the branch for scheduled operations only and stay there,    *)
(* and "pushed" is reported of an operation whose commit is there, by this   *)
(* attempt, by one that was given up on, or by another operation's push      *)
(* (224-225, 242-248); unless prepare_workdir dropped the commit meanwhile.  *)
KeyPushes == INSTANCE KeyedPush WITH
    Keys <- Operations,
    scheduled <- {o \in Operations : current[o] # 0},
    published <- {o \in Operations : Keyed(remote, o) # {}},
    told <- {o \in Operations : result[o] = "pushed"} \ dropped
PublicationIsKeyed == KeyPushes!Spec

(* Once a commit of the clone and a commit of somebody else stand side by    *)
(* side, no operation is published from this clone until it is prepared      *)
(* again: a push never merges, rebases or drops the local commit (236-241).  *)
Diverged == ~IsPrefixOf(head, remote) /\ ~IsPrefixOf(remote, head)
DivergedIsFinal ==
    [][Diverged => Diverged' \/ head' = fetched]_vars

(* An operation's activity always comes to a result: the attempts are        *)
(* bounded, and one that hangs is timed out (pr_autofix.py:116-117).         *)
EveryPushEnds == \A o \in Operations : current[o] # 0 ~> result[o] # "none"
=============================================================================
