---------------------------- MODULE AgentStream ----------------------------
(***************************************************************************)
(* run_agent_iteration and the stream it reads: the agent prints lines,    *)
(* Docker cuts its output into frames of two streams, the socket cuts the  *)
(* frames into chunks, dispatch_into_sandbox puts the lines together again,*)
(* and _run_iteration_impl makes a plan of the last result among them.     *)
(*                                                                         *)
(* A byte is a number and a line has at most two: what kind of message it  *)
(* is, and the closing brace without which it is not JSON.  The 8 bytes of *)
(* a frame's header are two here: the stream and the size of the payload.  *)
(***************************************************************************)
EXTENDS Naturals, Sequences, SequencesExt

CONSTANTS
    Kinds,      \* the kinds of messages the agent may print
    MaxLines,   \* bound: lines it prints
    MaxErr      \* bound: frames of its standard error

ASSUME StreamBoundsAssumption == MaxLines \in Nat /\ MaxErr \in Nat

VARIABLES
    script,     \* the lines the agent prints in this iteration
    unsent,     \* bytes of them that Docker has not framed yet
    errs,       \* frames of standard error so far
    wire,       \* what Docker sent and the worker has not received
    closed,     \* the connection was closed at Docker's end
    cut,        \* it was closed before everything had been sent
    reader,     \* where dispatch_into_sandbox is
    raw,        \* its raw
    stdout_buf, \* its stdout_buf
    yielded,    \* the lines it has yielded
    final       \* final_subtype and final_text

agent == <<script, unsent, errs, wire, closed, cut>>
vars == <<agent, reader, raw, stdout_buf, yielded, final>>

-----------------------------------------------------------------------------
Newline == 0
Brace == 9
StdOut == 1
StdErr == 2
HeaderSize == 2

Message ==
    [ assistant |-> 1,      \* not a result
      fixed     |-> 2,      \* results whose text ends in a plan
      done      |-> 3,
      abnormal  |-> 4,      \* a result with an error as its subtype
      prose     |-> 5,      \* a success without a plan in its text
      scalar    |-> 6 ]     \* JSON, but not an object

ASSUME KindsAssumption == Kinds \subseteq DOMAIN Message

LineOf(kind) == <<Message[kind]>> \o (IF kind = "scalar" THEN <<>> ELSE <<Brace>>)
Printed(lines) == FlattenSeq([i \in DOMAIN lines |-> Append(LineOf(lines[i]), Newline)])
Results == {"fixed", "done", "abnormal", "prose"}
HasPlan == {"fixed", "done"}                \* their text ends in a valid FixPlan

Frame(stream, payload) == <<stream, Len(payload)>> \o payload
From(n, s) == SubSeq(s, n, Len(s))
Upto(n, s) == SubSeq(s, 1, n)

TypeOK ==
    /\ script \in BoundedSeq(Kinds, MaxLines)
    /\ IsSuffix(unsent, Printed(script))
    /\ errs \in 0..MaxErr
    /\ closed \in BOOLEAN /\ cut \in BOOLEAN
    /\ reader \in {"send", "recv", "frames", "lines", "done", "raised"}
    /\ wire \in Seq(Nat) /\ raw \in Seq(Nat) /\ stdout_buf \in Seq(Nat)
    /\ \A i \in DOMAIN yielded : yielded[i] \in Seq(Nat \ {Newline})
    /\ final \in Results \cup {"none"}

Init ==
    /\ script \in BoundedSeq(Kinds, MaxLines)
    /\ unsent = Printed(script)
    /\ errs = 0 /\ wire = <<>> /\ closed = FALSE /\ cut = FALSE
    /\ reader = "send" /\ raw = <<>> /\ stdout_buf = <<>>
    /\ yielded = <<>> /\ final = "none"

-----------------------------------------------------------------------------
(* The agent and Docker.  The agent prints once it has read the prompt.    *)
Send(frame) ==
    /\ ~closed
    /\ wire' = wire \o frame
    /\ UNCHANGED <<script, closed, cut, reader, raw, stdout_buf, yielded, final>>

Emit(n) ==
    /\ reader # "send"
    /\ n \in 1..Len(unsent)
    /\ unsent' = From(n + 1, unsent)
    /\ Send(Frame(StdOut, Upto(n, unsent)))
    /\ UNCHANGED errs

EmitErr ==
    /\ errs < MaxErr
    /\ errs' = errs + 1
    /\ Send(Frame(StdErr, Append(LineOf("done"), Newline)))
    /\ UNCHANGED unsent

Close(n) ==
    /\ wire' = Upto(n, wire)
    /\ closed' = TRUE
    /\ UNCHANGED <<script, errs, reader, raw, stdout_buf, yielded, final>>

Exit ==
    /\ ~closed
    /\ unsent = <<>>
    /\ Close(Len(wire))
    /\ UNCHANGED <<unsent, cut>>

(* The agent is killed, or the connection is closed, at any byte.          *)
Break(n) ==
    /\ ~closed
    /\ n \in 0..Len(wire)
    /\ Close(n)
    /\ unsent' = <<>>
    /\ cut' = TRUE

-----------------------------------------------------------------------------
(* dispatch_into_sandbox.                                                  *)
Goes(place) == reader' = place /\ UNCHANGED <<script, unsent, errs, closed, cut>>

SendPrompt ==
    /\ reader = "send"
    /\ Goes("recv")
    /\ UNCHANGED <<wire, raw, stdout_buf, yielded, final>>

Recv(n) ==
    /\ reader = "recv"
    /\ n \in 1..Len(wire)
    /\ raw' = raw \o Upto(n, wire)
    /\ wire' = From(n + 1, wire)
    /\ Goes("frames")
    /\ UNCHANGED <<stdout_buf, yielded, final>>

Complete == Len(raw) >= HeaderSize /\ Len(raw) >= HeaderSize + raw[2]

(* Variant of Demuxed: the streams are not told apart.                     *)
Mixed(payload) == stdout_buf \o payload
Demuxed(payload) == IF raw[1] = StdOut THEN stdout_buf \o payload ELSE stdout_buf

TakeFrame ==
    /\ reader = "frames"
    /\ Complete
    /\ LET size == HeaderSize + raw[2]
       IN  /\ stdout_buf' = Demuxed(SubSeq(raw, HeaderSize + 1, size))
           /\ raw' = From(size + 1, raw)
    /\ Goes("lines")
    /\ UNCHANGED <<wire, yielded, final>>

WaitForMore ==
    /\ reader = "frames"
    /\ ~Complete
    /\ Goes("recv")
    /\ UNCHANGED <<wire, raw, stdout_buf, yielded, final>>

KindOf(line) ==
    IF \E k \in DOMAIN Message : line = LineOf(k)
       THEN CHOOSE k \in DOMAIN Message : line = LineOf(k)
       ELSE "noise"                                        \* not JSON: skipped

(* Variants of Heard: every message counts as a result; the first one stays. *)
AnyMessage(kind) == IF kind = "noise" THEN final ELSE kind
FirstResult(kind) == IF kind \in Results /\ final = "none" THEN kind ELSE final
Heard(kind) == IF kind \in Results THEN kind ELSE final

(* What the loop of _run_iteration_impl does with a line, and where the    *)
(* reader goes after it; msg.get raises on JSON that is not an object.     *)
Consume(line, next) ==
    /\ yielded' = Append(yielded, line)
    /\ final' = Heard(KindOf(line))
    /\ Goes(IF KindOf(line) = "scalar" THEN "raised" ELSE next)

YieldLine(at) ==
    /\ reader = "lines"
    /\ at \in DOMAIN stdout_buf /\ stdout_buf[at] = Newline
    /\ \A i \in 1..at - 1 : stdout_buf[i] # Newline
    /\ Consume(Upto(at - 1, stdout_buf), "lines")
    /\ stdout_buf' = From(at + 1, stdout_buf)
    /\ UNCHANGED <<wire, raw>>

NoLineLeft ==
    /\ reader = "lines"
    /\ Newline \notin Range(stdout_buf)
    /\ Goes("frames")
    /\ UNCHANGED <<wire, raw, stdout_buf, yielded, final>>

(* Variant of AtEnd: the rest of a frame is waited for.                    *)
NothingPending == closed /\ wire = <<>> /\ raw = <<>>
AtEnd == closed /\ wire = <<>>

Finish ==
    /\ reader = "recv"
    /\ AtEnd
    /\ IF stdout_buf = <<>>
          THEN Goes("done") /\ UNCHANGED <<yielded, final>>
          ELSE Consume(stdout_buf, "done")
    /\ UNCHANGED <<wire, raw, stdout_buf>>

(* sendall, shutdown or recv raises, or the activity is cancelled in one of *)
(* them: what is in stdout_buf is not drained.                              *)
Fails ==
    /\ reader \in {"send", "recv"}
    /\ Goes("raised")
    /\ UNCHANGED <<wire, raw, stdout_buf, yielded, final>>

(* The action of the FixPlan that the iteration returns.                   *)
Plan == IF final \in HasPlan THEN final ELSE "blocked"

-----------------------------------------------------------------------------
Dispatch ==
    \/ SendPrompt
    \/ \E n \in 1..Len(wire) : Recv(n)
    \/ TakeFrame \/ WaitForMore \/ NoLineLeft \/ Finish
    \/ \E at \in DOMAIN stdout_buf : YieldLine(at)

Next ==
    \/ \E n \in 1..Len(unsent) : Emit(n)
    \/ EmitErr \/ Exit
    \/ \E n \in 0..Len(wire) : Break(n)
    \/ Dispatch \/ Fails

Spec == Init /\ [][Next]_vars

(* The activity's own steps; nothing is assumed of the agent or of Docker, *)
(* and a socket need not fail.                                             *)
FairSpec == Spec /\ WF_vars(Dispatch)

-----------------------------------------------------------------------------
Lines == [i \in DOMAIN script |-> LineOf(script[i])]

(* However frames and chunks are cut, the lines yielded are those the agent *)
(* printed, in order and without its standard error; only after a break may *)
(* the last one be part of a line, and without one none is missing at the   *)
(* end (agent_iteration.py:90-95, 139-172).                                 *)
LinesAreTheAgents ==
    IF cut /\ reader \in {"done", "raised"} /\ yielded # <<>>
       THEN /\ Len(yielded) <= Len(script)
            /\ IsPrefix(Front(yielded), Lines)
            /\ IsPrefix(Last(yielded), Lines[Len(yielded)])
       ELSE /\ IsPrefix(yielded, Lines)
            /\ reader = "done" /\ ~cut => yielded = Lines

(* The plan after the first j lines: that of the last result among them.    *)
PlanAfter(j) ==
    LET said == {i \in 1..j : script[i] \in Results}
    IN  IF said # {} /\ script[Max(said)] \in HasPlan THEN script[Max(said)] ELSE "blocked"

(* The plan an iteration returns is the agent's last word: never one that   *)
(* it corrected later, one put together of two lines, or one of a line that *)
(* did not arrive whole; a break may only hide the lines at the end, and a  *)
(* line that is no object lets no plan be returned                          *)
(* (agent_iteration.py:201-228).                                            *)
PlanIsTheAgents ==
    reader = "done" =>
        \E j \in 0..Len(script) :
           /\ ~cut => j = Len(script)
           /\ Plan = PlanAfter(j)
           /\ "scalar" \notin Range(Upto(j, script))

(* When the connection is closed, in the middle of a frame or not, the      *)
(* iteration ends (agent_iteration.py:140-142).                             *)
EndIsNoticed == closed ~> reader \in {"done", "raised"}
=============================================================================
