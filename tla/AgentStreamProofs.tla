------------------------- MODULE AgentStreamProofs -------------------------
(***************************************************************************)
(* However the agent's output is cut into frames and chunks, the lines and *)
(* the plan of an iteration are the agent's.  The inductive invariant says *)
(* that what is between Docker and the reader is a sequence of frames, and *)
(* that the text of the frames goes on where the lines yielded ended.      *)
(***************************************************************************)
EXTENDS AgentStream, SequenceLemmas

Bytes == Seq(Nat)
Working == reader \in {"send", "recv", "frames", "lines"}

(* The frames Docker makes, and what each is on the wire and in the text.  *)
Pieces == {StdOut, StdErr} \X Bytes
FrameBytes == [f \in Pieces |-> Frame(f[1], f[2])]
FrameText == [f \in Pieces |-> IF f[1] = StdOut THEN f[2] ELSE <<>>]
LineBytes == [k \in Kinds |-> Append(LineOf(k), Newline)]

TypeInv ==
    /\ TypeOK
    /\ unsent \in Bytes
    /\ yielded \in Seq(Seq(Nat \ {Newline}))
    /\ cut => closed
    /\ closed => unsent = <<>>
    /\ reader = "done" => closed
    /\ reader \in {"send", "recv", "frames"} => Newline \notin Range(stdout_buf)
    /\ reader \in {"send", "recv"} => ~Complete

(* The bytes on the way are frames, of which a break lost the end; the text *)
(* of the frames goes on where the lines yielded ended.                     *)
OnTheWay(fs, lost, more) ==
    /\ (raw \o wire) \o lost = FlatMap(FrameBytes, fs)
    /\ (stdout_buf \o FlatMap(FrameText, fs)) \o more
          = Printed(From(Len(yielded) + 1, script))
    /\ ~cut => lost = <<>> /\ more = unsent
StreamInv ==
    Working => \E fs \in Seq(Pieces), lost, more \in Bytes : OnTheWay(fs, lost, more)

Whole(y, q) ==
    /\ Len(y) <= Len(q)
    /\ \A i \in 1..Len(y) : y[i] = LineOf(q[i])
WholeLines == Whole(yielded, script)
LinesInv ==
    /\ Working \/ (reader = "raised" /\ ~cut) => WholeLines
    /\ LinesAreTheAgents

PlanInv ==
    /\ Working =>
          /\ Plan = PlanAfter(Len(yielded))
          /\ \A i \in 1..Len(yielded) : script[i] # "scalar"
    /\ PlanIsTheAgents

IInv == TypeInv /\ StreamInv /\ LinesInv /\ PlanInv

-----------------------------------------------------------------------------
(* The lines.                                                              *)
LEMMA LineShape ==
  ASSUME NEW k \in DOMAIN Message
  PROVE  /\ Message[k] \in Nat \ {Newline, Brace}
         /\ LineOf(k) = IF k = "scalar" THEN <<Message[k]>> ELSE <<Message[k], Brace>>
         /\ LineOf(k) \in Seq(Nat \ {Newline}) /\ LineOf(k) \in Bytes
         /\ \A i \in 1..Len(LineOf(k)) : LineOf(k)[i] # Newline
<1>1. Message[k] \in Nat \ {Newline, Brace}
  BY DEF Message, Newline, Brace
<1> DEFINE x == Message[k]
<1> HIDE DEF x
<1>2. x \in Nat \ {Newline, Brace}
  BY <1>1 DEF x
<1>3. CASE k = "scalar"
  <2>1. LineOf(k) = <<x>> \o <<>>
    BY <1>3 DEF LineOf, x
  <2>2. <<x>> \in Seq(Nat \ {Newline}) /\ Len(<<x>>) = 1 /\ <<x>>[1] = x
    BY <1>2
  <2>3. LineOf(k) = <<x>>
    BY <2>1, <2>2, ConcatEmptySeq
  <2> HIDE DEF LineOf
  <2>4. LineOf(k) \in Bytes
    BY <2>2, <2>3, SeqMonotonic DEF Bytes
  <2>5. \A i \in 1..Len(LineOf(k)) : LineOf(k)[i] # Newline
    BY <2>2, <2>3, ElementOfSeq
  <2> QED
    BY <1>1, <1>3, <2>2, <2>3, <2>4, <2>5 DEF x
<1>4. CASE k # "scalar"
  <2>1. LineOf(k) = <<x>> \o <<Brace>>
    BY <1>4 DEF LineOf, x
  <2>2. <<x>> \o <<Brace>> = <<x, Brace>>
    <3>1. /\ <<x>> \in Seq({x, Brace}) /\ <<Brace>> \in Seq({x, Brace})
          /\ Len(<<x>>) = 1 /\ Len(<<Brace>>) = 1 /\ <<x>>[1] = x /\ <<Brace>>[1] = Brace
      OBVIOUS
    <3>2. /\ <<x, Brace>> \in Seq({x, Brace}) /\ Len(<<x, Brace>>) = 2
          /\ <<x, Brace>>[1] = x /\ <<x, Brace>>[2] = Brace
      OBVIOUS
    <3> DEFINE u == <<x>> \o <<Brace>>
    <3>3. u \in Seq({x, Brace}) /\ Len(u) = 2 /\ u[1] = x /\ u[2] = Brace
      BY <3>1, ConcatProperties
    <3> HIDE DEF u
    <3>4. u = <<x, Brace>>
      BY <3>2, <3>3, SeqEqual
    <3> QED
      BY <3>4 DEF u
  <2>3. <<x, Brace>> \in Seq(Nat \ {Newline})
    BY <1>2 DEF Brace, Newline
  <2>4. LineOf(k) = <<x, Brace>>
    BY <2>1, <2>2
  <2> HIDE DEF LineOf
  <2>5. LineOf(k) \in Bytes
    BY <2>3, <2>4, SeqMonotonic DEF Bytes
  <2>6. \A i \in 1..Len(LineOf(k)) : LineOf(k)[i] # Newline
    BY <2>3, <2>4, ElementOfSeq
  <2> QED
    BY <1>1, <1>4, <2>3, <2>4, <2>5, <2>6 DEF x
<1> QED
  BY <1>3, <1>4

LEMMA LinesDiffer ==
  ASSUME NEW k \in DOMAIN Message, NEW m \in DOMAIN Message
  PROVE  /\ Message[k] = Message[m] => k = m
         /\ LineOf(k)[1] = Message[k]
         /\ Len(LineOf(k)) = IF k = "scalar" THEN 1 ELSE 2
         /\ LineOf(k) = LineOf(m) => k = m
<1>1. Message[k] = Message[m] => k = m
  BY DEF Message
<1>2. /\ LineOf(k)[1] = Message[k] /\ LineOf(m)[1] = Message[m]
      /\ Len(LineOf(k)) = IF k = "scalar" THEN 1 ELSE 2
  BY LineShape
<1> QED
  BY <1>1, <1>2

LEMMA KindOfLine ==
  ASSUME NEW k \in DOMAIN Message
  PROVE  KindOf(LineOf(k)) = k
<1>1. \A m \in DOMAIN Message : LineOf(k) = LineOf(m) => m = k
  BY LinesDiffer
<1> DEFINE c == CHOOSE m \in DOMAIN Message : LineOf(k) = LineOf(m)
<1>2. c = k
  BY <1>1
<1>3. KindOf(LineOf(k)) = c
  BY DEF KindOf
<1> QED
  BY <1>2, <1>3

(* A line that was cut says nothing.                                       *)
LEMMA KindOfPart ==
  ASSUME NEW k \in DOMAIN Message, NEW line \in Bytes, line # <<>>,
         Len(line) <= Len(LineOf(k)), \A i \in 1..Len(line) : line[i] = LineOf(k)[i],
         line # LineOf(k)
  PROVE  KindOf(line) = "noise" /\ k # "scalar"
<1>1. LineOf(k) \in Bytes /\ Len(line) \in Nat \ {0}
  BY LineShape, EmptySeq DEF Bytes
<1>2. Len(line) # Len(LineOf(k))
  BY <1>1, SeqEqual DEF Bytes
<1>3. k # "scalar" /\ Len(line) = 1
  <2>1. Len(LineOf(k)) = IF k = "scalar" THEN 1 ELSE 2
    BY LinesDiffer
  <2> DEFINE n == Len(LineOf(k))
  <2> HIDE DEF n
  <2>2. (IF k = "scalar" THEN n = 1 ELSE n = 2) /\ Len(line) <= n /\ Len(line) # n
    BY <1>2, <2>1 DEF n
  <2>3. PICK j \in Nat \ {0} : j = Len(line)
    BY <1>1
  <2>4. (IF k = "scalar" THEN n = 1 ELSE n = 2) /\ j <= n /\ j # n
    BY <2>2, <2>3
  <2>5. n = 1 \/ n = 2
    BY <2>4
  <2>6. n = 2 /\ j = 1
    BY <2>4, <2>5
  <2> QED
    BY <2>3, <2>4, <2>6
<1>4. line[1] = Message[k]
  BY <1>3, LinesDiffer
<1>5. ASSUME NEW m \in DOMAIN Message, line = LineOf(m) PROVE FALSE
  <2>1. Message[k] = Message[m] /\ m = "scalar"
    BY <1>3, <1>4, <1>5, LinesDiffer
  <2> QED
    BY <1>3, <2>1, LinesDiffer
<1> QED
  BY <1>3, <1>5 DEF KindOf

LEMMA KindsAreMessages == Kinds \subseteq DOMAIN Message
BY KindsAssumption DEF KindsAssumption

LEMMA PrintedIsMap ==
  ASSUME NEW q \in Seq(Kinds)
  PROVE  /\ LineBytes \in [Kinds -> Bytes]
         /\ Printed(q) = FlatMap(LineBytes, q)
         /\ Printed(q) \in Bytes
<1>1. ASSUME NEW k \in Kinds PROVE Append(LineOf(k), Newline) \in Bytes
  BY KindsAreMessages, LineShape, AppendProperties DEF Bytes, Newline
<1>2. LineBytes \in [Kinds -> Bytes]
  BY <1>1 DEF LineBytes
<1>3. \A i \in DOMAIN q : q[i] \in Kinds
  BY LenProperties, ElementOfSeq
<1>4. [i \in DOMAIN q |-> Append(LineOf(q[i]), Newline)] = Mapped(LineBytes, q)
  BY <1>3 DEF LineBytes, Mapped
<1>5. Printed(q) = FlatMap(LineBytes, q)
  BY <1>4 DEF Printed, FlatMap
<1>6. FlatMap(LineBytes, q) \in Bytes
  BY <1>2, FlatMapType DEF Bytes
<1> QED
  BY <1>2, <1>5, <1>6

LEMMA PiecesMap ==
  /\ FrameBytes \in [Pieces -> Bytes] /\ FrameText \in [Pieces -> Bytes]
<1>1. ASSUME NEW f \in Pieces PROVE Frame(f[1], f[2]) \in Bytes
  <2>1. f[1] \in Nat /\ f[2] \in Bytes /\ Len(f[2]) \in Nat
    BY LenProperties DEF Pieces, Bytes, StdOut, StdErr
  <2>2. <<f[1], Len(f[2])>> \in Seq(Nat)
    BY <2>1
  <2> QED
    BY <2>1, <2>2, ConcatProperties DEF Frame, Bytes
<1>2. ASSUME NEW f \in Pieces PROVE (IF f[1] = StdOut THEN f[2] ELSE <<>>) \in Bytes
  BY DEF Pieces, Bytes
<1> QED
  BY <1>1, <1>2 DEF FrameBytes, FrameText

LEMMA ScriptType ==
  ASSUME TypeOK
  PROVE  script \in Seq(Kinds) /\ Len(script) \in Nat /\ Printed(script) \in Bytes
<1>1. PICK m \in 0..MaxLines : script \in [1..m -> Kinds]
  BY DEF TypeOK, BoundedSeq, SeqOf
<1>2. m \in Nat
  BY <1>1, StreamBoundsAssumption DEF StreamBoundsAssumption
<1>3. script \in Seq(Kinds)
  BY <1>1, <1>2, SeqDef
<1> QED
  BY <1>3, PrintedIsMap, LenProperties

(* What is left to read and what was read.                                 *)
LEMMA CutBytes ==
  ASSUME NEW s \in Bytes, NEW n \in 0..Len(s)
  PROVE  /\ Upto(n, s) \in Bytes /\ Len(Upto(n, s)) = n
         /\ From(n + 1, s) \in Bytes /\ Len(From(n + 1, s)) = Len(s) - n
         /\ Upto(n, s) \o From(n + 1, s) = s
         /\ \A i \in 1..n : Upto(n, s)[i] = s[i]
         /\ \A i \in 1..Len(s) - n : From(n + 1, s)[i] = s[n + i]
BY CutProperties DEF Bytes, Upto, From

LEMMA TwoParts ==
  ASSUME NEW s \in Bytes, NEW n \in 0..Len(s)
  PROVE  \E u, v \in Bytes : u = Upto(n, s) /\ v = From(n + 1, s) /\ u \o v = s
<1>1. Upto(n, s) \in Bytes /\ From(n + 1, s) \in Bytes /\ Upto(n, s) \o From(n + 1, s) = s
  BY CutBytes
<1> QED
  BY <1>1

(* Concatenations of bytes.                                                *)
LEMMA Glue ==
  ASSUME NEW s \in Bytes, NEW t \in Bytes
  PROVE  \E w \in Bytes : w = s \o t
<1>1. s \o t \in Bytes
  BY ConcatProperties DEF Bytes
<1> QED
  BY <1>1

LEMMA GlueThree ==
  ASSUME NEW s \in Bytes, NEW t \in Bytes, NEW u \in Bytes
  PROVE  Moves(s, t, u)
BY MovesSeq DEF Bytes

Regroups(s, t, u, v) == (s \o (t \o u)) \o v = (s \o t) \o (u \o v)
LEMMA GlueFour ==
  ASSUME NEW s \in Bytes, NEW t \in Bytes, NEW u \in Bytes, NEW v \in Bytes
  PROVE  Regroups(s, t, u, v)
<1>1. PICK w \in Bytes : w = s \o t
  BY Glue
<1>2. Moves(s, t, u)
  BY GlueThree
<1>3. Moves(w, u, v)
  BY GlueThree
<1> QED
  BY <1>1, <1>2, <1>3 DEF Moves, Regroups

Unwraps(s, t, u, v) == ((s \o t) \o u) \o v = s \o ((t \o u) \o v)
LEMMA GlueOut ==
  ASSUME NEW s \in Bytes, NEW t \in Bytes, NEW u \in Bytes, NEW v \in Bytes
  PROVE  Unwraps(s, t, u, v)
<1>1. PICK w \in Bytes : w = t \o u
  BY Glue
<1>2. Moves(s, t, u)
  BY GlueThree
<1>3. Moves(s, w, v)
  BY GlueThree
<1> QED
  BY <1>1, <1>2, <1>3 DEF Moves, Unwraps

LEMMA Joined ==
  ASSUME NEW s \in Bytes, NEW t \in Bytes
  PROVE  \E x \in Bytes : IsJoined(x, s, t)
BY JoinedSeq DEF Bytes

LEMMA JoinedLength ==
  ASSUME NEW s \in Bytes, NEW t \in Bytes
  PROVE  \E x \in Bytes : x = s \o t /\ Len(x) = Len(s) + Len(t)
<1>1. PICK x \in Bytes : IsJoined(x, s, t)
  BY Joined
<1> QED
  BY <1>1 DEF IsJoined

-----------------------------------------------------------------------------
(* Types, and where the reader is.                                         *)
LEMMA InitType == Init => TypeInv
<1> SUFFICES ASSUME Init PROVE TypeInv
  OBVIOUS
<1>1. script \in Seq(Kinds) /\ Printed(script) \in Bytes
  <2>1. PICK m \in 0..MaxLines : script \in [1..m -> Kinds]
    BY DEF Init, BoundedSeq, SeqOf
  <2>2. m \in Nat
    BY <2>1, StreamBoundsAssumption DEF StreamBoundsAssumption
  <2>3. script \in Seq(Kinds)
    BY <2>1, <2>2, SeqDef
  <2> QED
    BY <2>3, PrintedIsMap
<1>2. IsSuffix(unsent, Printed(script)) /\ unsent \in Bytes
  <2>1. unsent = Printed(script)
    BY DEF Init
  <2>2. \A i \in 1..Len(unsent) : unsent[i] = unsent[(Len(unsent) - Len(unsent)) + i]
    <3>1. Len(unsent) \in Nat
      BY <1>1, <2>1, LenProperties DEF Bytes
    <3> QED
      BY <3>1
  <2> QED
    BY <1>1, <2>1, <2>2, SuffixPointwise, LenProperties DEF Bytes
<1>3. /\ errs \in 0..MaxErr /\ Newline \notin Range(stdout_buf) /\ ~Complete
      /\ wire \in Seq(Nat) /\ raw \in Seq(Nat) /\ stdout_buf \in Seq(Nat)
      /\ yielded \in Seq(Seq(Nat \ {Newline})) /\ \A i \in DOMAIN yielded : yielded[i] \in Seq(Nat \ {Newline})
  BY StreamBoundsAssumption
     DEF Init, StreamBoundsAssumption, Range, Complete, HeaderSize
<1> QED
  BY <1>2, <1>3 DEF Init, TypeInv, TypeOK

LEMMA AgentType ==
  ASSUME TypeInv,
         \/ \E n \in 1..Len(unsent) : Emit(n)
         \/ EmitErr \/ Exit
         \/ \E n \in 0..Len(wire) : Break(n)
  PROVE  TypeInv'
<1>t. /\ TypeOK /\ unsent \in Bytes /\ wire \in Bytes /\ raw \in Bytes
      /\ Len(unsent) \in Nat /\ Len(wire) \in Nat
      /\ Printed(script) \in Bytes /\ IsSuffix(unsent, Printed(script))
  BY ScriptType, LenProperties DEF TypeInv, TypeOK, Bytes
<1>s. UNCHANGED <<script, reader, raw, stdout_buf, yielded, final>>
  BY DEF Emit, EmitErr, Exit, Break, Send, Close
<1>c. Complete' = Complete /\ Printed(script)' = Printed(script)
  BY <1>s DEF Complete
<1>f. ASSUME NEW s \in {StdOut, StdErr}, NEW p \in Bytes PROVE Frame(s, p) \in Bytes
  <2>1. <<s, p>> \in Pieces
    BY DEF Pieces
  <2>2. FrameBytes[<<s, p>>] = Frame(s, p)
    BY <2>1 DEF FrameBytes
  <2> QED
    BY <2>1, <2>2, PiecesMap
<1>g. ASSUME unsent' \in Bytes, IsSuffix(unsent', Printed(script)), wire' \in Bytes,
             errs' \in 0..MaxErr, closed' \in BOOLEAN, cut' \in BOOLEAN,
             cut' => closed', closed' => unsent' = <<>>, closed => closed'
      PROVE  TypeInv'
  BY <1>s, <1>c, <1>g DEF TypeInv, TypeOK, Bytes
<1>1. CASE \E n \in 1..Len(unsent) : Emit(n)
  <2>1. PICK n \in 1..Len(unsent) : Emit(n)
    BY <1>1
  <2>2. n \in 0..Len(unsent) /\ n \in Nat
    BY <1>t
  <2>3. /\ unsent' = From(n + 1, unsent) /\ wire' = wire \o Frame(StdOut, Upto(n, unsent))
        /\ ~closed /\ UNCHANGED <<errs, closed, cut>>
    BY <2>1 DEF Emit, Send
  <2>4. unsent' \in Bytes /\ Upto(n, unsent) \in Bytes
    BY <1>t, <2>2, <2>3, CutBytes
  <2>5. IsSuffix(unsent', Printed(script))
    BY <1>t, <2>2, <2>3, SuffixCut DEF Bytes, From
  <2>6. wire' \in Bytes
    BY <1>t, <1>f, <2>3, <2>4, ConcatProperties DEF Bytes
  <2> QED
    BY <1>g, <1>t, <2>3, <2>4, <2>5, <2>6 DEF TypeInv, TypeOK
<1>2. CASE EmitErr
  <2>1. /\ wire' = wire \o Frame(StdErr, Append(LineOf("done"), Newline))
        /\ ~closed /\ UNCHANGED <<unsent, closed, cut>>
        /\ errs < MaxErr /\ errs' = errs + 1
    BY <1>2 DEF EmitErr, Send
  <2>2. Append(LineOf("done"), Newline) \in Bytes
    <3>1. "done" \in DOMAIN Message
      BY DEF Message
    <3> QED
      BY <3>1, LineShape, AppendProperties DEF Bytes, Newline
  <2>3. wire' \in Bytes
    BY <1>t, <1>f, <2>1, <2>2, ConcatProperties DEF Bytes
  <2>4. errs' \in 0..MaxErr
    BY <1>t, <2>1, StreamBoundsAssumption DEF TypeOK, StreamBoundsAssumption
  <2> QED
    BY <1>g, <1>t, <2>1, <2>3, <2>4 DEF TypeInv, TypeOK
<1>3. ASSUME Exit \/ \E n \in 0..Len(wire) : Break(n) PROVE TypeInv'
  <2>1. PICK n \in 0..Len(wire) : Close(n)
    BY <1>t, <1>3 DEF Exit, Break
  <2>2. wire' \in Bytes /\ closed' = TRUE /\ UNCHANGED errs
    BY <1>t, <2>1, CutBytes DEF Close
  <2>3. unsent' = <<>> /\ cut' \in BOOLEAN
    BY <1>t, <1>3 DEF Exit, Break, TypeOK
  <2>4. IsSuffix(<<>>, Printed(script)) /\ <<>> \in Bytes
    <3>1. Len(Printed(script)) \in Nat /\ <<>> \in Bytes
      BY <1>t, LenProperties DEF Bytes
    <3>2. Len(<<>>) <= Len(Printed(script)) /\ 1..Len(<<>>) = {}
      BY <3>1
    <3> QED
      BY <1>t, <3>1, <3>2, SuffixPointwise DEF Bytes
  <2> QED
    BY <1>g, <1>t, <2>2, <2>3, <2>4 DEF TypeOK
<1> QED
  BY <1>1, <1>2, <1>3

(* A line is yielded: the piece of the buffer before its first newline.    *)
LEMMA FirstLine ==
  ASSUME TypeInv, NEW at, YieldLine(at)
  PROVE  LET line == Upto(at - 1, stdout_buf)
             left == From(at + 1, stdout_buf)
         IN  /\ line \in Seq(Nat \ {Newline}) /\ line \in Bytes /\ left \in Bytes
             /\ stdout_buf = (line \o <<Newline>>) \o left
             /\ \A i \in 1..Len(line) : line[i] # Newline
<1> DEFINE line == Upto(at - 1, stdout_buf)
<1> DEFINE rest == From(at, stdout_buf)
<1> DEFINE left == From(at + 1, stdout_buf)
<1>1. /\ stdout_buf \in Bytes /\ Len(stdout_buf) \in Nat
      /\ at \in 1..Len(stdout_buf) /\ stdout_buf[at] = Newline
      /\ \A i \in 1..at - 1 : stdout_buf[i] # Newline
  BY LenProperties DEF TypeInv, TypeOK, Bytes, YieldLine
<1>2. /\ at - 1 \in 0..Len(stdout_buf) /\ at \in 0..Len(stdout_buf)
      /\ (at - 1) + 1 = at /\ at \in Nat
  BY <1>1
<1>3. /\ line \in Bytes /\ Len(line) = at - 1
      /\ stdout_buf = line \o rest /\ rest \in Bytes
      /\ \A i \in 1..at - 1 : line[i] = stdout_buf[i]
  <2> HIDE DEF line, rest
  <2>1. rest = From((at - 1) + 1, stdout_buf)
    BY <1>2 DEF rest
  <2> QED
    BY <1>1, <1>2, <2>1, CutBytes DEF line
<1>4. left \in Bytes
  BY <1>1, <1>2, CutBytes
<1>5. rest = <<Newline>> \o left
  <2>1. at \in at..Len(stdout_buf)
    BY <1>1
  <2>2. Len(stdout_buf) \in at..Len(stdout_buf)
    BY <1>1
  <2> QED
    BY <1>1, <2>2, SubSeqRecursiveFirst DEF Bytes, From
<1>6. \A i \in 1..Len(line) : line[i] # Newline
  BY <1>1, <1>3
<1>7. line \in Seq(Nat \ {Newline})
  <2>1. Len(line) \in Nat /\ line \in [1..Len(line) -> Nat]
    BY <1>3, LenProperties DEF Bytes
  <2>2. line \in [1..Len(line) -> Nat \ {Newline}]
    BY <1>6, <2>1
  <2> QED
    BY <2>1, <2>2, SeqDef
<1>8. stdout_buf = (line \o <<Newline>>) \o left
  <2> HIDE DEF line, left, rest
  <2>1. <<Newline>> \in Bytes
    BY DEF Newline, Bytes
  <2>2. Moves(line, <<Newline>>, left)
    BY <1>3, <1>4, <2>1, GlueThree
  <2>3. stdout_buf = line \o (<<Newline>> \o left)
    BY <1>3, <1>5
  <2> QED
    BY <2>2, <2>3 DEF Moves
<1> QED
  BY <1>3, <1>4, <1>6, <1>7, <1>8

(* The buffer without a newline is a line once everything was received.    *)
LEMMA RestOfBuffer ==
  ASSUME TypeInv, reader = "recv"
  PROVE  /\ stdout_buf \in Seq(Nat \ {Newline})
         /\ \A i \in 1..Len(stdout_buf) : stdout_buf[i] # Newline
<1>1. /\ stdout_buf \in Seq(Nat) /\ Len(stdout_buf) \in Nat
      /\ stdout_buf \in [1..Len(stdout_buf) -> Nat]
  BY LenProperties DEF TypeInv, TypeOK
<1>2. \A i \in 1..Len(stdout_buf) : stdout_buf[i] # Newline
  BY <1>1 DEF TypeInv, Range
<1>3. stdout_buf \in [1..Len(stdout_buf) -> Nat \ {Newline}]
  BY <1>1, <1>2
<1> QED
  BY <1>1, <1>2, <1>3, SeqDef

(* A frame is whole in raw: what is taken of it, and what stays.           *)
LEMMA FirstFrame ==
  ASSUME TypeInv, Complete
  PROVE  LET size == HeaderSize + raw[2]
             payload == SubSeq(raw, HeaderSize + 1, size)
             left == From(size + 1, raw)
         IN  /\ payload \in Bytes /\ Len(payload) = raw[2]
             /\ left \in Bytes /\ size \in 0..Len(raw)
             /\ \A i \in 1..raw[2] : payload[i] = raw[HeaderSize + i]
<1>1. raw \in Bytes /\ Len(raw) \in Nat /\ \A i \in 1..Len(raw) : raw[i] \in Nat
  BY LenProperties, ElementOfSeq DEF TypeInv, TypeOK, Bytes
<1>2. Len(raw) >= 2 /\ raw[2] \in Nat /\ Len(raw) >= 2 + raw[2]
  BY <1>1 DEF Complete, HeaderSize
<1> DEFINE size == HeaderSize + raw[2]
<1>3. size \in 0..Len(raw) /\ size = 2 + raw[2]
  BY <1>1, <1>2 DEF HeaderSize
<1>4. From(size + 1, raw) \in Bytes
  BY <1>1, <1>3, CutBytes
<1> HIDE DEF size
<1> DEFINE payload == SubSeq(raw, 3, size)
<1>5. /\ payload \in Bytes /\ Len(payload) = IF 3 <= size THEN (size - 3) + 1 ELSE 0
      /\ \A i \in 1..(size - 3) + 1 : payload[i] = raw[(3 + i) - 1]
  <2>1. \A i \in 3..size : raw[i] \in Nat
    BY <1>1, <1>3
  <2> QED
    BY <1>3, <2>1, SubSeqProperties DEF Bytes
<1> HIDE DEF payload
<1>6. Len(payload) = raw[2] /\ \A i \in 1..raw[2] : payload[i] = raw[2 + i]
  <2>1. Len(payload) = raw[2]
    BY <1>2, <1>3, <1>5
  <2>2. ASSUME NEW i \in 1..raw[2] PROVE payload[i] = raw[2 + i]
    <3>1. i \in 1..(size - 3) + 1 /\ (3 + i) - 1 = 2 + i
      BY <1>2, <1>3
    <3> QED
      BY <1>5, <3>1
  <2> QED
    BY <2>1, <2>2
<1>7. HeaderSize = 2 /\ HeaderSize + 1 = 3
  BY DEF HeaderSize
<1> QED
  BY <1>3, <1>4, <1>5, <1>6, <1>7 DEF size, payload

LEMMA ReaderType ==
  ASSUME TypeInv, Dispatch \/ Fails
  PROVE  TypeInv'
<1>t. /\ TypeOK /\ wire \in Bytes /\ raw \in Bytes /\ stdout_buf \in Bytes
      /\ Len(wire) \in Nat /\ yielded \in Seq(Seq(Nat \ {Newline}))
      /\ reader \in {"send", "recv", "frames", "lines", "done", "raised"}
  BY LenProperties DEF TypeInv, TypeOK, Bytes
<1>s. UNCHANGED <<script, unsent, errs, closed, cut>>
  BY DEF Dispatch, SendPrompt, Recv, TakeFrame, WaitForMore, NoLineLeft, Finish, YieldLine,
         Fails, Consume, Goes
<1>p. Printed(script)' = Printed(script)
  BY <1>s
<1>g. ASSUME wire' \in Bytes, raw' \in Bytes, stdout_buf' \in Bytes,
             reader' \in {"recv", "frames", "lines", "done", "raised"},
             yielded' \in Seq(Seq(Nat \ {Newline})), final' \in Results \cup {"none"},
             reader' = "done" => closed,
             reader' \in {"send", "recv", "frames"} => Newline \notin Range(stdout_buf'),
             reader' \in {"send", "recv"} => ~Complete'
      PROVE  TypeInv'
  <2>1. \A i \in DOMAIN yielded' : yielded'[i] \in Seq(Nat \ {Newline})
    BY <1>g, LenProperties, ElementOfSeq
  <2> QED
    BY <1>g, <1>s, <1>p, <2>1 DEF TypeInv, TypeOK, Bytes
<1>c. ASSUME NEW line \in Seq(Nat \ {Newline}), NEW place, Consume(line, place)
      PROVE  /\ yielded' \in Seq(Seq(Nat \ {Newline})) /\ final' \in Results \cup {"none"}
             /\ reader' \in {"raised", place}
  <2>1. yielded' = Append(yielded, line) /\ final' = Heard(KindOf(line))
    BY <1>c DEF Consume
  <2>2. Heard(KindOf(line)) \in Results \cup {"none"}
    BY <1>t DEF Heard, TypeOK
  <2>3. reader' \in {"raised", place}
    BY <1>c DEF Consume, Goes
  <2> QED
    BY <1>t, <2>1, <2>2, <2>3, AppendProperties
<1>1. CASE \E n \in 1..Len(wire) : Recv(n)
  <2>1. PICK n \in 1..Len(wire) : Recv(n)
    BY <1>1
  <2>2. n \in 0..Len(wire)
    BY <1>t
  <2>3. Upto(n, wire) \in Bytes /\ From(n + 1, wire) \in Bytes
    BY <1>t, <2>2, CutBytes
  <2>4. wire' \in Bytes /\ raw' \in Bytes
    BY <1>t, <2>1, <2>3, ConcatProperties DEF Recv, Bytes
  <2>5. reader = "recv" /\ reader' = "frames" /\ UNCHANGED <<stdout_buf, yielded, final>>
    BY <2>1 DEF Recv, Goes
  <2> QED
    BY <1>g, <1>t, <2>4, <2>5 DEF TypeInv, TypeOK
<1>2. CASE TakeFrame
  <2> DEFINE size == HeaderSize + raw[2]
  <2> DEFINE payload == SubSeq(raw, HeaderSize + 1, size)
  <2>1. payload \in Bytes /\ From(size + 1, raw) \in Bytes
    BY <1>2, FirstFrame DEF TakeFrame
  <2>2. /\ stdout_buf' = Demuxed(payload) /\ raw' = From(size + 1, raw)
        /\ reader' = "lines" /\ UNCHANGED <<wire, yielded, final>>
    BY <1>2 DEF TakeFrame, Goes
  <2> HIDE DEF payload, size
  <2>3. stdout_buf' \in Bytes
    BY <1>t, <2>1, <2>2, ConcatProperties DEF Demuxed, Bytes
  <2> QED
    BY <1>g, <1>t, <2>1, <2>2, <2>3 DEF TypeOK
<1>3. CASE WaitForMore
  <2>1. /\ reader = "frames" /\ reader' = "recv" /\ ~Complete
        /\ UNCHANGED <<wire, raw, stdout_buf, yielded, final>>
    BY <1>3 DEF WaitForMore, Goes
  <2>2. ~Complete'
    BY <2>1 DEF Complete
  <2> QED
    BY <1>g, <1>t, <2>1, <2>2 DEF TypeInv, TypeOK
<1>4. CASE NoLineLeft
  <2>1. /\ reader' = "frames" /\ Newline \notin Range(stdout_buf)
        /\ UNCHANGED <<wire, raw, stdout_buf, yielded, final>>
    BY <1>4 DEF NoLineLeft, Goes
  <2> QED
    BY <1>g, <1>t, <2>1 DEF TypeInv, TypeOK
<1>5. CASE \E at \in DOMAIN stdout_buf : YieldLine(at)
  <2>1. PICK at : YieldLine(at)
    BY <1>5
  <2> DEFINE line == Upto(at - 1, stdout_buf)
  <2> DEFINE left == From(at + 1, stdout_buf)
  <2>2. line \in Seq(Nat \ {Newline}) /\ left \in Bytes
    BY <2>1, FirstLine
  <2>3. Consume(line, "lines") /\ stdout_buf' = left /\ UNCHANGED <<wire, raw>>
    BY <2>1 DEF YieldLine
  <2> HIDE DEF line, left
  <2>4. /\ yielded' \in Seq(Seq(Nat \ {Newline})) /\ final' \in Results \cup {"none"}
        /\ reader' \in {"raised", "lines"}
    BY <1>c, <2>2, <2>3
  <2> QED
    BY <1>g, <1>t, <2>2, <2>3, <2>4
<1>6. CASE Finish
  <2>1. reader = "recv" /\ closed /\ UNCHANGED <<wire, raw, stdout_buf>>
    BY <1>6 DEF Finish, AtEnd
  <2>2. CASE stdout_buf = <<>>
    <3>1. reader' = "done" /\ UNCHANGED <<yielded, final>>
      BY <1>6, <2>2 DEF Finish, Goes
    <3> QED
      BY <1>g, <1>t, <2>1, <3>1 DEF TypeOK
  <2>3. CASE stdout_buf # <<>>
    <3>1. Consume(stdout_buf, "done")
      BY <1>6, <2>3 DEF Finish
    <3>2. /\ yielded' \in Seq(Seq(Nat \ {Newline})) /\ final' \in Results \cup {"none"}
          /\ reader' \in {"raised", "done"}
      BY <1>c, <2>1, <3>1, RestOfBuffer
    <3> QED
      BY <1>g, <1>t, <2>1, <3>2
  <2> QED
    BY <2>2, <2>3
<1>7. CASE SendPrompt
  <2>1. /\ reader = "send" /\ reader' = "recv"
        /\ UNCHANGED <<wire, raw, stdout_buf, yielded, final>>
    BY <1>7 DEF SendPrompt, Goes
  <2>2. ~Complete /\ Complete' = Complete /\ Newline \notin Range(stdout_buf)
    BY <2>1 DEF TypeInv, Complete
  <2> QED
    BY <1>g, <1>t, <2>1, <2>2 DEF TypeOK
<1>8. CASE Fails
  <2>1. reader' = "raised" /\ UNCHANGED <<wire, raw, stdout_buf, yielded, final>>
    BY <1>8 DEF Fails, Goes
  <2> QED
    BY <1>g, <1>t, <2>1 DEF TypeOK
<1> QED
  BY <1>1, <1>2, <1>3, <1>4, <1>5, <1>6, <1>7, <1>8 DEF Dispatch

LEMMA NextType == TypeInv /\ [Next]_vars => TypeInv'
<1>1. TypeInv /\ UNCHANGED vars => TypeInv'
  BY DEF vars, agent, TypeInv, TypeOK, Complete
<1> QED
  BY <1>1, AgentType, ReaderType DEF Next

-----------------------------------------------------------------------------
(* What is on the way.                                                     *)
LEMMA LinesCons ==
  ASSUME NEW F \in [Kinds -> Bytes], NEW k \in Kinds, NEW q \in Seq(Kinds)
  PROVE  MapsCons(F, k, q)
BY FlatMapCons DEF Bytes

LEMMA RestPrinted ==
  ASSUME TypeOK, NEW k \in 0..Len(script)
  PROVE  /\ Printed(From(k + 1, script)) \in Bytes
         /\ k = Len(script) => Printed(From(k + 1, script)) = <<>>
         /\ k < Len(script) =>
              /\ k + 1 \in 1..Len(script) /\ script[k + 1] \in Kinds
              /\ Printed(From((k + 1) + 1, script)) \in Bytes
              /\ Printed(From(k + 1, script))
                   = (LineOf(script[k + 1]) \o <<Newline>>) \o Printed(From((k + 1) + 1, script))
<1>1. /\ script \in Seq(Kinds) /\ Len(script) \in Nat /\ k \in Nat
      /\ \A i \in 1..Len(script) : script[i] \in Kinds
  BY ScriptType, ElementOfSeq
<1>2. From(k + 1, script) \in Seq(Kinds) /\ Len(From(k + 1, script)) = Len(script) - k
  BY <1>1, CutProperties DEF From
<1>3. Printed(From(k + 1, script)) \in Bytes
  BY <1>2, PrintedIsMap
<1>4. ASSUME k = Len(script) PROVE Printed(From(k + 1, script)) = <<>>
  <2>1. From(k + 1, script) = <<>>
    BY <1>1, <1>2, <1>4, EmptySeq
  <2> QED
    BY <1>2, <2>1, PrintedIsMap, FlatMapEmpty
<1>5. ASSUME k < Len(script)
      PROVE  /\ k + 1 \in 1..Len(script) /\ script[k + 1] \in Kinds
             /\ Printed(From((k + 1) + 1, script)) \in Bytes
             /\ Printed(From(k + 1, script))
                  = (LineOf(script[k + 1]) \o <<Newline>>) \o Printed(From((k + 1) + 1, script))
  <2>1. k + 1 \in 1..Len(script) /\ Len(script) \in k + 1..Len(script) /\ k + 1 \in 0..Len(script)
    BY <1>1, <1>5
  <2>2. script[k + 1] \in Kinds
    BY <1>1, <2>1
  <2> DEFINE left == From((k + 1) + 1, script)
  <2>3. From(k + 1, script) = <<script[k + 1]>> \o left
    BY <1>1, <2>1, SubSeqRecursiveFirst DEF From
  <2>4. left \in Seq(Kinds)
    BY <1>1, <2>1, CutProperties DEF From
  <2> HIDE DEF left
  <2>5. Printed(left) \in Bytes /\ Printed(left) = FlatMap(LineBytes, left)
    BY <2>4, PrintedIsMap
  <2>6. Printed(From(k + 1, script)) = LineBytes[script[k + 1]] \o Printed(left)
    <3>1. LineBytes \in [Kinds -> Bytes]
      BY <1>2, PrintedIsMap
    <3>2. PICK next \in Kinds : next = script[k + 1]
      BY <2>2
    <3>3. MapsCons(LineBytes, next, left)
      BY <2>4, <3>1, LinesCons
    <3>4. Printed(From(k + 1, script)) = FlatMap(LineBytes, From(k + 1, script))
      BY <1>2, PrintedIsMap
    <3> QED
      BY <2>3, <2>5, <3>2, <3>3, <3>4 DEF MapsCons
  <2>7. LineBytes[script[k + 1]] = LineOf(script[k + 1]) \o <<Newline>>
    <3>1. LineBytes[script[k + 1]] = Append(LineOf(script[k + 1]), Newline)
      BY <2>2 DEF LineBytes
    <3>2. LineOf(script[k + 1]) \in Bytes /\ Newline \in Nat
      BY <2>2, KindsAreMessages, LineShape DEF Newline
    <3> QED
      BY <3>1, <3>2, AppendIsConcat DEF Bytes
  <2> QED
    BY <2>1, <2>2, <2>5, <2>6, <2>7 DEF left
<1> QED
  BY <1>3, <1>4, <1>5

LEMMA SameBytes ==
  ASSUME NEW s \in Bytes, NEW t \in Bytes
  PROVE  Len(s) = Len(t) /\ (\A i \in 1..Len(s) : s[i] = t[i]) => s = t
BY SeqEqual DEF Bytes

(* FlatMap over frames, for the two functions that make bytes of them.     *)
LEMMA WayCons ==
  ASSUME NEW F \in [Pieces -> Bytes], NEW f \in Pieces, NEW g \in Seq(Pieces)
  PROVE  MapsCons(F, f, g)
BY FlatMapCons DEF Bytes

LEMMA WayAppend ==
  ASSUME NEW F \in [Pieces -> Bytes], NEW fs \in Seq(Pieces), NEW f \in Pieces
  PROVE  MapsAppend(F, fs, f)
BY FlatMapAppend DEF Bytes

LEMMA WayType ==
  ASSUME NEW fs \in Seq(Pieces)
  PROVE  FlatMap(FrameBytes, fs) \in Bytes /\ FlatMap(FrameText, fs) \in Bytes
BY PiecesMap, FlatMapType DEF Bytes

Sends(r, w, b) == (r \o (w \o b)) \o <<>> = ((r \o w) \o <<>>) \o b
LEMMA SentBytes ==
  ASSUME NEW r \in Bytes, NEW w \in Bytes, NEW b \in Bytes
  PROVE  Sends(r, w, b)
<1>1. b \o <<>> = b
  BY ConcatEmptySeq DEF Bytes
<1>2. r \o w \in Bytes
  BY ConcatProperties DEF Bytes
<1>3. (r \o w) \o <<>> = r \o w
  BY <1>2, ConcatEmptySeq DEF Bytes
<1>4. <<>> \in Bytes
  BY DEF Bytes
<1>5. Regroups(r, w, b, <<>>)
  BY <1>4, GlueFour
<1> QED
  BY <1>1, <1>3, <1>5 DEF Regroups, Sends

(* Docker sends one more frame.                                            *)
LEMMA SendStream ==
  ASSUME NEW fs \in Seq(Pieces), NEW lost \in Bytes, NEW more \in Bytes,
         NEW piece \in Pieces, NEW rest \in Bytes
  PROVE  /\ TypeInv
         /\ OnTheWay(fs, lost, more) /\ ~cut
         /\ unsent = FrameText[piece] \o rest /\ unsent' = rest
         /\ wire' = wire \o FrameBytes[piece]
         /\ UNCHANGED <<script, cut, raw, stdout_buf, yielded>>
         => OnTheWay(Append(fs, piece), <<>>, rest)'
<1>h. SUFFICES ASSUME TypeInv, OnTheWay(fs, lost, more), ~cut,
                      unsent = FrameText[piece] \o rest, unsent' = rest,
                      wire' = wire \o FrameBytes[piece],
                      UNCHANGED <<script, cut, raw, stdout_buf, yielded>>
               PROVE  OnTheWay(Append(fs, piece), <<>>, rest)'
  OBVIOUS
<1>1. PICK r \in Bytes, w \in Bytes, s \in Bytes : r = raw /\ w = wire /\ s = stdout_buf
  BY <1>h DEF TypeInv, TypeOK, Bytes
<1>2. PICK b \in Bytes, t \in Bytes, ft \in Bytes :
        b = FrameBytes[piece] /\ t = FrameText[piece] /\ ft = FlatMap(FrameText, fs)
  BY PiecesMap, WayType
<1>3. /\ (r \o w) \o <<>> = FlatMap(FrameBytes, fs)
      /\ (s \o ft) \o (t \o rest) = Printed(From(Len(yielded) + 1, script))
  BY <1>h, <1>1, <1>2 DEF OnTheWay
<1>4. /\ FlatMap(FrameBytes, Append(fs, piece)) = FlatMap(FrameBytes, fs) \o b
      /\ FlatMap(FrameText, Append(fs, piece)) = ft \o t
  <2>1. MapsAppend(FrameBytes, fs, piece) /\ MapsAppend(FrameText, fs, piece)
    BY PiecesMap, WayAppend
  <2> QED
    BY <1>2, <2>1 DEF MapsAppend
<1>5. (raw' \o wire') \o <<>> = FlatMap(FrameBytes, Append(fs, piece))
  <2>1. raw' \o wire' = r \o (w \o b)
    BY <1>h, <1>1, <1>2
  <2>2. Sends(r, w, b)
    BY SentBytes
  <2> QED
    BY <1>3, <1>4, <2>1, <2>2 DEF Sends
<1>6. (stdout_buf' \o FlatMap(FrameText, Append(fs, piece))) \o rest
         = Printed(From(Len(yielded) + 1, script))
  <2>1. Regroups(s, ft, t, rest)
    BY GlueFour
  <2> QED
    BY <1>h, <1>1, <1>3, <1>4, <2>1 DEF Regroups
<1>7. Printed(From(Len(yielded) + 1, script))' = Printed(From(Len(yielded) + 1, script))
  BY <1>h
<1> QED
  BY <1>h, <1>5, <1>6, <1>7 DEF OnTheWay

LEMMA EnvironmentStream ==
  ASSUME TypeInv, StreamInv,
         \/ \E n \in 1..Len(unsent) : Emit(n)
         \/ EmitErr \/ Exit
         \/ \E n \in 0..Len(wire) : Break(n)
  PROVE  StreamInv'
<1>t. /\ unsent \in Bytes /\ wire \in Bytes /\ raw \in Bytes
      /\ Len(unsent) \in Nat /\ Len(wire) \in Nat
      /\ ~closed => ~cut
  BY LenProperties DEF TypeInv, TypeOK, Bytes
<1>s. UNCHANGED <<script, reader, raw, stdout_buf, yielded>>
  BY DEF Emit, EmitErr, Exit, Break, Send, Close
<1>w. SUFFICES ASSUME Working
               PROVE  \E fs \in Seq(Pieces), lost, more \in Bytes : OnTheWay(fs, lost, more)'
  BY <1>s DEF StreamInv, Working
<1>o. PICK fs \in Seq(Pieces), lost \in Bytes, more \in Bytes : OnTheWay(fs, lost, more)
  BY <1>w DEF StreamInv
<1>n. <<>> \in Bytes /\ \A piece \in Pieces : Append(fs, piece) \in Seq(Pieces)
  BY AppendProperties DEF Bytes
<1>1. CASE \E n \in 1..Len(unsent) : Emit(n)
  <2>1. PICK n \in 1..Len(unsent) : Emit(n)
    BY <1>1
  <2>2. n \in 0..Len(unsent)
    BY <1>t
  <2>3. PICK payload \in Bytes, rest \in Bytes :
          /\ payload = Upto(n, unsent) /\ rest = From(n + 1, unsent)
          /\ payload \o rest = unsent
    BY <1>t, <2>2, TwoParts
  <2>4. PICK piece \in Pieces : piece = <<StdOut, payload>>
    BY DEF Pieces
  <2>5. FrameText[piece] = payload /\ FrameBytes[piece] = Frame(StdOut, payload)
    BY <2>4 DEF FrameText, FrameBytes
  <2>6. /\ unsent' = rest /\ wire' = wire \o FrameBytes[piece] /\ ~cut /\ UNCHANGED cut
    BY <1>t, <2>1, <2>3, <2>5 DEF Emit, Send
  <2>7. OnTheWay(Append(fs, piece), <<>>, rest)'
    BY <1>o, <1>s, <2>3, <2>5, <2>6, SendStream
  <2> QED
    BY <1>n, <2>7
<1>2. CASE EmitErr
  <2>1. PICK payload \in Bytes : payload = Append(LineOf("done"), Newline)
    <3>1. "done" \in DOMAIN Message
      BY DEF Message
    <3> QED
      BY <3>1, LineShape, AppendProperties DEF Bytes, Newline
  <2>2. PICK piece \in Pieces : piece = <<StdErr, payload>>
    BY DEF Pieces
  <2>3. FrameText[piece] = <<>> /\ FrameBytes[piece] = Frame(StdErr, payload)
    BY <2>2 DEF FrameText, FrameBytes, StdOut, StdErr
  <2>4. PICK rest \in Bytes : rest = unsent
    BY <1>t
  <2>5. unsent = FrameText[piece] \o rest
    BY <2>3, <2>4, ConcatEmptySeq DEF Bytes
  <2>6. /\ unsent' = rest /\ wire' = wire \o FrameBytes[piece] /\ ~cut /\ UNCHANGED cut
    BY <1>2, <1>t, <2>1, <2>3, <2>4 DEF EmitErr, Send
  <2>7. OnTheWay(Append(fs, piece), <<>>, rest)'
    BY <1>o, <1>s, <2>5, <2>6, SendStream
  <2> QED
    BY <1>n, <2>7
<1>3. CASE Exit
  <2>1. Upto(Len(wire), wire) = wire
    BY <1>t, SubSeqFull DEF Upto, Bytes
  <2>2. UNCHANGED <<wire, unsent, cut>>
    BY <1>3, <2>1 DEF Exit, Close
  <2>3. OnTheWay(fs, lost, more)'
    BY <1>o, <1>s, <2>2 DEF OnTheWay
  <2> QED
    BY <2>3
<1>4. CASE \E n \in 0..Len(wire) : Break(n)
  <2>1. PICK n \in 0..Len(wire) : Break(n)
    BY <1>4
  <2>2. wire' = Upto(n, wire) /\ cut'
    BY <2>1 DEF Break, Close
  <2>3. PICK r \in Bytes, u \in Bytes, v \in Bytes :
          /\ r = raw /\ u = Upto(n, wire) /\ v = From(n + 1, wire)
          /\ u \o v = wire
    <3>1. PICK u \in Bytes, v \in Bytes :
            u = Upto(n, wire) /\ v = From(n + 1, wire) /\ u \o v = wire
      BY <1>t, TwoParts
    <3> QED
      BY <1>t, <3>1
  <2>4. Regroups(r, u, v, lost)
    BY GlueFour
  <2>5. (r \o wire) \o lost = FlatMap(FrameBytes, fs)
    BY <1>o, <2>3 DEF OnTheWay
  <2>6. (raw' \o wire') \o (v \o lost) = FlatMap(FrameBytes, fs)
    BY <1>s, <2>2, <2>3, <2>4, <2>5 DEF Regroups
  <2>7. v \o lost \in Bytes
    BY ConcatProperties DEF Bytes
  <2>8. /\ (stdout_buf \o FlatMap(FrameText, fs)) \o more
             = Printed(From(Len(yielded) + 1, script))
    BY <1>o DEF OnTheWay
  <2>9. OnTheWay(fs, v \o lost, more)'
    BY <1>s, <2>2, <2>6, <2>8 DEF OnTheWay
  <2> QED
    BY <2>7, <2>9
<1> QED
  BY <1>1, <1>2, <1>3, <1>4

-----------------------------------------------------------------------------
(* The first frame on the way.                                             *)
LEMMA FrameHead ==
  ASSUME NEW f \in Pieces
  PROVE  /\ f[2] \in Bytes /\ FrameBytes[f] \in Bytes
         /\ Len(f[2]) \in Nat /\ Len(FrameBytes[f]) = 2 + Len(f[2])
         /\ FrameBytes[f][1] = f[1] /\ FrameBytes[f][2] = Len(f[2])
         /\ \A i \in 1..Len(f[2]) : FrameBytes[f][2 + i] = f[2][i]
<1>1. PICK stream \in Nat, p \in Bytes, n \in Nat :
        stream = f[1] /\ p = f[2] /\ n = Len(f[2])
  <2>1. f[1] \in Nat /\ f[2] \in Bytes /\ Len(f[2]) \in Nat
    BY LenProperties DEF Pieces, Bytes, StdOut, StdErr
  <2> QED
    BY <2>1
<1>2. PICK h \in Bytes : h = <<stream, n>> /\ Len(h) = 2 /\ h[1] = stream /\ h[2] = n
  <2>1. <<stream, n>> \in Bytes
    BY DEF Bytes
  <2> QED
    BY <2>1
<1>3. FrameBytes[f] = h \o p
  BY <1>1, <1>2 DEF FrameBytes, Frame
<1>4. /\ h \o p \in Bytes /\ Len(h \o p) = 2 + n
      /\ \A i \in 1..2 + n : (h \o p)[i] = IF i <= 2 THEN h[i] ELSE p[i - 2]
  BY <1>1, <1>2, ConcatProperties DEF Bytes
<1>5. PICK b \in Bytes : b = h \o p
  BY <1>4
<1>6. b[1] = stream /\ b[2] = n /\ Len(b) = 2 + n
  BY <1>2, <1>4, <1>5
<1>7. ASSUME NEW i \in 1..n PROVE b[2 + i] = p[i]
  <2>1. 2 + i \in 1..2 + n /\ ~ (2 + i <= 2) /\ (2 + i) - 2 = i
    OBVIOUS
  <2> QED
    BY <1>4, <1>5, <2>1
<1> QED
  BY <1>1, <1>3, <1>5, <1>6, <1>7

LEMMA FirstPiece ==
  ASSUME NEW fs \in Seq(Pieces), fs # <<>>
  PROVE  \E f \in Pieces, g \in Seq(Pieces) :
           /\ FlatMap(FrameBytes, fs) = FrameBytes[f] \o FlatMap(FrameBytes, g)
           /\ FlatMap(FrameText, fs) = FrameText[f] \o FlatMap(FrameText, g)
<1>1. Len(fs) \in Nat \ {0} /\ fs[1] \in Pieces
  BY EmptySeq, ElementOfSeq
<1>2. 1 \in 0..Len(fs) /\ Len(fs) \in 1..Len(fs)
  BY <1>1
<1>3. PICK f \in Pieces, g \in Seq(Pieces) : f = fs[1] /\ g = SubSeq(fs, 1 + 1, Len(fs))
  <2>1. SubSeq(fs, 1 + 1, Len(fs)) \in Seq(Pieces)
    BY <1>2, CutProperties
  <2> QED
    BY <1>1, <2>1
<1>4. fs = <<f>> \o g
  <2>1. SubSeq(fs, 1, Len(fs)) = <<fs[1]>> \o SubSeq(fs, 1 + 1, Len(fs))
    BY <1>2, SubSeqRecursiveFirst
  <2>2. SubSeq(fs, 1, Len(fs)) = fs
    BY SubSeqFull
  <2> QED
    BY <1>3, <2>1, <2>2
<1>5. FlatMap(FrameBytes, <<f>> \o g) = FrameBytes[f] \o FlatMap(FrameBytes, g)
  <2>1. MapsCons(FrameBytes, f, g)
    BY PiecesMap, WayCons
  <2> QED
    BY <2>1 DEF MapsCons
<1>6. FlatMap(FrameText, <<f>> \o g) = FrameText[f] \o FlatMap(FrameText, g)
  <2>1. MapsCons(FrameText, f, g)
    BY PiecesMap, WayCons
  <2> QED
    BY <2>1 DEF MapsCons
<1> QED
  BY <1>4, <1>5, <1>6

(* A frame that is whole in what was received is the first one sent.       *)
Received(r, w, lost, fs) ==
    /\ (r \o w) \o lost = FlatMap(FrameBytes, fs)
    /\ Len(r) >= 2 /\ r[2] \in Nat /\ Len(r) >= 2 + r[2]
TakenFrom(r, w, lost, fs, f, g) ==
    /\ Len(f[2]) = r[2]
    /\ Upto(2 + r[2], r) = FrameBytes[f]
    /\ (From((2 + r[2]) + 1, r) \o w) \o lost = FlatMap(FrameBytes, g)
    /\ FlatMap(FrameText, fs) = FrameText[f] \o FlatMap(FrameText, g)

LEMMA WholeFrame ==
  ASSUME NEW r \in Bytes, NEW w \in Bytes, NEW lost \in Bytes, NEW fs \in Seq(Pieces)
  PROVE  Received(r, w, lost, fs)
           => \E f \in Pieces, g \in Seq(Pieces) : TakenFrom(r, w, lost, fs, f, g)
<1>h. SUFFICES ASSUME (r \o w) \o lost = FlatMap(FrameBytes, fs),
                      Len(r) >= 2, r[2] \in Nat, Len(r) >= 2 + r[2]
               PROVE  \E f \in Pieces, g \in Seq(Pieces) : TakenFrom(r, w, lost, fs, f, g)
  BY DEF Received
<1>1. Len(r) \in Nat /\ Len(w) \in Nat /\ Len(lost) \in Nat
  BY LenProperties DEF Bytes
<1>2. PICK all \in Bytes :
        /\ all = (r \o w) \o lost /\ Len(all) = (Len(r) + Len(w)) + Len(lost)
        /\ \A i \in 1..Len(r) : all[i] = r[i]
  <2>1. PICK x \in Bytes : IsJoined(x, r, w)
    BY Joined
  <2>2. /\ x = r \o w /\ Len(x) = Len(r) + Len(w)
        /\ \A i \in 1..Len(r) + Len(w) : x[i] = IF i <= Len(r) THEN r[i] ELSE w[i - Len(r)]
    BY <2>1 DEF IsJoined
  <2>3. PICK y \in Bytes : IsJoined(y, x, lost)
    BY Joined
  <2>4. /\ y = x \o lost /\ Len(y) = Len(x) + Len(lost)
        /\ \A i \in 1..Len(x) + Len(lost) :
             y[i] = IF i <= Len(x) THEN x[i] ELSE lost[i - Len(x)]
    BY <2>3 DEF IsJoined
  <2>5. \A i \in 1..Len(r) : y[i] = r[i]
    BY <1>1, <2>2, <2>4
  <2> QED
    BY <2>2, <2>4, <2>5
<1>3. fs # <<>>
  <2>1. Len(all) # 0
    BY <1>h, <1>1, <1>2
  <2> QED
    BY <1>h, <1>2, <2>1, FlatMapEmpty
<1>4. PICK f \in Pieces, g \in Seq(Pieces) :
        /\ FlatMap(FrameBytes, fs) = FrameBytes[f] \o FlatMap(FrameBytes, g)
        /\ FlatMap(FrameText, fs) = FrameText[f] \o FlatMap(FrameText, g)
  BY <1>3, FirstPiece
<1>5. PICK b \in Bytes, m \in Bytes, n \in Nat :
        /\ b = FrameBytes[f] /\ m = FlatMap(FrameBytes, g) /\ n = Len(f[2])
        /\ Len(b) = 2 + n /\ b[2] = n
  BY FrameHead, WayType
<1>6. all = b \o m
  BY <1>h, <1>2, <1>4, <1>5
<1>7. r[2] = n
  <2>1. PICK x \in Bytes : IsJoined(x, b, m)
    BY Joined
  <2>2. x = all /\ \A i \in 1..Len(b) + Len(m) : x[i] = IF i <= Len(b) THEN b[i] ELSE m[i - Len(b)]
    BY <1>6, <2>1 DEF IsJoined
  <2>3. Len(m) \in Nat
    BY LenProperties DEF Bytes
  <2>4. 2 \in 1..Len(b) + Len(m) /\ 2 <= Len(b) /\ 2 \in 1..Len(r)
    BY <1>h, <1>1, <1>5, <2>3
  <2>5. all[2] = b[2] /\ all[2] = r[2]
    BY <1>2, <2>2, <2>4
  <2> QED
    BY <1>5, <2>5
<1>8. 2 + n \in 0..Len(r)
  BY <1>h, <1>1, <1>7
<1>9. PICK u \in Bytes, v \in Bytes :
        u = Upto(2 + n, r) /\ v = From((2 + n) + 1, r) /\ u \o v = r
  BY <1>8, TwoParts
<1>10. Len(u) = Len(b)
  BY <1>5, <1>8, <1>9, CutBytes
<1>11. PICK rest \in Bytes : rest = (v \o w) \o lost
  <2>1. PICK x \in Bytes : x = v \o w
    BY Glue
  <2>2. PICK y \in Bytes : y = x \o lost
    BY Glue
  <2> QED
    BY <2>1, <2>2
<1>12. SameJoin(u, rest, b, m)
  <2>1. Unwraps(u, v, w, lost)
    BY GlueOut
  <2> QED
    BY <1>2, <1>6, <1>9, <1>11, <2>1 DEF Unwraps, SameJoin
<1>13. u = b /\ rest = m
  BY <1>10, <1>12, SameCut DEF Bytes
<1> QED
  BY <1>4, <1>5, <1>7, <1>9, <1>11, <1>13 DEF TakenFrom

LEMMA RecvStream ==
  ASSUME TypeInv, StreamInv, NEW n \in 1..Len(wire), Recv(n)
  PROVE  StreamInv'
<1>t. /\ wire \in Bytes /\ raw \in Bytes /\ Len(wire) \in Nat /\ n \in 0..Len(wire)
  BY LenProperties DEF TypeInv, TypeOK, Bytes
<1>1. /\ raw' = raw \o Upto(n, wire) /\ wire' = From(n + 1, wire) /\ Working
      /\ UNCHANGED <<script, unsent, cut, stdout_buf, yielded>>
  BY DEF Recv, Goes, Working
<1>2. PICK fs \in Seq(Pieces), lost \in Bytes, more \in Bytes : OnTheWay(fs, lost, more)
  BY <1>1 DEF StreamInv
<1>3. PICK u \in Bytes, v \in Bytes : u = Upto(n, wire) /\ v = From(n + 1, wire) /\ u \o v = wire
  BY <1>t, TwoParts
<1>4. PICK r \in Bytes : r = raw
  BY <1>t
<1>5. raw' \o wire' = raw \o wire
  <2>1. Moves(r, u, v)
    BY GlueThree
  <2> QED
    BY <1>1, <1>3, <1>4, <2>1 DEF Moves
<1>6. OnTheWay(fs, lost, more)'
  BY <1>1, <1>2, <1>5 DEF OnTheWay
<1> QED
  BY <1>6 DEF StreamInv

LEMMA TakeStream ==
  ASSUME TypeInv, StreamInv, TakeFrame
  PROVE  StreamInv'
<1>1. /\ Complete /\ Working
      /\ UNCHANGED <<script, unsent, cut, wire, yielded>>
  BY DEF TakeFrame, Goes, Working
<1>2. PICK fs \in Seq(Pieces), lost \in Bytes, more \in Bytes : OnTheWay(fs, lost, more)
  BY <1>1 DEF StreamInv
<1>3. PICK r \in Bytes, w \in Bytes, s \in Bytes : r = raw /\ w = wire /\ s = stdout_buf
  BY DEF TypeInv, TypeOK, Bytes
<1>4. Len(r) >= 2 /\ r[2] \in Nat /\ Len(r) >= 2 + r[2]
  <2>1. Len(r) >= 2 /\ Len(r) >= 2 + r[2]
    BY <1>1, <1>3 DEF Complete, HeaderSize
  <2>2. Len(r) \in Nat
    BY LenProperties DEF Bytes
  <2>3. 2 \in 1..Len(r)
    BY <2>1, <2>2
  <2> QED
    BY <2>1, <2>3, ElementOfSeq DEF Bytes
<1>5. /\ (r \o w) \o lost = FlatMap(FrameBytes, fs)
      /\ (s \o FlatMap(FrameText, fs)) \o more = Printed(From(Len(yielded) + 1, script))
      /\ ~cut => lost = <<>> /\ more = unsent
  BY <1>2, <1>3 DEF OnTheWay
<1>6. PICK f \in Pieces, g \in Seq(Pieces) :
        /\ Len(f[2]) = r[2]
        /\ Upto(2 + r[2], r) = FrameBytes[f]
        /\ (From((2 + r[2]) + 1, r) \o w) \o lost = FlatMap(FrameBytes, g)
        /\ FlatMap(FrameText, fs) = FrameText[f] \o FlatMap(FrameText, g)
  <2>1. Received(r, w, lost, fs)
    BY <1>4, <1>5 DEF Received
  <2>2. PICK f \in Pieces, g \in Seq(Pieces) : TakenFrom(r, w, lost, fs, f, g)
    BY <2>1, WholeFrame
  <2> QED
    BY <2>2 DEF TakenFrom
<1>7. raw' = From((2 + r[2]) + 1, r)
  BY <1>3 DEF TakeFrame, HeaderSize
<1>8. PICK p \in Bytes : /\ p = SubSeq(raw, HeaderSize + 1, HeaderSize + raw[2])
                         /\ Len(p) = r[2] /\ \A i \in 1..r[2] : p[i] = r[2 + i]
  <2> DEFINE payload == SubSeq(raw, HeaderSize + 1, HeaderSize + raw[2])
  <2>1. payload \in Bytes /\ Len(payload) = raw[2] /\ \A i \in 1..raw[2] : payload[i] = raw[HeaderSize + i]
    BY <1>1, FirstFrame
  <2> HIDE DEF payload
  <2>2. \A i \in 1..r[2] : payload[i] = r[2 + i]
    BY <1>3, <2>1 DEF HeaderSize
  <2> QED
    BY <1>3, <2>1, <2>2 DEF payload
<1>9. p = f[2] /\ r[1] = f[1]
  <2>1. PICK b \in Bytes : b = FrameBytes[f]
    BY FrameHead
  <2>2. /\ f[2] \in Bytes /\ b[1] = f[1] /\ \A i \in 1..r[2] : b[2 + i] = f[2][i]
    BY <1>6, <2>1, FrameHead
  <2>3. 2 + r[2] \in 0..Len(r)
    <3>1. Len(r) \in Nat
      BY LenProperties DEF Bytes
    <3> QED
      BY <1>4, <3>1
  <2>4. \A i \in 1..2 + r[2] : b[i] = r[i]
    <3>1. \A i \in 1..2 + r[2] : Upto(2 + r[2], r)[i] = r[i]
      BY <2>3, CutBytes
    <3> QED
      BY <1>6, <2>1, <3>1
  <2>5. \A i \in 1..r[2] : 2 + i \in 1..2 + r[2]
    BY <1>4
  <2>6. \A i \in 1..r[2] : p[i] = f[2][i]
    BY <1>8, <2>2, <2>4, <2>5
  <2>7. 1 \in 1..2 + r[2]
    BY <1>4
  <2>8. p = f[2]
    <3>1. PICK q \in Bytes : q = f[2]
      BY <2>2
    <3>2. Len(p) = Len(q) /\ \A i \in 1..Len(p) : p[i] = q[i]
      BY <1>6, <1>8, <2>6, <3>1
    <3> QED
      BY <3>1, <3>2, SameBytes
  <2> QED
    BY <2>2, <2>4, <2>7, <2>8
<1>10. PICK t \in Bytes, ft \in Bytes : t = FrameText[f] /\ ft = FlatMap(FrameText, g)
  BY PiecesMap, WayType
<1>11. stdout_buf' = s \o t
  <2>1. t = IF r[1] = StdOut THEN p ELSE <<>>
    BY <1>9, <1>10 DEF FrameText
  <2>2. stdout_buf' = IF r[1] = StdOut THEN s \o p ELSE s
    BY <1>3, <1>8 DEF TakeFrame, Demuxed
  <2>3. s \o <<>> = s
    BY ConcatEmptySeq DEF Bytes
  <2> QED
    BY <2>1, <2>2, <2>3
<1>12. ((s \o t) \o ft) \o more = Printed(From(Len(yielded) + 1, script))
  <2>1. Moves(s, t, ft)
    BY GlueThree
  <2> QED
    BY <1>5, <1>6, <1>10, <2>1 DEF Moves
<1>13. OnTheWay(g, lost, more)'
  BY <1>1, <1>3, <1>5, <1>6, <1>7, <1>10, <1>11, <1>12 DEF OnTheWay
<1> QED
  BY <1>13 DEF StreamInv

(* A sequence of bytes has one first line.                                 *)
LEMMA SameLine ==
  ASSUME NEW s \in Bytes, NEW t \in Bytes, NEW u \in Bytes, NEW v \in Bytes
  PROVE  SameMarked(Newline, s, t, u, v) /\ Free(Newline, s) /\ Free(Newline, u) => s = u /\ t = v
BY FirstMark DEF Bytes, Newline

LEMMA LineEnd ==
  ASSUME NEW s \in Bytes
  PROVE  \E m \in Bytes : m = s \o <<Newline>> /\ Len(m) = Len(s) + 1
<1>1. <<Newline>> \in Bytes /\ Len(<<Newline>>) = 1
  BY DEF Bytes, Newline
<1>2. PICK m \in Bytes : IsJoined(m, s, <<Newline>>)
  BY <1>1, Joined
<1> QED
  BY <1>1, <1>2 DEF IsJoined

(* The line yielded is the next one that the agent printed.                *)
LEMMA NextLine ==
  ASSUME TypeInv, StreamInv, WholeLines, NEW at, YieldLine(at)
  PROVE  /\ Len(yielded) \in Nat /\ Len(yielded) + 1 \in 1..Len(script)
         /\ script[Len(yielded) + 1] \in Kinds
         /\ Upto(at - 1, stdout_buf) = LineOf(script[Len(yielded) + 1])
         /\ StreamInv'
<1>1. TypeOK /\ Working /\ yielded \in Seq(Seq(Nat \ {Newline}))
  BY DEF TypeInv, YieldLine, Working
<1>2. PICK fs \in Seq(Pieces), lost \in Bytes, more \in Bytes : OnTheWay(fs, lost, more)
  BY <1>1 DEF StreamInv
<1>3. PICK line \in Bytes, left \in Bytes :
        /\ line = Upto(at - 1, stdout_buf) /\ left = From(at + 1, stdout_buf)
        /\ stdout_buf = (line \o <<Newline>>) \o left
        /\ \A i \in 1..Len(line) : line[i] # Newline
        /\ line \in Seq(Nat \ {Newline})
  BY FirstLine
<1>4. PICK ft \in Bytes, k \in Nat : ft = FlatMap(FrameText, fs) /\ k = Len(yielded)
  BY <1>1, WayType, LenProperties
<1>5. k \in 0..Len(script) /\ Len(script) \in Nat
  BY <1>1, <1>4, ScriptType DEF WholeLines, Whole
<1>6. PICK u \in Bytes, v \in Bytes : u = line \o <<Newline>> /\ v = (left \o ft) \o more
  <2>1. PICK u \in Bytes : u = line \o <<Newline>>
    BY LineEnd
  <2>2. PICK x \in Bytes : x = left \o ft
    BY Glue
  <2>3. PICK v \in Bytes : v = x \o more
    BY Glue
  <2> QED
    BY <2>1, <2>2, <2>3
<1>7. u \o v = Printed(From(k + 1, script))
  <2>1. Unwraps(u, left, ft, more)
    BY GlueOut
  <2>2. (stdout_buf \o ft) \o more = Printed(From(k + 1, script))
    BY <1>2, <1>4 DEF OnTheWay
  <2> QED
    BY <1>3, <1>6, <2>1, <2>2 DEF Unwraps
<1>8. k < Len(script)
  <2>1. Len(u) = Len(line) + 1
    BY <1>6, LineEnd
  <2>2. PICK x \in Bytes : IsJoined(x, u, v)
    BY Joined
  <2>3. x = u \o v /\ Len(x) = Len(u) + Len(v)
    BY <2>2 DEF IsJoined
  <2>4. Len(line) \in Nat /\ Len(v) \in Nat
    BY LenProperties DEF Bytes
  <2>5. Len(x) # 0
    BY <2>1, <2>3, <2>4
  <2>6. u \o v # <<>>
    BY <2>3, <2>5
  <2> QED
    BY <1>1, <1>5, <1>7, <2>6, RestPrinted
<1>9. /\ k + 1 \in 1..Len(script) /\ script[k + 1] \in Kinds
      /\ Printed(From((k + 1) + 1, script)) \in Bytes
      /\ Printed(From(k + 1, script))
           = (LineOf(script[k + 1]) \o <<Newline>>) \o Printed(From((k + 1) + 1, script))
  BY <1>1, <1>5, <1>8, RestPrinted
<1>10. PICK said \in Bytes, after \in Bytes :
         /\ said = LineOf(script[k + 1]) /\ after = Printed(From((k + 1) + 1, script))
         /\ \A i \in 1..Len(said) : said[i] # Newline
  BY <1>9, KindsAreMessages, LineShape
<1>11. line = said /\ v = after
  <2>1. (line \o <<Newline>>) \o v = (said \o <<Newline>>) \o after
    BY <1>6, <1>7, <1>9, <1>10
  <2>2. Free(Newline, line) /\ Free(Newline, said)
    BY <1>3, <1>10 DEF Free
  <2>3. SameMarked(Newline, line, v, said, after)
    BY <2>1 DEF SameMarked, Marked
  <2> QED
    BY <2>2, <2>3, SameLine
<1>12. StreamInv'
  <2>1. /\ yielded' = Append(yielded, line) /\ stdout_buf' = left
        /\ UNCHANGED <<wire, raw, script, unsent, cut>>
    BY <1>3 DEF YieldLine, Consume, Goes
  <2>2. Len(yielded') = k + 1
    BY <1>1, <1>3, <1>4, <2>1, AppendProperties
  <2>3. (stdout_buf' \o FlatMap(FrameText, fs)) \o more = Printed(From(Len(yielded') + 1, script))
    BY <1>4, <1>6, <1>10, <1>11, <2>1, <2>2
  <2>4. OnTheWay(fs, lost, more)'
    BY <1>2, <2>1, <2>3 DEF OnTheWay
  <2> QED
    BY <2>4 DEF StreamInv
<1> QED
  BY <1>3, <1>4, <1>9, <1>10, <1>11, <1>12

(* What has no newline and comes first is the beginning of the next line.  *)
LEMMA PartOfLine ==
  ASSUME NEW s \in Bytes, NEW t \in Bytes, NEW u \in Bytes, NEW v \in Bytes
  PROVE  Opens(Newline, s, t, u, v) /\ Free(Newline, s) => IsStart(s, u)
BY BeforeMark DEF Bytes, Newline

(* Without a break nothing is left in raw when no byte is on the wire.     *)
LEMMA NothingInRaw ==
  ASSUME NEW r \in Bytes, NEW fs \in Seq(Pieces), r = FlatMap(FrameBytes, fs),
         ~ (Len(r) >= 2 /\ Len(r) >= 2 + r[2])
  PROVE  fs = <<>>
<1> SUFFICES ASSUME fs # <<>> PROVE FALSE
  OBVIOUS
<1>1. PICK f \in Pieces, g \in Seq(Pieces) : r = FrameBytes[f] \o FlatMap(FrameBytes, g)
  BY FirstPiece
<1>2. PICK b \in Bytes, m \in Bytes, n \in Nat :
        /\ b = FrameBytes[f] /\ m = FlatMap(FrameBytes, g)
        /\ Len(b) = 2 + n /\ b[2] = n
  <2>1. /\ FrameBytes[f] \in Bytes /\ Len(f[2]) \in Nat
        /\ Len(FrameBytes[f]) = 2 + Len(f[2]) /\ FrameBytes[f][2] = Len(f[2])
    BY FrameHead
  <2>2. FlatMap(FrameBytes, g) \in Bytes
    BY WayType
  <2> QED
    BY <2>1, <2>2
<1>3. PICK x \in Bytes :
        /\ x = b \o m /\ Len(x) = Len(b) + Len(m)
        /\ \A i \in 1..Len(b) + Len(m) : x[i] = IF i <= Len(b) THEN b[i] ELSE m[i - Len(b)]
  <2>1. PICK x \in Bytes : IsJoined(x, b, m)
    BY Joined
  <2> QED
    BY <2>1 DEF IsJoined
<1>4. Len(m) \in Nat /\ r = x
  BY <1>1, <1>2, <1>3, LenProperties DEF Bytes
<1>5. 2 \in 1..Len(b) + Len(m) /\ 2 <= Len(b)
  BY <1>2, <1>4
<1>6. x[2] = n /\ Len(x) >= 2 + n
  BY <1>2, <1>3, <1>4, <1>5
<1> QED
  BY <1>2, <1>4, <1>6

LEMMA LastLine ==
  ASSUME TypeInv, StreamInv, WholeLines, Finish
  PROVE  /\ Len(yielded) \in Nat
         /\ ~cut => Len(yielded) = Len(script) /\ stdout_buf = <<>>
         /\ stdout_buf # <<>> =>
              /\ Len(yielded) + 1 \in 1..Len(script) /\ script[Len(yielded) + 1] \in Kinds
              /\ Len(stdout_buf) <= Len(LineOf(script[Len(yielded) + 1]))
              /\ \A i \in 1..Len(stdout_buf) : stdout_buf[i] = LineOf(script[Len(yielded) + 1])[i]
<1>1. /\ TypeOK /\ Working /\ yielded \in Seq(Seq(Nat \ {Newline}))
      /\ closed /\ wire = <<>> /\ unsent = <<>> /\ ~Complete /\ reader = "recv"
  BY DEF TypeInv, Finish, AtEnd, Working
<1>2. PICK fs \in Seq(Pieces), lost \in Bytes, more \in Bytes : OnTheWay(fs, lost, more)
  BY <1>1 DEF StreamInv
<1>3. PICK r \in Bytes, s \in Bytes : r = raw /\ s = stdout_buf
  BY DEF TypeInv, TypeOK, Bytes
<1>4. PICK ft \in Bytes, k \in Nat : ft = FlatMap(FrameText, fs) /\ k = Len(yielded)
  BY <1>1, WayType, LenProperties
<1>5. k \in 0..Len(script) /\ Len(script) \in Nat
  BY <1>1, <1>4, ScriptType DEF WholeLines, Whole
<1>6. Free(Newline, s)
  BY <1>1, <1>3, RestOfBuffer DEF Free
<1>7. PICK v \in Bytes : v = ft \o more
  BY Glue
<1>8. s \o v = Printed(From(k + 1, script))
  <2>1. Moves(s, ft, more)
    BY GlueThree
  <2>2. (s \o ft) \o more = Printed(From(k + 1, script))
    BY <1>2, <1>3, <1>4 DEF OnTheWay
  <2> QED
    BY <1>7, <2>1, <2>2 DEF Moves
<1>9. ASSUME k < Len(script)
      PROVE  /\ k + 1 \in 1..Len(script) /\ script[k + 1] \in Kinds
             /\ Len(s) <= Len(LineOf(script[k + 1]))
             /\ \A i \in 1..Len(s) : s[i] = LineOf(script[k + 1])[i]
             /\ v # <<>>
  <2>1. /\ k + 1 \in 1..Len(script) /\ script[k + 1] \in Kinds
        /\ Printed(From((k + 1) + 1, script)) \in Bytes
        /\ Printed(From(k + 1, script))
             = (LineOf(script[k + 1]) \o <<Newline>>) \o Printed(From((k + 1) + 1, script))
    BY <1>1, <1>5, <1>9, RestPrinted
  <2>2. PICK said \in Bytes, after \in Bytes :
           said = LineOf(script[k + 1]) /\ after = Printed(From((k + 1) + 1, script))
    BY <2>1, KindsAreMessages, LineShape
  <2>3. Opens(Newline, s, v, said, after)
    BY <1>8, <2>1, <2>2 DEF Opens, Marked
  <2>b. IsStart(s, said)
    BY <1>6, <2>3, PartOfLine
  <2>4. Len(s) <= Len(said) /\ \A i \in 1..Len(s) : s[i] = said[i]
    BY <2>b DEF IsStart
  <2>5. v # <<>>
    <3>1. PICK m \in Bytes : m = said \o <<Newline>> /\ Len(m) = Len(said) + 1
      BY LineEnd
    <3>2. PICK x \in Bytes : x = m \o after /\ Len(x) = Len(m) + Len(after)
      BY JoinedLength
    <3>3. PICK y \in Bytes : y = s \o v /\ Len(y) = Len(s) + Len(v)
      BY JoinedLength
    <3>4. x = y /\ Len(s) \in Nat /\ Len(said) \in Nat /\ Len(after) \in Nat
      BY <2>3, <3>1, <3>2, <3>3, LenProperties DEF Opens, Marked, Bytes
    <3>5. Len(v) # 0
      BY <2>4, <3>1, <3>2, <3>3, <3>4
    <3> QED
      BY <3>5
  <2> QED
    BY <2>1, <2>2, <2>4, <2>5
<1>10. ASSUME k = Len(script) PROVE s = <<>>
  <2>1. s \o v = <<>>
    BY <1>1, <1>5, <1>8, <1>10, RestPrinted
  <2>2. PICK y \in Bytes : y = s \o v /\ Len(y) = Len(s) + Len(v)
    BY JoinedLength
  <2>3. Len(s) \in Nat /\ Len(v) \in Nat /\ Len(y) = 0
    BY <2>1, <2>2, LenProperties DEF Bytes
  <2>4. Len(s) = 0
    BY <2>2, <2>3
  <2> QED
    BY <2>4, EmptySeq DEF Bytes
<1>11. ASSUME ~cut PROVE k = Len(script)
  <2>1. lost = <<>> /\ more = <<>>
    BY <1>1, <1>2, <1>11 DEF OnTheWay
  <2>2. r = FlatMap(FrameBytes, fs)
    <3>1. (r \o <<>>) \o <<>> = FlatMap(FrameBytes, fs)
      BY <1>1, <1>2, <1>3, <2>1 DEF OnTheWay
    <3>2. r \o <<>> = r
      BY ConcatEmptySeq DEF Bytes
    <3> QED
      BY <3>1, <3>2
  <2>3. fs = <<>>
    <3>1. ~ (Len(r) >= 2 /\ Len(r) >= 2 + r[2])
      BY <1>1, <1>3 DEF Complete, HeaderSize
    <3> QED
      BY <2>2, <3>1, NothingInRaw
  <2>4. ft = <<>>
    BY <1>4, <2>3, FlatMapEmpty
  <2>5. v = <<>>
    BY <1>7, <2>1, <2>4
  <2> QED
    BY <1>5, <1>9, <2>5
<1> QED
  BY <1>3, <1>4, <1>5, <1>9, <1>10, <1>11

LEMMA ReaderStream ==
  ASSUME TypeInv, StreamInv, LinesInv, Dispatch \/ Fails
  PROVE  StreamInv'
<1>1. CASE \E n \in 1..Len(wire) : Recv(n)
  BY <1>1, RecvStream
<1>2. CASE TakeFrame
  BY <1>2, TakeStream
<1>3. CASE SendPrompt \/ WaitForMore \/ NoLineLeft
  <2>1. Working /\ UNCHANGED <<script, unsent, cut, wire, raw, stdout_buf, yielded>>
    BY <1>3 DEF SendPrompt, WaitForMore, NoLineLeft, Goes, Working
  <2>2. PICK fs \in Seq(Pieces), lost \in Bytes, more \in Bytes : OnTheWay(fs, lost, more)
    BY <2>1 DEF StreamInv
  <2>3. OnTheWay(fs, lost, more)'
    BY <2>1, <2>2 DEF OnTheWay
  <2> QED
    BY <2>3 DEF StreamInv
<1>4. CASE \E at \in DOMAIN stdout_buf : YieldLine(at)
  <2>1. PICK at : YieldLine(at)
    BY <1>4
  <2>2. WholeLines
    BY <2>1 DEF LinesInv, YieldLine, Working
  <2> QED
    BY <2>1, <2>2, NextLine
<1>5. CASE Finish
  BY <1>5 DEF Finish, Consume, Goes, StreamInv, Working
<1>6. CASE Fails
  BY <1>6 DEF Fails, Goes, StreamInv, Working
<1> QED
  BY <1>1, <1>2, <1>3, <1>4, <1>5, <1>6 DEF Dispatch

-----------------------------------------------------------------------------
(* The lines yielded, of the lines printed.                                *)
LinesOf(q) == [i \in DOMAIN q |-> LineOf(q[i])]
LastPart(y, q) ==
    /\ Len(y) <= Len(q)
    /\ IsPrefix(Front(y), LinesOf(q))
    /\ IsPrefix(Last(y), LinesOf(q)[Len(y)])
LinesKept(y, q, c, place) ==
    IF c /\ place \in {"done", "raised"} /\ y # <<>>
       THEN LastPart(y, q)
       ELSE IsPrefix(y, LinesOf(q)) /\ (place = "done" /\ ~c => y = LinesOf(q))

LEMMA PrefixOfBytes ==
  ASSUME NEW s \in Bytes, NEW t \in Bytes
  PROVE  Len(s) <= Len(t) /\ (\A i \in 1..Len(s) : s[i] = t[i]) => IsPrefix(s, t)
BY PrefixPointwise DEF Bytes

LEMMA LinesType ==
  ASSUME NEW q \in Seq(Kinds)
  PROVE  /\ LinesOf(q) \in Seq(Bytes) /\ Len(LinesOf(q)) = Len(q)
         /\ \A i \in 1..Len(q) : LinesOf(q)[i] = LineOf(q[i]) /\ LineOf(q[i]) \in Bytes
<1>1. /\ DOMAIN q = 1..Len(q) /\ Len(q) \in Nat
      /\ \A i \in 1..Len(q) : q[i] \in DOMAIN Message
  BY LenProperties, ElementOfSeq, KindsAreMessages
<1>2. \A i \in 1..Len(q) : LineOf(q[i]) \in Bytes
  BY <1>1, LineShape
<1>3. LinesOf(q) \in [1..Len(q) -> Bytes]
  BY <1>1, <1>2 DEF LinesOf
<1> QED
  BY <1>1, <1>2, <1>3, SeqDef DEF LinesOf

LEMMA WholeIsPrefix ==
  ASSUME NEW q \in Seq(Kinds), NEW y \in Seq(Bytes), Whole(y, q)
  PROVE  /\ IsPrefix(y, LinesOf(q))
         /\ Len(y) = Len(q) => y = LinesOf(q)
<1>1. PICK lines \in Seq(Bytes) :
        /\ lines = LinesOf(q) /\ Len(lines) = Len(q)
        /\ \A i \in 1..Len(q) : lines[i] = LineOf(q[i])
  BY LinesType
<1>2. Len(y) \in Nat /\ Len(q) \in Nat
  BY LenProperties
<1>3. Len(y) <= Len(lines) /\ \A i \in 1..Len(y) : y[i] = lines[i]
  BY <1>1, <1>2 DEF Whole
<1> QED
  BY <1>1, <1>3, PrefixPointwise, SeqEqual

LEMMA AllButOne ==
  ASSUME NEW q \in Seq(Kinds), NEW y \in Seq(Bytes), NEW n \in 1..Len(q), Len(y) = n,
         \A i \in 1..n - 1 : y[i] = LineOf(q[i]),
         Len(y[n]) <= Len(LineOf(q[n])), \A i \in 1..Len(y[n]) : y[n][i] = LineOf(q[n])[i]
  PROVE  LastPart(y, q)
<1>1. PICK lines \in Seq(Bytes) :
        /\ lines = LinesOf(q) /\ Len(lines) = Len(q)
        /\ \A i \in 1..Len(q) : lines[i] = LineOf(q[i]) /\ lines[i] \in Bytes
  BY LinesType
<1>2. Len(q) \in Nat /\ n \in Nat /\ n - 1 \in 0..Len(y) /\ y[n] \in Bytes
  BY LenProperties, ElementOfSeq
<1>3. IsPrefix(Front(y), lines)
  <2>1. PICK p \in Seq(Bytes) : /\ p = Front(y) /\ Len(p) = n - 1
                                /\ \A i \in 1..n - 1 : p[i] = y[i]
    <3>1. /\ SubSeq(y, 1, n - 1) \in Seq(Bytes) /\ Len(SubSeq(y, 1, n - 1)) = n - 1
          /\ \A i \in 1..n - 1 : SubSeq(y, 1, n - 1)[i] = y[i]
      BY <1>2, CutProperties
    <3>2. Front(y) = SubSeq(y, 1, n - 1)
      BY DEF Front
    <3> QED
      BY <3>1, <3>2
  <2>2. Len(p) <= Len(lines) /\ \A i \in 1..Len(p) : p[i] = lines[i]
    BY <1>1, <1>2, <2>1
  <2> QED
    BY <2>1, <2>2, PrefixPointwise
<1>4. IsPrefix(y[n], lines[n])
  <2>1. PICK p \in Bytes, u \in Bytes : p = y[n] /\ u = lines[n] /\ u = LineOf(q[n])
    BY <1>1, <1>2
  <2>2. Len(p) <= Len(u) /\ \A i \in 1..Len(p) : p[i] = u[i]
    BY <2>1
  <2>3. IsPrefix(p, u)
    BY <2>2, PrefixOfBytes
  <2> QED
    BY <2>1, <2>3
<1> QED
  BY <1>1, <1>2, <1>3, <1>4 DEF LastPart, Last

LEMMA WholeKept ==
  ASSUME NEW q \in Seq(Kinds), NEW y \in Seq(Bytes), NEW c, NEW place,
         Whole(y, q), place = "done" /\ ~c => Len(y) = Len(q)
  PROVE  LinesKept(y, q, c, place)
<1>1. /\ Len(y) \in Nat /\ Len(q) \in Nat /\ (y # <<>> => Len(y) # 0)
      /\ Len(y) <= Len(q) /\ \A i \in 1..Len(y) : y[i] = LineOf(q[i])
  BY LenProperties, EmptySeq DEF Whole
<1>2. ASSUME y # <<>> PROVE LastPart(y, q)
  <2>1. PICK n \in 1..Len(q) : n = Len(y) /\ n \in 1..Len(y)
    BY <1>1, <1>2
  <2>2. y[n] = LineOf(q[n]) /\ LineOf(q[n]) \in Bytes
    BY <1>1, <2>1, LinesType
  <2>3. Len(y[n]) <= Len(LineOf(q[n])) /\ \A i \in 1..Len(y[n]) : y[n][i] = LineOf(q[n])[i]
    BY <2>2, LenProperties DEF Bytes
  <2>4. \A i \in 1..n - 1 : y[i] = LineOf(q[i])
    BY <1>1, <2>1
  <2> QED
    BY <2>1, <2>3, <2>4, AllButOne
<1>3. IsPrefix(y, LinesOf(q)) /\ (place = "done" /\ ~c => y = LinesOf(q))
  BY WholeIsPrefix
<1> QED
  BY <1>2, <1>3 DEF LinesKept

LEMMA YieldedType == Seq(Seq(Nat \ {Newline})) \subseteq Seq(Bytes)
<1>1. Seq(Nat \ {Newline}) \subseteq Bytes
  BY SeqMonotonic DEF Bytes
<1> QED
  BY <1>1, SeqMonotonic

LEMMA ScriptStays == [Next]_vars => script' = script
BY DEF Next, Dispatch, vars, agent, Emit, EmitErr, Exit, Break, Send, Close, SendPrompt, Recv,
       TakeFrame, WaitForMore, NoLineLeft, YieldLine, Finish, Fails, Consume, Goes

LEMMA LinesStep ==
  ASSUME TypeInv, TypeInv', StreamInv, LinesInv, [Next]_vars
  PROVE  LinesInv'
<1>t. /\ script \in Seq(Kinds) /\ yielded \in Seq(Bytes) /\ yielded' \in Seq(Bytes)
      /\ (~closed => ~cut) /\ (reader = "done" => closed)
  BY ScriptType, YieldedType DEF TypeInv
<1>s. script' = script /\ Lines' = LinesOf(script) /\ Lines = LinesOf(script)
  BY ScriptStays DEF Lines, LinesOf
<1>a. LinesAreTheAgents' <=> LinesKept(yielded', script, cut', reader')
  BY <1>s DEF LinesAreTheAgents, LinesKept, LastPart
<1>g. ASSUME Whole(yielded', script), reader' = "done" /\ ~cut' => Len(yielded') = Len(script)
      PROVE  LinesInv'
  <2>1. LinesKept(yielded', script, cut', reader')
    BY <1>t, <1>g, WholeKept
  <2>2. WholeLines'
    BY <1>g, <1>s DEF WholeLines
  <2> QED
    BY <1>a, <2>1, <2>2 DEF LinesInv
<1>0. CASE UNCHANGED <<yielded, cut, reader>>
  BY <1>0, <1>s DEF LinesInv, LinesAreTheAgents, Lines, WholeLines, Working
<1>1. CASE \E n \in 0..Len(wire) : Break(n)
  <2>1. ~closed /\ UNCHANGED <<reader, yielded>>
    BY <1>1 DEF Break, Close
  <2>2. WholeLines /\ reader # "done"
    BY <1>t, <2>1 DEF LinesInv, Working, TypeInv, TypeOK
  <2> QED
    BY <1>g, <2>1, <2>2 DEF WholeLines
<1>2. CASE Working /\ Working' /\ UNCHANGED yielded
  <2>1. reader' # "done" /\ WholeLines
    BY <1>2 DEF Working, LinesInv
  <2> QED
    BY <1>2, <1>g, <2>1 DEF WholeLines
<1>3. CASE \E at \in DOMAIN stdout_buf : YieldLine(at)
  <2>1. PICK at : YieldLine(at)
    BY <1>3
  <2>2. WholeLines
    BY <2>1 DEF LinesInv, YieldLine, Working
  <2>3. PICK k \in Nat : k = Len(yielded) /\ k + 1 \in 1..Len(script)
    BY <2>1, <2>2, NextLine
  <2>4. Upto(at - 1, stdout_buf) = LineOf(script[k + 1])
    BY <2>1, <2>2, <2>3, NextLine
  <2>5. yielded' = Append(yielded, LineOf(script[k + 1])) /\ reader' # "done"
    BY <2>1, <2>4 DEF YieldLine, Consume, Goes
  <2>6. LineOf(script[k + 1]) \in Bytes
    BY <1>t, <2>3, LinesType
  <2>7. /\ Len(yielded') = k + 1 /\ yielded'[k + 1] = LineOf(script[k + 1])
        /\ \A i \in 1..k : yielded'[i] = yielded[i]
    BY <1>t, <2>3, <2>5, <2>6, AppendProperties
  <2>8. Whole(yielded', script)
    BY <2>2, <2>3, <2>7 DEF WholeLines, Whole
  <2> QED
    BY <1>g, <2>5, <2>8
<1>4. CASE Finish
  <2>1. WholeLines /\ UNCHANGED cut
    BY <1>4 DEF LinesInv, Finish, Working, Consume, Goes
  <2>2. CASE stdout_buf = <<>>
    <3>1. UNCHANGED yielded
      BY <1>4, <2>2 DEF Finish
    <3>2. ~cut => Len(yielded) = Len(script)
      BY <1>4, <2>1, LastLine
    <3> QED
      BY <1>g, <2>1, <3>1, <3>2 DEF WholeLines
  <2>3. CASE stdout_buf # <<>>
    <3>1. PICK k \in Nat, b \in Bytes :
            /\ k = Len(yielded) /\ b = stdout_buf /\ cut /\ k + 1 \in 1..Len(script)
            /\ Len(b) <= Len(LineOf(script[k + 1]))
            /\ \A i \in 1..Len(b) : b[i] = LineOf(script[k + 1])[i]
      <4>1. stdout_buf \in Bytes
        BY DEF TypeInv, TypeOK, Bytes
      <4> QED
        BY <1>4, <2>1, <2>3, <4>1, LastLine
    <3>2. yielded' = Append(yielded, b) /\ reader' \in {"done", "raised"}
      BY <1>4, <2>3, <3>1 DEF Finish, Consume, Goes
    <3>3. /\ Len(yielded') = k + 1 /\ yielded'[k + 1] = b
          /\ \A i \in 1..k : yielded'[i] = yielded[i]
      BY <1>t, <3>1, <3>2, AppendProperties
    <3>4. \A i \in 1..k : yielded'[i] = LineOf(script[i])
      BY <2>1, <3>1, <3>3 DEF WholeLines, Whole
    <3>5. PICK n \in 1..Len(script) : n = k + 1 /\ n - 1 = k
      BY <3>1
    <3>6. LastPart(yielded', script)
      BY <1>t, <3>1, <3>3, <3>4, <3>5, AllButOne
    <3>7. yielded' # <<>>
      BY <3>1, <3>3
    <3> QED
      BY <1>a, <2>1, <3>1, <3>2, <3>6, <3>7 DEF LinesInv, LinesKept, Working
  <2> QED
    BY <2>2, <2>3
<1>6. CASE Fails
  <2>1. WholeLines /\ UNCHANGED <<yielded, cut>> /\ reader' = "raised"
    BY <1>6 DEF LinesInv, Fails, Working, Goes
  <2> QED
    BY <1>g, <2>1 DEF WholeLines
<1>5. ASSUME [Next]_vars
      PROVE  \/ UNCHANGED <<yielded, cut, reader>>
             \/ \E n \in 0..Len(wire) : Break(n)
             \/ Working /\ Working' /\ UNCHANGED yielded
             \/ \E at \in DOMAIN stdout_buf : YieldLine(at)
             \/ Finish \/ Fails
  BY <1>5 DEF Next, Dispatch, vars, agent, Emit, EmitErr, Exit, Send, Close, SendPrompt, Recv,
              TakeFrame, WaitForMore, NoLineLeft, Goes, Working
<1> QED
  BY <1>0, <1>1, <1>2, <1>3, <1>4, <1>5, <1>6

-----------------------------------------------------------------------------
(* The plan, of the lines yielded.                                         *)
PlanOf(f) == IF f \in HasPlan THEN f ELSE "blocked"

LEMMA PlanGrows ==
  ASSUME NEW k \in Nat
  PROVE  PlanAfter(k + 1) = IF script[k + 1] \in Results THEN PlanOf(script[k + 1])
                                                        ELSE PlanAfter(k)
<1> DEFINE said(j) == {i \in 1..j : script[i] \in Results}
<1>1. CASE script[k + 1] \in Results
  <2>1. PICK S : S = said(k + 1)
    OBVIOUS
  <2>2. k + 1 \in S /\ (\A i \in S : k + 1 >= i) /\ S \subseteq Nat
    BY <1>1, <2>1
  <2>3. Max(S) \in S /\ Max(S) >= k + 1
    BY <2>2 DEF Max
  <2>4. Max(S) = k + 1
    <3>1. PICK m \in Nat : m = Max(S)
      BY <2>2, <2>3
    <3>2. k + 1 >= m /\ m >= k + 1
      BY <2>2, <2>3, <3>1
    <3> QED
      BY <3>1, <3>2
  <2>5. PlanAfter(k + 1) = IF S # {} /\ script[Max(S)] \in HasPlan THEN script[Max(S)] ELSE "blocked"
    BY <2>1 DEF PlanAfter
  <2> QED
    BY <1>1, <2>2, <2>4, <2>5 DEF PlanOf
<1>2. CASE script[k + 1] \notin Results
  <2>1. said(k + 1) = said(k)
    <3>1. \A i : i \in 1..k + 1 <=> i \in 1..k \/ i = k + 1
      OBVIOUS
    <3> QED
      BY <1>2, <3>1
  <2> QED
    BY <1>2, <2>1 DEF PlanAfter
<1> QED
  BY <1>1, <1>2

(* What a line of kind kd makes of the plan.                               *)
LEMMA PlanHeard ==
  ASSUME NEW kd, final' = Heard(kd)
  PROVE  Plan' = IF kd \in Results THEN PlanOf(kd) ELSE Plan
BY DEF Plan, Heard, PlanOf

LEMMA PlanStep ==
  ASSUME TypeInv, StreamInv, LinesInv, PlanInv, [Next]_vars
  PROVE  PlanInv'
<1>t. /\ script \in Seq(Kinds) /\ yielded \in Seq(Bytes) /\ Len(yielded) \in Nat
      /\ Len(script) \in Nat
      /\ (~closed => ~cut) /\ (reader = "done" => closed)
  BY ScriptType, YieldedType, LenProperties DEF TypeInv
<1>s. script' = script /\ \A j : PlanAfter(j)' = PlanAfter(j)
  BY ScriptStays DEF PlanAfter
<1>f. ASSUME NEW j \in 0..Len(script), \A i \in 1..j : script[i] # "scalar"
      PROVE  "scalar" \notin Range(Upto(j, script))
  <2>1. PICK p \in Seq(Kinds) : /\ p = Upto(j, script) /\ Len(p) = j
                                /\ \A i \in 1..j : p[i] = script[i]
    <3>1. /\ SubSeq(script, 1, j) \in Seq(Kinds) /\ Len(SubSeq(script, 1, j)) = j
          /\ \A i \in 1..j : SubSeq(script, 1, j)[i] = script[i]
      BY <1>t, CutProperties
    <3> QED
      BY <3>1 DEF Upto
  <2>2. DOMAIN p = 1..j
    BY <2>1, LenProperties
  <2> QED
    BY <1>f, <2>1, <2>2 DEF Range
<1>0. CASE UNCHANGED <<yielded, cut, reader, final>>
  BY <1>0, <1>s DEF PlanInv, PlanIsTheAgents, Plan, Working
<1>1. CASE \E n \in 0..Len(wire) : Break(n)
  <2>1. ~closed /\ UNCHANGED <<reader, yielded, final>> /\ reader # "done"
    BY <1>1, <1>t DEF Break, Close
  <2> QED
    BY <1>s, <2>1 DEF PlanInv, PlanIsTheAgents, Plan, Working
<1>2. CASE Working /\ Working' /\ UNCHANGED <<yielded, final>>
  BY <1>2, <1>s DEF PlanInv, PlanIsTheAgents, Plan, Working
<1>3. CASE \E at \in DOMAIN stdout_buf : YieldLine(at)
  <2>1. PICK at : YieldLine(at)
    BY <1>3
  <2>2. WholeLines /\ Working
    BY <2>1 DEF LinesInv, YieldLine, Working
  <2>3. PICK k \in Nat : k = Len(yielded) /\ k + 1 \in 1..Len(script)
    BY <2>1, <2>2, NextLine
  <2>4. PICK kd \in Kinds : kd = script[k + 1] /\ Upto(at - 1, stdout_buf) = LineOf(kd)
    BY <2>1, <2>2, <2>3, NextLine
  <2>5. KindOf(LineOf(kd)) = kd /\ LineOf(kd) \in Bytes
    BY KindsAreMessages, KindOfLine, LineShape
  <2>6. /\ yielded' = Append(yielded, LineOf(kd)) /\ final' = Heard(kd)
        /\ reader' = IF kd = "scalar" THEN "raised" ELSE "lines"
    BY <2>1, <2>4, <2>5 DEF YieldLine, Consume, Goes
  <2>7. Len(yielded') = k + 1
    BY <1>t, <2>3, <2>5, <2>6, AppendProperties
  <2>8. Plan' = PlanAfter(k + 1)
    <3>1. Plan = PlanAfter(k)
      BY <2>2, <2>3 DEF PlanInv
    <3>2. PlanAfter(k + 1) = IF kd \in Results THEN PlanOf(kd) ELSE PlanAfter(k)
      BY <2>4, PlanGrows
    <3>3. Plan' = IF kd \in Results THEN PlanOf(kd) ELSE Plan
      BY <2>6, PlanHeard
    <3> QED
      BY <3>1, <3>2, <3>3
  <2>9. \A i \in 1..k : script[i] # "scalar"
    BY <2>2, <2>3 DEF PlanInv
  <2>10. CASE kd = "scalar"
    <3>1. reader' = "raised"
      BY <2>6, <2>10
    <3> QED
      BY <3>1 DEF PlanInv, PlanIsTheAgents, Working
  <2>11. CASE kd # "scalar"
    <3>1. \A i \in 1..k + 1 : script[i] # "scalar"
      <4>1. \A i \in 1..k + 1 : i \in 1..k \/ i = k + 1
        OBVIOUS
      <4> QED
        BY <2>4, <2>9, <2>11, <4>1
    <3>2. reader' = "lines"
      BY <2>6, <2>11
    <3>3. Plan' = PlanAfter(Len(yielded))' /\ \A i \in 1..Len(yielded') : script'[i] # "scalar"
      BY <1>s, <2>7, <2>8, <3>1
    <3> QED
      BY <3>2, <3>3 DEF PlanInv, PlanIsTheAgents
  <2> QED
    BY <2>10, <2>11
<1>4. CASE Finish
  <2>1. WholeLines /\ Working /\ UNCHANGED cut
    BY <1>4 DEF LinesInv, Finish, Working, Consume, Goes
  <2>2. PICK k \in 0..Len(script) :
          k = Len(yielded) /\ Plan = PlanAfter(k) /\ \A i \in 1..k : script[i] # "scalar"
    BY <1>t, <2>1 DEF PlanInv, WholeLines, Whole
  <2>3. ASSUME NEW j \in 0..Len(script), ~cut => j = Len(script), reader' = "done",
               Plan' = PlanAfter(j), \A i \in 1..j : script[i] # "scalar"
        PROVE  PlanInv'
    <3>1. "scalar" \notin Range(Upto(j, script))
      BY <1>f, <2>3
    <3> QED
      BY <1>s, <2>1, <2>3, <3>1 DEF PlanInv, PlanIsTheAgents, Working
  <2>4. CASE stdout_buf = <<>>
    <3>1. UNCHANGED final /\ reader' = "done"
      BY <1>4, <2>4 DEF Finish, Goes
    <3>2. ~cut => k = Len(script)
      BY <1>4, <2>1, <2>2, LastLine
    <3>3. Plan' = Plan
      BY <3>1 DEF Plan
    <3> QED
      BY <2>2, <2>3, <3>1, <3>2, <3>3
  <2>5. CASE stdout_buf # <<>>
    <3>1. PICK b \in Bytes, kd \in Kinds :
            /\ b = stdout_buf /\ b # <<>> /\ cut /\ k + 1 \in 1..Len(script) /\ kd = script[k + 1]
            /\ Len(b) <= Len(LineOf(kd))
            /\ \A i \in 1..Len(b) : b[i] = LineOf(kd)[i]
      <4>1. stdout_buf \in Bytes
        BY DEF TypeInv, TypeOK, Bytes
      <4> QED
        BY <1>4, <2>1, <2>2, <2>5, <4>1, LastLine
    <3>2. final' = Heard(KindOf(b)) /\ reader' = IF KindOf(b) = "scalar" THEN "raised" ELSE "done"
      BY <1>4, <2>5, <3>1 DEF Finish, Consume, Goes
    <3>3. Plan' = IF KindOf(b) \in Results THEN PlanOf(KindOf(b)) ELSE Plan
      BY <3>2, PlanHeard
    <3>4. CASE b = LineOf(kd)
      <4>1. KindOf(b) = kd
        BY <3>4, KindsAreMessages, KindOfLine
      <4>2. Plan' = PlanAfter(k + 1)
        <5>1. k \in Nat
          BY <1>t
        <5>2. PlanAfter(k + 1) = IF kd \in Results THEN PlanOf(kd) ELSE PlanAfter(k)
          BY <3>1, <5>1, PlanGrows
        <5> QED
          BY <2>2, <3>3, <4>1, <5>2
      <4>3. CASE kd = "scalar"
        <5>1. reader' = "raised"
          BY <3>2, <4>1, <4>3
        <5> QED
          BY <5>1 DEF PlanInv, PlanIsTheAgents, Working
      <4>4. CASE kd # "scalar"
        <5>1. reader' = "done"
          BY <3>2, <4>1, <4>4
        <5>2. PICK j \in 0..Len(script) : j = k + 1
          BY <3>1
        <5>3. \A i \in 1..j : script[i] # "scalar"
          <6>1. \A i \in 1..j : i \in 1..k \/ i = k + 1
            BY <5>2
          <6> QED
            BY <2>2, <3>1, <4>4, <6>1
        <5> QED
          BY <2>3, <3>1, <4>2, <5>1, <5>2, <5>3
      <4> QED
        BY <4>3, <4>4
    <3>5. CASE b # LineOf(kd)
      <4>1. KindOf(b) = "noise"
        BY <3>1, <3>5, KindsAreMessages, KindOfPart
      <4>2. Plan' = Plan /\ reader' = "done"
        BY <3>2, <3>3, <4>1 DEF Results
      <4> QED
        BY <2>2, <2>3, <3>1, <4>2
    <3> QED
      BY <3>4, <3>5
  <2> QED
    BY <2>4, <2>5
<1>6. CASE Fails
  <2>1. reader' = "raised"
    BY <1>6 DEF Fails, Goes
  <2> QED
    BY <2>1 DEF PlanInv, PlanIsTheAgents, Working
<1>5. ASSUME [Next]_vars
      PROVE  \/ UNCHANGED <<yielded, cut, reader, final>>
             \/ \E n \in 0..Len(wire) : Break(n)
             \/ Working /\ Working' /\ UNCHANGED <<yielded, final>>
             \/ \E at \in DOMAIN stdout_buf : YieldLine(at)
             \/ Finish \/ Fails
  BY <1>5 DEF Next, Dispatch, vars, agent, Emit, EmitErr, Exit, Send, Close, SendPrompt, Recv,
              TakeFrame, WaitForMore, NoLineLeft, Goes, Working
<1> QED
  BY <1>0, <1>1, <1>2, <1>3, <1>4, <1>5, <1>6

-----------------------------------------------------------------------------
LEMMA StreamStep ==
  ASSUME TypeInv, StreamInv, LinesInv, [Next]_vars
  PROVE  StreamInv'
<1>1. CASE UNCHANGED vars
  <2>1. UNCHANGED <<script, unsent, cut, wire, reader, raw, stdout_buf, yielded>>
    BY <1>1 DEF vars, agent
  <2>2. SUFFICES ASSUME Working
                 PROVE  \E fs \in Seq(Pieces), lost, more \in Bytes : OnTheWay(fs, lost, more)'
    BY <2>1 DEF StreamInv, Working
  <2>3. PICK fs \in Seq(Pieces), lost \in Bytes, more \in Bytes : OnTheWay(fs, lost, more)
    BY <2>2 DEF StreamInv
  <2>4. OnTheWay(fs, lost, more)'
    BY <2>1, <2>3 DEF OnTheWay
  <2> QED
    BY <2>4
<1>2. CASE \/ \E n \in 1..Len(unsent) : Emit(n)
           \/ EmitErr \/ Exit
           \/ \E n \in 0..Len(wire) : Break(n)
  BY <1>2, EnvironmentStream
<1>3. CASE Dispatch \/ Fails
  BY <1>3, ReaderStream
<1> QED
  BY <1>1, <1>2, <1>3 DEF Next

(* Nothing was read of what the agent prints.                              *)
LEMMA InitInv == Init => IInv
<1> SUFFICES ASSUME Init PROVE IInv
  OBVIOUS
<1>1. TypeInv /\ TypeOK
  BY InitType DEF TypeInv
<1>2. script \in Seq(Kinds) /\ Len(script) \in Nat /\ Printed(script) \in Bytes
  BY <1>1, ScriptType
<1>3. /\ unsent = Printed(script) /\ raw = <<>> /\ wire = <<>> /\ stdout_buf = <<>>
      /\ yielded = <<>> /\ final = "none" /\ reader = "send" /\ Len(yielded) = 0 /\ ~cut
  BY DEF Init
<1>4. StreamInv
  <2>1. PICK fs \in Seq(Pieces), lost \in Bytes, more \in Bytes :
          fs = <<>> /\ lost = <<>> /\ more = Printed(script)
    <3>1. <<>> \in Seq(Pieces) /\ <<>> \in Bytes
      BY DEF Bytes
    <3> QED
      BY <1>2, <3>1
  <2>2. FlatMap(FrameBytes, fs) = <<>> /\ FlatMap(FrameText, fs) = <<>>
    BY <2>1, FlatMapEmpty
  <2>3. From(1, script) = script
    BY <1>2, SubSeqFull DEF From
  <2>4. <<>> \o <<>> = <<>> /\ <<>> \o more = more
    BY ConcatEmptySeq DEF Bytes
  <2>5. /\ (raw \o wire) \o lost = FlatMap(FrameBytes, fs)
        /\ (stdout_buf \o FlatMap(FrameText, fs)) \o more
              = Printed(From(Len(yielded) + 1, script))
    <3>1. (<<>> \o <<>>) \o <<>> = <<>>
      BY <2>4
    <3>2. (<<>> \o <<>>) \o more = more
      BY <2>4
    <3>3. From(Len(yielded) + 1, script) = script
      BY <1>3, <2>3
    <3> QED
      BY <1>3, <2>1, <2>2, <3>1, <3>2, <3>3
  <2>6. OnTheWay(fs, lost, more)
    BY <1>3, <2>1, <2>5 DEF OnTheWay
  <2> QED
    BY <2>6 DEF StreamInv
<1>5. LinesInv
  <2>1. Whole(yielded, script) /\ yielded \in Seq(Bytes)
    BY <1>2, <1>3 DEF Whole
  <2>2. LinesKept(yielded, script, cut, reader)
    BY <1>2, <1>3, <2>1, WholeKept
  <2>3. Lines = LinesOf(script)
    BY DEF Lines, LinesOf
  <2> QED
    BY <2>1, <2>2, <2>3 DEF LinesInv, WholeLines, LinesAreTheAgents, LinesKept, LastPart
<1>6. PlanInv
  <2>1. Plan = "blocked"
    BY <1>3 DEF Plan, HasPlan
  <2>2. PlanAfter(0) = "blocked"
    <3>1. {i \in 1..0 : script[i] \in Results} = {}
      OBVIOUS
    <3> QED
      BY <3>1 DEF PlanAfter
  <2> QED
    BY <1>3, <2>1, <2>2 DEF PlanInv, PlanIsTheAgents
<1> QED
  BY <1>1, <1>4, <1>5, <1>6 DEF IInv

(* The inductive invariant of the stream holds in every reachable state.   *)
THEOREM Invariance == Spec => []IInv
<1>1. Init => IInv
  BY InitInv
<1>2. IInv /\ [Next]_vars => IInv'
  <2> SUFFICES ASSUME IInv, [Next]_vars PROVE IInv'
    OBVIOUS
  <2>1. TypeInv'
    BY NextType DEF IInv
  <2>2. StreamInv'
    BY StreamStep DEF IInv
  <2>3. LinesInv'
    BY <2>1, LinesStep DEF IInv
  <2>4. PlanInv'
    BY PlanStep DEF IInv
  <2> QED
    BY <2>1, <2>2, <2>3, <2>4 DEF IInv
<1> QED
  BY <1>1, <1>2, PTL DEF Spec

(* Every variable keeps to its type: what is unsent is the end of what the *)
(* agent prints, and no line yielded holds a newline.                      *)
THEOREM TypeCorrect == Spec => []TypeOK
<1>1. IInv => TypeOK
  BY DEF IInv, TypeInv
<1> QED
  BY <1>1, Invariance, PTL

(* However Docker cuts the output into frames and the socket cuts the      *)
(* frames into chunks, dispatch_into_sandbox yields the agent's lines in   *)
(* order, all of them unless the connection broke                          *)
(* (agent_iteration.py:139-172).                                           *)
THEOREM LinesArrive == Spec => []LinesAreTheAgents
<1>1. IInv => LinesAreTheAgents
  BY DEF IInv, LinesInv
<1> QED
  BY <1>1, Invariance, PTL

(* The plan that _run_iteration_impl returns, when it returns one, is that  *)
(* of the agent's last result, or after a break of the last that arrived    *)
(* whole (agent_iteration.py:201-228).                                      *)
THEOREM PlanArrives == Spec => []PlanIsTheAgents
<1>1. IInv => PlanIsTheAgents
  BY DEF IInv, PlanInv
<1> QED
  BY <1>1, Invariance, PTL
=============================================================================
