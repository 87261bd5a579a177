----------------------------- MODULE RepoTools -----------------------------
(***************************************************************************)
(* The file tools of the agent in its sandbox: read_file and apply_edit of *)
(* the repo MCP server, which join a path to the working copy, and the     *)
(* builtin tools, which the hook restrict_paths.py lets pass or denies.    *)
(*                                                                         *)
(* A path is the sequence of its segments; a given path is absolute, or    *)
(* starts at the working directory, and may hold "." and "..".  There are  *)
(* no symbolic links here.  Two names are told apart by what the code's    *)
(* string comparisons see: equality, and one beginning the other.          *)
(***************************************************************************)
EXTENDS Naturals, Sequences, SequencesExt, FiniteSets

CONSTANTS
    Workdir,        \* AUTOFIX_WORKDIR: the clone as the sandbox has it
    Autofix,        \* the names "autofix-<workflow id>"
    Longer,         \* pairs of names of which the second begins with the first
    Paths,          \* the paths agents give: [absolute, segments]
    InitialFiles,   \* absolute paths of the files that exist at first
    MaxEdits        \* bound: contents the agent writes

ASSUME PathsAssumption ==
    /\ Workdir \in Seq(STRING)
    /\ Paths \subseteq [absolute: BOOLEAN, segments: Seq(STRING)]
ASSUME FilesAssumption ==
    /\ InitialFiles \subseteq Seq(STRING)
    /\ \A f, g \in InitialFiles : f # g => ~IsPrefix(f, g)
ASSUME EditsAssumption == MaxEdits \in Nat

VARIABLES
    files,      \* the content of every file, by absolute path
    edits,      \* contents written so far
    last        \* the last call and its answer

vars == <<files, edits, last>>

-----------------------------------------------------------------------------
(* os.path.normpath and Path.resolve, as far as they agree.                  *)
Step(dir, segment) ==
    CASE segment = "." -> dir
      [] segment = ".." -> IF dir = <<>> THEN dir ELSE Front(dir)
      [] OTHER -> Append(dir, segment)
Normal(segments) == FoldLeft(Step, <<>>, segments)

Full(p) == IF p.absolute THEN p.segments ELSE Workdir \o p.segments
Resolved == [p \in Paths |-> Normal(Full(p))]

(* str.startswith, of paths: the last name may go on.                        *)
StringPrefix(s, t) ==
    /\ Len(s) <= Len(t)
    /\ \A i \in 1..Len(s) : s[i] = t[i] \/ (i = Len(s) /\ <<s[i], t[i]>> \in Longer)

(* safe_join.  Variant of Inside: without the slash.                         *)
Begins(f) == StringPrefix(Workdir, f)
Inside(f) == IsPrefix(Workdir, f)

-----------------------------------------------------------------------------
(* The hook.                                                                 *)
PathTools == {"Read", "Edit", "Grep", "Glob"}

(* Variant of AllowedPrefix: a pattern that ends with "repo".                *)
BareRepo(f) == Len(f) >= 3 /\ f[2] \in Autofix /\ StringPrefix(<<"tmp", f[2], "repo">>, f)
AllowedPrefix(f) == Len(f) >= 3 /\ f[2] \in Autofix /\ IsPrefix(<<"tmp", f[2], "repo">>, f)

(* The image puts nothing where the hook lets a path go, and of the worker's *)
(* files the container has only the clone (Dockerfile:9-44, sandbox.py:117). *)
ASSUME ImageAssumption == \A f \in InitialFiles : AllowedPrefix(f) => Inside(f)

Protected == {<<".git", "hooks">>, <<".github", "workflows">>, <<".claude">>}
DeniedWithin(f) == \E d \in Protected : IsPrefix(d, SubSeq(f, 4, Len(f)))

EmptyPath == [absolute |-> FALSE, segments |-> <<>>]
CheckPath ==
    [p \in Paths |->
        p # EmptyPath /\ AllowedPrefix(Resolved[p]) /\ ~DeniedWithin(Resolved[p])]

-----------------------------------------------------------------------------
(* The file system: a directory is what leads to a file.                     *)
Exists(f) == f \in DOMAIN files
IsDirectory(f) == \E g \in DOMAIN files : g # f /\ IsPrefix(f, g)
UnderAFile(f) == \E g \in DOMAIN files : g # f /\ IsPrefix(g, f)
(* Variant of Writable: that a parent may be a file is forgotten.            *)
NoDirectory(f) == ~IsDirectory(f) /\ f # Workdir
Writable(f) == ~UnderAFile(f) /\ ~IsDirectory(f) /\ f # Workdir

Written(f) ==
    /\ edits < MaxEdits
    /\ edits' = edits + 1
    /\ files' = [g \in DOMAIN files \cup {f} |-> IF g = f THEN edits' ELSE files[g]]

Call(tool, p, answer) == last' = [tool |-> tool, path |-> p, answer |-> answer]
Unchanged == UNCHANGED <<files, edits>>

TypeOK ==
    /\ \A f \in DOMAIN files : ~UnderAFile(f) /\ files[f] \in 0..edits
    /\ edits \in 0..MaxEdits
    /\ last.path \in Paths \cup {EmptyPath}
    /\ last.tool \in {"none", "read_file", "apply_edit"} \cup PathTools
    /\ last.answer \in {"none", "denied", "raised", "done"}

Init ==
    /\ files = [f \in InitialFiles |-> 0]
    /\ edits = 0
    /\ last = [tool |-> "none", path |-> EmptyPath, answer |-> "none"]

(* A tool of the MCP server raises ValueError outside the working copy.      *)
read_file(p) ==
    LET f == Resolved[p]
    IN  /\ Call("read_file", p, IF Inside(f) /\ Exists(f) THEN "done" ELSE "raised")
        /\ Unchanged

apply_edit(p) ==
    LET f == Resolved[p]
    IN  \/ Inside(f) /\ Writable(f) /\ Written(f) /\ Call("apply_edit", p, "done")
        \/ ~(Inside(f) /\ Writable(f)) /\ Unchanged /\ Call("apply_edit", p, "raised")

(* The builtin tools see the resolved path once the hook let them.  Write is *)
(* in disallowed_tools, so a file that does not exist is not made.           *)
Hooked(tool, p) ==
    LET f == Resolved[p]
    IN  \/ ~CheckPath[p] /\ Unchanged /\ Call(tool, p, "denied")
        \/ /\ CheckPath[p]
           /\ IF Exists(f) /\ tool = "Edit" THEN Written(f) ELSE Unchanged
           /\ Call(tool, p, IF Exists(f) THEN "done" ELSE "raised")

(* A search names no path, and goes over the working directory.              *)
Search(tool) ==
    /\ tool \in {"Grep", "Glob"}
    /\ Unchanged
    /\ Call(tool, EmptyPath, "done")

Next ==
    \/ \E p \in Paths :
          read_file(p) \/ apply_edit(p) \/ \E t \in PathTools : Hooked(t, p)
    \/ \E t \in PathTools : Search(t)

Spec == Init /\ [][Next]_vars

-----------------------------------------------------------------------------
(* Reference: a name of a path counts unless a later ".." climbs over it.    *)
Ups(s, i, j) == Cardinality({k \in i..j : s[k] = ".."})
Downs(s, i, j) == Cardinality({k \in i..j : s[k] \notin {".", ".."}})
Counts(s, i) ==
    /\ s[i] \notin {".", ".."}
    /\ \A j \in i + 1..Len(s) : Ups(s, i + 1, j) <= Downs(s, i + 1, j)
Named(s) ==
    FlattenSeq([i \in DOMAIN s |-> IF Counts(s, i) THEN <<s[i]>> ELSE <<>>])

(* The hook denies a call exactly if the place its path names, however it is *)
(* spelled, is outside every workdir or in a protected subtree of one        *)
(* (restrict_paths.py:93-113).                                               *)
Scoped(place) ==
    \E w \in Autofix, rest \in {SubSeq(place, 4, Len(place))} :
        /\ place = <<"tmp", w, "repo">> \o rest
        /\ ~\E d \in Protected : \E more \in {SubSeq(rest, Len(d) + 1, Len(rest))} :
               rest = d \o more
HookSeesThroughSpelling ==
    last.tool \in PathTools /\ last.path # EmptyPath =>
        (last.answer = "denied" <=> ~Scoped(Named(Full(last.path))))

(* No call of a tool that edits a file, whatever its path looks like,        *)
(* changes or makes one that the trusted push would not find in the clone    *)
(* (_workdir.py:34-40, pr_fixer.py:126).                                     *)
ChangesStayInClone ==
    [][\A f \in DOMAIN files' :
         f \notin DOMAIN files \/ files'[f] # files[f] => IsPrefix(Workdir, f)]_files

(* pr_fixer.py:33-34 tells the agent to use the builtin tools to inspect and *)
(* edit the code.  So a Read or an Edit that names a file the clone holds,   *)
(* outside the protected subtrees, is not denied.  The clone is mounted at   *)
(* /work (sandbox.py:44, 132), and the pattern of the hook is the worker's   *)
(* path of it, /tmp/autofix-<id>/repo (restrict_paths.py:46).                *)
CloneFiles == {f \in DOMAIN files : f # Workdir /\ IsPrefix(Workdir, f)}
OpenToTheAgent(f) ==
    ~\E d \in Protected : IsPrefix(d, SubSeq(f, Len(Workdir) + 1, Len(f)))
BuiltinsReachTheClone ==
    last.tool \in {"Read", "Edit"} /\ last.path \in Paths \ {EmptyPath} =>
        (last.answer = "denied" =>
            ~(/\ Resolved[last.path] \in CloneFiles
              /\ OpenToTheAgent(Resolved[last.path])))
=============================================================================
