----------------------------- MODULE ToolPaths -----------------------------
(***************************************************************************)
(* Which file changes a tool call stands for, src/core/tool-paths.ts.       *)
(*                                                                          *)
(* The arguments of a call are a record; a key that is missing or blank is  *)
(* Blank.  Keys that pickString treats as spellings of one another are one  *)
(* field: path, source, destination, operation, patch, command.  A patch is *)
(* the sequence of its lines, each [kind, path]; a command is the sequence  *)
(* of its segments between &&, || and semicolons, each a sequence of words. *)
(***************************************************************************)
EXTENDS Integers, Sequences, SequencesExt, FiniteSetsExt

Blank == "blank"
Flags == {"-r", "-f"}

Modify(path)     == [operation |-> "modify", path |-> path]
Create(path)     == [operation |-> "create", path |-> path]
Delete(path)     == [operation |-> "delete", path |-> path]
Rename(from, to) == [operation |-> "rename", fromPath |-> from, toPath |-> to]

-----------------------------------------------------------------------------
(* Names                                                                    *)

\* normalizeMutationToolName
NormalTool(tool) ==
    CASE tool \in {"write", "edit", "multiedit", "bash"} -> tool
      [] tool \in {"patch", "apply_patch"}               -> "apply_patch"
      [] OTHER                                           -> "none"

\* getMutationToolHookNames: hooks for either spelling of a patch tool run.
MutationHookNames(tool) ==
    CASE NormalTool(tool) = "none"        -> <<>>
      [] NormalTool(tool) = "apply_patch" -> <<"patch", "apply_patch">>
      [] OTHER                            -> <<NormalTool(tool)>>

-----------------------------------------------------------------------------
(* Direct edits                                                             *)

\* extractDirectMutationChange: no change or one.  A path that differs from
\* the one named makes a rename, whatever operation is named too.
DirectChange(args, fallback) ==
    LET path == IF args.path # Blank THEN args.path ELSE fallback IN
    CASE path = Blank -> <<>>
      [] path # Blank /\ args.source \notin {Blank, path} -> <<Rename(args.source, path)>>
      [] path # Blank /\ args.source \in {Blank, path} /\ args.destination \notin {Blank, path} ->
            <<Rename(path, args.destination)>>
      [] OTHER -> CASE args.operation = "create" -> <<Create(path)>>
                    [] args.operation = "delete" -> <<Delete(path)>>
                    [] OTHER                     -> <<Modify(path)>>

\* extractEditsArrayChanges: an edit without a path is an edit of the call's.
EditsChanges(args) ==
    FlattenSeq([i \in DOMAIN args.edits |-> DirectChange(args.edits[i], args.path)])

-----------------------------------------------------------------------------
(* Patches                                                                  *)

\* parsePatchChanges, one line: an update waits for the line that may rename
\* it, and is written down before the next file is.
Flush(r) ==
    IF r.pending = Blank THEN r
    ELSE [changes |-> Append(r.changes, Modify(r.pending)), pending |-> Blank]

PatchLine(r, line) ==
    CASE line.kind = "add"    -> [Flush(r) EXCEPT !.changes = Append(@, Create(line.path))]
      [] line.kind = "delete" -> [Flush(r) EXCEPT !.changes = Append(@, Delete(line.path))]
      [] line.kind = "update" -> [Flush(r) EXCEPT !.pending = line.path]
      [] line.kind = "move" /\ r.pending # Blank ->
            [changes |-> Append(r.changes, Rename(r.pending, line.path)), pending |-> Blank]
      [] OTHER -> r

PatchChanges(lines) ==
    Flush(FoldLeft(PatchLine, [changes |-> <<>>, pending |-> Blank], lines)).changes

\* parseHashlineChanges: a section is a modification of the file its header
\* names, unless a line of it says that the file went or moved.
Section(r) ==
    IF r.change # <<>> THEN r.changes \o r.change
    ELSE IF r.current # Blank THEN Append(r.changes, Modify(r.current)) ELSE r.changes

HashLine(r, line) ==
    CASE line.kind = "header" -> [changes |-> Section(r), current |-> line.path, change |-> <<>>]
      [] line.kind = "rem" /\ r.current # Blank -> [r EXCEPT !.change = <<Delete(r.current)>>]
      [] line.kind = "mv" /\ r.current # Blank -> [r EXCEPT !.change = <<Rename(r.current, line.path)>>]
      [] OTHER -> r

HashlineChanges(lines) ==
    Section(FoldLeft(HashLine, [changes |-> <<>>, current |-> Blank, change |-> <<>>], lines))

-----------------------------------------------------------------------------
(* Commands                                                                 *)

\* extractPathArgs, after the words before start: flags are skipped up to the
\* first --, and everything after it is an operand.
PathArgs(words, start) ==
    LET step(r, w) == IF r.positional THEN [r EXCEPT !.paths = Append(@, w)]
                      ELSE IF w = "--" THEN [r EXCEPT !.positional = TRUE]
                      ELSE IF w \in Flags THEN r
                      ELSE [r EXCEPT !.paths = Append(@, w)]
    IN  FoldLeft(step, [paths |-> <<>>, positional |-> FALSE],
                 SubSeq(words, start, Len(words))).paths

\* parseBashChanges, one segment: a move of several files names the directory
\* as the new path of each, and a copy only the place it goes to.
SegmentChanges(words) ==
    IF words = <<>> THEN <<>>
    ELSE LET git   == words[1] = "git" /\ Len(words) > 1 /\ words[2] \in {"rm", "mv", "cp"}
             verb  == IF git THEN words[2] ELSE words[1]
             paths == PathArgs(words, IF git THEN 3 ELSE 2)
         IN  CASE verb = "rm" -> [i \in DOMAIN paths |-> Delete(paths[i])]
               [] verb \in {"touch", "mkdir"} -> [i \in DOMAIN paths |-> Create(paths[i])]
               [] verb = "mv" /\ Len(paths) > 1 ->
                     [i \in 1 .. Len(paths) - 1 |-> Rename(paths[i], Last(paths))]
               [] verb = "cp" /\ Len(paths) > 1 -> <<Create(Last(paths))>>
               [] OTHER -> <<>>

BashChanges(segments) == FlattenSeq([i \in DOMAIN segments |-> SegmentChanges(segments[i])])

-----------------------------------------------------------------------------
(* Calls                                                                    *)

\* getToolFileChanges: for an edit the list of edits is tried first, then the
\* arguments themselves, and the text of a patch last.
ToolFileChanges(tool, args) ==
    LET normal == NormalTool(tool)
        edits  == IF normal \in {"edit", "multiedit"} THEN EditsChanges(args) ELSE <<>>
        direct == DirectChange(args, Blank)
    IN  CASE normal = "none"        -> <<>>
          [] normal = "apply_patch" -> PatchChanges(args.patch)
          [] normal = "bash"        -> BashChanges(args.command)
          [] OTHER -> IF edits # <<>> THEN edits
                      ELSE IF direct # <<>> THEN direct
                      ELSE IF normal # "edit" THEN <<>>
                      ELSE IF args.isPatch THEN PatchChanges(args.patch)
                      ELSE HashlineChanges(args.patch)

\* getChangedPaths: both ends of a rename.
ChangedPaths(changes) ==
    UNION {IF changes[i].operation = "rename" THEN {changes[i].fromPath, changes[i].toPath}
           ELSE {changes[i].path} : i \in DOMAIN changes}

-----------------------------------------------------------------------------
(* Checks                                                                   *)

\* Lines of the given kinds, each with a path of its own.
Lines(kinds, n) == {[i \in 1 .. n |-> [kind |-> k[i], path |-> ToString(i)]] : k \in [1 .. n -> kinds]}

Opening(lines, kinds) == SelectSeq([i \in DOMAIN lines |-> i], LAMBDA i : lines[i].kind \in kinds)

\* Each file line of a patch is one change, in the order of the lines; an
\* update is a rename exactly when the next line that matters is a move.
ASSUME PatchMeaning ==
    \A n \in 0 .. 6 : \A lines \in Lines({"add", "delete", "update", "move", "text"}, n) :
        LET opens   == Opening(lines, {"add", "delete", "update"})
            path(i) == lines[i].path
            later(i) == {j \in i + 1 .. n : lines[j].kind # "text"}
            meaning(i) ==
                CASE lines[i].kind = "add"    -> Create(path(i))
                  [] lines[i].kind = "delete" -> Delete(path(i))
                  [] OTHER -> IF later(i) # {} /\ lines[Min(later(i))].kind = "move"
                              THEN Rename(path(i), path(Min(later(i)))) ELSE Modify(path(i))
        IN  PatchChanges(lines) = [k \in DOMAIN opens |-> meaning(opens[k])]

\* Each header of a hashline edit is one change, decided by the last line of
\* its section that says something.
ASSUME HashlineMeaning ==
    \A n \in 0 .. 6 : \A lines \in Lines({"header", "rem", "mv", "text"}, n) :
        LET opens   == Opening(lines, {"header"})
            end(i)  == Min({j \in i + 1 .. n : lines[j].kind = "header"} \cup {n + 1})
            says(i) == {j \in i + 1 .. end(i) - 1 : lines[j].kind # "text"}
            meaning(i) ==
                IF says(i) = {} THEN Modify(lines[i].path)
                ELSE IF lines[Max(says(i))].kind = "rem" THEN Delete(lines[i].path)
                ELSE Rename(lines[i].path, lines[Max(says(i))].path)
        IN  HashlineChanges(lines) = [k \in DOMAIN opens |-> meaning(opens[k])]

\* The operands of a command: a word is one when it is no flag, or when a --
\* stands before it.  Each removed or made file is one change, a move of one
\* file has both ends, and git before a verb changes nothing.
ASSUME OperandsOfCommands ==
    \A n \in 0 .. 4 : \A words \in [1 .. n -> {"-r", "--", "a", "b"}] :
        LET operand(i) == \/ words[i] \notin {"-r", "--"}
                          \/ \E j \in 1 .. i - 1 : words[j] = "--"
            places == SelectSeq([i \in 1 .. n |-> i], operand)
            named  == {words[i] : i \in ToSet(places)}
            after(verb) == SegmentChanges(<<verb>> \o words)
        IN  /\ ChangedPaths(after("rm")) = named
            /\ Len(after("rm")) = Len(places)
            /\ ChangedPaths(after("mv")) = IF Len(places) > 1 THEN named ELSE {}
            /\ Len(after("cp")) = IF Len(places) > 1 THEN 1 ELSE 0
            /\ \A verb \in {"rm", "mv", "cp"} :
                  SegmentChanges(<<"git", verb>> \o words) = after(verb)

Direct(path, source, destination, operation) ==
    [path |-> path, source |-> source, destination |-> destination, operation |-> operation]

\* A direct edit that names a path always changes that path or ends at it, and
\* an edit that only repeats its path as source or destination is no rename.
ASSUME DirectEditsNameTheirFile ==
    \A path, source, destination \in {Blank, "a", "b"}, operation \in {Blank, "create", "delete"} :
        LET c == DirectChange(Direct(path, source, destination, operation), Blank) IN
        /\ c = <<>> <=> path = Blank
        /\ path # Blank => path \in ChangedPaths(c)
        /\ \A i \in DOMAIN c : c[i].operation = "rename" => c[i].fromPath # c[i].toPath

\* Hooks are looked up by names that stand for the tool that was called.
ASSUME NamesAgree ==
    \A tool \in {"write", "edit", "multiedit", "patch", "apply_patch", "bash", "read"} :
        \A name \in ToSet(MutationHookNames(tool)) : NormalTool(name) = NormalTool(tool)
=============================================================================
