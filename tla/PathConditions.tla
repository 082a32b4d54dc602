--------------------------- MODULE PathConditions ---------------------------
(***************************************************************************)
(* Which paths a hook's conditions look at and when they hold, src/core/    *)
(* runtime/path-filter.ts, with the memo of glob results it keeps.          *)
(*                                                                          *)
(* A path is [abs, names]: whether it is absolute, and its names.  A change *)
(* is a FileChange, [operation, path] or [operation, fromPath, toPath].     *)
(* matchesGlob of node:path is outside the program: a pattern is modelled   *)
(* by the set of paths it matches.  The spelling of a path (a leading dot,  *)
(* backslashes) is left out.                                                *)
(***************************************************************************)
EXTENDS Integers, Sequences, SequencesExt, FiniteSetsExt

\* The names whose extension is in CODE_EXTENSIONS.
CodeNames == {"a.ts"}

HasCodeExtension(path) == path.names # <<>> /\ Last(path.names) \in CodeNames

-----------------------------------------------------------------------------
(* Paths                                                                    *)

\* path.relative between absolute paths.
RelativeNames(from, to) ==
    LET common == Max({k \in 0 .. Min({Len(from), Len(to)}) : SubSeq(from, 1, k) = SubSeq(to, 1, k)})
    IN  [i \in 1 .. Len(from) - common |-> ".."] \o SubSeq(to, common + 1, Len(to))

\* normalizeConditionPath: a path under the project is named from the project.
\* "../" is a prefix of every step out but the shortest one, "..".
NormalizeConditionPath(project, path) ==
    LET names   == RelativeNames(project, path.names)
        outside == Len(names) > 1 /\ names[1] = ".."
    IN  IF path.abs /\ names # <<>> /\ ~outside THEN [abs |-> FALSE, names |-> names] ELSE path

\* getFinalChangedPaths: a renamed file counts under its new name; the plain
\* list of files is used only when there is no list of changes.
FinalChangedPaths(project, context) ==
    IF context.changes # <<>>
    THEN [i \in DOMAIN context.changes |->
            LET c == context.changes[i]
            IN  NormalizeConditionPath(project, IF c.operation = "rename" THEN c.toPath ELSE c.path)]
    ELSE [i \in DOMAIN context.files |-> NormalizeConditionPath(project, context.files[i])]

\* buildPathMatchContext
PathMatchContext(project, context) ==
    LET paths == FinalChangedPaths(project, context)
    IN  [changedPaths |-> paths, hasCodeFiles |-> \E i \in DOMAIN paths : HasCodeExtension(paths[i])]

-----------------------------------------------------------------------------
(* Conditions                                                               *)

\* evaluatePathConditions, one condition: the reason it fails, or "holds".
\* A condition is [kind, patterns].
ConditionVerdict(condition, match) ==
    LET hits(i) == \E g \in condition.patterns : match.changedPaths[i] \in g
        among   == DOMAIN match.changedPaths
    IN  CASE condition.kind = "matchesCodeFiles" ->
                IF match.hasCodeFiles THEN "holds" ELSE "matchesCodeFiles_failed"
          [] condition.kind = "matchesAnyPath" ->
                IF among = {} THEN "matchesAnyPath_no_paths"
                ELSE IF \E i \in among : hits(i) THEN "holds" ELSE "matchesAnyPath_failed"
          [] condition.kind = "matchesAllPaths" ->
                IF among = {} THEN "matchesAllPaths_no_paths"
                ELSE IF \A i \in among : hits(i) THEN "holds" ELSE "matchesAllPaths_failed"

\* The first condition that fails decides.
EvaluatePathConditions(conditions, match) ==
    LET failing == SelectSeq([i \in DOMAIN conditions |-> ConditionVerdict(conditions[i], match)],
                             LAMBDA v : v # "holds")
    IN  IF failing = <<>> THEN "matched" ELSE failing[1]

-----------------------------------------------------------------------------
(* The memo                                                                 *)

\* getGlobMatcher, for one pattern: cache lists the paths asked for last with
\* their results, the oldest first; cap is 256 in the code.
MatchCached(r, path, pattern, cap) ==
    LET known == SelectSeq(r.cache, LAMBDA e : e.path = path)
        rest  == SelectSeq(r.cache, LAMBDA e : e.path # path)
        entry == IF known # <<>> THEN known[1] ELSE [path |-> path, result |-> path \in pattern]
        full  == Append(rest, entry)
    IN  [cache  |-> IF Len(full) > cap THEN Tail(full) ELSE full,
         answer |-> entry.result]

-----------------------------------------------------------------------------
(* Checks                                                                   *)

Home == <<"w", "p">>

SmallPaths == UNION {[1 .. n -> {"w", "p", "a.ts", "b.md"}] : n \in 0 .. 4}

\* The name under which conditions see an absolute path: a file of the project
\* under its name in the project, however it was given, and a file elsewhere, or
\* the project itself, under its own.  The directory above the project is the
\* exception: it is seen as "..".
NameSeen(project, names) ==
    IF IsStrictPrefix(project, names)
    THEN [abs |-> FALSE, names |-> SubSeq(names, Len(project) + 1, Len(names))]
    ELSE IF project # <<>> /\ names = Front(project) THEN [abs |-> FALSE, names |-> <<"..">>]
    ELSE [abs |-> TRUE, names |-> names]

ASSUME OneNamePerFile ==
    \A names \in SmallPaths, project \in {<<>>, <<"w">>, Home, <<"w", "p", "p">>} :
        LET seen == NormalizeConditionPath(project, [abs |-> TRUE, names |-> names])
        IN  /\ seen = NameSeen(project, names)
            /\ ~seen.abs => NormalizeConditionPath(project, seen) = seen

File(name) == [abs |-> FALSE, names |-> <<name>>]

SmallFiles == {File("a.ts"), File("b.md")}

SmallChanges == [operation : {"create", "modify", "delete"}, path : SmallFiles]
                \cup [operation : {"rename"}, fromPath : SmallFiles, toPath : SmallFiles]

\* Where a change leaves its file.
Ends(c) == IF c.operation = "rename" THEN c.toPath ELSE c.path

\* A hook runs exactly when every condition holds of the set of paths the
\* changes end at, and none holds of no paths at all.
ASSUME ConditionsReadTheEnds ==
    LET patterns == {{{File("a.ts")}}, {{File("b.md")}}, {{File("a.ts")}, {File("b.md")}}}
        conditions == [kind : {"matchesCodeFiles", "matchesAnyPath", "matchesAllPaths"},
                       patterns : patterns]
    IN  \A n \in 0 .. 2 : \A changes \in [1 .. n -> SmallChanges], c1, c2 \in conditions :
            LET ends == {Ends(changes[i]) : i \in 1 .. n}
                holds(c) == LET in == {p \in ends : \E g \in c.patterns : p \in g} IN
                    CASE c.kind = "matchesCodeFiles" -> File("a.ts") \in ends
                      [] c.kind = "matchesAnyPath"   -> in # {}
                      [] c.kind = "matchesAllPaths"  -> ends # {} /\ in = ends
                match == PathMatchContext(Home, [changes |-> changes, files |-> <<>>])
            IN  EvaluatePathConditions(<<c1, c2>>, match) = "matched" <=> holds(c1) /\ holds(c2)

\* The memo never changes an answer and holds the paths asked for last, at
\* most cap of them.
ASSUME MemoIsTransparent ==
    \A asked \in [1 .. 5 -> {1, 2, 3}], pattern \in SUBSET {1, 2, 3} :
        LET after == [n \in 0 .. 5 |->
                        FoldLeft(LAMBDA r, p : MatchCached(r, p, pattern, 2),
                                 [cache |-> <<>>, answer |-> FALSE], SubSeq(asked, 1, n))]
        IN  \A n \in 1 .. 5 :
              /\ after[n].answer = (asked[n] \in pattern)
              /\ Len(after[n].cache) <= 2
              /\ Last(after[n].cache).path = asked[n]
              /\ n > 1 => \E i \in DOMAIN after[n].cache : after[n].cache[i].path = asked[n - 1]
=============================================================================
