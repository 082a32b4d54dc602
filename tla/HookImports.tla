---------------------------- MODULE HookImports ----------------------------
(***************************************************************************)
(* The files a hooks file imports, src/core/hooks/imports.ts: which of them *)
(* are read, in which order, what is refused, and what a reload watches.    *)
(*                                                                          *)
(* A path is a sequence of names.  A world w is what the file system and    *)
(* the environment answer during one load:                                  *)
(*   w.real    the real path of every path that exists (symlinks followed)  *)
(*   w.node    what is at a real path: a file [kind, state, imports] whose  *)
(*             state is ok, broken (YAML), unreadable or huge, or a         *)
(*             directory [kind, entries], its hook files sorted by name     *)
(*   w.allow   which of the three opt-ins are set                           *)
(*   w.anchor  the directory project imports stay in, or NoAnchor           *)
(*   w.limit   the deepest import followed, 32 in the code                  *)
(* An import is [bare, to]: to is the path the specifier resolves to, and   *)
(* bare whether it names a package.                                         *)
(***************************************************************************)
EXTENDS Integers, Sequences, SequencesExt, FiniteSetsExt

MaxCanonicalizeDepth == 32
NoAnchor == <<"none">>

ImportError(reason, path) == [reason |-> reason, path |-> path]

Exists(w, path)  == path \in DOMAIN w.real
NodeAt(w, path)  == w.node[w.real[path]]

\* canonicalizeHookPath.  A path that does not exist is named after the
\* nearest parent that does, with one name appended: deeper names are lost.
CanonicalPath(w, path) ==
    IF Exists(w, path) THEN w.real[path]
    ELSE LET parents == {k \in Max({0, Len(path) - MaxCanonicalizeDepth}) .. Len(path) - 1 :
                            Exists(w, SubSeq(path, 1, k))}
         IN  IF parents = {} THEN path
             ELSE LET k == Max(parents)
                  IN  Append(w.real[SubSeq(path, 1, k)], path[k + 1])

\* isPathInsideAnchor: a child whose name begins with two dots is taken for a
\* step out of the anchor.
TwoDots == {"..data"}

InsideAnchor(target, anchor) ==
    /\ IsPrefix(anchor, target)
    /\ target # anchor => target[Len(anchor) + 1] \notin TwoDots

\* checkProjectImportContainment
Escapes(w, scope, target) ==
    /\ scope = "project"
    /\ ~w.allow.outside
    /\ w.anchor # NoAnchor
    /\ ~InsideAnchor(CanonicalPath(w, target), w.anchor)

\* resolveHookImportTargets and expandHookImportPath: one missing entry fails
\* the import of its whole directory.
Refused(reason, path) == [paths |-> <<>>, watch |-> {}, errors |-> <<ImportError(reason, path)>>]

ResolveImport(w, scope, import) ==
    IF scope = "global" /\ ~w.allow.global THEN Refused("global", import.to)
    ELSE IF import.bare /\ ~w.allow.package THEN Refused("package", import.to)
    ELSE LET entries == IF NodeAt(w, import.to).kind = "dir"
                        THEN [i \in DOMAIN NodeAt(w, import.to).entries |->
                                 Append(import.to, NodeAt(w, import.to).entries[i])]
                        ELSE <<import.to>>
         IN  IF ~Exists(w, import.to) \/ \E p \in ToSet(entries) : ~Exists(w, p)
             THEN [Refused("missing", import.to) EXCEPT !.watch = {import.to}]
             ELSE LET files == SelectSeq(entries, LAMBDA p : NodeAt(w, p).kind = "file")
                  IN  [paths |-> files, watch |-> {import.to} \cup ToSet(files), errors |-> <<>>]

\* readSnapshotImports: a file too large is not read at all; one that cannot
\* be read is loaded all the same, as a file with an error.
ReadImports(w, scope, path) ==
    IF ~Exists(w, path) \/ NodeAt(w, path).state # "ok"
    THEN [paths |-> <<>>, watch |-> {},
          errors |-> IF Exists(w, path) /\ NodeAt(w, path).state \in {"broken", "huge"}
                     THEN <<ImportError("envelope", path)>> ELSE <<>>]
    ELSE LET targets  == [i \in DOMAIN NodeAt(w, path).imports |->
                             ResolveImport(w, scope, NodeAt(w, path).imports[i])]
             verdict(p) == IF Escapes(w, scope, p) THEN "escape"
                           ELSE IF NodeAt(w, p).state = "huge" THEN "huge" ELSE "read"
             named    == FlattenSeq([i \in DOMAIN targets |-> targets[i].paths])
             dropped  == SelectSeq(named, LAMBDA p : verdict(p) # "read")
         IN  [paths  |-> SelectSeq(named, LAMBDA p : verdict(p) = "read"),
              watch  |-> UNION {targets[i].watch : i \in DOMAIN targets},
              errors |-> FlattenSeq([i \in DOMAIN targets |-> targets[i].errors])
                         \o [i \in DOMAIN dropped |-> ImportError(verdict(dropped[i]), dropped[i])]]

\* visit, inside expandSnapshotImports: r is what the walk has loaded (by real
\* path), listed, reported and seen to watch, and visiting the files on the
\* way from the root.
RECURSIVE VisitFile(_, _, _, _, _, _)
VisitFile(w, scope, path, depth, visiting, r) ==
    LET name == CanonicalPath(w, path)
        fail(reason) == [r EXCEPT !.errors = Append(@, ImportError(reason, path))]
    IN  IF depth > w.limit THEN fail("depth")
        ELSE IF name \in r.loaded THEN r
        ELSE IF name \in visiting THEN fail("cycle")
        ELSE LET found == ReadImports(w, scope, path)
                 below == FoldLeft(LAMBDA acc, p :
                                      VisitFile(w, scope, p, depth + 1, visiting \cup {name}, acc),
                                   [r EXCEPT !.errors = @ \o found.errors,
                                             !.watch = @ \cup found.watch],
                                   found.paths)
             IN  [below EXCEPT !.loaded = @ \cup {name}, !.ordered = Append(@, path)]

\* expandSnapshotImports, over the entries in order: what an earlier entry
\* loaded is not loaded again.
ExpandImports(w, entries) ==
    FoldLeft(LAMBDA r, e : VisitFile(w, e.scope, e.path, 0, {}, r),
             [loaded |-> {}, ordered |-> <<>>, errors |-> <<>>, watch |-> {}],
             entries)

-----------------------------------------------------------------------------
(* Checks                                                                   *)

None3 == [global |-> FALSE, package |-> FALSE, outside |-> FALSE]

\* A world of files /0, /1 and /2 that import one another as graph says.
GraphWorld(graph, limit) ==
    LET path(n) == <<ToString(n)>>
    IN  [real   |-> [p \in {path(n) : n \in DOMAIN graph} |-> p],
         node   |-> [p \in {path(n) : n \in DOMAIN graph} |->
                       LET n == CHOOSE m \in DOMAIN graph : path(m) = p IN
                       [kind |-> "file", state |-> "ok",
                        imports |-> [i \in DOMAIN graph[n] |->
                                        [bare |-> FALSE, to |-> path(graph[n][i])]]]],
         allow  |-> None3, anchor |-> NoAnchor, limit |-> limit]

Three == 0 .. 2

\* Lists of distinct files.
Orders(S) == UNION {{s \in [1 .. k -> S] : \A i, j \in 1 .. k : i # j => s[i] # s[j]} : k \in 0 .. 3}

Reached(graph, from) ==
    LET step(S) == S \cup UNION {ToSet(graph[n]) : n \in S} IN step(step(step(from)))

Below(graph, n) == Reached(graph, ToSet(graph[n]))

\* Whatever imports whatever, a load ends; it lists every file that can be
\* reached, once; a file comes before another that imports it unless the two
\* import each other; and it reports a cycle exactly when there is one.
ASSUME ImportsComeFirst ==
    \A graph \in [Three -> Orders(Three)] :
        LET root(n) == [scope |-> "project", path |-> <<ToString(n)>>]
            r       == ExpandImports(GraphWorld(graph, 32), <<root(0), root(1)>>)
            at(n)   == {i \in DOMAIN r.ordered : r.ordered[i] = <<ToString(n)>>}
            reached == Reached(graph, {0, 1})
        IN  /\ \A n \in Three : Cardinality(at(n)) = IF n \in reached THEN 1 ELSE 0
            /\ \A n \in reached : \A m \in ToSet(graph[n]) :
                  n \notin Below(graph, m) => \A i \in at(m), j \in at(n) : i < j
            /\ r.errors # <<>> <=> \E n \in reached : n \in Below(graph, n)

\* A load cut short by the limit says so: a file that can be reached is loaded
\* or there is an error, also when it is first met on too long a path.
ASSUME NoSilentCut ==
    \A graph \in [Three -> Orders(Three)] :
        LET r == ExpandImports(GraphWorld(graph, 1), <<[scope |-> "project", path |-> <<"0">>]>>)
        IN  r.errors = <<>> => r.loaded = {<<ToString(n)>> : n \in Reached(graph, {0})}

\* A project at /p whose hooks file imports one target; files inside and
\* outside, links between them, a directory and a missing entry.
ProjectWorld(target, bare, state, allow) ==
    LET file(imports) == [kind |-> "file", state |-> "ok", imports |-> imports]
        self == {<<"p">>, <<"p", "hooks">>, <<"p", "in">>, <<"p", "dir">>, <<"p", "dir", "a">>,
                 <<"p", "..data">>, <<"pp", "out">>, <<"out">>}
    IN  [real   |-> [p \in self \cup {<<"p", "link">>, <<"pp", "link">>} |->
                       CASE p = <<"p", "link">>  -> <<"out">>
                         [] p = <<"pp", "link">> -> <<"p", "in">>
                         [] OTHER                -> p],
         node   |-> [p \in self |->
                       CASE p = <<"p">>          -> [kind |-> "dir", entries |-> <<>>]
                         [] p = <<"p", "dir">>   -> [kind |-> "dir", entries |-> <<"a">>]
                         [] p = <<"p", "hooks">> -> file(<<[bare |-> bare, to |-> target]>>)
                         [] p = <<"out">>        -> file(<<[bare |-> FALSE, to |-> <<"pp", "out">>]>>)
                         [] p = <<"p", "in">>    -> [file(<<>>) EXCEPT !.state = state]
                         [] OTHER                -> file(<<>>)],
         allow  |-> allow, anchor |-> <<"p">>, limit |-> 32]

Targets == {<<"p", "in">>, <<"p", "dir">>, <<"p", "link">>, <<"p", "gone">>, <<"p", "..data">>,
            <<"pp", "out">>, <<"pp", "link">>, <<"out">>}

\* Without its opt-in no import leads a load out of its bounds: from a global
\* file nowhere, through a package name nowhere, from a project only to files
\* whose real path is under the anchor.  What was left out is reported, and
\* what was loaded is watched.
ASSUME BoundsHold ==
    \A target \in Targets, bare \in BOOLEAN, state \in {"ok", "broken", "unreadable", "huge"},
       scope \in {"global", "project"},
       allow \in [global : BOOLEAN, package : BOOLEAN, outside : BOOLEAN] :
        LET w        == ProjectWorld(target, bare, state, allow)
            root     == <<"p", "hooks">>
            r        == ExpandImports(w, <<[scope |-> scope, path |-> root]>>)
            imported == r.loaded \ {root}
        IN  /\ scope = "global" /\ ~allow.global => imported = {}
            /\ bare /\ ~allow.package => imported = {}
            /\ scope = "project" /\ ~allow.outside => \A p \in imported : IsPrefix(w.anchor, p)
            /\ imported = {} => r.errors # <<>>
            /\ \A i \in DOMAIN r.ordered : r.ordered[i] \in r.watch \cup {root}

\* Where canonical names are too coarse: two files that are both gone, in a
\* directory that is gone too, share one name, and only the first is loaded.
ASSUME MissingNamesCollide ==
    LET w == [GraphWorld(<<>>, 32) EXCEPT !.real = (<<>> :> <<>>)]
    IN  CanonicalPath(w, <<"gone", "a">>) = CanonicalPath(w, <<"gone", "b">>)
=============================================================================
