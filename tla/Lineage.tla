------------------------------ MODULE Lineage ------------------------------
(***************************************************************************)
(* The root of a session, src/pi/session-lineage.ts.  Pi tells the header   *)
(* of the current session only; its parents are found by reading the first  *)
(* line of one session file after the other, within bounds.                 *)
(*                                                                          *)
(* A header is [id, parent], where no session has the id 0 and parent is    *)
(* the file of the parent session or NoFile.  files maps the files whose    *)
(* first line is a header, and is whole within the first 64 KiB, to that    *)
(* header; every other file, and what is no regular file, reads as none.    *)
(***************************************************************************)
EXTENDS Integers, Sequences, SequencesExt, FiniteSetsExt

NoFile   == "no file"
NoHeader == [id |-> 0, parent |-> NoFile]

\* readSessionHeaderFromFile
HeaderOf(files, file) == IF file \in DOMAIN files THEN files[file] ELSE NoHeader

\* The loop of getRootSessionId: up one parent at a time, until there is none,
\* it cannot be read, it was met before, or depth parents were passed.
RECURSIVE Ascend(_, _, _, _)
Ascend(files, cursor, visited, depth) ==
    LET parent == HeaderOf(files, cursor.parent)
    IN  IF cursor.parent = NoFile \/ depth = 0 \/ parent = NoHeader \/ parent.id \in visited
        THEN cursor.id
        ELSE Ascend(files, parent, visited \cup {parent.id}, depth - 1)

\* rememberSessionRoot: cache lists sessions with their roots, the one stored
\* longest ago first.
RememberRoot(cache, id, root, cap) ==
    LET full == Append(SelectSeq(cache, LAMBDA e : e.id # id), [id |-> id, root |-> root])
    IN  IF Len(full) > cap THEN Tail(full) ELSE full

CachedRoot(cache, id) == SelectSeq(cache, LAMBDA e : e.id = id)

\* getRootSessionId: header is what the session manager says, NoHeader when it
\* has none or fails.  A session that is not the current one is its own root
\* unless its root is remembered.  bounds are [depth, cap], 64 each in the code.
RootSession(files, header, id, cache, bounds) ==
    LET known == CachedRoot(cache, id)
    IN  IF header = NoHeader THEN [root |-> id, cache |-> cache]
        ELSE IF known # <<>> THEN [root |-> known[1].root, cache |-> cache]
        ELSE IF header.id # id THEN [root |-> id, cache |-> cache]
        ELSE LET root == Ascend(files, header, {id}, bounds.depth)
             IN  [root |-> root, cache |-> RememberRoot(cache, id, root, bounds.cap)]

-----------------------------------------------------------------------------
(* Checks                                                                   *)

Ids == 1 .. 4

FileNames == [n \in Ids |-> "f" \o ToString(n)]

\* Session files 1 .. 4, session n with parent up[n] (0 for none); of those,
\* the ones in readable can be read.
SessionFiles(up, readable) ==
    [f \in {FileNames[n] : n \in readable} |->
        LET n == CHOOSE m \in Ids : FileNames[m] = f
        IN  [id |-> n, parent |-> IF up[n] = 0 THEN NoFile ELSE FileNames[up[n]]]]

HeaderFor(up, n) == [id |-> n, parent |-> IF up[n] = 0 THEN NoFile ELSE FileNames[up[n]]]

Up1(up, S) == S \cup {up[n] : n \in {m \in S : up[m] # 0}}
AtOrAbove(up, n) == Up1(up, Up1(up, Up1(up, {n})))

Wide == [depth |-> 64, cap |-> 64]

\* A walk ends whatever the files name.  Where every file can be read and no
\* session is above itself it ends at the one session above all, and all
\* sessions of a family find the same one; a session above itself finds the one
\* whose parent it is; else a walk ends at or above its start.
ASSUME FamiliesAgree ==
    \A up \in [Ids -> 0 .. 4], readable \in SUBSET Ids :
        LET rootOf(n) == RootSession(SessionFiles(up, readable), HeaderFor(up, n), n, <<>>, Wide).root
            loop(n)   == up[n] # 0 /\ n \in AtOrAbove(up, up[n])
        IN  \A n \in Ids :
              /\ rootOf(n) \in AtOrAbove(up, n)
              /\ readable = Ids /\ ~(\E m \in Ids : loop(m)) =>
                    /\ up[rootOf(n)] = 0
                    /\ up[n] # 0 => rootOf(n) = rootOf(up[n])
              /\ readable = Ids /\ loop(n) => up[rootOf(n)] = n

\* Lookups during one session answer alike, before and after the user has
\* moved to another session, as long as fewer than cap sessions came between;
\* then the session is taken for its own root.
ASSUME RootsOutliveTheirSession ==
    LET up    == [n \in Ids |-> n - 1]
        files == SessionFiles(up, Ids)
        visit(c, n) == RootSession(files, HeaderFor(up, n), n, c, [depth |-> 64, cap |-> 2]).cache
        later(c, n, id) == RootSession(files, HeaderFor(up, n), id, c, [depth |-> 64, cap |-> 2]).root
    IN  \A others \in UNION {[1 .. k -> {1, 2, 4}] : k \in 1 .. 3} :
            later(FoldLeft(visit, <<>>, <<3>> \o others), Last(others), 3)
                = IF Cardinality(ToSet(others)) < 2 THEN 1 ELSE 3

\* A root found while a parent could not be read is kept: reading the file
\* later does not correct it.
ASSUME EarlyRootsAreKept ==
    LET up    == [n \in Ids |-> n - 1]
        first == RootSession(SessionFiles(up, {3}), HeaderFor(up, 3), 3, <<>>, Wide)
    IN  RootSession(SessionFiles(up, Ids), HeaderFor(up, 3), 3, first.cache, Wide).root = 3
=============================================================================
