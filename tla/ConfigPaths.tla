---------------------------- MODULE ConfigPaths ----------------------------
(***************************************************************************)
(* Which hooks files count and which paths a running session watches to     *)
(* notice that this has changed, src/core/config-paths.ts.                  *)
(*                                                                          *)
(* A path is a sequence of names from the root.  A world w holds what one   *)
(* discovery asks of its surroundings:                                      *)
(*   w.cwd       the directory of the session                               *)
(*   w.exists    the files that exist                                       *)
(*   w.real      the real path of a directory (itself when not listed)      *)
(*   w.trust     the directories the trust file names, by real path; {}     *)
(*               when it is missing, is no JSON or no list                  *)
(*   w.bypass    whether the environment trusts every project               *)
(*   w.profile   [kind, agentDir]: the host, pi or omp, and its directory   *)
(*   w.appData   the second place global files live on Windows, or NoDir    *)
(***************************************************************************)
EXTENDS Integers, Sequences, SequencesExt, FiniteSetsExt

NoDir == <<"none">>

RealDir(w, dir) == IF dir \in DOMAIN w.real THEN w.real[dir] ELSE dir

FirstExisting(w, candidates) ==
    LET existing == SelectSeq(candidates, LAMBDA p : p \in w.exists)
    IN  IF existing = <<>> THEN NoDir ELSE existing[1]

-----------------------------------------------------------------------------
(* Candidates                                                               *)

\* globalCandidatePaths
GlobalCandidates(w) ==
    LET under(dir) == <<dir \o <<"hook", "hooks.yaml">>, dir \o <<"hooks.yaml">>>>
    IN  under(w.profile.agentDir)
        \o IF w.profile.kind = "pi" /\ w.appData # NoDir
           THEN under(w.appData \o <<"pi", "agent">>) ELSE <<>>

\* projectCandidatePaths: under omp the directory of pi is a fallback.
ProjectCandidates(w, dir) ==
    LET under(name) == <<dir \o <<name, "hook", "hooks.yaml">>, dir \o <<name, "hooks.yaml">>>>
    IN  IF w.profile.kind = "omp" THEN under(".omp") \o under(".pi") ELSE under(".pi")

\* ancestorDirs: dir and what is above it, up to stop, or to the root when stop
\* is not among them.
AncestorDirs(dir, stop) ==
    LET above == [k \in 1 .. Len(dir) + 1 |-> SubSeq(dir, 1, Len(dir) + 1 - k)]
        upTo  == {k \in DOMAIN above : above[k] = stop}
    IN  IF upTo = {} THEN above ELSE SubSeq(above, 1, Min(upTo))

-----------------------------------------------------------------------------
(* Resolution                                                               *)

\* git rev-parse --show-toplevel, outside the program: the nearest directory
\* with a .git.
GitRoot(w, dir) ==
    LET marked == SelectSeq(AncestorDirs(dir, NoDir), LAMBDA d : Append(d, ".git") \in w.exists)
    IN  IF marked = <<>> THEN NoDir ELSE marked[1]

\* findNearestProjectRoot: the nearest directory with a candidate, not above
\* the worktree.
NearestProjectRoot(w, worktree) ==
    LET roots == SelectSeq(AncestorDirs(RealDir(w, w.cwd), worktree),
                           LAMBDA d : FirstExisting(w, ProjectCandidates(w, d)) # NoDir)
    IN  IF roots = <<>> THEN NoDir ELSE roots[1]

\* resolveProjectHookResolution and isProjectTrusted: trust is given to the
\* worktree where there is one, else to the directory of the hooks.
ProjectResolution(w) ==
    LET git      == GitRoot(w, RealDir(w, w.cwd))
        worktree == IF git = NoDir THEN NoDir ELSE RealDir(w, git)
        root     == NearestProjectRoot(w, worktree)
        anchor   == RealDir(w, IF worktree # NoDir THEN worktree
                               ELSE IF root # NoDir THEN root ELSE w.cwd)
    IN  [anchor  |-> anchor,
         config  |-> IF root = NoDir THEN NoDir ELSE FirstExisting(w, ProjectCandidates(w, root)),
         trusted |-> w.bypass \/ anchor \in w.trust]

\* discoverHookConfigEntries: the global file first, then the project's if it
\* is trusted.
DiscoverEntries(w) ==
    LET global  == FirstExisting(w, GlobalCandidates(w))
        project == ProjectResolution(w)
    IN  (IF global = NoDir THEN <<>> ELSE <<[scope |-> "global", filePath |-> global]>>)
        \o IF project.config = NoDir \/ ~project.trusted THEN <<>>
           ELSE <<[scope |-> "project", filePath |-> project.config]>>

\* resolveHookConfigWatchPaths
TrustFile(w) == Append(w.profile.agentDir, "trusted-projects.json")

ConfigWatchPaths(w) ==
    LET dirs == AncestorDirs(RealDir(w, w.cwd), ProjectResolution(w).anchor)
    IN  ToSet(GlobalCandidates(w)) \cup {TrustFile(w)}
        \cup UNION {ToSet(ProjectCandidates(w, d)) \cup {Append(d, ".git")} : d \in ToSet(dirs)}

\* rememberWarnedUntrustedProject: the projects warned about, the one seen
\* longest ago first; cap is 128 in the code.  A project is warned about again
\* once cap others have been.
RememberWarned(r, dir, cap) ==
    LET rest == SelectSeq(r.warned, LAMBDA d : d # dir)
        full == Append(rest, dir)
    IN  [warned |-> IF Len(full) > cap THEN Tail(full) ELSE full,
         warn   |-> dir \notin ToSet(r.warned)]

-----------------------------------------------------------------------------
(* Checks                                                                   *)

SmallDirs == {<<>>, <<"a">>, <<"a", "b">>}

Hooks(dir) == dir \o <<".pi", "hooks.yaml">>
Git(dir)   == Append(dir, ".git")
SmallFiles == {Hooks(d) : d \in SmallDirs} \cup {Git(d) : d \in SmallDirs}

World(exists, trust) ==
    [cwd |-> <<"a", "b">>, exists |-> exists, real |-> <<>>, trust |-> trust, bypass |-> FALSE,
     profile |-> [kind |-> "pi", agentDir |-> <<"home">>], appData |-> NoDir]

SmallWorlds == {World(e, t) : e \in SUBSET SmallFiles, t \in SUBSET SmallDirs}

\* Worlds that no watched path tells from w.
Unnoticed(w) ==
    LET unseen == SmallFiles \ ConfigWatchPaths(w)
    IN  {World((w.exists \ unseen) \cup new, w.trust) : new \in SUBSET unseen}

\* In a worktree, what a session does not watch cannot change which files it
\* would discover.
ASSUME WorktreesAreWatched ==
    \A w \in SmallWorlds : GitRoot(w, w.cwd) # NoDir =>
        \A v \in Unnoticed(w) : DiscoverEntries(v) = DiscoverEntries(w)

\* Outside one it can, though config-paths.ts:109 calls the set complete: hooks
\* that appear above the session's directory, in a project already trusted,
\* go unnoticed, and so does a repository that moves the anchor of trust.
ASSUME OutsideWorktreesSomeAreMissed ==
    LET trusted(files) == World(files, {<<"a">>})
        here(files)    == World(files, {<<"a", "b">>})
    IN  /\ trusted({Hooks(<<"a">>)}) \in Unnoticed(trusted({}))
        /\ DiscoverEntries(trusted({Hooks(<<"a">>)})) # DiscoverEntries(trusted({}))
        /\ here({Hooks(<<"a", "b">>), Git(<<"a">>)}) \in Unnoticed(here({Hooks(<<"a", "b">>)}))
        /\ DiscoverEntries(here({Hooks(<<"a", "b">>)})) # <<>>
        /\ DiscoverEntries(here({Hooks(<<"a", "b">>), Git(<<"a">>)})) = <<>>

\* Hooks of a project run only by the trust of a directory at or above them, and
\* those of a nearer directory hide those of one above.
ASSUME NearestTrustedHooks ==
    \A w \in SmallWorlds : \A e \in ToSet(DiscoverEntries(w)) :
        \E d \in SmallDirs :
            /\ e.filePath = Hooks(d)
            /\ \E t \in w.trust : IsPrefix(t, d)
            /\ \A c \in SmallDirs : IsStrictPrefix(d, c) => Hooks(c) \notin w.exists

\* A project is warned about when it is not among the cap projects seen last.
ASSUME WarningsAreNotRepeated ==
    \A seen \in [1 .. 5 -> 1 .. 3] :
        LET after == [n \in 0 .. 5 |->
                        FoldLeft(LAMBDA r, d : RememberWarned(r, d, 2),
                                 [warned |-> <<>>, warn |-> FALSE], SubSeq(seen, 1, n))]
            last(n) == {m \in 1 .. n - 1 : seen[m] = seen[n]}
        IN  \A n \in 1 .. 5 :
              after[n].warn <=>
                  \/ last(n) = {}
                  \/ Cardinality({seen[m] : m \in Max(last(n)) + 1 .. n - 1}) >= 2
=============================================================================
