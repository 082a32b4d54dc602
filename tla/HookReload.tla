----------------------------- MODULE HookReload -----------------------------
(***************************************************************************)
(* Loading the hook files and keeping them fresh: the load of              *)
(* core/hooks/snapshot-cache.ts with its cache, refreshHooks of            *)
(* core/runtime.ts, the runtimes of pi/runtime-registry.ts and the loads   *)
(* it prepares for prompts, and the trust list of core/config-paths.ts     *)
(* with the command that extends it (pi/commands.ts).                      *)
(*                                                                         *)
(* The code is synchronous, the disk is not: editors and other processes   *)
(* write between any two looks at it.  A load looks when it reads, when it *)
(* takes the fingerprints, and when the stats for the next refresh are     *)
(* taken.  All directories of the model lie in one project: a global file, *)
(* the file of the project, one file it imports, and the trust list.       *)
(***************************************************************************)
EXTENDS Naturals, Sequences, FiniteSets, SequencesExt

CONSTANTS
    None,         \* nothing prepared, no runtime, nobody
    Dirs,         \* working directories of the project
    Anchors,      \* trust anchors; one of them is this project
    Here,
    Edits,        \* what is done by hand: <<file, what becomes of it>>
    MaxRuntimes,  \* MAX_CWD_ENTRIES
    CacheMax,     \* SNAPSHOT_CACHE_MAX
    MaxWrites     \* bound: how often a file is written

ASSUME HookReloadAssumption ==
    /\ None \notin Dirs \cup Anchors
    /\ Here \in Anchors
    /\ Edits \subseteq {"global", "project", "imported", "trust"} \X {"absent", "valid", "broken"}
    /\ MaxRuntimes \in Nat \ {0} /\ CacheMax \in Nat \ {0} /\ MaxWrites \in Nat

VARIABLES
    disk,         \* every file: [stamp, kind, trusts]
    writes,       \* how many writes there were
    cache,        \* snapshotCache, the least recently used first
    contexts,     \* latestContexts, the least recently used first
    prepared,     \* preparedLoads: sequence of [dir, result, sig]
    runtime,      \* of a directory: [hooks, sig, watch, stats] or None
    load,         \* the load that is going on, or None
    lock, cmd,    \* the lock directory, and the phase of every command
    trustSeen,    \* history: was the project trusted when a runtime last read?
    good,         \* history: the hook sets a runtime has loaded without errors
    late,         \* history: a file was written between two looks of a load
    granted       \* history: anchors that a command has written or found in the list

fileVars  == <<disk, writes>>
loadVars  == <<cache, contexts, prepared, runtime, load, trustSeen, good>>
trustVars == <<lock, cmd, granted>>
vars == <<fileVars, loadVars, trustVars, late>>

\* Every other anchor is added by one /hooks-trust command of some process.
Commands  == Anchors \ {Here}

HookFiles == {"global", "project", "imported"}
Files     == HookFiles \cup {"trust"}
Content   == [stamp : 0..MaxWrites, kind : {"absent", "valid", "broken"}, trusts : SUBSET Anchors]
Absent    == [stamp |-> 0, kind |-> "absent", trusts |-> {}]

HookSets == SUBSET (HookFiles \X (0..MaxWrites))
Looks    == UNION {[X -> Content] : X \in SUBSET Files}
Loaded   == [hooks : HookSets, errors : BOOLEAN, files : SUBSET HookFiles, watch : SUBSET HookFiles]
Loads    == [dir : Dirs, why : {"refresh", "create", "prompt"}, phase : {"read", "sign", "prime"},
             read : [Files -> Content] \cup {None}, result : Loaded \cup {None},
             sig : Looks \cup {None}]

ASSUME NoneIsNoLoad == None \notin Loads

------------------------------------------------------------------------------
(* What a load makes of the files it has read. *)

\* isProjectTrusted: a missing or malformed list trusts nobody.
Trusted(d) == d["trust"].kind = "valid" /\ Here \in d["trust"].trusts

\* discoverHookConfigEntries: the global file and, if trusted, the project's.
Entries(d) == {f \in {"global", "project"} :
                  d[f].kind # "absent" /\ (f = "project" => Trusted(d))}

\* readSnapshotImports: a project file that does not parse imports nothing.
Imports(d) == {f \in {"imported"} : "project" \in Entries(d) /\ d["project"].kind = "valid"}

\* loadDiscoveredHooksFromSnapshots.
Result(d) ==
    LET reached == Entries(d) \cup Imports(d)
        read    == {f \in reached : d[f].kind # "absent"}
    IN  [hooks  |-> {<<f, d[f].stamp>> : f \in {g \in read : d[g].kind = "valid"}},
         errors |-> \E f \in reached : d[f].kind # "valid",
         files  |-> read,
         watch  |-> reached]

\* resolveHookConfigWatchPaths, and what the load adds to it; variant: only the
\* discovered files are watched, not the imported ones.
WatchDiscovered(result) == {"global", "project", "trust"}
Watch(result)           == {"global", "project", "trust"} \cup result.watch

Look(files) == [f \in files |-> disk[f]]

\* Dirs without a runtime have a prepared load at most.
Prepared(c) == {i \in 1..Len(prepared) : prepared[i].dir = c}

\* Map.delete: a key has one place at most.
Without(s, places) == IF places = {} THEN s ELSE RemoveAt(s, CHOOSE i \in places : TRUE)

\* evictLruEntries.
Newest(s, n) == IF Len(s) > n THEN SubSeq(s, Len(s) - n + 1, Len(s)) ELSE s

\* Map.set after Map.delete: x takes the last place.
Latest(s, places, x, n) == Newest(Append(Without(s, places), x), n)

IsLook(x) == DOMAIN x \subseteq Files /\ x \in [DOMAIN x -> Content]

TypeOK ==
    /\ disk \in [Files -> Content] /\ writes \in 0..MaxWrites
    /\ Len(cache) <= CacheMax /\ Len(contexts) <= MaxRuntimes /\ Len(prepared) <= MaxRuntimes
    /\ \A i \in 1..Len(cache) : cache[i].result \in Loaded /\ IsLook(cache[i].sig)
    /\ \A i, j \in 1..Len(cache) : cache[i].key = cache[j].key => i = j
    /\ contexts \in Seq(Dirs)
    /\ \A i \in 1..Len(prepared) : prepared[i].result \in Loaded /\ IsLook(prepared[i].sig)
    /\ \A c \in Dirs : Cardinality(Prepared(c)) <= 1
    /\ \A c \in Dirs : runtime[c] # None =>
          /\ runtime[c].hooks \in HookSets
          /\ IsLook(runtime[c].sig) /\ IsLook(runtime[c].stats)
          /\ DOMAIN runtime[c].stats = runtime[c].watch
          /\ c \in Range(contexts)
    /\ load # None => load.dir \in Dirs /\ load.phase \in {"read", "sign", "prime"}
    /\ lock \in Commands \cup {None}
    /\ cmd \in [Commands -> [phase : {"waiting", "writing", "over"}, read : SUBSET Anchors]]
    /\ granted \subseteq Anchors

Init ==
    /\ disk = [f \in Files |-> [stamp |-> 0, kind |-> "valid",
                                 trusts |-> IF f = "trust" THEN {Here} ELSE {}]]
    /\ writes = 0
    /\ cache = <<>> /\ contexts = <<>> /\ prepared = <<>>
    /\ runtime = [c \in Dirs |-> None]
    /\ load = None
    /\ lock = None
    /\ cmd = [p \in Commands |-> [phase |-> "waiting", read |-> {}]]
    /\ trustSeen = [c \in Dirs |-> FALSE]
    /\ good = [c \in Dirs |-> {}]
    /\ late = FALSE
    /\ granted = {}

------------------------------------------------------------------------------
(* The disk. *)

Put(f, kind, trusts) ==
    /\ writes < MaxWrites
    /\ writes' = writes + 1
    /\ disk' = [disk EXCEPT ![f] = IF kind = "absent" THEN Absent
                    ELSE [stamp |-> writes + 1, kind |-> kind, trusts |-> trusts]]
    /\ late' = (late \/ prepared # <<>> \/ (load # None /\ load.phase \in {"sign", "prime"}))

\* Somebody edits, breaks or removes a file.
Edit(f, kind) ==
    /\ Put(f, kind, IF f = "trust" /\ kind = "valid" THEN {Here} ELSE {})
    /\ granted' = IF f = "trust" THEN {} ELSE granted
    /\ UNCHANGED <<loadVars, lock, cmd>>

------------------------------------------------------------------------------
(* The trust command: a lock directory around read, modify and rename. *)

\* readTrustedProjects under the lock: a list that is not one is left alone, one
\* that has the anchor needs no writing.
ReadTrust(p) ==
    LET trust   == disk["trust"]
        usable  == trust.kind # "broken"
        present == p \in trust.trusts
    IN  /\ cmd' = [cmd EXCEPT ![p] = IF usable /\ ~present
                                     THEN [phase |-> "writing", read |-> trust.trusts]
                                     ELSE [phase |-> "over", read |-> {}]]
        /\ lock' = IF usable /\ ~present THEN p ELSE lock
        /\ granted' = IF usable /\ present THEN granted \cup {p} ELSE granted
        /\ UNCHANGED <<fileVars, loadVars, late>>

\* Variant: a lock that is there is taken over.
LockAnyway(p) == cmd[p].phase = "waiting" /\ ReadTrust(p)

\* mkdir of the lock, and the list is read.
Lock(p) == cmd[p].phase = "waiting" /\ lock = None /\ ReadTrust(p)

\* The lock is still there after five seconds: the command fails.
GiveUp(p) ==
    /\ cmd[p].phase = "waiting" /\ lock # None
    /\ cmd' = [cmd EXCEPT ![p].phase = "over"]
    /\ UNCHANGED <<fileVars, loadVars, lock, granted, late>>

\* atomicallyWriteFile: the list as read, with the anchor, by one rename.  The
\* lock goes, unless the process dies first.
WriteTrust(p) ==
    /\ cmd[p].phase = "writing"
    /\ Put("trust", "valid", cmd[p].read \cup {p})
    /\ cmd' = [cmd EXCEPT ![p] = [phase |-> "over", read |-> {}]]
    /\ lock' \in {None, lock}
    /\ granted' = granted \cup {p}
    /\ UNCHANGED loadVars

\* Its process dies before: the lock stays, and nobody else removes it.
Die(p) ==
    /\ cmd[p].phase = "writing"
    /\ cmd' = [cmd EXCEPT ![p] = [phase |-> "over", read |-> {}]]
    /\ UNCHANGED <<fileVars, loadVars, lock, granted, late>>

Trusting == \E p \in Commands :
    Lock(p) \/ GiveUp(p) \/ WriteTrust(p) \/ Die(p)

------------------------------------------------------------------------------
(* Events reach the runtime of their directory. *)

ContextOf(c) == {i \in 1..Len(contexts) : contexts[i] = c}

\* Variant: a directory that falls out leaves its runtime behind.
RememberKeeping(c) ==
    /\ contexts' = Latest(contexts, ContextOf(c), c, MaxRuntimes)
    /\ runtime' = runtime

\* rememberContext: the directory becomes the most recent one; a directory that
\* falls out takes its runtime along.
Remember(c) ==
    LET recent == Latest(contexts, ContextOf(c), c, MaxRuntimes)
    IN  /\ contexts' = recent
        /\ runtime' = [d \in Dirs |-> IF d \in Range(recent) THEN runtime[d] ELSE None]

Begun(c, why) == [dir |-> c, why |-> why, phase |-> "read", read |-> None,
                  result |-> None, sig |-> None]

\* An event of a directory whose runtime finds nothing changed uses its hooks as
\* they are.
EventUnchanged(c) ==
    /\ load = None /\ runtime[c] # None
    /\ Look(runtime[c].watch) = runtime[c].stats
    /\ Remember(c)
    /\ UNCHANGED <<fileVars, trustVars, cache, prepared, load, trustSeen, good, late>>

\* watchedFilesChanged, and the reload begins.
EventChanged(c) ==
    /\ load = None /\ runtime[c] # None
    /\ Look(runtime[c].watch) # runtime[c].stats
    /\ load' = Begun(c, "refresh")
    /\ Remember(c)
    /\ UNCHANGED <<fileVars, trustVars, cache, prepared, trustSeen, good, late>>

\* getRuntimeFor without a runtime: a prepared load is used as it is.
EventFirst(c) ==
    /\ load = None /\ runtime[c] = None
    /\ LET mine == {prepared[i] : i \in Prepared(c)}
       IN  load' = IF mine = {} THEN Begun(c, "create")
                   ELSE LET x == CHOOSE y \in mine : TRUE
                        IN  [Begun(c, "create") EXCEPT !.phase = "prime", !.result = x.result,
                                                       !.sig = x.sig]
    /\ prepared' = Without(prepared, Prepared(c))
    /\ Remember(c)
    /\ UNCHANGED <<fileVars, trustVars, cache, trustSeen, good, late>>

\* before_agent_start: getHookLoadFor loads, whatever the runtime has.
Prompt(c) ==
    /\ load = None
    /\ load' = Begun(c, "prompt")
    /\ UNCHANGED <<fileVars, trustVars, cache, contexts, prepared, runtime, trustSeen, good, late>>

\* The entries are discovered and the files are read.
ReadFiles ==
    /\ load # None /\ load.phase = "read"
    /\ load' = [load EXCEPT !.read = disk, !.result = Result(disk), !.phase = "sign"]
    /\ trustSeen' = IF load.why = "prompt" /\ runtime[load.dir] # None THEN trustSeen
                    ELSE [trustSeen EXCEPT ![load.dir] = Trusted(disk)]
    /\ UNCHANGED <<fileVars, trustVars, cache, contexts, prepared, runtime, good, late>>

\* The cache key: the discovered files.
Key(d) == Entries(d)

\* The fingerprints are taken, after the contents were read; a cached result with
\* the same fingerprints is preferred to the one just made.  A load for a prompt
\* serves the runtime that the prompt needs next, and is left prepared if the
\* prompt has no session.
Sign ==
    LET key    == Key(load.read)
        sig    == Look(load.result.watch)
        hit    == {i \in 1..Len(cache) : cache[i].key = key /\ cache[i].sig = sig}
        result == IF hit = {} THEN load.result ELSE cache[CHOOSE i \in hit : TRUE].result
        entry  == [key |-> key, sig |-> sig, result |-> result]
        same   == {i \in 1..Len(cache) : cache[i].key = key}
    IN  /\ load # None /\ load.phase = "sign"
        /\ cache' = Latest(cache, same, entry, CacheMax)
        /\ \/ /\ load.why # "prompt" \/ runtime[load.dir] = None
              /\ load' = [load EXCEPT !.why = IF @ = "prompt" THEN "create" ELSE @,
                             !.result = result, !.sig = sig, !.read = None, !.phase = "prime"]
              /\ IF load.why = "prompt" THEN Remember(load.dir) ELSE UNCHANGED <<contexts, runtime>>
              /\ prepared' = IF load.why = "prompt" THEN Without(prepared, Prepared(load.dir))
                             ELSE prepared
           \/ /\ load.why = "prompt" /\ runtime[load.dir] = None
              /\ prepared' = Latest(prepared, Prepared(load.dir),
                                    [dir |-> load.dir, result |-> result, sig |-> sig], MaxRuntimes)
              /\ load' = None
              /\ Remember(load.dir)
           \/ /\ load.why = "prompt" /\ runtime[load.dir] # None
              /\ load' = None
              /\ Remember(load.dir)
              /\ UNCHANGED prepared
        /\ UNCHANGED <<fileVars, trustVars, trustSeen, good, late>>

\* Variants: nothing is taken away by a reload with errors; or what it could load
\* replaces the old set.
RetainAll(hooks, result)        == hooks
RetainWhatLoaded(hooks, result) == result.hooks

\* retainHooksFromAuthorizedFiles.
Retain(hooks, result) == {x \in hooks : x[1] \in result.files}

\* The stats are taken and the result is adopted: by a new runtime as it is, by a
\* refreshed one unless its fingerprints are the last ones or it has errors.
Prime ==
    LET c       == load.dir
        result  == load.result
        watched == Watch(result)
        old     == runtime[c]
        hooks   == IF load.why = "create" THEN result.hooks
                   ELSE IF load.sig = old.sig THEN old.hooks
                   ELSE IF result.errors THEN Retain(old.hooks, result)
                   ELSE result.hooks
    IN  /\ load # None /\ load.phase = "prime"
        /\ runtime' = [runtime EXCEPT ![c] =
                          [hooks |-> hooks, sig |-> load.sig,
                           watch |-> watched, stats |-> Look(watched)]]
        /\ good' = [good EXCEPT ![c] =
                       IF load.why = "create" THEN {result.hooks}
                       ELSE IF result.errors THEN @ ELSE @ \cup {result.hooks}]
        /\ load' = None
        /\ UNCHANGED <<fileVars, trustVars, cache, contexts, prepared, trustSeen, late>>

Loading == ReadFiles \/ Sign \/ Prime

Next ==
    \/ \E e \in Edits : Edit(e[1], e[2])
    \/ Trusting
    \/ \E c \in Dirs : EventUnchanged(c) \/ EventChanged(c) \/ EventFirst(c) \/ Prompt(c)
    \/ Loading

Spec == Init /\ [][Next]_vars
------------------------------------------------------------------------------
(* Properties. *)

Resting(c) == runtime[c] # None /\ (load = None \/ load.dir # c)

\* A project that was not trusted when its files were last read for a runtime has
\* no hooks in it, also when that reload failed for another file, when the load
\* came from the cache, or was prepared earlier.
RevokedStaysOut ==
    \A c \in Dirs : Resting(c) /\ ~trustSeen[c] =>
       \A x \in runtime[c].hooks : x[1] = "global"

\* "If the new config is invalid, the last valid set stays active"
\* (docs/setup.md): the hooks of a runtime come from one load, its first or one
\* without errors, and never mix two of them.
OneLoadOnly ==
    \A c \in Dirs : runtime[c] # None => \E set \in good[c] : runtime[c].hooks \subseteq set

\* A runtime that finds nothing changed has the hooks that are on disk, unless
\* they are invalid or a file was written between two looks of a load.
FreshUnlessRaced ==
    \A c \in Dirs :
       /\ Resting(c) /\ ~late
       /\ Look(runtime[c].watch) = runtime[c].stats
       /\ ~Result(disk).errors
       => runtime[c].hooks = Result(disk).hooks

\* An anchor that a command has written or found stays in the list, however many
\* commands run at once and die, until somebody edits the list by hand.
GrantsKept == granted \subseteq disk["trust"].trusts

\* "Edited hooks.yaml files also refresh on the next relevant PI event"
\* (pi/commands.ts): the runtime that finds nothing changed has them.
EditsAreSeen ==
    \A c \in Dirs :
       /\ Resting(c) /\ prepared = <<>>
       /\ Look(runtime[c].watch) = runtime[c].stats
       /\ ~Result(disk).errors
       => runtime[c].hooks = Result(disk).hooks
=============================================================================
