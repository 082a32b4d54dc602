# Formal model of Pi-YAML-Hooks

Pi-YAML-Hooks loads hook definitions from YAML files and runs them on the
events of a coding agent host (Pi, OMP): before and after a tool runs, when the
agent becomes idle, when a session is created or deleted, when a prompt is
submitted. This directory holds TLA+ modules translated from the sources under
`src/src`, TLC configurations that check them on small instances, and proofs
checked by TLAPS. Line numbers below and in `PROJECT.json` refer to the commit
the modules were written from.

## 1. The system

### Components

| Component | Source | State it keeps | Operations |
|---|---|---|---|
| Dispatcher | `core/runtime/dispatch.ts` | `dispatchStates`: per event and session an active flag and a queue of parked requests | `dispatchHooks`, `dispatchToolHooks`, execution of the hooks of a request |
| Tool-call handlers | `core/runtime.ts` | `pendingToolCalls` of the session store, the hook map in force | `tool.execute.before`, `tool.execute.after`, `user.bash.before`, `user.prompt.submit` |
| Idle handler | `core/runtime.ts`, `core/session-state.ts` | pending changes of a session, keys of the dispatch in flight, keys changed again meanwhile | add, begin, consume, cancel |
| Async queue | `core/runtime/async-queue.ts` | per lane a job counter and a bounded queue | `enqueueAsyncHook`, end of a job |
| Session store | `core/session-state.ts` | session records, tombstones of deleted sessions, pending tool calls | get or create, delete, root lookup, remember and consume arguments, sweep |
| Recursion guard | `core/runtime/recursion-guard.ts` | a store in an async context with depth and active keys | run a hook action under the guard |
| Hook reload | `core/runtime.ts`, `core/hooks/snapshot-cache.ts` | the hooks in force, the last signature, file fingerprints | `refreshHooks` at each event |
| Hook loading | `core/load-hooks.ts`, `core/hooks/*` | none | parse, import, override, validate, merge |
| Conditions | `core/runtime/path-filter.ts`, `core/tool-paths.ts` | a memo of glob results | does a hook apply, what did a tool change |
| Actions | `core/runtime/actions.ts` | the time left of a pre-tool budget | run a bash, confirm, notify, prompt, command or tool action |
| Bash executor | `core/bash-executor.ts` | a child process, timers, captured output | run, time out, kill, report |
| Adapter | `pi/register-adapter.ts`, `pi/session-lifecycle.ts`, `pi/user-bash.ts`, `pi/host-adapter.ts`, `pi/prompt-support.ts` | idle flags and generations, call id map, sessions already announced | host callbacks turned into runtime events |
| Session lineage | `pi/session-lineage.ts` | a cache of roots | find the root of a session in the session files |
| Runtime registry | `pi/runtime-registry.ts` | the last eight project runtimes | look up, prepare, evict |
| Trust store, commands | `pi/commands.ts`, `core/config-paths.ts` | the trust file, its lock directory, a cached parse | trust, untrust, read |
| User interface and output | `pi/autocomplete.ts`, `pi/diagnostics.ts`, `core/logger.ts`, `pi/unsupported.ts` | log files, warnings already shown | complete, report, log |

### How they interact

The host calls the adapter, which turns a callback into an event of the runtime
of the project. The handler of the event refreshes the hooks, records what the
session store must know, and awaits one or two dispatches. A dispatch selects
the bucket of its event, and for each hook evaluates the conditions and runs
the actions, or puts them in a lane of the async queue. Actions spawn shell
processes or call back into the host, which may raise further events while the
first is still awaited. Everything is one JavaScript process: code runs
undisturbed between two awaits and any other handler may run at an await. Only
the hook files, the trust file and the log are shared with other processes.

### What is hard

- *Interleaving at awaits.* Calls of one session overlap and share dispatch
  keys; a call that finds its key busy is parked, and the call that started
  drains it. What a parked caller is told, which hooks it runs with and in
  which order depend on where the awaits fall.
- *Failure of one of several.* An action that rejects must reach its own caller
  only, and must not stop the draining of others.
- *State read before an await and used after it.* Snapshots of pending changes,
  arguments of a tool call, the hook map, the parent of a session.
- *Bounds.* Lanes, pending calls, tombstones, runtimes and logs are all capped.
- *Files that change while they are read.* Reload and trust file.
- *Time.* Timeouts of shell processes, of confirmations and of the trust lock;
  five-second deduplication of deleted sessions.

`PROJECT.json` lists each such place under `hazards`, at its line, with the
properties that cover it, or the reason why none does.

### What makes each component correct

- Dispatcher: every request is executed exactly once, one at a time per key, in
  order of arrival, and each caller is told the outcome of its own request.
- Tool calls: a tool runs only if both its wildcard and its own pre-tool hooks
  passed for that call; it is refused for no other reason than its own hooks;
  its result is seen by the post-tool hooks.
- Idle changes: a change is reported by the next idle dispatch after it, and
  not again once that dispatch has dealt with it.
- Async queue: counters are exact, limits hold, jobs start in order, accepted
  jobs run.
- Session store: a deleted session stays deleted until it is created again, or
  until more tombstones came than the cap allows; the arguments of a call are
  there when its result comes, unless its session ended or they grew too old or
  too many.
- Reload: what is in force is what the files said at some moment since the last
  event; an invalid file does not silently disable the others.
- Bash executor: the result is settled once; exit code 2 blocks and nothing
  else does; a process that exceeds its time is ended.
- Adapter: one idle event per agent run; each session deleted once per life.
- Trust store: no update of another process is lost; a project that is not
  trusted has no hooks in force.
- Loading: the same files give the same hooks whatever way they were reached;
  what is left out is reported; no import leads out of its bounds.

## 2. The modules

Modules with a state:

| Module | Models | Extends or instantiates | Run by |
|---|---|---|---|
| `HookService` | what a caller of `dispatchHooks` may rely on | | `Dispatch` refines it |
| `Dispatch` | `dispatchHooks` | refines `HookService` | `dispatch` |
| `ToolCalls` | the tool-call handlers over the dispatcher | `D == INSTANCE Dispatch` | `tool_calls`, `file_changed_order` |
| `IdleChanges` | pending changes and the idle handler over the dispatcher | `D == INSTANCE Dispatch` with one key | `idle_changes`, `idle_change_lost` |
| `AsyncQueue` | `enqueueAsyncHook` | | `async_lanes` |
| `SessionStore` | session records, tombstones and the lookup of a root | | `session_store` |
| `BashProcess` | one shell command of the executor | | part of `HookRun` |
| `HookRun` | the hooks, actions and time budget of one request | extends `BashProcess` | `hook_run`, `late_exit_two` |
| `HookReload` | loads, runtimes of several directories, the trust list | | `hook_reload`, `lost_edit` |
| `SessionLifecycle` | session events of both hosts | | part of `Adapter` |
| `Adapter` | call id map and idle events over the lifecycle | extends `SessionLifecycle` | `host` |
| `...Proofs` | theorems | the module they are named for | TLAPS |
| `MC...` | constants for TLC | the module they are named for | |

Pure algorithms, as operators with assumptions that compare them with a plainer
definition over all small inputs. TLC evaluates the assumptions in the run whose
MC module extends the module. For inputs of every size, section 4 proves some of
what they check of `RecursionGuard`, `OutputCap`, `PathConditions`, `PendingCalls` and
`Composition`:

| Module | Models | Evaluated in |
|---|---|---|
| `RecursionGuard` | `withActionRecursionGuard` | `dispatch` |
| `ToolPaths` | the changes a tool call stands for | `tool_calls` |
| `Lineage` | the root of a session in the session files | `session_store` |
| `PendingCalls` | the map of remembered arguments with its sweep and cap | `session_store` |
| `PathConditions` | path conditions of a hook and the glob memo | `hook_run` |
| `OutputCap` | capped output, cut between characters | `hook_run` |
| `Composition` | merging files, overrides, agreement of lanes | `hook_reload` |
| `HookSchema` | the rules one entry of a hooks list must obey | `hook_reload` |
| `HookImports` | expansion of imports: order, cycles, bounds | `hook_reload` |
| `ConfigPaths` | which files are discovered, trusted and watched | `hook_reload` |

An action is always the code between two awaits, so that TLC interleaves
handlers exactly where the program can. Definitions whose comment starts with
*Variant* are not used by any specification: each is a plausible mistake in the
definition that follows it, and replacing that definition by its variant makes
TLC refute one property.

### Dispatch

`runner[k]` is the call that owns the active entry of `dispatchStates` for key
`k`, `pending[k]` the entry's queue. `Call` is `dispatchHooks` up to its first
await: `Skip` when the event has no hook, `Park` when the key is active, `Start`
otherwise. `RunHook` is one hook of `executeDispatchRequest`; its outcome is
any of ok, blocked (only where the call can block) and error (an action or a
host call rejected), which is what conditions, actions and the bash executor
come to. `Settle` is the turn in which the current request ends: its caller is
told if it was parked with a promise, then the next parked request is shifted
and started, or the entry is deleted and the runner returns. A drained request
runs with the bucket captured by the runner (`Bucket`), which the code does by
closing over `hooksForEvent`.

`HookService` is the promise without the mechanism: one waiting line per key,
the head is served and leaves, who asked gets one answer. The refinement
mapping makes the line of a key of the request being executed followed by the
parked ones.

### ToolCalls

`at[c]` says where the handlers of call `c` stand; a stage means the handler
awaits that dispatch. `Before` and `After` are the two handlers up to their
first await, with the hook map `refreshHooks` just gave them; a map is chosen
freely from `HookMap`, which allows more reloads than an editor would make and
never fewer. `OwnBefore`, `Pass`, `Refuse`, `Fail` and `NextAfter` resume a
handler whose dispatch has resolved. A shell command typed by the user is a
call that has no result event (`UserBash`). `Fail` before the tool ends in
`crashed`: the adapter refuses such a tool as well (`register-adapter.ts:146`),
but the arguments remembered for it are left to the sweep, which `ArgsKept`
reflects by saying nothing of `crashed`.

`pendingArgs` is the map of remembered arguments (`pendingToolCalls`): `behind`
counts what was placed after an entry, so that its order is that of the map, and
`expired` are the entries older than five minutes. A result may come long after
its call and after its session was left (`register-adapter.ts:129`). Meanwhile
`DeleteSession` drops the entries of the session, and `SetPendingToolCall` those
that expired (`Swept`, up to the first that did not) and, at the cap, the oldest
(`Kept`). `excused` is history: the calls that may have lost their arguments in
one of these ways. A result that brings the input of the tool along does not need
them (`WithInput`, `Resolved`); any other is then taken to have changed nothing,
and its `file.changed` hooks do not run. Every call has an id of its own here;
what happens when one is set again is in `PendingCalls`, which has the map alone.

### IdleChanges

`ToolChanged` is the effect of `tool.execute.after` on the pending changes,
`IdleEvent` the adapter's decision to send `session.idle` with the handler up
to its await, `Consume` and `HostDied` the two ways in which the handler ends.
`owed` and `since` are history: what no finished idle dispatch has accounted
for, and what changed since the snapshot of a dispatch. A dispatch accounts for
its snapshot when it resolves, or rejects for anything but a dead host.
`Overlap` says whether an idle event may be sent while another is handled. The
adapter allows it, since a new agent run re-arms the event while slow idle hooks
of the last one run.

### AsyncQueue

A lane is an entry of `asyncQueues`. `StartNext` is the loop of `startNext`: it
starts queued jobs while the counter is below the concurrency of the closure,
and each job it starts will call the same closure when done, so `limit[j]`
remembers the concurrency of the closure that started `j`. `Enqueue` drops or
accepts a job; `Done` is the `finally` handler.

### SessionStore

Records are read before an await and written after it, when the session may
have been deleted or may have got another record. So records are objects of a
`heap`: `sessions[s]` refers to the record of `s`, and a level of a lookup
(`stack`) to the one it read, or to none. A record that nothing refers to any
more is blank and its name is used again, which keeps the state finite.

An action is again the code between two awaits. `Resolves` is a call of
`resolveRootSessionID` for a session: it follows the records that know their
parent, without awaiting, up to a level that returns or asks the host.
`ParentResolved` resumes such a level with what the host said: any ancestor,
because the walk through the session files stops at the first file it cannot
read (`Lineage` has that walk), or no parent at all. `LevelResumes` resumes a
level with the root that the level above it found; there is an await at each.
`RememberSession`, `DeleteSession` and `Touch` are what events and tool results
do to the records. `Touch` leaves the changes themselves to `IdleChanges`.

`gone`, `later` and `misled` are history: the sessions last heard of by their
deletion, how many tombstones came after that of each, and the sessions the host
took for roots although they descend from another. `later` does not look at the
set of tombstones but at deletions, so `DeletionsRemembered` says which of them
the set must still have.

### HookRun and BashProcess

`HookRun` opens what `Dispatch` calls an outcome: `h` and `a` are the hook and
the action that is next, `stage` what is awaited. `After` is what follows any
action: a block ends the request if the event can block, otherwise the next
action or hook is due. `Timeout` is the arithmetic of `handleBash` on the
budget of a pre-tool request, which exists on OMP only and whose last resort is
one unit of time. `Ask` and `DeadlinePasses` are the confirmation raced against
its deadline; once one side has won, the other changes nothing because the
stage is left. `Revise` and `Fits` are what an output may do to the arguments
of the tool and to the prompt.

`BashProcess` separates what the executor sees from what happens. `child` and
`held` are the process and whoever else has its output open: nobody, somebody in
its process group, or one that escaped from the group. The close event comes
only when nobody has. `TimeoutFires` sends SIGTERM, which may be ignored,
`KillFires` SIGKILL to the group after the grace period. `inTime` and `escaped`
are history. Time is a counter; a timer that is due goes first (`Due`).

### HookReload

A load is three steps between which any file may be written: `ReadFiles` reads
the contents, `Sign` takes the fingerprints and looks into the cache, `Prime`
takes the stats that later events compare with and adopts the result. In the
code they follow each other without an await, but other processes write files
at any time. Loads are synchronous, so there is one at a time. A file is
absent, valid or broken and has a stamp; the hooks of a file are named by its
stamp, and a set of hooks is what a load made of the stamps it read (`Result`).
`load.why` says for whom: the first event of a directory, the refresh of its
runtime, or a prompt, which may leave a prepared load. The trust list is one of
the files; the `hooks-trust` commands of several processes write it under the
lock directory, and their process may die in between.

### Adapter and SessionLifecycle

`SessionLifecycle` has the events of both hosts in the orders the hosts send
them: Pi leaves and enters sessions by before-switch, shutdown and start with a
reason, OMP by a before-switch that may be cancelled, perhaps a shutdown, then a
switch, and starts without a reason any number of times. The host awaits each
handler. `deletedIds` holds the marks of five seconds; hooks of a deletion that
run longer than that are an expiry of the mark while they run. `visits` bounds
how often a session is entered. `raced` is history: a mark was older than the
visit or expired during it, where the code promises nothing.

`Adapter` adds the tool calls that are open while sessions come and go, with
the map from their ids to their sessions, and the idle events.

## 3. What TLC checks

| Run | Shows |
|---|---|
| `dispatch` | type, `ExactlyOnePlace` (a call that was made is parked once, executing or served), `NobodyStranded`, `HonestAnswer`, `EveryCallServed`, and that `Dispatch` implements `HookService`; the recursion guard's assumptions |
| `tool_calls` | type, `GateHolds`, `RefusedForCause`, `ArgsKept` (arguments are there when a result comes, but for a deleted session, expiry or the cap), `HandlersReturn`, `ResultReported`; the tool paths' assumptions |
| `idle_changes` | type and `ChangesAreOwed`: without overlap the pending changes are exactly those owed |
| `async_lanes` | type, `CountersExact`, `WithinLimits`, `NeverStalls`, `StartInOrder`, `AcceptedRuns` |
| `session_store` | type, `RootsAreTrue`, `DeletionsRemembered` (a deletion is forgotten only when `MaxTombs` others came after it), `LookupsCreateNothing`, `LookupsEnd`; lineage and pending calls |
| `hook_run` | type, `HonestVerdict` (a request is blocked exactly for its last action, exactly when that refused), `CleanContributions`, `OverrunIsBounded`, `RequestEnds`; path conditions and the output cap |
| `hook_reload` | type, `RevokedStaysOut`, `OneLoadOnly`, `FreshUnlessRaced`, `GrantsKept`; composition, schema, imports and config paths |
| `host` | type, `DeletedOncePerVisit`, `CreatedOnce`, `ResultsGoHome`, `IdleOncePerRun` |
| `file_changed_order` | *violated*: file.changed runs before the post-tool hooks, the documentation says after |
| `idle_change_lost` | *violated*: with overlapping idle events a change can be lost |
| `late_exit_two` | *violated*: a hook that exited with 2 in time does not block when a descendant holds its output until the timeout |
| `lost_edit` | *violated*: an edit made while a load is going on is seen by no later event |

### What the assumptions of the pure modules check

- `Composition`: merging file by file is merging all hooks at once; the index
  kept up to date through overrides finds the hook that fixed slots would, and never names one without the id; async
  errors are exactly the disagreements within a group; a hook the policy refuses
  is reported and dropped, and no other hook of its event moves.
- `HookSchema`: an entry becomes a hook exactly when it is runnable, and says
  why when not; an id belongs to one hook of a file.
- `HookImports`: a load ends whatever imports whatever, imported files come
  first, cycles and cuts are reported, no import leaves its bounds unasked.
- `ConfigPaths`: hooks run only by the trust of a directory at or above them;
  in a worktree nothing that is not watched changes what is discovered; warnings
  are repeated only after `cap` other projects.
- `ToolPaths`: patches, hash-line edits, direct edits and commands change exactly
  the paths a direct reading of them names.
- `PathConditions`: a file of a project has one name, conditions read the ends
  of changes, the memo never changes an answer.
- `Lineage`: families agree on a root, walks end, the cache outlives the session.
- `PendingCalls`: one entry per call within the cap, only expired entries and the
  oldest go; an id that is set again is the exception.
- `RecursionGuard`: keys are those of what runs; depth is exact until the
  outermost action ends, and is forgotten after it.
- `OutputCap`: output is cut at the last character that fits.

### Bounds

- `dispatch`: three blocking and two ordinary requests, two hook maps with
  buckets of 0, 1 and 2 hooks. Three requests of one key give a runner, a
  drained request and one that parks while the drained one executes.
- `tool_calls`: two edits of one session that meet at every stage, one of them
  with a result that does not say what it did, and a call of another session,
  whose tool is still running when all is over (`Ending`). Two entries fit in the
  map (`MaxPending`), so the third call evicts the oldest, unless the session of
  the edits was deleted (`Left`) or the first edit took five minutes (`Slow`).
  There are two hook maps, both of which the first edit may load (`Loaded`): the
  reload drops the hooks of its tool and adds wildcard hooks for results.
  `file_changed_order` has a typed shell command beside an edit: it shares the
  wildcard key with it and not the own key.
- `idle_changes`: two changes, three idle events, four agent runs, bounded by
  `MaxRuns`. Two changes separate what is marked from what is not; the third
  event sees what the second left. Changes and events are symmetric.
- `async_lanes`: a lane of five jobs with concurrency 2, 3 and 1 and room for
  two in the queue, and a lane of one job.
- `session_store`: a session and its parent, and two sessions whose files name
  each other, since a cycle of parents must end as well. Two lookups, so that
  one meets the half-written records of the other and both hold a record that a
  deletion detached; two records of a session at a time (`MaxRecords`) are a
  detached one and its successor. `Changing` restricts creations to the pair, and
  `Leaving` deletions to the pair and a fifth session, of which nothing else is
  heard: with room for two tombstones (`MaxTombs`) three deletions, in any order
  and any of them again, are as many as are needed for one to be forgotten.
- `hook_run`: four lists of hooks (`MCHookLists`) that bring every kind of action
  before and after a refusal, a revision, a stop and an asynchronous hook;
  timeouts of 2 and 3 units beside budgets of none, 0 and 3 and a grace of 2, so
  that a command starts in time, is cut and starts after the deadline. Outputs of
  1 and 2 in a context of 3 fit, fit together and do not. On Pi time passes only
  while a timer runs.
- `hook_reload`: two directories of one project with room for one runtime
  (`MaxRuntimes`), so that each event may evict the other's; a cache of two loads
  (`CacheMax`); two writes (`MaxWrites`) are one between two looks and one after.
  Two commands trust two other projects. `MCEdits` leaves out a missing global
  file and a broken import, which behave as a missing project file and a broken
  global file do. Directories and commands are symmetric.
- `host`: two sessions entered three times in all (`MaxVisits`): left, resumed
  and left again. Two calls with room for one in the map (`MaxEntries`), two
  runs of the agent (`MaxRuns`): a candidate of the first may be stale in the
  second. Sessions and calls are symmetric.

The set of requests is finite, so a runner waits for finitely many others: what
`EveryCallServed` says does not cover a key on which calls never stop arriving,
where the code makes the first caller wait for all of them.

`hook_run`, `hook_reload` and `host` do not check deadlock: a request that is
over, a disk that may not be written any more and a host that has shut down are
ends.

### Fairness

`Dispatch` assumes weak fairness of the steps that the event loop takes by
itself: a hook ends, a settled await resumes. `ToolCalls` assumes less, that the
loop does not stop while any of them is possible, and leaves open which goes
first; its calls are finitely many, so that is enough. Hooks end because
shell actions have a timeout and calls into the host return; this is an
assumption on the host and on processes that close their output. `HookRun`
opens it: there, fairness is assumed of the event loop, of timers, of the
passing of time and, on Pi where a confirmation has no deadline, of the user's
answer; commands and their descendants need never do anything. `RequestEnds` then
holds unless a descendant leaves the process group with the output open.
`AsyncQueue` assumes fairness of queued jobs, and `SessionStore` of lookups: the
host's walk is synchronous, so it answers. Nothing is assumed of the host: it
need not call, run the tool or report. `HookReload` and `Adapter` state safety
only.

## 4. What is proved

All theorems hold for every number of requests, calls, keys, sessions, hook
maps, jobs, files and visits that satisfy the assumptions named in the modules.

`DispatchProofs` proves `Spec => []IInv`. `IInv` adds to the type invariant
that the queue of a key has no repetition and holds only called and unserved
requests of that key other than the one executing, that the runner exists
exactly when a request is executing, and that the runner itself is either
executing or already served. Conservation alone is not inductive: without
"no repetition" a shift could leave a copy behind, and without the bookkeeping
of calls an arrival could meet itself in the queue. From it follow
`ExactlyOnePlace`, `NobodyStranded` and `HonestAnswer`, that an error answer
comes from one's own request (`ErrorsAreOwn`), and the refinement
`Implementation`: calls map to `Decline` or `Arrive`, `Settle` to `Serve`, and
hooks to a stutter.

`ToolCallsProofs` first proves `ArgsKept` and the types of the handlers' own
state, which say that a handler that awaits has a hook map. `ArgsKept` rests on
the order of the map (`InOrder`): no two entries have the same number behind them,
and what expired is older than what did not. So the sweep drops only what
expired, and at the cap the oldest has as many behind it as the map has others
(`OneIsOldest`, `OthersAreBehind`), by counting a finite set. With the types every
step is shown to be a step of the dispatcher or a stutter (`UsesDispatch`), so
the theorems of `DispatchProofs` hold in the composition and need not be proved
again. `Gate` and `Causes` then follow from `HonestAnswer` and `ErrorsAreOwn`:
a handler moves on what it was told, what it was told is what was served, and
what was served never changes.

`IdleChangesProofs` reuses the dispatcher in the same way, and proves
`ChangesAreOwed` when events do not overlap. The strengthening says that while
a handler waits, the keys marked active are its snapshot, and the marks are
what of its snapshot changed since; with no handler waiting there are neither.

`AsyncQueueProofs` proves all the safety properties of the lanes. The
invariant says that the queue of a lane is what was accepted last, as a suffix
without repetition, and that the counter is the cardinality of the running
jobs; a finishing job first gives its place back and then starts others, so the
lemmas about `StartNext` carry the loop from one bound on the counter to the
next. A lane is bounded by the largest concurrency, not by that of its last
hook, because each closure keeps its own.

`SessionStoreProofs` proves all safety properties of the store, with two
invariants. `IInv` has the types of the records and the tombstones and their
order (`Remembering`): behind a tombstone are at least as many as came later than
its session's deletion, and a session without one has seen `MaxTombs` others come.
The first that goes from a full set has just seen the last of these
(`TombstonePut`). It gives `DeletionsRemembered` and `LookupsCreateNothing`, an
action property. `WalkInv` gives `RootsAreTrue`. It says
that a record, also one that was detached or written to after its session was
deleted, tells the truth about the session it was made for (`TrueRecord`): its
parent is an ancestor, its root one that the session leads to. And it says of a
lookup that its levels have one root and, when their chain ends, that each
descends from all under it (`Line`), so that no session is met twice and the
answer for a cycle is never given. `Above` follows a chain of any length without
awaiting. It is a recursive function: that it exists and what it consists of is
shown by induction over its domain.

`HookRunProofs` proves `HonestVerdict`, `CleanContributions`, `OverrunIsBounded` and
the types. `IInv` has a part for each:

- `VerdictInv` ties the result the executor reports to what the process did: a
  result without a timeout has exit code 2 exactly when the process exited with
  2, and such a process had exited in time (`ResultIsTrue`), because the timeout
  flag is never taken back and a result is settled once. A request that goes on
  has no verdict, so nothing refused before.
- `PlaceInv`: an action that runs has its place in the hooks. This rests on hooks
  having an action at least (`schema.ts:486`), which `Hook` says.
- `ProcInv`: a settled result leaves no timer, and an exit code of 0 without a
  timeout came in time.
- `ContribInv`: `CleanContributions` itself; the size of the context is a sum, a
  recursive function, whose value after one more contribution is shown by
  induction (`UsedOfOneMore`).
- `TimeInv`: before an action the clock is at most a unit and a grace period for
  each command that ended past the deadline, and while a command runs its timers
  are at most one more. `OverrunIsBounded` alone is not inductive: it does not say
  that no timer reaches further.

`AdapterProofs` proves the session and idle events, `ResultsGoHome` and the types.
For sessions (`LInv`) the invariant says that a session that goes on has been told
exactly if it is marked, that on OMP it is not marked at all, that the waiting
deletion is that of the session being left, and that only this session is taken
for handled. For calls (`CallInv`): the map has one entry per call, an entry names
the session its call was made in, expired entries come first, and an open call has
its entry unless it is one of the lost. For idle events (`IdleInv`): a candidate of
this run names a session that stopped in it.

`HookReloadProofs` proves all safety properties of the reload. For the trust list
(`TrustInv`): whoever writes it holds the lock, so it is alone, and has read all
that was granted. For the loads (`LoadingInv`):

- `CacheInv`, `ContextInv`, `PreparedInv`, `RuntimeInv` and `LoadInv` bound the maps,
  keep their keys apart, and say where a project's hooks may still be when its
  last load found it untrusted: nowhere but in a load that reads its files
  anew. A prepared load excludes a runtime of its directory, and a load in
  progress is tied to both. From them follow `RevokedStaysOut` and `OneLoadOnly`.
- `FreshInv`: as long as no write came between two looks of a load, whatever is
  cached, prepared or in force is what one state of the disk gives, and
  what waits to be used is what the disk gives now. Equal fingerprints then mean
  equal contents, because stamps are not used twice; `FreshUnlessRaced` follows.

The invariants were first checked by TLC as invariants of the instances of
their runs, `FreshInv` on a smaller one, since it quantifies over all states of
the disk.

What the theorems assume of the constants is what the modules assume of them:
bounds that are positive, finite sets, and that the value `None` is not one of the
values it stands beside. TLC evaluates these assumptions in the runs.

Five pure modules have theorems for inputs of every size, in the proof module
whose run evaluates them or uses them:

- `Guarded` (`HookRunProofs`, about `RecursionGuard`): in every history of the
  actions of one context the active keys are those of what runs, and the depth is
  the number of actions that run, within the cap, until the outermost one ends;
  afterwards it is that of the actions begun since. The depth lives in an object
  that the frames hold. While the outermost action runs its frame is counted in
  the object, which so never drops to zero and is never let go (`RootInv`); once it
  has been let go, a frame begun earlier counts down an object nobody reads
  (`DepthInv`).
- `OutputIsCapped` and `TextStaysText` (`HookRunProofs`, about `OutputCap`): for any
  bytes in any chunks, what is kept never passes the cap and is the beginning of what
  was written, all of it unless it is marked as cut. If every chunk ends with
  a character no character is cut, and less than one is wasted. The search for
  the start of the last character goes back at most four bytes, each a case.
- `FilesHaveOneName` (`HookRunProofs`, about `PathConditions`): whatever the project
  and the file, conditions see it under the name that the plain definition `NameSeen`
  gives. The two paths part after as many names as they share (`PathsPart`).
- `PendingIsSet` and `PendingGoByAge` (`SessionStoreProofs`, about `PendingCalls`):
  setting a call leaves one entry per call within the cap, and if the oldest come
  first, and the call is not in the map, only what expired and the oldest go.
- `OverridesHitTheirTarget` (`HookReloadProofs`, about `Composition`): the index of
  the overrides names, for each id it has, a hook of the list that bears it
  (`ResolvingInv`), however many overrides remove and replace hooks. The loop is a
  fold, and `OverrideTurns` unfolds it into its turns by induction, so that one turn
  (`OverrideKeepsIndex`) carries the invariant.
- `LanesAreChecked` (same module): for every list of hooks, the validation of lanes
  reports nothing exactly when the hooks of each group agree. The invariant of its
  loop (`CheckingInv`) says that the concurrency remembered of a group is that of a
  hook already seen, and that an error means two hooks that differ, or one without
  a group.

Induction is derived, not assumed: the library's theorem on finite sets being
well founded gives that a set of numbers that is not empty has a least member
(`LeastNumber`), and this gives induction in the form that a set which has 0 and
with every number the next has all of them (`Induction`). It suffices for the
recursive functions of `HookRun` and `SessionStore`, the folds of `Composition` and
the histories of `RecursionGuard` and `OutputCap`.

Only model-checked: the liveness properties and `HookService`'s use of fairness,
which are beyond the proof system. Every safety property of a passing run is
proved. Of the pure modules, what these theorems leave, and all of the
others, is checked by evaluation over small inputs: `HookImports` and `Lineage` have
recursive operators, which the proof system cannot use; consuming, dropping and
merging select and flatten sequences, which the provers do not know; and the
rest are decisions over small cases that the evaluation covers.

## 5. Findings

1. `file.changed` runs before the post-tool hooks (`runtime.ts:491` and `502`),
   `docs/hooks-reference.md:52` says after (`file_changed_order`).
2. Two overlapping idle events lose a change (`session-state.ts:236`): the
   second is parked, is answered at once, and its consumption resets the marks
   of the first; a change made afterwards is removed with the first snapshot
   (`idle_change_lost`).
3. A hook that exits with 2 before its timeout does not block the tool if a
   process it left in the background holds its output until the timeout:
   the result waits for the close event (`bash-executor.ts:361`) and is then a
   timeout. `docs/hooks-reference.md:133` says that 2 blocks (`late_exit_two`).
4. A file edited after a load has read it and before the load has taken the
   stats it will compare with (`runtime.ts:309`) is taken for unchanged by every
   later event. `pi/commands.ts:197` promises edited files from the next event on
   (`lost_edit`).

Observed while modelling, without a run of its own:

- A tool call parked behind another one of its key is gated by the hooks the
  other captured, even if its own event had loaded newer ones
  (`dispatch.ts:276`), beside what `pi/commands.ts:197` says. `ToolCalls` behaves
  so.
- `addFileChanges` creates a record for a session that was deleted
  (`session-state.ts:184`), and `isDeleted` then answers false although the
  tombstone is there; evaluating the scope of a hook on `session.deleted` does
  the same (line 292). `SessionStore` behaves so.
- The comment at `session-state.ts:260` says that records reached through a
  parent are not mutated. They are, when they exist (lines 298, 304 and 318);
  what holds is that none is created (`LookupsCreateNothing`).
- A hook id that the last file repeats is not reported: duplicates are looked for
  before a file's own hooks join the map (`composition.ts:180` has every pair
  reported; `snapshot-cache.ts:214`). `Composition!LastFileEscapesDuplicates`.
- Outside a git worktree the watched paths are not complete, which the comment at
  `config-paths.ts:109` says they are. `ConfigPaths!OutsideWorktreesSomeAreMissed`.
- A child directory whose name starts with two dots is taken to be outside the
  anchor, and two files that are both missing in a missing directory share one
  canonical name (`imports.ts`). `HookImports`.
- The directory above the project is seen as `..` by path conditions
  (`path-filter.ts:182`). `PathConditions!OneNamePerFile`.
- A chunk of output that ends within a character defeats the cut at a character
  when the cap falls there (`bash-executor.ts:146` rules it out).
  `OutputCap!CutWithinACharacter`.
- A root found while a parent could not be read is cached and never corrected.
  `Lineage!EarlyRootsAreKept`.
- A call id that is set again keeps its place in the map of arguments: the sweep
  stops there and a full map drops its oldest entry though nothing is added.
  `PendingCalls!SetAgainKeepsItsPlace`.
- Once an outermost action has ended, what it left running is not counted by the
  recursion guard any more. `RecursionGuard!DepthRestartsAfterTheRoot`.
- Hooks of a deletion that run longer than five seconds let the mark expire, and
  the session may be told deleted again (`docs/hooks-reference.md:77` says
  duplicates collapse); `raced` sets such visits aside.

## 6. Not modelled

- The bytes of a session file, the YAML parser, the splitting of shell text into
  words, the glob language: parsers of texts whose results the modules start from.
- Diagnostics, autocomplete, the reports of the commands and the wording of every
  message: output that no other component reads.
- Host capabilities, event mappers and the tables of the unsupported policy:
  constants after start, without a protocol.
- The cached parse of the trust list (`config-paths.ts`), which is taken again when
  the file's stats change: in `HookReload` a load reads the list itself.
- The logger: its failures are swallowed and nothing reads its files.
- The Windows branch of the bash executor, which has no process groups.
- Hook files that are valid in part: in `HookReload` a broken file gives no hooks,
  while the code keeps those of its entries that are valid and reports the others,
  and no error lies between two files. `HookSchema` and `Composition` have both for
  one load. A prompt whose load makes a runtime at once puts it among the prepared
  loads and takes it away again, which may push another one out
  (`runtime-registry.ts:97`); `Sign` leaves that out, so the model may still use a
  prepared load that the code would read again.
- What the code does not promise and the properties set aside: results of calls
  whose entry expired or was pushed out of the adapter's map (`lost`), visits
  shorter than a deletion's mark or deletions longer than it (`raced`), loads
  during which a file was written (`late`), a lock left behind for ever.
- Compositions beyond TLC at sizes where they are interesting: an eviction of a
  runtime with a dispatch in flight, asynchronous hooks that start in the
  context of another chain, and prompts that overlap.
