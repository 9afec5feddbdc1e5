# A TLA+ model of DuckDuckCode

DuckDuckCode is a coding agent: a terminal user interface, a backend process that
holds the conversation with a model provider, tools, and background workers. This
directory holds TLA+ modules for the parts of it where order, interruption and
failure matter, TLC configurations that check them on small instances, and proofs
that the TLA+ proof system checks for every instance. Paths below are relative to
`src/src/duckduckcode/` unless they begin with `src/`.

## The system

| Component | State it keeps | Operations | Hard behaviour |
|---|---|---|---|
| Subagent manager, `core/subagent.py` | tasks, write lease, foreground task, inbox per session, discarded sessions | `run`, `detach_foreground`, `drain`, `terminate_session`, `close`; threads `_monitor`/`_finish`, `_timeout` | threads, two signals, timeouts, processes, a lock that covers only a part of each operation |
| Turn, `core/agent.py` (`_stream`, `_compact`) | iteration, pending calls, compaction circuit | one user request; `/compact`; session commands | SIGINT at any point, generator closed at a yield, failed commits, retries |
| Session log, `memory/session.py` | one JSONL file per session, the current session | commit, start, resume, repair, create, delete, compaction checkpoints | crash during an append, partial writes, failed repair |
| Context, `core/context.py` | the messages the model sees, the summary | add, stream, compact, restore | cut only where calls and results match |
| Tool batch, `core/agent.py` (`_execute_tools`), `tools/tool.py` | failure counts, granted calls | decide each call, then run them | decisions taken before other calls of the batch run |
| Backend protocol, `interfaces/backend.py`, `interfaces/tui.py` | the pipe, `active` | requests, prompts, signals | answers out of step with requests, late answers |
| Plan mode and checklist, `core/agent.py` | mode, plan and checklist files, flags of the turn | review, update, block | flags that survive iterations |
| Long-term memory, `memory/long_term.py` | memory files and an index per scope | load, publish, refresh, apply actions | crash between files and index |
| Memory worker and consolidation, `memory/worker.py`, `memory/consolidate.py` | lock file and its time stamp | extract, consolidate | several processes, stale eligibility |
| Worktrees, `core/worktree.py` | state file, git worktrees, active tasks | enter, leave, remove, recover | crash between git and the state file |
| MCP runtime, `core/mcp.py` | configuration and trust, servers, catalogue of tools | initialize, load, restore, close | concurrent starts with time limits, an interrupted start |
| LSP runtime, `core/lsp.py` | processes, documents, requests | call, synchronise, close | coroutines of several threads, time limits, cancellation |
| Permissions, `permissions/` | rules, grants of the task | check, remember | pure decisions |
| Skills, prompts, tools, providers, configuration, evaluation | - | - | input and output, parsing |

How they interact: the user interface writes one JSON line per request to the
backend's stdin and reads events up to a `LoopCompleteEvent`. `run_backend` drives
the generators of `Agent` on one thread. SIGINT raises `KeyboardInterrupt` on that
thread, either inside the generator or in `run_backend` while the generator waits
at a yield. SIGUSR1 (Ctrl+B) runs `detach_foreground` on the same thread. `Agent`
commits every message through `SessionManager`, which appends a record and then
adds it to `ContextManager`. The `Agent` tool goes to `SubagentManager`, whose
threads hand results back through a queue or through the inbox, which `Agent`
drains before each request.

What makes each part correct:

* subagents: one shared-workspace fork at a time; never more workers than slots; a
  result is handed over at most once, to the session that asked, under an honest
  status; slots are given back;
* turn and log: what a restart restores is what the model saw; no tool runs
  unrecorded; no request shows a call without its result; a compaction cuts no
  pair; each turn ends and says so once;
* tool batch: what may have changed between the decision about a call and its
  execution is limited to what forks of the same reply did; every call gets one
  result; Plan Mode stops tools; failures are not repeated without end;
* protocol: the answer that is read belongs to the request that was written;
* plan mode: success is reported over a finished checklist, and the model is
  reminded of the mode and the checklist there is;
* memory: a store nobody has locked is whole, but for the old file of a memory that
  changed its category, no reader sees half an update, no worker waits for ever;
* worktrees: after a failure at any point no work is lost or forgotten, and a task
  gets a registered checkout of its branch, a whole one if its own `enter()` made it;
* MCP: a server of the project starts only with consent, a bad one does not hide
  the others, the tools of a session are those of its log;
* LSP: one process, documents in step, each answer to its own request.

`PROJECT.json` lists the hazards behind these at their lines.

## Modules

| Module | Contents |
|---|---|
| `TaskLedger` | what the `Agent` tool promises: slots, one writer, a result delivered once or dropped |
| `SubagentManager` | the manager with its threads, timers, signals and sessions; implements `TaskLedger` |
| `SubagentManagerProofs` | its inductive invariants and theorems |
| `SessionLog` | lines of a log, what a write leaves, validity, replay, repair, compaction cutoffs (pure operators) |
| `AgentTurn` | the turn, its commits, interrupts, compaction, session commands, start and crash; implements `DurableChat` |
| `AgentTurnProofs` | their inductive invariants and theorems |
| `DurableChat` | chats that outlive the process |
| `ToolBatch` | the calls of one reply, decided and then run, beside the tasks of `TaskLedger` |
| `ToolBatchProofs` | its inductive invariants and theorems |
| `Worktree` | sessions, state file and Git, with failures between them; implements `WorktreeKeeper` |
| `WorktreeProofs` | its inductive invariants and theorems |
| `WorktreeKeeper` | what is in a worktree is lost only by a removal that was asked for |
| `Memory` | both stores, workers, consolidation, refresh; implements `MemoryBoard` |
| `MemoryProofs` | its inductive invariants and theorems |
| `MemoryBoard` | a memory per scope that changes at once, and a reader with one moment of it |
| `Terminal` | the TUI, its reading thread, both pipes and the backend |
| `PlanMode` | mode, plan and checklist over the turns |
| `PlanAndTerminalProofs` | the inductive invariants and theorems of `Terminal` and `PlanMode`, the two ends of the mode |
| `McpCatalog` | trust, start of the servers, catalogue, loaded tools |
| `McpCatalogProofs` | its inductive invariants and theorems |
| `Lsp` | one language server and the calls that share it |
| `LspProofs` | its inductive invariants and theorems |
| `MC...` | sets, symmetries and functions for TLC, one per module that is run |

Definitions named `Mut...`, or under a comment that begins "A plausible bug", belong
to no model: each is a later definition with that bug, and shows that a property
notices it.

### SubagentManager

One action per step that another actor can interrupt or observe.

* `Spawn`, `SpawnFails`, `Register`, `ArmTimer` are `run()` under the lock, cut
  where SIGINT may fall: before the registration (`StartInterrupt`) and before the
  timer (`ArmInterrupt`). `KeyboardInterrupt` is not an `Exception`, so nothing is
  undone. `AwaitEvent`, `AwaitDetached` and `WaitInterrupt` are its foreground loop.
* `DetachTest` and `DetachSet` are the SIGUSR1 handler. The lock is re-entrant and
  the handler runs on the parent's thread, so it may run while `run()` holds it.
  It keeps the monitors out, but not the unlocked writes of `_finish`.
* `ReadUsage`, `ReadAnswer`, `WorkerExits`, `SetStatus`, `FinishLocked`, `Publish`
  are `_monitor` and `_finish`: the status is set without the lock, the inbox is
  filled with it, and the queue is ended after it.
* `TimerFires` (locked) and `TimerKills` (not locked) are `_timeout`.
* `Drain`, `DeliverNext`, `DrainFails`, `NewSession`, `ResumeSession`,
  `DeleteSession`, `KillVictim`, `DeleteFile`, `DeleteFails`, `CloseBegin`,
  `CloseEnd` are the parent between `Agent` calls.

Abstractions: a result is the id of its task; time is a timer that may fire; a
worker's line is written and read in one step; its end of file is its end; ids are
fresh; SIGKILL always works. `SetStatus` merges the wait for the process, the
choice of the status and the leaving of the worktree. The
`background` flag inside a status event (line 568, it may be stale) and a JSON line
that is no object are left out. The SIGUSR1 handler acts in the code only
while a request is `active`; the model lets it act at any time before `close()`.

### SessionLog, AgentTurn and DurableChat

A message is its type and, for calls and results, the call's id. A log is a
sequence of messages, checkpoints with their cutoffs, a partial last line, and
garbled lines. `pc` is where the process is:

| `pc` | Code |
|---|---|
| `down`, `booting` | no process; `start()` repairing the session it restores |
| `idle`, `resuming` | between requests; `resume()` repairing |
| `opening` | before the user's message is committed; results of background tasks are drained |
| `draining` | head of the loop: drain, automatic compaction, size check |
| `streaming` | from the request to the commit of the reply |
| `calling`, `executing`, `suspended`, `resulting` | calls committed, tools running, generator at a yield, results committed |
| `aborting` | the `KeyboardInterrupt` handler committing results |
| `replied` | end of the iteration |
| `ended` | the generator's last `LoopCompleteEvent` is written and `run_backend` still `active` (`interfaces/backend.py:101-116`) |

`iteration = 0` is the batch of `LoadSkill` calls for selected Skills, whose
handlers differ from those of the loop. `Interrupt` is SIGINT inside the
generator; `Close` is SIGINT, or an answer `run_backend` rejects, while the
generator waits at a yield; `LateInterrupt` is SIGINT when the turn has `ended`, for which
`run_backend` reports the end again (`late`). `scarred` marks what the code does not repair before
the session is opened again: an append that failed, or a generator closed amid a
batch.

Abstractions: contents, usage and time stamps; sizes (any settled start of a user
message may be the cutoff, an automatic compaction may or may not be due); which
sessions are too old (any set of valid ones); session ids are not reused within
the set; a second SIGINT during the interrupt handler and SIGINT inside an append are left
out, and so is SIGINT in the few instructions between the last yield of the generator and
its return, where its own handler would also commit results once more; sessions are always persisted (`session_manager` is set). The faults `torn`
and `unsynced` (a partial write, and a failed `fsync`, in a process that goes on)
are in the module, but no run that passes enables them: with them the file and
the context part ways, see the hazards.

`DurableChat` is the promise: a message reaches the chat and the model's view at
once, a summary takes the same settled prefix off both, opening a chat shows all of
it, and the end of the process loses nothing, or the one chat it was writing.
The refinement maps a chat to the replay of its log, and the known chats to the
valid logs.

### ToolBatch

| `pc` | Code of `_execute_tools` |
|---|---|
| `idle`, `thinking` | no turn; waiting for the next reply |
| `deciding` | the loop over the calls (723-839): `Decide` takes the call at `next` |
| `confirming`, `asking`, `reviewing` | at the yield of the worktree question, the permission request, the plan review |
| `executing` | 840-867: `Group` and `Rank` are the order Skills, subagents, others |

`Settle` gives a call its result during the loop, `Allow` puts it on the list to
run. `Row` is what `execute_many` runs at once. `ExitPlanMode` and `UpdatePlan`
take effect while deciding, so that the calls after them are decided in the
new mode. `grounds` is a history variable: what held when a call was decided.

A call is its kind, so calls of a kind have equal arguments: it is how the loop
guard compares them. Paths, commands and contents are left to the policy, which is
`Denied`, `granted` and the modes. The tasks are those of `TaskLedger`, which
`SubagentManager` implements: a fork starts (`RunFork`), edits, and ends, at any
time. One worktree, with its active task, stands for the worktree of the one name
the isolated forks use; that git or the preflight may fail is a free choice, and so is
that the preflight is `blind` to changes: it calls a session with an error clean, and one
whose `git status` fails (`core/worktree.py:790-802`). `grounds` records it.
"ReadBash" stands for the commands that the checker takes as reading, which Plan Mode
allows.

Left out: Skills that fork a child agent, subagents from definition files (they
take neither lease nor worktree), calls refused because a subagent makes them, MCP
calls that outlive an interrupt, and `/permissions` between turns.

### Worktree

`op` is the operation under the manager's lock and the step it is at: `enter` goes
through `PersistCreating`, `CreateBranch`, `Register`, `Fill` (which are one
`git worktree add`, cut where it may be killed), `ConfigureHooks`, `Reconcile` and
`Activate`; a failure leads to the rollback (`Unregister`, `DeleteBranch`,
`Forget`), a removal is `StartRemove`, `RemoveCheckout`, `RemoveBranch`. `Crash`
ends the process between any two steps, `Interrupt` is SIGINT, which no
`except Exception` sees. `Start` is `recover()`: it reads the state file and keeps
every record, with an error if its validation failed. `RemoveBranch` has two ways to
fail at the state file: a `RuntimeError` puts the session back (439), an `OSError`
of `_persist` leaves it dropped. `Work`, `Commit`, `Prune` and `SpoilFile` are tasks
and users.

`enter()` of a known name takes a directory that is registered for the right branch
as it finds it (515-519). A `git worktree add` that was killed, or a removal that
was, may have left half of the files there: `found` records the worktrees whose
checkout the last `enter()` did not make, and `ActiveIsCheckedOut` lets only those
be partial.

Assumed: one process per workspace (two would overwrite each other's state file),
one dependency for all of `worktree.yaml`, Git as the code relies on it: a command
is done, not done, or stopped half-way where its timeout kills it.

### Memory

A memory file is a path and a version, the index repeats both. `Extract`, `Lock`,
`Apply`, `WriteFile`, `WriteIndex`, `Unlink`, `Check`, `Claim`, `Stage` and `Report`
are the worker from its start to its state file; `Fail` is an exception or the
alarm, `Die` a kill. `RefreshLock`, `RefreshLoad` and `RefreshEnd` are
`refresh()` in the agent. What the model proposes is any plan of one change per
scope; plans are made from what was read without locks, as in the code.

`WholeWhenQuiet` says what a store at rest is: an update with another category leaves
the old file (`memory/long_term.py:173-178` unlinks by id), and from then on every
`load()` refuses that store. The run has such updates (`"move"`) in the user scope.
That both scopes have one directory, because the workspace is the home directory, is
not modelled.

`MemoryBoard` has neither files nor locks: the refinement maps it to the indexes
and to the snapshot.

### Lsp

A step goes from one `await` to the next, since the coroutines share a loop. A call
is read, submitted, waits for the shared start, synchronises the document under
`_sync_lock`, writes its request and waits for its answer; `TimeOut` and `GiveUp`
are the limits of the coroutine and of the thread, `Cancel` what they leave behind.
`torn` is a history variable: a synchronisation was cut off after the record of the
document was changed and before the message was sent. `kind` has `openClose` and
`change` apart, as `_sync_options` does; only a server that asks for both is claimed to
keep the client's text. The run takes one that asks for both, incrementally, which
forgives nothing; the theorems hold for every combination. Starting, `Close` and its
steps follow the order of the code. The server reads in order and answers as it
likes.

### Terminal

`requests` and `events` are the two pipes, `queue` is what the reading thread hands
to the screen. An event carries the number of its request, which the code does not
have: it lets the properties say whose event is shown. `Interrupted` is the
`KeyboardInterrupt` at each place the backend may stand: `Raise` inside the
request, in an `except` branch, where it kills the process, or after the last line,
where it makes a second pair (`races` gets `late`). `races` also has `stale` (an
answer read as a request), `mode` (a `set_mode` that failed), `unapproved`
(an interrupt inside an approval) and `silent` (a request that ended without its
last line, after which `Unheard` lasts: the TUI reads on, and Esc meets an idle
backend). `BreakPipe` is the end of the TUI that writes to a backend which is gone.

### PlanMode

`Checking` steps take the calls of an answer in order: `ExitPlanMode` with its
review (`ApprovePlan`, `Reject`) and `Sync`, `UpdatePlan`, or any other call
(`CheckOther`); `RunAllowed` runs the rest, `AfterTools` sets the flags of `turn`.
`AnswerText` is the end of an iteration without calls: `Blocks` is
`_checklist_blocker`, `Succeeded` the test that decides what is removed. `Breaks` is
an interrupt or an error at any stage; `Restart` keeps the files and nothing else.
A tool that runs outside Plan Mode may do anything to both files; in Plan Mode it only
reads (`CheckOther`, the rules of `permissions/checker.py:134-174`). `slips` says what
left the reminder behind since it was last right: a failed file operation, `UpdatePlan`
that cannot clear the checklist among them, Esc before the synchronisation, a removal
while planning, and a tool that makes or removes the checklist.

### McpCatalog

`run` follows the process: loaded, asking, starting, registering, restoring, up.
`Connects`, `Fails`, `TimesOut` and `Stops` are the task of a server,
`StartupReturns` and `StartupTimesOut` the wait of `initialize`, `LoopFails` and
`InterruptStartup` its two exceptions. `LoadTools`, `LogLoad` and `LoadLost` are a
call, its result on record, and its loss. `Up` sets `_mcp_initialized` and `Switch`
changes the session; both leave the session's tools to `RestoreSession`, which
`InterruptRestore` may cut off anywhere (`incidents` has "unrestored" until the next
switch restores them). What the context shows of catalogue and schemas is not modelled.

## Runs

| Run | Instance | Shows |
|---|---|---|
| `subagent_races` | 2 tasks, 1 session, 2 slots, definition and shared fork; Ctrl+B, interrupted starts and waits, failing drains | lease, refinement of `TaskLedger`: slots, one writer, one delivery (195,050 states) |
| `subagent_faults` | 1 task of any kind, 2 sessions, 2 usage lines, every fault | where a result ends up, under which status (483,241 states) |
| `subagent_progress` | 2 tasks, 1 slot, timeouts; fair | slots given back, the parent is released (297,492 states) |
| `turn_recovery` | 1 session, 3 calls, batches of 2, 2 iterations; failed appends, both interrupts, context-length errors, crashes; fair | settled requests, recorded executions, compaction, ends of turns (622,552 states) |
| `turn_sessions` | 2 sessions, 1 call, 1 iteration; failed appends and creations, interrupts, crashes amid an append | restored context, refinement of `DurableChat` (127,258 states) |
| `tool_batch` | 2 tasks and slots, 2 replies of up to 2 calls of 11 kinds, one of them denied by a rule | results, rows, Plan Mode, lease, worktree, failure counts (2,164,780 states) |
| `worktree_faults` | 2 worktrees, 2 faults, 2 steps of users | work known and kept, checkouts registered and, if just made, whole, refinement of `WorktreeKeeper` (1,727,823 states) |
| `memory_workers` | 2 workers, 2 turns, 2 ids, 2 categories of the user and 1 of the project, 1 fault, 1 week; fair | whole stores, refinement of `MemoryBoard`, no worker waits for ever (247,980 states) |
| `lsp_calls` | 3 calls, 2 at a time, 2 texts, pipe of 1 message, 1 death | one process, documents in step, own answers (1,446,169 states) |
| `terminal_session` | 3 requests, 2 uses of `/plan`, 2 questions; fair | whose events are shown, no question lost, modes agree, requests end (901,944 states) |
| `plan_turns` | 2 turns of 3 iterations, batches of 2, 2 switches or restarts | success and removal, the reminder (2,211,935 states) |
| `mcp_startup` | 4 servers, 2 versions of the project's file, 2 sessions, 2 processes; fair | consent, siblings, tools as logged, the start ends (475,976 states) |

Why the bounds are enough. Races between tasks need two: they meet only in the
lease, the slots, the lock and the inbox. Everything else about a result concerns
one task and its sessions, for which the sessions and faults are complete. A
batch of two calls has a first, a last and a middle point, two iterations have a
batch, a retry and the last iteration, and three calls allow a batch after a
recovered one. `MaxLines` bounds the messages of the user, not the batch under
way: logs grow beyond it while the turn lasts. In a reply of two calls one can be
decided before the other changes what it was based on, which takes one call; two
tasks let one hold the lease and the other enter the worktree; two replies let
failure counts, grants and running tasks of one meet the decisions of the next.
Two worktrees share only the lock, the state file and the limit; two faults are one
in an operation and one in its rollback or in the next start. Two memory
workers contend for every lock and for the claim, and one overtakes the plan of
the other. Of three LSP calls two meet at a time and the third finds what they left:
a late answer, a cancelled start, a cut synchronisation. Three requests of the
terminal are one that goes wrong, one that is shown its leftovers, and one more.
Three iterations of a plan are the approval, the execution and the last; two turns
let the files of one meet the flags of the next. Two processes and one edit give an
MCP server consent for a version that is no longer in the file.

Deadlock is checked in every run. `Quiescent` and `Exhausted` name the states in
which the process is gone or the bound on inputs is reached, and loop.

## Fairness

`ToolBatch`, `Worktree`, `PlanMode` and `Lsp` state no liveness and assume no
fairness.
`SubagentManager` assumes that a worker which is killed ends, that monitor and
timer threads are scheduled, that an armed timer fires at last, and that the parent goes on with what
it is doing; it assumes nothing about workers, users, signals or faults. Weak
fairness is enough for the lock: it is held only across the finitely many starts
and signal handlers of a behaviour. `AgentTurn` assumes that the turn goes on
(`TurnStep`): the provider's stream ends or fails (the clients have time limits)
and tools return (they have time limits too). It
does not assume that the user answers a prompt: `suspended` may last for ever.
`Memory` assumes that the system runs each process and wakes a waiter for a lock
that is released again and again (strong fairness of `Lock`); a refresh under way
ends. Nobody must start a turn. `Terminal` assumes that both processes and the
reading thread go on and that somebody answers a question that is shown; the last
because `RequestEnds` would otherwise say that users are quick. `McpCatalog` assumes
that timers fire and that the agent's own steps follow, and nothing of the
servers.

## Proofs

Eight modules of proofs cover the nine components that are run. A theorem
holds for every value of the constants that satisfies the assumption of its module:
any number of tasks, sessions, calls, servers or worktrees, any bound, any set of
faults. The assumptions say that bounds are numbers, that the model values which
stand for nothing are none of the others, and that sets of kinds are among those of
the code. Where a theorem needs more, it states it and it is named below.

Each module is built the same way. An inductive invariant is a conjunction of named
parts, each about one thing; a lemma per part shows that the steps preserve it,
action by action, from itself and the parts before it; the theorems follow by
temporal logic. A part is there because a property is not inductive alone, and TLC
checked every part before it was proved.

`SubagentManagerProofs`:

* `TypeCorrect`: the type invariant.
* `WriterExcluded`: a running worker of a shared fork holds the lease.
* `CompletedIsHonest`: a task is completed only if its worker answered so and
  ended by itself.
* `ForegroundIsRegistered`: a detachment acts on a task that is still registered,
  or being finished behind the lock.
* `DiscardedIsQuiet`, `ResultsStayHome`, and both as `InboxesAreSound`: nothing enters
  the inbox of a discarded session, and results reach only the session that started
  the task.
* `ResultsHandedOnce`: a result goes over one channel, to one place, once.
* `ResultsNotMislaid`: after `_finish` it is handed over, on its way, awaited, or given
  up for one of four reasons.
* `RuntimeImplementsLedger`: every step maps to one of `TaskLedger` or to none.

`Control` is the type invariant with what links the program counters to each other:
what the parent awaits, when the handler is between its two steps, where the
messages of a drain are. Without it a signal could act on a task that is none.
`ThreadInv` says, for each task, what follows from where its monitor is: whether it
is registered, whether the process has ended, when the status is final, who holds
the lease. `Owned` says where a result may be, given its owner and the current
session. `CallerInv` and `ChannelInv` say which channel a task has left, by the place
of its call and of its monitor; from them follow `OnceInv` (at most one channel) and
`KeptInv` (at least one). `SlotInv` counts the slots, and `LedgerInv` is all that
the refinement mapping rests on.

`ToolBatchProofs`:

* `BatchTypeCorrect`: the type invariant; only allowed calls run.
* `PlanIsEnforced`: no tool that may change business files runs in Plan Mode.
* `LeaseIsRespected`: only a fork of the same reply can take the lease between the
  decision about a write and the write.
* `ActiveWorktreeIsKept`, `DirtyRemovalIsAsked`, and both as `RemovalIsSafe`: the worktree
  of a running task is never removed; a dirty one is removed after the question, or the
  preflight did not see that it was dirty, or it was clean when that was decided and a
  fork of the same reply worked in it since.
* `BatchIsAnswered`: when the results are looked up, each call has exactly one.
* `UnsafeToolsAreBarriers`: a tool that is not concurrency-safe runs after all earlier
  ones and before all later ones.
* `RepeatedFailuresAreBounded`: the guard lets a failing call fail once more, and the
  calls of one batch are decided together.

`Control` adds to the type invariant which positions the program counter allows.
`PlanPart`, `LeasePart` and `RemovalPart` speak of every call that is allowed and not
only of those that run, and of the call about which the user is being asked: between
the check and the answer the user may take any time, in which tasks end, but none
starts. `TallyPart` says that every position decided so far is answered or allowed, and answered
once; `RowPart` that the tools that were started are the first of those allowed; and
`FailurePart` that since the decision about an allowed call every failure of its kind is
a result of the batch.

`AgentTurnProofs`:

* `AgentTurnTypeCorrect`: the type invariant; no step indexes a call that is not there.
* `ToolsAreOnRecord`: a tool runs after its call is in the file.
* `TurnsReportOnce`: one `LoopCompleteEvent` per turn, however it ends; none where the loop
  runs out after a context-length recovery, one more after a late SIGINT.
* `RequestsAreAnswered`: no request shows a call without its result, unless an append
  failed or the generator was closed amid a batch since the session was opened.
* `UnharmedSessionsAreRestored`: until an append fails, replaying the file of the session
  yields the context; and `SessionsAreRestored`: it always does, if failed appends leave
  nothing in the file.
* `CompactionsKeepPairs`: no compaction separates a call from its results, with every
  fault; and `PairsStayTogether`: neither does opening a session, under that condition.
* `AgentTurnImplementsChat`: the refinement of `DurableChat`, under that condition.

The condition is that `Faults` has neither `torn` nor `unsynced`. It is written as an
assumption of the three theorems that need it, because they are false without it (see
the hazard at `memory/session.py:424`); the others hold with every fault. `TurnInv` ties the
batch to the program counter, `ReportInv` the count of reports, `StoreInv` types files and
sessions, `LoggedInv` says which calls of the batch are in the file, `ContextInv` that
in the context and in every replay ids are issued, no call is there twice, and results
of one call are not parted by a message of the user, `RepairInv` what a repair
has still to write, `IntactInv` that the log yields the context, `AnsweredInv` which
calls may still be open. `ChatInv` adds what the refinement needs. Replay is a recursive
function, and what it yields for a longer log is proved by induction in the form "a set
of numbers with 0 and with each its successor has them all", which `LeastElement` gives
without an operator as a parameter.

`WorktreeProofs`:

* `WorktreeTypeCorrect`: the type invariant, with what an operation may rely on.
* `TasksGetCheckouts`: a task works in a directory registered as a checkout of its
  branch, and in a whole one unless `enter()` found it there.
* `WorkIsKnown`: work in a worktree is known to the manager or to the state file.
* `WorktreeImplementsKeeper`: every step, failure or crash is one of `WorktreeKeeper`.

`Standing` says what `git worktree add` has made at each later step of `enter()`, `Bare`
that a checkout that is not ready, or is rolled back, is empty and that no operation works
on a branch with commits of its own, and `Known` that a worktree the state file does not
name has nothing to lose.

`PlanAndTerminalProofs` is about two specifications, side by side in one module: what the
agent holds about the mode, the plan and the checklist (`PlanSpec` of `PlanMode`), and what
the screen, the pipes and the backend hold (`Spec` of `Terminal`).

* `PlanModeTypeCorrect`; `ReminderIsTrue`; `SuccessIsHonest` and `FailureIsKept`, together
  `TurnsEndHonestly`. The invariants are the type invariant, which links the stage of the
  turn to its calls, and `Reminded`: the reminder is the one for the mode and the checklist
  at every stage but that of the synchronisation.
* `TerminalTypeCorrect`: the type invariant.
* `PipeIsSound`: events belong to the request the TUI waits for, and a question the backend
  waits on can still be answered.
* `QuestionsArePlaced`: such a question is in exactly one place, and nothing else is under way.
* `RequestsLeaveNothing`: once the TUI stops waiting, both sides are done with the request.
* `ModesDoAgree`: an idle TUI shows the mode of an idle agent.

The theorems about the pipes hold for behaviours and not for choices of constants, so
their exceptions are in their statements, as in the properties the run checks: a line in
the pipe that nobody asked for (`Slips`), and for the modes any of the four `races`.
Neither property is inductive. `InStepInv` says, for each place of the backend, which lines
of which request both pipes and the queue hold: `ReaderInv` what is left when the reading
thread is off or the TUI idle, `EventsInv` that every line is of the awaited request and
the one that ends the reading is the last, `RequestInv` that a request not yet read is
the last line and nothing goes on beside it, `ServingInv` that of a request being served
nothing but one question is under way. It holds as long as `Sound` does, and `SoundBefore`
says that `Sound` is never regained. `SwitchInv` says that no session switch which the
backend serves, or whose new state is on its way, meets a screen in Plan Mode: one that is
asked for there is refused. `ModeInv` folds the lines
that set the mode and the answers to a review into a promise: the screen shows the mode of
the last such line, the default one when an approval is under way, or else the mode of the
agent. It speaks of states where every answer in the pipe has somebody who reads it
(`Fresh`); that an answer left behind leads to a race is what keeps it inductive.

`McpCatalogProofs`: `McpTypeCorrect`; `OnlyAllowedStart`, carried by `Trust` (what is
trusted was allowed, and no server outlives its process); `SiblingsAreServed`, carried by
`Serving` (an undisturbed startup leaves no server between two states);
`CallableAreLogged`, carried by `Calling` and `Logged` (a running call is in its log under
a number that nothing else has, and what the log does not give back yet is what that
call loads).

`MemoryProofs`:

* `MemoryTypeCorrect`: the type invariant; a worker has the locks its step needs.
* `StoresKeepTheirMemories`: `WholeWhenQuiet`. As long as no worker fails or dies, every
  memory of a store that nobody has locked has its file, and the only other files are old
  ones of memories whose category changed.
* `QuietStoresLoad`: such a store loads, if no publication changes a category. The
  hypothesis `[]~Moving` is about the behaviour and not about the constants: an update may
  carry the category, and the old file then stays (`memory/long_term.py:173`), so that the
  conclusion is false without it.
* `MemoryImplementsBoard`: the refinement of `MemoryBoard`, with every failure and death.

`Control` has the types, which locks and claim each step has (`PlaceInv`), and that nobody
writes while `refresh()` reads (`ReadInv`). `IdInv` says that no store has an id twice,
`StrayInv` and `CleanInv` what files there are beside the index, published or amid a
publication.

`LspProofs`:

* `LspTypeCorrect`: the type invariant.
* `ServersAreShared`: all calls share one process and no other is alive. Assumes `~Stubborn`,
  that the server ends on SIGTERM: one that ignores it survives a start that is cancelled
  while it fails. `KnownServersRun` is what holds in any case.
* `DocumentsKeepStep`: versions rise, and the server will have the text on record.
* `AnswersAreOwn`: a call returns its own answer.

`StartInv` says that nothing is known of a document before a server is up, `ProcsInv` counts
processes, `LockInv` that who is between the record and the message holds `_sync_lock`.
`VersionInv` and `TextInv` give, for each `await` of a synchronisation, the versions in the
pipe and the text the server will have once it has read them; `SettledAppend` and
`SettledTail` say how that changes when a message is written or read. `OwnInv` says that an
id in the pipe or in an answer belongs to one request for good, `FreshInv` that ids of
requests that wait are different, issued and not cancelled.

Only model-checked: liveness (`SlotFreed`, `ForegroundReturns`, `TurnEnds`, `WorkerEnds`,
`RequestEnds`, `StartupEnds`). Liveness under fairness is out of the prover's reach, and so
is `ENABLED`. Every invariant and every action property of the runs, and every refinement,
is a theorem. No module declares a `RECURSIVE` operator. The type invariants of the modules
are theorems too, and only that of `SubagentManager` is listed by a run.

## Known disagreements

Places where the code does not do what a document, a comment or a test of the
repository says, or plainly loses something. Each is a property of a module; the
property of the run beside it names it as an exception, or speaks of less. Those
with a configuration are reproduced by
`tlc -config <configuration> <MC module>`, which ends in a counterexample.

| Configuration | Property | What happens |
|---|---|---|
| `SubagentManager_leaked_lease.cfg` | `LeaseReleased` | README.md:447-450 says the lease of a fork is held "temporarily". SIGINT in `run()` between `core/subagent.py:320` and 362 is not an `Exception` (336): the lease is never given back. |
| `SubagentManager_inflated_usage.cfg` | `UsageNotInflated` | `_monitor` forwards usage of a foreground task, and `_finish` delivers the total once it was detached (`core/subagent.py:582`): the status bar counts it twice. |
| `AgentTurn_orphan_call.cfg` | `NoOrphanCall` | tests/test_openai_client.py:2164 and README.md:475-477 want no call without a result. SIGINT at a yield closes the generator (`interfaces/backend.py:150`), and no handler commits results until the session is opened again. |
| `AgentTurn_silent_turn.cfg` | `TurnReported` | A context-length recovery in the last iteration ends the turn without a `LoopCompleteEvent` (`core/agent.py:407`), which the TUI waits for. |
| `Terminal_silent_request.cfg` | `RequestAlwaysEnds` | The same at the screen: after such a turn the TUI waits for ever, and Esc does nothing. |
| `ToolBatch_stale_lease.cfg` | `ParentStaysOut` | README.md:447-449: a write and a shared fork in one reply, decided together (`core/agent.py:779`), and the write runs under the fork's lease. |
| `ToolBatch_plan_fork.cfg` | `PlanStopsForks` | `permissions/checker.py:79` says business files cannot be modified before approval; a fork that may write starts in Plan Mode (134). |
| `Worktree_dirty.cfg` | `DirtyReported` | README.md:442-443 says a dirty removal always asks. A session whose validation failed once is reported as clean from then on (`core/worktree.py:790`) and is removed with its changes. |
| `Worktree_half_checkout.cfg` | `CheckoutsAreWhole` | A `git worktree add` that is killed leaves a registered half checkout, which the next `enter()` takes as matching (`core/worktree.py:515-519`) and gives to a task. |
| `Memory_category_change.cfg` | `ReadableWhenQuiet` | An update with another category leaves the old file (`memory/long_term.py:173-178`), with which every later `load()` refuses the store. |
| `PlanMode_unfinished_success.cfg` | `SuccessAlwaysDone` | README.md:69-70 says an unfinished checklist prevents success. One denied or failed call in the turn disables the check (`core/agent.py:528`). |
| `Terminal_out_of_phase.cfg` | `AlwaysInPhase` | tests/test_backend.py:399-427 wants one `loop_complete` per interrupted request. SIGINT after the last line and before `active` is reset makes a second one (`interfaces/backend.py:101`), and every later answer is shown one request late. |

Without a configuration of their own:

* `ClosedKills` in `Lsp`: a call that has passed the test of `_closed` starts a
  server after `close()`, and a cancelled start of a server that ignores SIGTERM
  is never killed.
* SIGINT in `MCPManager.initialize` after `_initialized` is set (504): MCP stays off
  for the process and the user is asked again without effect.
* SIGINT between `_mcp_initialized` (`core/agent.py:1445`) and the end of
  `restore_session` (1452): the tools the session had loaded are missing until the
  next switch. `CallableIsLogged` excepts it.
* A worker killed in `publish()` leaves a store that every later load refuses.
* A checkpoint whose `fsync` fails stays in the file (`memory/session.py:424`), and
  the next `/compact` writes another one. Both are applied when the session is opened
  again, which can drop a call and keep its result (fault `unsynced` of `AgentTurn`,
  12 states).
* `UpdatePlan([])` or a checklist that gets done in Plan Mode drops the reminder of
  Plan Mode; a step with a character at which `splitlines` cuts is written and can
  not be read again; a plan carried out in a later turn than its approval stays.

## Not modelled

* The evaluation harness (`eval/`), providers, prompts, Skills, configuration, and
  the file, search and shell tools: input and output, parsing and wiring by one
  actor, without state that others share.
* Rendering, editing and history of the TUI: one thread.
* The syntax of permission rules, the path sandbox and the command blacklist: pure
  decisions on strings, one call at a time; the models take their verdict as given.
* Estimates of tokens and `compact_tool_results`: sequential arithmetic on sizes.
* Two main processes in one workspace: no lock keeps them from overwriting each
  other's `worktrees.json`.
* Second SIGINTs inside handlers, and tools of MCP that go on after an interrupt.

## Plan

1. Done: `SubagentManager`, `TaskLedger`, `ToolBatch` with proofs; `SessionLog`,
   `AgentTurn`, `DurableChat`.
2. Done: `Worktree`, `Memory`, `Lsp`, `Terminal`, `PlanMode`, `McpCatalog`.
3. Done: proofs of all safety properties that the runs check and of all refinements.
4. Left of the proofs: liveness, which stays with TLC.
5. Left of the models: Skills that fork (they see neither lease nor Plan Mode), a
   worker that rewrites the shared file of rules, a third worker in `memory_workers`.
