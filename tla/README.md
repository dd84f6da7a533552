# A specification of windbgr-mcp

`windbgr-mcp` is a server that lets clients of the Model Context Protocol find
processes on a Windows machine and debug them with `cdb.exe`. It starts one cdb
per session, feeds it commands through pipes, finds out from the text that cdb
writes when a command is done, and keeps several sessions for several clients at
once. This directory holds TLA+ modules that model the parts of it that keep
state, the configurations under which TLC checks them, and proofs for TLAPS.

Paths are relative to the root of the checkout (`src/src/...`).

## 1. The system

| component | state | operations | who uses it |
|---|---|---|---|
| **session actor** `cdb/session.rs` | `SessionShared` (state, exit status, ring) behind mutexes; in the task: the slot `executing` with its `start_offset` and deadline, the child and its stdin | `run_command`, `control`, `stop`, `status`, `read_output`, `wait_ready`; in the actor: output, request, exit of the child, deadline, cancel tick | tool dispatch through the `Session` handle; the manager through `is_active` |
| **output ring** `cdb/ring.rs` | the last N bytes and the count of all bytes | `push`, `read_since`, `snapshot_tail` | the actor |
| **prompt rule** `cdb/prompt.rs` | none | `find_prompt`, `clean_command_output` | the actor, after every chunk |
| **session manager** `cdb/manager.rs` | the map of sessions behind a lock | `attach`, `launch`, `list_active`, `get`, `remove`, `shutdown` | tool dispatch, `app.rs` |
| **tool dispatch** `mcp/server.rs` | none of its own; a future per call | `call_tool`, the arms of `dispatch` | the transport |
| **audit log** `audit.rs` | a file | `record` | `call_tool` |
| **process discovery** `process/`, `platform/windows/` | none; reads the process table | `find_processes_by_module`, `list_processes` | tool dispatch |
| **transports** `app.rs` | the connections; one handler, cloned for every client | `serve_http`, `serve_stdio`, shutdown, exit | clients |
| **configuration, privilege** `config/`, `privilege.rs` | a `Config`, read once; the debug privilege of the process | `load`, `finalize`, `detect_cdb`, `enable_se_debug_privilege` | `main.rs`, `app.rs` |
| **authentication** `security.rs` | the token that is expected | `bearer_auth` | the HTTP transport |
| errors `error.rs` | none | | all |

How they interact:

- A tool call looks the session up in the manager and sends a request through a
  bounded channel. The actor takes it, writes a line to cdb and answers through a
  oneshot: at once for `control`, when a prompt was seen for a command.
- Two `read_stream` tasks read stdout and stderr of cdb and put chunks on one
  channel. The actor is its only reader: it pushes a chunk to the ring, looks for a
  prompt at the end of the ring, and changes the state.
- `spawn_common` runs next to the actor, waits for the first prompt, and gives up
  after a time. The state is shared, and the lock is released between a read and
  the write that depends on it.
- Any tool call may be dropped at an await, since its future is. Its request
  stays in the channel; its oneshot is closed.

What is hard here, and for which properties:

1. *When is a command done?* Only the text tells. A wrong answer either ends a
   command with the output of another, or never ends it (`NoWedge`,
   `IdleMeansPrompt`, `OutputReachesOwnPrompt`, `RuleIsThePattern`).
2. *Deadlines, breaks and cancellations against late prompts.* A command leaves
   its slot in one of six ways, and its caller must be told once
   (`SlotMatchesState`, `EveryCallAccountedFor`, `KeepsContract`).
3. *Ends.* cdb exits, is killed, hangs; the OS fails a read or a write
   (`StoppedMeansChildDone`, `LivesAsRegistered`, `EveryCallReturns`).
4. *A bounded buffer with offsets that survive eviction* (`HoldsRecentOutput`,
   `ReadsWhatWasWritten`, `GapHasSign`).
5. *Check and act in the manager*: the lock is held for one step at a time
   (`LimitOvershootBounded`, `OnlyEndedSessionsLeave`, `ShutdownReachesAll`).
6. *A scan of a process table that changes under it* (`NoMatchMissed`,
   `VerdictFitsProcess`).
7. *A write that waits inside the loop that would make room for it*
   (`NoMutualWait`, `CommandReturns`, `KillEndsSession`).
8. *Three fields under three mutexes, written and read one by one while a session
   ends* (`StoppedEntryIsComplete`, `EndHasReason`).
9. *The order of fallible steps*, at startup and at the end of the process
   (`CdbFromFirstPlace`, `TokenGuardsTools`, `UsesManager`,
   `ExitAccountsForChildren`, `ServerEnds`).

`PROJECT.json` lists every hazard with its line and the properties for it.

## 2. The modules

| module | models | its actions |
|---|---|---|
| `PromptRule` | `find_prompt`, on chunks of output | |
| `CdbSession` | `session.rs`: spawner, callers, actor and cdb | one per arm of `run` and per request |
| `SessionContract` | what a session promises, without cdb | `Ask`, `Start`, `Reply`, `Leave`, `Release`, `Close` |
| `SessionLife` | what the manager assumes of a session | `FirstPrompt`, `SpawnReturns`, `End`, ... |
| `StdioPipes` | the pipes between actor and cdb, with bounds on both sides | one per piece written or taken, and per request |
| `EndReport` | `last_error`, the exit status and the state, at the end of a session | one per acquisition of a mutex |
| `PromptText` | `prompt.rs` on a text of tokens: the pattern, `clean_command_output` | `Receive`, a chunk of any kind |
| `RingBuffer` | `ring.rs` | `Push` |
| `OutputPaging` | `Request::ReadOutput` and a client that pages | `ReadPage`, and `Push` of `RingBuffer` |
| `SessionManager` | `manager.rs`, with attach, list, stop and shutdown | one per acquisition of the lock |
| `ToolCalls` | `call_tool`, `dispatch` for the session tools, the audit | one per await |
| `Discovery` | `find_processes_by_module` and the Windows calls it makes | one per Windows call |
| `Server` | the transports of `app.rs` around the manager | `Connect`, `Disconnect`, `Signal`, `Drained`, `BeginShutdown`, `ServerExits`, ... |
| `Startup` | `main.rs`, `config/`, `privilege.rs`, `app.rs` up to the listener, `security.rs` | one per step that can fail, and `Request` |
| `..._proofs`, of `CdbSession`, `StdioPipes`, `EndReport`, `ToolCalls`, `Discovery`, `Startup`; `Output_proofs`, of `RingBuffer`, `OutputPaging` and `PromptText`; `Server_proofs`, of `SessionManager` and `Server` | theorems | |
| `MC...` | values of constants for TLC | |

`CdbSession` uses `PromptRule`, and `PromptText` shows that rule to decide as the
regular expression does. `OutputPaging` extends `RingBuffer`.

The session and the manager meet in `SessionLife`, from both sides: `CdbSession`
implements it (`LivesAsRegistered`), and `SessionManager` treats each of its
sessions as it allows (`SessionsLive`). What the manager takes for granted, that a
session which ended stays ended, for one, is so what the actor does. `Server`
extends `SessionManager` by the clients and the process, and is shown to use it as
it is specified (`UsesManager`). `ToolCalls` keeps of a session whether it is at a
prompt, at work or over.

`StdioPipes` and `EndReport` look closer at two places where `CdbSession` takes
one step: a write to stdin, which there always has room, and the end of the
actor, whose writes there are one. Both are shown to keep what `CdbSession` is
relied on for: the pipes implement `SessionContract`, the end implements
`SessionLife` (`PipesKeepContract`, `EndIsALife`).

### 2.1 CdbSession

Time is abstract: a deadline, a tick, a poll or STOP_WAIT may elapse whenever the
code waits for it. The text is abstract: a chunk is a `prompt` or one of three
kinds of noise, `line` (text and a newline), `frag` (text without one) and
`blank` (an empty line), and is tagged with the call that made cdb write it. A tag
is a ghost: no action decides on it.

| code | model |
|---|---|
| `spawn_common` after the tasks are started, `wait_ready` | `SpawnReady`, `SpawnGivesUp`, `MarkFailed`, `SpawnDropped` |
| `run_command`, `control`, `stop`, `status` | `Submit`, `SubmitGone` when the actor is gone |
| `wait_ready` by a caller | `StartWait`, `WaitReturns` |
| a dropped future | `Abandon` |
| `run`: output arm | `RecvOutput`, then `OnOutput`; `StreamsClosed` |
| `run`: request arm | `HandleRequest`: command, continue, break, stop, status |
| `run`: exit arm, `on_child_exit` | `ChildExit` |
| `run`: deadline and cancel tick | `DeadlinePasses`, `CancelTick` |
| `interrupt_cdb_command` | `InterruptCommand` |
| `Stop`: `child.wait` under STOP_WAIT | `StopReturns` (reaped, failed, timed out) |
| `read_stream` | `CdbWrite`, `CdbPrompt` through `Emit`; `ReaderFails` |
| cdb (external) | `CdbReadLine`, `CdbWrite`, `CdbPrompt`, `CdbExit` |

An arm of `select!` with a condition is on or off for a whole turn of the loop:
`if self.pending_command_cancelled()` (`session.rs:528`) is evaluated when the loop
enters `select!`. `tick` is that value. Every step that ends an arm and goes on with
the loop computes it anew (`NextTurn`), and `CancelTick` needs it; so a caller that
goes away while the actor waits is not noticed before something else turns the loop.

`RecvOutput` and `OnOutput` are two steps because `on_output` reads the state,
releases the lock and takes it again to write: `MarkFailed` can come in between.
The rest of an arm is one step, since nothing else can see its parts. A call that
is queued behind another in the same instant, or a request that arrives while the
actor waits for the child in a stop, is in `requests`.

The ring evicts nothing in this module; what eviction does is the matter of
`RingBuffer`, and `TailIsTheEnd` is what carries over: the tail that `on_output`
searches is the end of the output.

`CdbSession` implements `SessionContract` (`KeepsContract`), with `open` as "the
actor is there", `current` as the slot, and `phase` as what the caller knows.

The life of the session, for the manager, is its state with every state after
the first prompt taken as one, together with where the spawner and the actor are
(`LivesAsRegistered`).

### 2.2 StdioPipes

A pipe holds a few pieces. A command is `lines` lines of `width` pieces; `g` and
`qd` are one piece. `BeginWrite` is the first poll of `write_all`, `WritePiece` one
write, and `WriteEnds` or `WriteFails` what the handler does after it. In between
the actor is in `writing` and takes no output, no request and no deadline. cdb
reads at a prompt only, executes a line when its end has come, and stops when
nobody takes its output. The prompt that `on_output` sees is the last thing taken
from `out`.

Of `handle_request` these are the arms that write to the pipe or end the session:
command, continue, detach and kill. A break, a terminate, a status and a read of the
output write nothing to it and are in `CdbSession` and `OutputPaging`; the
CTRL+BREAK that matters here is the one of a deadline.

`run_command` passes the text of a command on as it is, but for its end, so a
command may have several lines. The run `stdio` has commands of one line; the
theorems about who waits for whom hold up to the first command with a second line,
and section 3 says what that one does.

### 2.3 EndReport

`EndBegins` is the arm of `run` that ends the loop, with the exit status or the
error it writes; `MarkStopped` and `QuoteOutput` are `on_child_exit`. Next to them
run the spawner, which writes `Failed` and then its reason, and the readers: a list
(state, error, status, each under its own mutex) and a wait (state, then the
reason).

### 2.4 PromptText

The text is in tokens: `label` (the digits and colons of a prompt), `gt` (`>`),
`space`, `newline`, `cmd` (the text of the command) and `text`. Chunks are
spelled in tokens, in any order, and after every chunk the pattern, its
alternatives `^`, `\n` and `>\s` included, is evaluated on the text and compared
with `EndsAtPrompt`. `answered` says that a prompt was found before the last
chunk: the first one takes the slot, and the text ends for the caller. `before`
(the text without its last chunk) and `echoed` (where the echo ends) are ghosts,
from which `Written` has what the command wrote. `Clean` is
`clean_command_output` in the order in which the code tries the echoes. The
command has no trailing blanks: `handle_request` writes it without them
(`session.rs:694`) but passes it on with them as the echo to look for
(`session.rs:707`), so for such a command the echo is not what is looked for,
and nothing is claimed here.

### 2.5 SessionManager

One action per acquisition of the lock of the map: `CheckCapacity`, `Register`,
`ListActive`, `GetForStop`, `Remove`, `Snapshot`. Between them are the awaits: the
spawn, the stop. A future may be dropped at the spawn (`SpawnDropped`) and leaves a
cdb that nobody knows. `shutdown` works on a snapshot, stops one session after the
other, and gives up a stop after five seconds. `BeginCall` and `GoOn` split the
actions into those that begin a call and those that go on with one, for `Server`.

### 2.6 Server

On stdio there is one connection, and its end is the end of the transport. On HTTP
clients come and go until the signal; then axum waits for the open connections,
not for calls that have lost theirs, and `app.rs` calls `shutdown`. An error of the
HTTP listener is looked at after that, one of stdio ends the process at once. The
exit stops the tasks and leaves the children alone.

### 2.7 ToolCalls

A call is begun, dispatched, recorded and answered. Its places are the awaits of
`dispatch`: after the lookup, after the request, between `wait_ready` and `status`,
between `stop` and `remove`. The session is reduced to prompt, work or ended.
`status` stands for `debug_output` too. Attach and launch are in `SessionManager`.

### 2.8 Discovery

The process table changes between any two calls of Windows: processes exit, start
under a pid that became free, and load and unload modules. `Snapshot` is
`enum_processes`; each process is looked into with toolhelp and, if that fails,
with psapi; what Windows returns may be cut short (`ApiErrors`). A pattern is the
set of modules it matches, and the empty set one that `from_raw` drops.
`process_list` is the snapshot with which a scan begins, and keeps nothing.

### 2.9 Startup

Every input is chosen where the code reads it: the command line and the
environment in `Init`, the file in `Load`. An address is reduced to its host, a
token to one of two values or the empty text, a path to the place where it was
found. `Adjust` has the success of `AdjustTokenPrivileges` that changed nothing.
`Request` is a request to the running HTTP server in front of which `bearer_auth`
stands. The answer says whether it let the request through; rmcp may refuse its Host
header after that.

## 3. The runs

| run | bounds | checks | shows |
|---|---|---|---|
| `session` | two calls of all nine operations, one chunk of noise, queue and pipes of two | `NoWedge`, `IdleMeansPrompt`, `OutputReachesOwnPrompt`, `StoppedMeansChildDone`, `EveryCallReturns`, `NoticedCommandLeavesSlot`, `BreakTakesEffect` | with an OS that works and text that ends with a newline, a session never wedges, is Idle only at a prompt, answers every call, and lets go of a command whose caller was seen to be gone |
| `session_os_errors` | the same, every OS call may fail, all kinds of text | `SlotMatchesState`, `PromptInBufferIsStale`, `EveryCallAccountedFor`, `KeepsContract`, `LivesAsRegistered` | whatever fails, the slot and the callers stay in step, and the session lives as the manager assumes |
| `stdio` | two calls, commands of one line of one or two pieces, pipes for one piece, up to two pieces of output | `NoMutualWait`, `CommandReturns`, `KillEndsSession` | a write that waits for room holds nobody up for good, unless the recovery of `interrupt_cdb_command` was wrong before |
| `end_report` | two readers, every way to end | `StoppedEntryIsComplete`, `EndHasReason` | fields that are written and read one by one still tell how a session ended |
| `prompt_text` | six chunks of seven kinds, so all 137257 texts | `RuleIsThePattern`, `CleanReturnsWritten` | the rule on chunks is the pattern; a caller gets what the command wrote |
| `output_paging` | ring of three bytes, chunks of 0 to 4 bytes over two values, seven bytes in all, pages without a limit and of two bytes | `HoldsRecentOutput`, `ReadsWhatWasWritten`, `TailIsTheEnd`, `GapHasSign` | the ring is the end of the output; a client misses output only with a warning or behind a page as long as its limit |
| `server` | three attaches, two at a time, one session allowed, two clients, either transport | `LimitOvershootBounded`, `UntrackedOnlyIfAbandoned`, `OnlyEndedSessionsLeave`, `SessionsLive`, `ShutdownReachesAll`, `UsesManager`, `ExitAccountsForChildren`, `ServerEnds` | the limit is overshot by the calls in flight only and no live session is lost; no call begins after the snapshot of the shutdown; the exit leaves no cdb behind that is not accounted for; a server that is asked to end exits |
| `tool_calls` | three calls of all seven tools | `StoppedSessionIsForgotten`, `OneStopSucceeds`, `WaitBreakSawPrompt`, `AnswerIsAudited` | a stop is final and granted once; an answer has its record |
| `discovery` | three pids, one of the system, two modules, one new process | `NoMatchMissed`, `VerdictFitsProcess` | no process that matches all along is left out |
| `startup` | four hosts, all combinations of token, hosts, paths and audit file, every step failing | `CdbFromFirstPlace`, `TokenGuardsTools` | cdb is from the first place that has one; where a usable token is configured it is asked for |
| `session_silent` | two commands, timed or untimed | `AbandonedCommandLeavesSlot` | must be violated, see below |
| `prompt_echo` | three chunks | `CleanStripsOnlyPromptAndEcho` | must be violated, see below |

The type invariants are proved for all values of the constants, so no run repeats
them. The run `server` is that of the registry too: `Server` extends
`SessionManager` and restricts when calls begin, and three attaches are under way
while its clients come and go.

Why the bounds are enough. Two calls are what the slot needs: one in it, one that
comes later; three calls meet at the manager (one registered, two in flight) and
in `ToolCalls` (a stop, a call under way, a call that begins after). One noise
chunk may come before the prompt, after it, late on stderr or cut off. Six chunks
hold an old prompt, an echo, two lines, a prompt and one more. In the ring, chunks
of 0 to 4 bytes in a buffer of three are shorter than, as long as and longer than
it. In discovery one process can exit and one can take its pid. A pipe of one piece
and a line of two is the smallest case in which a write waits and output waits;
with two calls one can be written while the output of the other is under way. Two
readers see each other only through what they read, so one would do; the second
makes a list and a wait of the same end. Two clients are what draining needs: one
that leaves and one that stays.

Symmetry over `Calls` is used where only safety is checked.

`CHECK_DEADLOCK FALSE`: sessions, servers, scans and bounded writers end.

### Disagreements between code and documentation

Two runs must find their property violated; `PROJECT.json` quotes the lines.

- `session_silent` (`AbandonedCommandLeavesSlot`): the caller of an untimed command
  goes away while the actor waits in `select!`. The condition of the cancel arm
  (`session.rs:528`) was evaluated when the actor began to wait, so no tick comes, and
  the command keeps the slot for as long as cdb writes nothing and nobody asks for
  anything; the only other way out is `ACTOR_IDLE_BLOCK`, one hour, which the run
  does not wait for. `constants.rs:23` promises a periodic tick. What does hold,
  that a command leaves the slot once a turn has seen its caller gone, is
  `NoticedCommandLeavesSlot`.
- `prompt_echo` (`CleanStripsOnlyPromptAndEcho`): output that begins with the
  letters of the command loses them.

Others are behind a bound or a condition of a run above. TLC finds each when the
configuration named is changed as said.

| property | configuration | what the code does |
|---|---|---|
| `RecoveryIsToAPrompt` | `session.cfg`, added | the check of the buffer before a CTRL+BREAK (`session.rs:573`), meant for a prompt that was missed, can only see the prompt from before the command, so the session goes to Idle while cdb works. `PromptInBufferIsStale`, proved, says why: a prompt pushed since would have emptied the slot |
| `InactiveMeansChildDone` | `session.cfg`, added | a session whose first prompt is late is Failed, and its cdb lives on; the comment at `session.rs:52` says it has exited |
| `NoWedge` | `session.cfg`, `NoiseKinds = {"line", "frag"}` | the pattern does not see a prompt that follows text without a newline (`prompt.rs:12`): a session whose banner ends so is given up as Failed, and a command whose output does stays in the slot until its deadline while cdb waits at its prompt |
| `NoSilentGap` | `output_paging.cfg`, added | the front of a page longer than `max_bytes`, which is 16 KiB unless the client says otherwise (`tools.rs:154`), is dropped, `next_offset` moves past it, and `truncated_from_start` is false (`session.rs:801`); the tool is said to be "for paginating long command output" (`registry.rs:91`) |
| `IdleMeansAtPrompt` | `stdio.cfg`, added, `MaxLines = 2` | a command of two lines is answered at the prompt of its first; the session is Idle while cdb has a line to execute, and the next command gets its output |
| `CommandReturns` | `stdio.cfg`, `MaxLines = 2` | if the rest of such a command does not fit the pipe, and its first line writes more than the way back holds, the actor and cdb wait for each other; no deadline is looked at meanwhile (`session.rs:695`) |
| `ListedAreActive` | `end_report.cfg`, added | a session that ends between the prune and its summary is listed as Stopped (`manager.rs:86`); the tool description says only active ones are |
| `BearerRequired` | `startup.cfg`, added | without a usable token the server starts with a warning and lets every request through `bearer_auth` (`app.rs:56`); the comment at `config/mod.rs:2` says "Bearer required for HTTP" of the defaults |
| `BindHostIsAllowed` | `startup.cfg`, added | the host of `--bind` is listened on, but that of the configuration is accepted (`app.rs:81`) |

Because of the wrong recovery and of blank lines after a prompt, `IdleMeansPrompt` and
`OutputReachesOwnPrompt` are stated for runs in which the buffer did not mislead
`on_output` (`Misled`).

### Fairness

`FairSpec` of `CdbSession` assumes that the actor, the spawner and the tasks of
callers are scheduled (tokio), that deadlines and STOP_WAIT elapse, that
`select!` polls its ready arms in random order and so takes each some time, that
the tick elapses in a turn whose cancel arm is on and in which nothing else
comes (steady output puts it off, since its sleep is new in every turn), and of
cdb that it reads its input at a prompt, honours a CTRL+BREAK and ends when told
to. Nothing makes the hour of an untimed command elapse. It does not assume that
a command ends by itself: `untimed` commands are left out of `EveryCallReturns`.

`FairSpec` of `StdioPipes` assumes that the actor goes on with a write while the
pipe has room and takes each ready arm some time, and that cdb reads at a prompt,
writes what it has to write, heeds a CTRL+BREAK and dies of a kill; it does not
assume that anything else makes cdb exit or finish. `ServerFairSpec` assumes that a
client closes its connection once the server drains (axum waits for it without a
limit, so without this a server need not end), and that the one task of `app.rs`,
`shutdown` with its stops under a timeout included, goes on.

## 4. The proofs

All theorems hold for every value of the constants that the named `ASSUME`s allow:
any number of calls, any bounds, with or without errors of the OS.

**CdbSession_proofs**

- `TypeCorrect`: `TypeOK` is inductive. `AnswerType`, `DroppingType` and
  `ReadSinceType` are the lemmas on the operators.
- `SlotSafe`, `BufferCheckIsStale`: `SlotInv` adds to the two properties that a
  session has no calls before `spawn_common` returned it (`CallsNeedSession`) and
  that the state `on_output` has read is still the state, unless the spawner made
  it Failed (`SeenIsCurrent`). Without these `MarkFailed` could strike while a
  command is in the slot, or `OnOutput` act on a state that has gone.
- `NeverWedged`: if `frag` is not in `NoiseKinds`, `NoWedge` is inductive relative
  to `TypeOK` and `SlotInv`. `PromptIsSeen` says that a prompt appended to text of
  whole lines is always found. Without the assumption TLC refutes it (section 3).
- `CallsAccountedFor`: `HeldInv` adds that a call is in one place at a time and that
  the queue holds no call twice; otherwise an answer would leave a copy behind.
- `CancelsTheAbandoned`: `interrupt_cancelled_command` takes whatever is in the slot
  when the tick elapses. `TickInv` says that this is still the command of the turn
  that saw its caller gone; the proofs about answers need it, since a command taken so gets
  none.
- `StoppedIsTrue`: `StreamsInv`, that without OS errors no stream closes while the
  actor lives, rules out the one way to be Stopped with a live cdb.
- `EndIsForever`: `EndInv` says why an inactive session cannot come back: once
  Stopped its actor is gone, and one that is Failed was not returned to its caller.
  `OthersKeepState` shows that only the actor and the spawner write the state.
- `ContractIsKept`, `LivesAsAssumed`: the two refinements. Each step maps to a step of
  the abstract specification or to a stutter. The first needs `HeldInv`, without
  which an answer could go to a call that the contract holds to be done; the second
  needs `SlotInv` and `EndInv`.
- `IdleIsAtPrompt`, `OutputIsOwn`: `AnswerInv` says which prompt is whose. cdb has one
  thing to do at a time: a line to read, or work, or a prompt on its way, and nothing
  of these while the session is Idle (`PromptInv`); and while a command is in the
  slot, what cdb has to do carries its tag, and so does the next prompt
  (`OutputInv`). Both are claimed while nothing misled `on_output`, as the properties
  are.

**StdioPipes_proofs**, for pipes of any size

- `StdioTypes`, for commands of any shape.
- `NobodyWaitsForBoth`, `IdleWaitsAtPrompt`, as long as no command has a second line
  (`SeveralLines`): `TurnInv` says that there is one turn. While the session is Idle
  cdb is at rest; a line under way leaves it at its prompt until its end is written
  (`MidLine`); after that there is one line, or one prompt, or work (`OneTurn`). A cdb
  at work has an empty stdin, so whatever is written to it, which can only be `qd`,
  has room. Once a second line was asked for TLC refutes both (section 3).
- `PipesKeepContract`, for commands of any shape: `StdioPipes` refines
  `SessionContract`. What `CdbSession` does in one step takes as long here as cdb
  likes; `HeldInv` says that a call is in one place meanwhile (queue, hand or slot),
  and that a line is written only while the slot is empty, so that `WriteEnds` starts
  a command where none is current.

**EndReport_proofs**, for any number of readers

- `EntriesAreComplete`, `FailureIsKept`, `ReasonIsThere`: whoever was told Stopped has
  read it after the actor wrote it (`StoppedInv`), and what was written before that
  stays (`ReasonInv`).
- `EndIsALife`: `EndReport` refines `SessionLife`. The write of Stopped is the end;
  what the actor and a failed spawn write before and after it is a stutter.

**Output_proofs**, of ring, client and prompts

- `RingInv` is the inductive invariant: the count is the length of the history, the
  buffer has min(history, capacity) bytes, and its i-th byte is the byte of the
  history at the same distance from the end. `PushKeeps` shows it for the two
  paths of `push`. `RingHoldsTheEnd`, `ReadsAreExact`, `SearchedTailIsTheEnd`,
  `OffsetsNeverMoveBack` and `RingTypes` follow.
- `ClientInv` bounds what the client has by its cursor, strictly once it was warned:
  `WarningsAreTrue`. `GapsHaveSigns`: without a warning and without a page as long as
  its limit, the client has what was written up to its cursor, since then
  `read_since` began at the cursor and nothing was cut. Both are for any limits.
- `RuleDecidesAsPattern`, `AnswersAreWhatWasWritten`, for a command with any number of
  chunks. The invariant `TextInv` says of the text what its last chunk says
  (`LastChunk`: a prompt, an empty line, a whole line or a fragment at its end), how
  it begins, and hence where an echo can be (`Beginning`), and that while no prompt
  was found the text before the last chunk held none (`BeforeLast`), so that the
  prompt which answers is the last chunk and nothing more. From these follow where
  `PROMPT_RE` matches and what the two trims, the search for the last newline and the
  echo candidates leave. Nothing is claimed of an answer that begins like the
  command or ends with `>`, as in the property: there the code loses text
  (`prompt_echo`). That a non-empty set of positions has a least and a greatest
  element, on which the leftmost match and the trims rest (`MinOfSet`, `MaxOfSet`),
  is proved from the well-foundedness of the naturals.

**Server_proofs**, of the manager and of the process around it

- `ManagerInv` adds to the properties that a registered session, and one that is
  being stopped, has come through its spawn (`StopNeedsSession`), that a running cdb
  belongs to an active or failed session (`ChildNeedsSpawn`), and that a stop that
  returned left nothing alive (`StoppedIsDead`). From it `ManagerTypes`,
  `NoLiveSessionIsLost`, `ShutdownIsThorough`, and the action property
  `LiveSessionsStay`.
- `RefusalsAreJust`: `attach` and `launch` are refused only when, after the prune, at
  least `MaxSessions` sessions are registered and active; none that ended is counted.
- `SessionsLiveTheirLives`: every step of the manager is, for each session, a step of
  `SessionLife` or a stutter.
- `OvershootIsBounded`: only a capacity check that succeeds adds to the claimed
  sessions (registered or in flight), and then both parts are bounded. All other
  steps shrink them (`ClaimsShrink`).
- `ServerUsesManager`: a step of the server is a step of `SessionManager` or a
  stutter. What has to be shown is that no call begins after the snapshot:
  `ServerInv` says that a shutdown has begun only if the transport is closed or
  failed, and that those have no connections.
- `ExitIsAccountedFor`: from this refinement and `ShutdownIsThorough`. `ExitAfterShutdown`
  and `DoneMeansAll` carry what shutdown reached over to the exit.

**ToolCalls_proofs**

- `StopInv`: a call has no result before dispatch returns; one stop at most was
  carried out, it ended the session, and once answered the session is out of the
  map; calls that began later are before the lookup or were refused; a wait got
  past its poll only at a prompt. `StopsAreFinal`, `StopsAreGrantedOnce` and
  `WaitsSawPrompt` follow.
- `AuditInv`: one record per call from the step that writes it, none before.
  `AnswersAreAudited` follows.

**Discovery_proofs**, for any table, any patterns and any number of new processes

- `Inv` says that ids only grow (`IdInv`), so that a pid which still has the id it was
  listed with was never given away; that each listed pid waits, is looked into, or
  has one verdict (`ScanInv`); that one that is due is in one of these places
  (`DueInv`); and that what is being reported was not protected (`VerdictInv`).
  `NoneIsMissed` and `VerdictsFit` follow.

**Startup_proofs**, for any addresses in the configuration and on the command line

- `StartupInv` adds to the properties that what was resolved stays resolved
  (`ResolvedOnce`: the expected token and the accepted hosts are those of the
  configuration, what is listened on is the address), and that only a server answers
  (`AnsweredByServer`). `CdbPrecedence` and `TokenIsRequired` follow.
- `OnlyBindLocksOut`: without `--bind` the server accepts the host it listens on. With
  it TLC refutes `BindHostIsAllowed` (section 3), so the option is the only cause.

Every safety property of the runs is stated by one of these theorems. Checked only by
TLC is liveness, which is out of the prover's reach: `EveryCallReturns`,
`NoticedCommandLeavesSlot`, `BreakTakesEffect`, `CommandReturns`, `KillEndsSession`,
`ServerEnds`.

## 5. What is not modelled

- `read_output`, `debug_output` in `CdbSession`: a read of the ring that changes
  nothing of the session; it is in `OutputPaging`.
- Time. An untimed command can be interrupted after an hour without events
  (`ACTOR_IDLE_BLOCK`), and a cancel tick that is on be put off by steady output: the
  model has both as possible steps but no property on when.
- Wording: the text of `last_error` and of messages, argument lists, the schemas of
  the tools, the shape of the answers, what check-env prints. `enumeration_status`
  is always `"ok"`, though `process/model.rs` names a second value, `partial`.
- The bytes of UTF-8: `on_output` decodes the tail, which may begin inside a
  character; that changes only what is before the last line.
- A detach of a busy cdb ends with a kill after STOP_WAIT; whether the target
  survives is a matter of Windows.
- `session_idle_timeout_secs`: it is read from the configuration and never used, so
  there is no behaviour to model.
- What rmcp and axum do beyond what `app.rs` uses of them: the sessions of the
  protocol, the check of the Host header itself.
- The file of the audit log: an error of a write is logged and forgotten. Whether it
  can be opened is in `Startup`.

## 6. The plan

Done: the session with its contract, its life and its pipes; its end as readers
see it; prompts and cleaning; ring and paging; manager and server; tool calls;
discovery; startup. All safety properties of the runs are proved, and so are six
refinements.

What is left:

1. `read_since` at the level of `CdbSession` with a ring that evicts: a command
   whose output is longer than the ring.
2. The recovery of `interrupt_cdb_command` in `StdioPipes`: after it only the contract
   is shown; which command's output a client may get then is not said.
3. `ToolCalls` over `SessionContract` in place of the three places of a session it
   keeps now.
