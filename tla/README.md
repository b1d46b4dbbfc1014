# A TLA+ model of ltm

`ltm` ("Linux time machine") records process, file and network events of a host
with eBPF tracepoints into a SQLite table and answers questions about them. This
directory holds TLA+ modules for its recording daemon, for the path tracking and
the events of its kernel programs, for the commands that start and stop the daemon,
for the writers that share its file, and for the `watch`, `diff`, `query` and `sql`
commands that read the table, with the flags and texts they take; the TLC
configurations that check them; and proofs checked by TLAPS. Source paths below are relative to the
repository.

## 1. Inventory

| Component | Source | State | Operations | Interacts by |
|---|---|---|---|---|
| Kernel data plane | `internal/ebpf/collector.bpf.c` | `events` ring, `ringbuf_drops`, `fd_path`, `pending_open`, `scratch`, `self_pid` | one handler per tracepoint: reserve, fill, submit | ring buffer and maps shared with the event source |
| Event source | `internal/ebpf/collector_linux.go`, `attach_linux.go`, `decode_linux.go` | `lastKernelDropped`, the reader, links | `Run`: attach, read, decode, sample drops, send; a goroutine that closes the reader on cancel | reads the ring, sends to `in` |
| Enrichment | `internal/ebpf/proc_linux.go` | none | reads `/proc` | called by decode |
| Collector | `internal/collector` | `dropped`, channel `in`, `done` | `Run`: worker goroutine, select, cancelled drain, `forward` | receives `in`, sends to `ingest` without blocking |
| Flush loop | `internal/daemon/flush.go` | `batch`, `lastDropped`, ticker | receive, `drainReady`, tick, `flush`, `finish` | receives `ingest`, reads the drop counter, `InsertEvents` |
| Service | `internal/daemon/service.go` | `ctx`, `colErr`, `flushErr`, `runErr` | `runWithSource`: start, select, cancel, join, close, join | owns `ingest` and the context |
| Store | `internal/storage` | the `events` table, connection | `InsertEvents`, `Prune`, `Status`, `EventsAfterID`, `Query`, `RawSQL` | one writer, read-only readers in other processes |
| Watch | `internal/cli` (`runWatch`, `watchStep`) | `lastID` | backfill, then poll by id | reads the store while the daemon writes |
| Lifecycle | `internal/cli` (`runStart`, `runStop`, `runStatus`, `runDaemon`) | pid file, process | start, stop, status, signal | signals and the pid file |
| Diff | `internal/diff` | none | a scan of queried rows | reads the store |
| Question templates | `internal/query` | none | `Execute`: a query with a limit, then a filter | read the store |
| SQL guard | `internal/agent`, `storage.hasMultipleStatements` | none | scan a statement | the agent's output |
| Agent | `internal/agent` | a child process, its pipe | `Resolve`, `GenerateSQL`, `ExtractSQL` | called by `runAgentQuery` within a deadline |
| Command line, output | `internal/cli` | `Config` | flags before and behind the command, the arguments of the daemon, SQL and questions, formatting | the daemon parses what `start` writes |
| ABI generator | `internal/abi/gen` | none | text generation at build time | |

Hard behaviours: four goroutines and the kernel joined by bounded channels;
cancellation that races with results and with closed channels; events lost in
three places and counted in two; a write that fails or times out; readers in
other processes that tail a growing and pruned table; per-process kernel maps
written by concurrent threads. `PROJECT.json` lists each at its line under
`hazards`.

What makes each correct:

- *pipeline*: no send on a closed channel, no goroutine left, order kept, every
  event either persisted or lost for a known reason, a stop that terminates,
  errors that surface, counters that agree with the losses;
- *store*: a batch is atomic, ids are never reused, a write waits no longer than it
  may and fails for no other reason, deleted rows give their pages back;
- *watch*: every matching row after the start is shown once, in id order;
- *lifecycle*: a stop that reaches the daemon it means, a start that leaves none
  behind when it fails;
- *fd tracking*: a path recorded for a descriptor is the path it was opened with, and
  none is under `/proc`, `/sys` or `/dev`;
- *questions*: what a limit leaves out is at one end of the answer;
- *command line*: the daemon has the configuration of the start, a question ends,
  with one answer, a text that runs is one statement;
- *pure algorithms*: agreement with a reference definition.

## 2. Modules

| Module | Models | Lines |
|---|---|---|
| `CaptureSource` | the ring buffer and `EventSource.Run` | component |
| `Collector` | the worker goroutine and `Collector.Run` | component |
| `FlushLoop` | `eventBatcher` and the transaction of `InsertEvents` | component |
| `Recorder` | `Service.runWithSource`; instantiates the three components over shared variables; properties | composition |
| `DropAccounting` | what `dropped_before` says of the losses, and `DropInv`; extends `Recorder` | properties |
| `EventLog` | the abstract log the recorder promises | abstract specification |
| `MCRecorder` | event kinds for TLC | model |
| `RecorderProofs` | the inductive invariants and the theorems about control, order, accounting, refinement and `dropped_before`; extends `DropAccounting` | proofs |
| `Store` | the table, the ids SQLite gives, `InsertEvents`, `Prune`, `Query` in a time range, `EventsAfterID`, `LatestEventID` | component |
| `Watch` | `runWatch` and `watchStep`, extends `Store` with one reader; properties | composition |
| `WatchProofs` | `CursorInv` and the theorems about `Watch` | proofs |
| `FdTracking` | `pending_open`, `fd_path` and the programs of `collector.bpf.c` that use them or give an event a path; properties | component |
| `MCFdTracking` | threads and processes for TLC | model |
| `FdTrackingProofs` | `TrackingInv` and the theorems about `FdTracking` | proofs |
| `Lifecycle` | `runStart`, `runStop`, the pid file, the phases of `runDaemon`; properties | component |
| `MCLifecycle` | pids, commands and their texts for TLC | model |
| `LifecycleProofs` | `ProcessInv` and the theorems about `Lifecycle` | proofs |
| `StateDiff` | the scan of `Engine.Diff` and the definitions of its report | component, algorithm |
| `MCStateDiff` | rows for TLC | model |
| `StateDiffProofs` | `ScanInv` and the theorems about `StateDiff` | proofs |
| `HostEvents` | processes, and the rows that the kernel programs and `convertKernelEvent` make of what they do | component |
| `Questions` | the templates of `internal/query` and its search over `Query`, `QueryText` and `Sockets`, extends `HostEvents`; properties | composition |
| `MCQuestions` | names for TLC | model |
| `QuestionsProofs` | the theorems about `Questions` | proofs |
| `WriteLock` | the writers of one file, SQLite's write lock, its busy timeout and `flushWriteTimeout`, `DELETE` and `VACUUM`; properties | component |
| `MCWriteLock` | how long statements hold the lock, for TLC | model |
| `WriteLockProofs` | `LockInv` and the theorems about `WriteLock` | proofs |
| `SqlText` | `hasMultipleStatements`, `scanTopLevel` and `ExtractSQL`, and a reference reader | algorithms |
| `GlobalFlags` | `parseGlobalFlags`, `splitFlag`, `daemonArgs` | algorithms |
| `CommandLine` | the arguments up to `runStart`'s child; `runQuery`, `runSQL`, `runAgentQuery` with the agent's process; extends the two before; properties | composition |
| `MCCommandLine` | texts and tokens for TLC | model |
| `CommandLineProofs` | the scans, the parser and `CommandInv`, and the theorems about `CommandLine` | proofs |

### How the state corresponds

In the recorder:

*Events.* An event is a record `[id, dropped]`: `id` numbers the reservations of
the ring buffer in order, `dropped` is `Event.DroppedBefore`. What the pipeline
does with an event depends on nothing but its kind, `KindOf[id]`: `keep`,
`ignored` (`shouldIgnore` holds of a path) or `malformed` (`decodeKernelEvent`
fails). The rest of the event is abstracted.

*Channels* are sequences with a capacity; `in` and `ingest` have a `Closed` flag.
The channels of capacity 1 that carry one result (`done`, `colErr`, `flushErr`)
are variables that hold `none` until the result is sent. `ctxDone` is the context
that `runWithSource` derives.

*Control points.* Each goroutine has one: `srcPC` (`setup`, `open`, `read`,
`sample`, `send`, `returned`, and then the worker's `closed` and `exited`),
`colPC` (`loop`, `count`, `finish`, `returned`), `flPC` (`select`, `drain`,
`flush`, `insert`, `returned`), `svcPC` (`wait`, `joinCollector`, `close`,
`joinFlush`, `returned`). A step of a goroutine runs to the next point where
another goroutine can see or change something it uses: `forward`'s failed send
and its `AddInt64` are two steps (`Overflow`, `CountDrop`), reading a record and
sampling the drop counter are two (`ReadRecord`, `SampleDrops`), reading
`droppedFn` and inserting are two (`Stamp`, `Insert`).

*The collector's two loops.* The `select` and, after a cancellation, the `range`
over `in` treat an event alike, so an event step does not depend on `draining`.

*Failures.* Loading, attaching and opening the reader may fail (`SetupFails`),
`reader.Read` may (`ReadFails`), a lookup of `ringbuf_drops` may when
`LookupMayFail`, and a write may (`InsertFails`: any error of `InsertEvents`, its
five-second timeout included; the transaction rolls back). A signal may come at
any time (`Signal`).

*History variables* `ringLost`, `overflow` and `abandoned` hold the events lost
at each of the three places; no guard reads them.

In `Store` and `Watch`:

*The table* is a set of rows `[id, ts, match]`, where `match` is what
`watchPredicate` says of the columns left out. The recorder is not composed with
it: to a reader, the daemon, a second daemon, `ltm benchmark` and `ltm prune` are
processes that commit transactions, so `StoreNext` inserts any batch of up to
`MaxInsert` rows, prunes before any time, or lets the clock advance. `sequence` is
SQLite's record of the largest id it gave, which `AUTOINCREMENT` in
`schema_gen.go` makes it keep when rows are deleted.

*Timestamps* need not follow ids. CPUs stamp and submit events independently, so
two events may be committed in the other order than they are stamped;
`GenerateDemoEvents` stamps events ahead of the clock; and a row is committed up
to a flush interval after its timestamp. `Punctual` restricts a run to rows stored
in the instant of their timestamp, to show that a behaviour needs none of this.

*The watcher* has a control point `wPC`: each of its statements is one step, and
the table may change between any two. `ORDER BY ... LIMIT n` is the set of rows
with fewer than `n` rows before them. `shown` counts how often each id was printed
`base` keeps the cursor with which the tail began; no guard reads either. `to` is
0 when there is no `--since`.

In `FdTracking`:

*The two maps* are functions from all keys, `None` where there is no entry. Of the
kernel there are the descriptors of each process and the `open` each thread is in
(`call`), with what it has read for its entry of `pending_open`.

*Two reads of a string.* `bpf_probe_read_user_str` is external and reads user memory.
The filter reads a string of the call (`path_ignored_user`), and a second read copies
it into a map (`save_pending_open`) or an event (`read_path`); an `open` does both, so
it reads its name four times. Other threads may write to the string in between, and a
read of a page that is not resident fails, which leaves the empty path. So what is
copied need not be what was checked (`Copies`). An event keeps both for each of its
paths (`Reads`), and so does `call`; `checked` is history, no program reads it. It is
`None` where the call has no string, or where the path comes out of a map.

*`save_fd_path`* reads with the same helper from the address of a map value, for which
it fails and zeroes the buffer (`ReadMapValueAsUserStr`). So no entry of `fd_path` ever
holds a name, which `OpenedDescriptorsHavePaths` shows. For that reason nothing is
claimed of which name an entry holds: entries survive an exec, an exit, a `dup2` and
the reuse of a pid, as the actions show, and a repair that reads the map value has to
deal with that and with two threads in `open` at once.

*Programs that only fill an event* from their arguments (`clone`, `kill`, the
network calls, memory and block events) touch nothing here. A lost event and an
event of the daemon itself look alike: `event` is `None`. Events about descriptors
of files under `/proc`, `/sys` and `/dev` carry no path and are recorded; the
filters look at paths only.

In `Lifecycle`:

*Processes.* `proc` gives each pid a state: a daemon before `signalContext`
(`opening`), in `svc.Run` (`recording`), after its cancellation (`stopping`) and
after the handlers are removed (`closing`), a zombie its parent has not reaped,
another program, or nothing. The service itself is the one of `Recorder`, reduced
to these phases. A start is the parent of its daemon until it returns, and never
waits for it, so the pid cannot be given to another process before. A start that is
itself killed between the spawn and the write of the pid file is not modelled, and the
signal of a stop is always permitted: who may not signal the daemon gets an error
(`commands_runtime.go:71`) and changes nothing.

*The pid file* holds a pid or nothing (`NoPid`). `os.WriteFile` is two steps, the
truncation and the write, and a reader may come between them. When two starts
truncate and then both write, the end of the longer pid stays behind the shorter:
`Overwrite` says which pid that text is. Nobody removes the file. `ltm status`
reads it and changes nothing, so it has no action.

In `StateDiff`:

*A row* keeps what the loop looks at. The rows of the query are chosen one by one
as the scan reaches them, which is the same as choosing them before, since the
scan reads no row twice. Each row adds one entry at most to a list, so a list of
the report is the set of the positions of its rows, and its order is theirs; the
order of the hot writers is that of a Go map, so they are a set of paths.
`RestartKey` is the name, or the text of the pid where the name is blank, and the
two can be the same text.

In `HostEvents` and `Questions`:

*Rows* are a sequence; the position of a row is its id and the order of its
timestamp. Each action is a call of a process and emits what the kernel program of
that call submits, with the fields `convertKernelEvent` keeps: an address of 0
becomes the empty text. `comm` is the name each process runs under; the program of
an `execve` runs before the call and records the old one. An `exec` row has the path
the call was given as its `path` and as its `exe`, whatever name the process gets. A
path that could not be read is empty. `Event` names the fields that each kind of row
can have, and no others.
Only the calls the templates ask about are there: `write` stands for the calls
through a descriptor, `unlink` for those with one path, `open` for file rows that are
no modification. `write` has no path, as `FdTracking` shows. Threads, which also fork
in the eyes of the kernel programs, are left out.

*An answer* is the set of ids of its rows. The order of the rows is that of the
query, and a template formats each. `Execute` chooses a template by the text of the
question; the model takes that choice as given. No row has a `remote_host`, so a
hostname and an address are looked up in the same way. A word of a search is the
whole text of a column (`WithTerms`), where the code looks for a part of it.

In `WriteLock`:

*The lock.* In WAL mode one connection writes at a time; a statement of another
polls until its busy timeout is over, and any of those that wait may find the lock
free (`Acquire`). `Tick` is a unit of time: it passes only while someone holds the
lock, no longer than `MaxHold` of the statement, and not before a writer that has
timed out has returned. A flush counts its ticks from its start, waiting and
executing, as `context.WithTimeout` does; the commands have the busy timeout only.
The recorders are several, since nothing keeps a second daemon away. `behind` counts
the ticks a statement waited while another held the lock, and `owed` that a prune
left pages behind; no guard reads either.

In `SqlText`, `GlobalFlags` and `CommandLine`:

*A text* is a sequence of tokens: the characters the scanners look for, and whole
words for those they compare. The scan of a text is the set of the places it stops
at (`Stops`), by a recursive function whose step (`After`) is one iteration of the
loop. `hasMultipleStatements` and `scanTopLevel` are two copies of it in the code
and one here, with what each does at a stop; `TopLevel` are the starters at which the
depth that `scanTopLevel` keeps is 0. The reference is a reader that takes every
character (`NextMode`). It quotes with what SQLite quotes with, backticks included,
of which the scanners know nothing; a fence is three of them. `SecondStatement`,
`Depths`, `Statements` and `IsSelect` say of a text what this reader sees: whether it
has a second statement, and whether it is a SELECT, or a WITH whose own statement,
the first outside parentheses, quotes and comments, is one. An argument is a whole text; `Flags` says what
`splitFlag` makes of it. The loop of `parseGlobalFlags` is a function of the number
of iterations (`ParseLoop`), with one iteration in `ParseFlag`; an iteration that
finds no global flag, or an error, changes nothing, as none follows it in the code.

*A command* types its arguments, parses them as `Execute` and `newPassthroughCmd`
do, and goes on as `start`, `query` or `sql`; the other commands end there. The
agent is external: it prints anything, exits or hangs, and what it has started may
keep its pipe open after it (`children`). `Deadline` is the context of two minutes:
it kills the agent, and `GenerateSQL` follows when nobody has the pipe open.
`printed` is what went to standard output: an answer, a `partial` one whose failure
was noticed, or a `lost` one whose failure was not. A template may answer behind a
partly printed table of the agent, which the code falls back from.

*Mutants.* An operator whose comment starts with "Mutant" is a plausible
mistake in the operator it precedes. It is used nowhere in the specification; a
property that does not fail with it in place would say nothing about the code.

## 3. Runs

The runs of a component use its `MC` module, those of the watcher `Watch` itself,
whose constants are numbers. Deadlock is checked in all but one: `Terminated` lets a
finished service stutter, `Printed` a report, and `Quiet` a host; the table can always
be pruned, hooks go on firing, another start and another flush can always come. A
command of `command_line` stops when it has exited.

| Run | Shows |
|---|---|
| `recorder` | Types and capacities; no send on a closed channel; no goroutine left (`AllJoined`); order (`FifoOrder`); every event accounted for, once, by counters that match the losses up to the one being counted; a clean stop persists all; errors surface; the refinement of `EventLog`. At most one overflow is unreported after a clean stop; `SUM(dropped_before)` is never too large, and it is exactly the sampled count when nothing that carries a delta was discarded (`ColumnReportsLosses`). A cancellation, or a failed stage, ends the service (`ServiceEnds`); an accepted event becomes durable unless a write fails. |
| `carrier_discarded` | *Violation.* A delta is lost with its carrier although a later row is persisted. |
| `watch_tail` | `watch`, with `--since` or without, with a limit of two, four rows in batches of one or two, any timestamps, any prune, an output that may fail: the tail passes no matching row without printing it; no row is printed twice; a matching row beyond the cursor is printed, pruned or outlives the command. |
| `watch_backfill_race` | *Violation.* A row committed between an empty backfill and the read of the newest id is never printed, even when rows are punctual. |
| `fd_tracking` | Two threads of one process and one of another, two descriptors, one of them above `FdLimit`, strings that change between check and copy, maps of one entry: an entry of `pending_open` belongs to an `open` in progress; a filtered name is in an event or in `pending_open` only as the copy of a string whose check found another one. |
| `fd_paths_missing` | *Violation.* One thread opens one file and the entry of its descriptor is the empty path. |
| `lifecycle` | Two starts and a stop that overlap: a failed start kills its own daemon and nothing else, and leaves none; no stop cuts a last flush short; a stop ends the daemon it finds. |
| `state_diff` | All sequences of four of sixteen rows: new processes, restarts and hot writers are those their definitions name. |
| `questions` | Every sequence of three rows that two processes can cause: an answer about modifications, connects, a port or a restart, or a search for a name and a path, lacks a row only behind as many others as the limit, and at one end, except for binds to 0.0.0.0; so does the activity of a path or a pid, which is told from its oldest row. |
| `documented_answers` | *Violation.* An answer is not all that the table of templates in `docs/querying.md` says: one bind to a port of 0.0.0.0 is in no answer to `opened port`. |
| `write_lock` | Two recorders, a prune and a benchmark on one file: no statement waits or executes beyond its time; a recorder ends by a timeout only when others held the lock, within one flush, for all of a timeout or all but the flush's own share; pages of deleted rows stay only behind a prune without `--vacuum` or a `VACUUM` that did not complete. |
| `command_line` | Every five arguments: the daemon that `start` runs has its configuration. Every five tokens of SQL: the scanner finds a second statement exactly when the reader of single characters does, unless backticks quote something. Every five tokens of an agent's output: what `ExtractSQL` accepts is one statement for `RawSQL`, one to the reader, and a `SELECT` or a `WITH` whose own statement is a `SELECT`, with the same exception. Any failure: one answer, and success exactly with it; a question ends, though its agent hangs. |

The violations are disagreements between the code and its documentation, quoted
under `findings`, except `fd_paths_missing`, a bug by which no event about a
descriptor has a path. None loses a persisted event: one concerns the numbers in
`dropped_before`, one the rows `watch --since` prints, one the `path` column, one the
answers of templates.

`BackfillMeetsTail` fails in a second way when rows are not punctual: a backfill
that `--limit` cuts off in the order of timestamps sets a cursor by id, above rows
it did not print (`Punctual = FALSE`, `Limit = 1`). More disagreements are
visible in the states without a run of their own. In `Recorder`: a delta sampled
when a record is read may describe losses after it, where `docs/abi/schema.md`
says "before this row"; a failed lookup of the counter wraps the unsigned
difference, so that the column is negative (`LookupMayFail = TRUE`); and the flush that
empties the queue may read the drop counter between a failed send and its
`AddInt64`, after which no flush reports that overflow (the one of
`OverflowReported`), where the comment in `flush.go` says that gaps stay visible. In
`FdTracking`: a string that changes between check and copy gets a filtered name into
an event (`SettledNamesAreFiltered` says when), where `docs/recording.md:35` says that
the kernel programs drop `/proc`, `/sys` and `/dev`; the collector filters again. In
`Lifecycle`: a second start makes a second daemon that has the store open to write,
where `docs/architecture.md:69` says "Daemon holds the only writer". In
`CommandLine`: a quote in a name in backticks begins a string for
`hasMultipleStatements`, which then does not see a separator behind the name, where
`storage/query.go:231` says that multiple statements are rejected outright; this is
why `ScannerIsExact` and `ExtractedRuns` speak of texts in which backticks quote
nothing. In `Questions`: the answers about a pid and a path are the oldest 200 rows
and do not say that they are cut (`ActivityUpToLimit`), where `docs/querying.md:28`
says "all events for that pid", so `AnswersAsDocumented` fails without the wildcard
too; a listen names a descriptor only and has no port, so no answer of `opened port`
has one; `Lower` makes a name with a capital one that no process has; and the row of the exec that starts a
server under a shell has the name of the shell in `comm` (`Exec` of `HostEvents`),
so that the answer about a restart of the server does not show it, where the
comment at `query/engine.go:77` says start and stop events. The search finds it,
by its `exe`. In `WriteLock`, which has two recorders for the two daemons: a
`prune --vacuum` that fails in its `VACUUM` is not made up for by a second one, which has no row to delete; and statements that
come one after the other can hold the lock longer than any of them, since those
that wait are not served in order. In `CommandLine`: what an agent has started and
left on its pipe keeps `ltm query` waiting beyond its two minutes, since
`agent.go:77` sets no `WaitDelay`; `printQueryResult` looks at no error of a write,
and `printSQLTable` not at those of `Fprintln`, so that an answer can be lost with
exit code 0.

### Bounds

`MaxEvents` (guards of `Submit` and `ReserveFails`) bounds the events: five allow
a full queue at every stage at once, two batches, a flush below the batch size
and an overflow after a stamp. `RingCap`, `InCap` and `IngestCap` are 1
instead of 65536: every full and empty case happens, and the theorems hold for
all. `BatchSize` 2 with `MaxBatch` 3 exercises the size flush, a `drainReady` that
adds to the batch and one that stops at its limit. Of the five events three are kept,
a full batch and one more, with a malformed record between two samples of the counter
and an event to ignore between two that are kept.
`Word` stands for 2^64; 256 is far above every count reached. `LookupMayFail` is
`FALSE`: a lookup that fails makes the difference wrap below zero, of which nothing is
claimed but what the theorems say. No symmetry is used: events are ordered.

For the watcher, `MaxID` is 4: two batches of two, so that a batch can exceed the
limit, be split between two polls and be pruned between them, with rows below and
above the cursor. `MaxTime` is 3 with `From` 2: timestamps before `--since`, in the
range, and after the end of the backfill. `MaxInsert` is 2 and `Limit` 2 in
`watch_tail`. The theorems hold for all values of these.

For the kernel programs, two threads of a process are what overlapping needs, a
second process is what reuse of a pid and a full map need, and with `PendingMax`
and `FdPathMax` 1 an update fails as soon as another process has an entry. A filtered
name and the empty path, which passes the filter as every other name does, are what a
string needs to change between two reads. The two
threads of the first process are symmetric: no action or property tells them
apart. There is no liveness: a program runs when a hook fires.

For the life cycle, two starts overlap in every way two can, three pids let a
daemon's pid be used again while the others run, and `OverwriteLonger` makes the
third of them the mixture of the first two. One stop at a time that repeats covers
a second stop during the last flush; the theorems hold for any number.

For the scan, four rows (`Limit`) hold an exit, a creation between others and the
three writes of a hot path. The sixteen rows have a name shared by two pids, a
blank name, a name that is the text of a pid, pid 0, and a path in either column
or none; two timestamps make exits at the same time and before. `HotCount` is the
code's 3.

For the questions, limits of 2 and three rows (`MaxRows`) let one row be cut off at
either end, by rows that answer the question and by rows that do not. Two files are
what a rename needs, two processes what a fork needs. Processes and files are
symmetric: no property tells two of them apart, and all are properties of states or
steps. The theorems hold for all limits.

For the write lock, both timeouts are 3 ticks, as both are five seconds. A flush may
hold the lock for 1, a `DELETE` and a benchmark for 2, each below a timeout and
together above it, and a `VACUUM` for 4, above each. Two recorders and two kinds of
commands are what waiting behind another that waits needs.

For the command line, five arguments hold two flags with values and a command, or
one on each side of it, with texts that are flags of every form, values that look
like flags and a path that is a default. Five tokens hold a comment with a
separator in it, closed or not, a doubled quote with one, and a separator with a
character behind it; five of an agent hold a fence with a tag, a statement and its
end, or a `WITH`, parentheses and two starters. The three are typed independently,
so their bounds do not multiply.

### Fairness

Weak fairness of every goroutine and of the ticker: a goroutine that can run is
scheduled, and a ticker ticks. Strong fairness of `Receive`: it competes with the
ticker in a `select`, which picks a ready case uniformly, so it is not passed over
for ever. There is none for `Kernel`, `SourceFails` or `Signal`: events, failures
and signals need not come. `InsertFails` is an alternative of the flush loop's
step, so an insert ends one way or the other, which `flushWriteTimeout`
guarantees. Each liveness property holds with failures possible at every point.

For the watcher, weak fairness of `Start` and of `Poll`: the process runs and its
ticker ticks. There is none for the writers, the clock, or `Leave`.

For the life cycle, weak fairness of a stop that has read the file and of each
daemon, whose `stopping` ends by `ServiceEnds` of the recorder. No command need
come, none need succeed, and a service need not fail.

For the command line, weak fairness of the steps of the command behind its
arguments, written with the condition under which it has one (`CanRun`), and of the
deadline, which is a timer. There is none for the agent and for what it has
started: they may hang, print for ever or never close the pipe.

## 4. Proofs

`RecorderProofs` proves, for every number of events, kind of event, capacity and
batch size (`EventsAssumption`, `CapacityAssumption`, `KernelAssumption` of
`Recorder`: naturals, positive where a channel or a batch needs it), that `Spec`
implies the invariance of `TypeOK`, `NoSendOnClosedChannel`, `AllJoined`,
`CleanStopPersistsAll`, `ErrorsSurface` and `OverflowReported`.

None of these is inductive. `IInv` adds what holds at each control point:

- `SourceInv`: `in` is closed exactly when the worker is past `close(in)`, and
  the source has a result exactly when it has returned;
- `CollectorInv`: the collector leaves its loop only with `in` closed and empty,
  and returns the source's result;
- `FlushInv`: a finishing flush has seen `ingest` closed and empty, and a nil
  result means the batch is written;
- `ServiceInv`: which of the joins are done at each point, and whose error
  `runErr` is. `flushDone` implies a store error, since the flush loop returns
  nil only after the close, which the select precedes;
- `OverflowInv`: if two or more overflows are unreported, some event is in
  `ingest` or in a batch not yet stamped, so another stamp is to come. An
  overflow establishes it (the queue is full) and only a stamp, which takes the
  whole counter, may end it.

The type of a batch of `FlushLoop` needs `FlushInv` too, so types and control are one
invariant. There is one lemma per group of actions and one step per action.

`FlowInv` builds on it the data: `FifoOrder`, `EveryEventAccountedFor` with
`CountersMatchLosses`, and the refinement of `EventLog`. An event is in one of six
places: the ring, the hand of the source, `in`, `ingest`, the batch, the table.
`FlowInv` says that the ids within each place ascend, that those of a place are
above those of every place after it, that all are at most `emitted`, that no lost
event is in a place and every event to keep is lost or in one, and that the counters
match the losses. A step moves the first event of a place to the end of the next, or to
a loss; lemmas about `Head`, `Tail`, `Append` and concatenation give the ids of each
place after it, and the arithmetic of cardinalities the sums. The refinement follows
with `IInv` step by step: a send to `ingest` is an `Accept`, whose guard is the order; an
insert is a `Commit` of the batch; a write that fails is `Fail`; the return of the
service is `Stop`, with nothing pending by `FlushInv`; all else stutters.

`ColumnReportsLosses` relates sums over the column to the counters. `DropInv` extends
them to the whole way: the sum over the table, the batch and the queues is at most
what was taken from the two counters (`lastKernelDropped + lastDropped`), and equal
to it as long as nothing was discarded. Only a sample and a stamp change either side,
both by the same delta; every other step moves events, which the sum of a
concatenation (`SumConcat`) and of a tail leave alone, or discards some, which lowers
the sum when none is negative. A delta is computed modulo `Word`, so it is the real
difference only while the counters are small: `WordAssumption` says that twice the
number of events is below 2^64, which a host does not reach. The equality holds even
when lookups fail, since a delta that wraps below zero is given back by the next; the
bound does not, and is claimed only where they cannot.

`WatchProofs` proves, for every table size, clock, batch size and limit
(`StoreAssumption`, `WatchAssumption`), that `Spec` of `Watch` implies the
invariance of `TypeOK`, `CursorSkipsNothing` and `NeverShownTwice`. The last two
are not inductive: a row beyond the cursor must not have been printed yet, and
before the first query returns the cursor is 0. `CursorInv` adds these. The heart
of the proof is `FirstByIDIsClosed`: a query `ORDER BY id LIMIT n` that returns a
row returns every candidate with a smaller id, by the cardinality of the set of
rows below it. It does not hold of the order of the backfill, which is why
`CursorSkipsNothing` speaks of rows beyond `base` only.

`FdTrackingProofs` proves, for every finite number of processes and threads, every
number of descriptors and every size of the maps (`TrackingAssumption`), the
invariance of the three safety properties of `FdTracking`. `TrackingInv` adds to them
that what an `open` has copied passed the check first and that an entry of `fd_path`
is empty, without which a call through a descriptor could give an event any name. The step that matters is a return from `open`
(`ReturnKeepsInv`): it removes the entry of its process, its own or that of another
thread, so that no entry is left whose call is over.

`LifecycleProofs` proves the four safety properties of `Lifecycle` for any number
of commands and pids and whatever `Overwrite` is (`LifecycleAssumption`). The
conjunction of its three invariants, `ProcessInv`, is inductive: a child takes a
free pid, which by `KillHitsTheChild` no start in progress has, and `Reap` frees
no pid a start still has. `EndsAfterLastFlush` is an action property and needs the
types only.

`StateDiffProofs` proves, for any rows, timestamps, limit and threshold
(`DiffAssumption`), that the report is what its definitions say. `ScanInv` adds
what the working variables hold: `seenNewPID` the pids of the creations, `writes`
the writes of each path, `lastExit` the last exit of each key (`ExitsInv`).
`RestartIsDetected` is the heart of it: an exit that makes a creation a restart is
the last one of its key, and the last one is all the scan remembers.

`QuestionsProofs` proves, for any processes, files, sockets and limits
(`HostAssumption`, `QuestionsAssumption`), that rows have the fields their programs
can give and no others (`TypesHold`), and `LimitsCutOneEnd`. `OldestCut` and
`NewestCut` say what a limit leaves out, by the cardinality of the rows before or
after; each template then filters what is left, and the rows it drops do not answer
its question.

`WriteLockProofs` proves the three properties of `WriteLock` for any writers, any
timeouts and any `MaxHold` (`WriteLockAssumption`). The inductive invariant ties the
clocks together: what a flush has elapsed is what it has waited behind others and
what it has held the lock itself, the latter at most `MaxHold`.

`CommandLineProofs` proves the four safety properties of `CommandLine`, for texts and
arguments of any length. Of the constants it assumes that the flags `daemonArgs`
writes are flags that take a value and `daemon` is none (`FlagsAssumption`), which
`splitFlag` makes true, and that a flag is a text (`TextAssumption`). It has three
parts.

- *The scanner.* `Exact`: over every sequence in which backticks quote nothing,
  `HasMultipleStatements` is `SecondStatement`. At a stop the reader of single characters has just been in code
  (`Clean`); each of the five things `After` may find there is a leap (`Leap`) to a
  place where it is so again, over places none of which it takes for code that a scan
  looks for (`Plain`: a separator, a parenthesis, a starter). So of such tokens the stops
  are those the reader has in code (`StopsExact`). The comment that is not closed is why a leap speaks of
  all places but the last: the scan does look at the last character again, and what it
  finds there has nothing behind it.
- *The statement of an agent.* `Extracted`: what `ExtractSQL` accepts has no
  separator, so by `Exact` no second statement, and it begins with `select` or `with`:
  trimming and a suffix taken away leave the first token. Since the parentheses among
  the stops are those of the reader, so is the depth at each place (`DepthsIs`), and
  `TopLevel` is `Statements` (`StatementsAre`): the first starter the scan finds
  behind a `with` is the statement of that `with`.
- *The parser.* `DaemonReads`: parsing `daemonArgs(cfg)` gives back the database and
  the pid file, and the paths `cfg` adds to the defaults, whatever their texts are:
  iteration by iteration, since each flag takes the argument behind it unseen, until
  the word `daemon` stops the loop. With `ParsedType` (a parse only adds paths) the
  daemon's set of paths is that of `start`.

`CommandInv` joins them: before its end a command has printed nothing it stands by
(`Unfinished`), the daemon's arguments are those of `start` (`Started`), and no
statement precedes its agent (`Asked`). With these, `SuccessIsOneAnswer` and
`ExtractedRuns` are inductive; there is one lemma per action. TLC checked
`CommandInv`, with the constants of `MCCommandLine`, before it was proved.

*Recursion.* `SumDropped`, `Stops`, `Modes`, `ScanDepths`, `Depths`, `QuoteSkips`,
`ParseLoop` and `CustomPaths` are recursive functions. The library's induction theorems take an
operator as a parameter, which the provers cannot instantiate; those over sets they
can (`WFMin`), so an induction here is a least number in a set of counterexamples
(`LeastNumber`, `Induction`, `Upward`, `Downward`). Of each function it is first proved that there is one
that satisfies its equation (`SumsExist`, `ModesIs`, `StopsFromIs`, ...), built place
by place, since its definition is a `CHOOSE`; the property then follows from the
equation by a second induction.

Model-checked only: the liveness properties `ServiceEnds`, `AcceptedBecomesDurable`,
`NewRowsAreShown`, `StopEndsDaemon` and `QueryEnds`, which need `ENABLED` and fairness,
beyond what TLAPS 1.4.5 proves. Every invariant and every other action property of the runs that pass
is a theorem.

## 5. Plan

Built: the pipeline with its order, accounting and refinement proved; `Store` and
`Watch`; `FdTracking`; `Lifecycle`; `StateDiff`; `HostEvents` and `Questions`;
`WriteLock`; `SqlText`, `GlobalFlags` and `CommandLine`. Each safety property of the
passing runs is proved for all values of the constants.

Proofs left, in this order: what `EventLog` itself promises (a log that only grows, in
order, complete after a stop), which the refinement then gives of the recorder's
table; and that `Store` never gives an id twice, as a theorem of `Store` without a
watcher.

Left, in the order of what it would add: how the text of a question selects a
template; the ignore rules as texts, against the filter of the kernel programs;
`Status`, and the filters that only `timeline` uses; a crash of the machine between
a commit and its checkpoint under `synchronous(normal)`, should the code come to
rely on it.

## 6. Not modelled

The contents of an event, `/proc` enrichment, attach order and skipped
tracepoints; SQLite itself, beyond atomic transactions, its lock and its ids; the
parsing of times and the wording of output; the ABI generator and generated code,
which run at build time; the stub for other systems, whose `Run` is `SetupFails`. A
panic of the runtime and the loss of power are outside the model: `kill -9` loses
what is in memory by design, and SQLite's recovery is not ltm's code.

Which template a question selects is taken as given: it is a match of phrases in a
text, one after the other, with no state. Two readings of it that the code does not
support are in the docs: `docs/querying.md` has "restarted" without "before" as a
pattern, and `queryFile` splits at its phrase with case, though patterns are said to
be without. `ExtractSQL` begins its statement at the first `select` or `with` of the
text, so that prose with one of these words before the statement makes it refuse
what its comment says it tolerates; `SqlText` has no prose. `hasMultipleStatements`
says of parentheses what it does not do: the depth it keeps is not used. `docs/cli.md:3`
has the global flags before the command; the code takes them behind it as well, and so
does the model.
