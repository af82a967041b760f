# MyFS in TLA+

MyFS is a file system in user space (FUSE) that keeps its directory tree and
the bytes of its files in a MariaDB database. These modules model the parts of
the program in which the order of events, the failure of a query or an
arithmetic boundary decides whether files survive. TLC checks them on small
instances; TLAPS proves each invariant, each action property and each
refinement that the passing runs check, for every value of the constants (some
under a hypothesis, which the theorem names). Liveness, and what the violation
runs refute, is checked by TLC only.

## The system

| component | sources | state | operations |
|---|---|---|---|
| main | `myfs/main.c` | `struct myfs`, what has been started | read the configuration, confirm, connect, start the reclaimer, `fuse_main`, disconnect, stop the reclaimer |
| configuration | `common/config.c`, `myfs/main.c` | an array of typed options | defaults, file, command line, in this order |
| setup wizard | `myfs/create.c` | what it has made so far | prompt, config file, database, user, tables, cleanup |
| database session | `common/db.c`, the callers in `myfs/myfs_db.c` | one `MYSQL *`, the retry settings | connect, query with retries, select, start and stop a transaction |
| file data | `myfs/myfs_db.c` | `files.size`, the rows of `file_data` | write, append, truncate, read |
| open handles | `myfs/myfs.c` | `myfs->files[]`, `st_size` of each handle | open, create, read, write, truncate, release |
| namespace | `myfs/myfs.c`, `myfs/myfs_db.c` | the table `files` | lookup, mkdir, create, symlink, unlink, rmdir, rename (move and exchange) |
| metadata and listing | `myfs/myfs.c`, `myfs/myfs_db.c` | columns of `files` | getattr, access, chmod, chown, utimens, opendir, readdir, readlink |
| statistics | `myfs/myfs_db.c` | none | the numbers `statfs` answers |
| reclaimer | `myfs/reclaimer.c` | `running`, `last_action`, `run`, `next_try` | start, notify, its loop, reset, stop |
| log | `common/log.c` | a level, a file | print |
| util and string | `myfs/util.c`, `common/string.c` | none | prompts, users and groups, dirname, basename, a growing buffer |

How they interact. `main.c` starts the reclaimer thread and then `fuse_main`,
which calls the callbacks of `myfs.c` on several threads. The callbacks
share, without a lock, the connection `myfs->db` and the table `myfs->files`;
they notify the reclaimer through a mutex and an atomic. The reclaimer has a
connection of its own. Several processes may mount the same database: they
share the tables and nothing else. The server keeps the keys
(`uk_files_parentid_name`, the unique index of a block, the foreign key with
`ON DELETE CASCADE`) and rolls back what a broken connection had open.

What is hard, and what correct means there:

- **session**: threads interleave query by query on one connection, links break
  before and after the server acts, statements are refused, transactions
  aborted, failed queries retried. A call should be all or nothing, say so, and
  return.
- **file data**: offsets that do not fall on blocks, a last block that is full
  or absent, unsigned sizes. The blocks should be a sequence of bytes.
- **open handles**: `st_size` is a copy, and another handle makes it stale; a slot
  is chosen before queries and filled after them.
- **namespace**: a path is resolved query by query while other mounts change the
  tree. Names should stay unique and parents should exist.
- **reclaimer**: notifications race with the query and the reset after it; retries
  wait; stopping must end.
- **configuration**: three sources, the command line read twice around the file, and
  an error that a later line makes forgotten. The last source should win.
- **main, wizard**: one failing step of several, a server that another wizard uses
  at the same time. What was started should be stopped, what was made should be
  whole or removed, and what others made should stay.

PROJECT.json lists each hazard at its line with the properties that cover it. Where
a property excepts a hazard, or no property covers it, the note there says so.

## The modules

| module | stands for | lives on |
|---|---|---|
| `AtomicCalls` | what the session promises: each call one atomic step | abstract |
| `DbSession` | `db.c`, the control flow of every function of `myfs_db.c`; driver and server as environment | implements `AtomicCalls` |
| `ByteFile` | what a file promises: a sequence of bytes | abstract |
| `BlockStore` | write, append, truncate, read of `myfs_db.c` as operators | no state |
| `FileStore` | `myfs_open`, `_write`, `_truncate`, `_read`, `_release` on one file | `BlockStore`; implements `ByteFile` |
| `Namespace` | the callbacks that read, list or change the tree, by several mounts, and their tables of open files | itself |
| `Reclaimer` | `reclaimer.c` and the part of `main.c` that starts and stops it | itself |
| `Config` | `config.c` with the options and handlers of `main.c`, as operators | no state |
| `Setup` | the setup wizard, `create.c`, with what the server makes of its statements | `Config` |
| `Startup` | `main()` of `main.c`: one or more processes, each with its wizard | `Config`, `Setup` |
| `MC*` | instances for TLC | |
| `*_proofs` | theorems | |

The modules divide the work by level. `DbSession` shows which calls on the
database may be taken as atomic steps; `FileStore` and `Namespace` take them so.
With one thread a transaction really is one step (theorems `WholeOrNothing` and
`FailureIsClean`). With several threads of one mount it is not, and the run
`shared_transaction` shows that; `Namespace` therefore lets the *mounts* race,
each with its own connection, and uses two threads of one mount only for the
slot table, where the outcome does not depend on a transaction.

### DbSession

One step is one `mysql_real_query` or one `mysql_store_result`. A call is a
*script*, the sequence of queries one function sends: `start`, `select`, `exec`,
`stop`. The scripts of the code are `WriteCall` (write, append, growing
truncate), `ShrinkCall`, `SwapCall`, `UpdateCall` (each single INSERT, UPDATE,
DELETE) and `ReadCall`. The loops over blocks are cut to as few `exec` as
matter: two, so that a transaction can be cut in the middle.

| variable | in the code |
|---|---|
| `retry` | `failed_query_retry_wait`, `_count` |
| `ok`, `step`, `call` | `success`, the place in the function, the function |
| `tries` | `count` in `db_query_timed` |
| `unread` | the driver's state between query and `mysql_store_result` |
| `flag` | `SERVER_STATUS_IN_TRANS` the driver remembers; it decides on silent reconnects |
| `durable`, `pending`, `inTxn` | the server |

`GiveUp` is the pattern of every transaction in `myfs_db.c`: `goto done`,
`db_transaction_stop(db, success)`, `return success`, with the result of
`db_transaction_stop` dropped. `QueryFailed` is the error branch of
`db_query_timed`. Three kinds of `Faults` can be enabled: `link`, `statement` and
`abort`.

That a query is refused while rows are unread is the driver's doing (`CanSend`,
`OutOfSync`); no property is stated of it, only that the code comes back from it.
Two threads inside the driver at the same instant is a data race and can do
anything; what is modelled is the mildest case, in which whole queries interleave.

### BlockStore and FileStore

A file is `[size, rows]`. Each operator is one function with its loop in closed
form: `DbWrite` overwrites as many blocks as the *length* asks for, then inserts
the rest behind the last of them, and adds only the inserted bytes to `size`;
`Shrink` deletes whole blocks from the end and replaces the last by blanks;
`DbRead` keeps the running `size -= count`, modulo `Word`.

These functions are right for some requests and not for others. `Requests`
says which are made. With `"served"` the callers keep to `ServedWrite`,
`ServedSize` and `ServedRead`, which are the exact conditions, each named after the
arithmetic it comes from:

- an append at the end of the file; a write at the end that starts a block; an
  overwrite of bytes that exist which touches no more blocks than its length asks for;
- a truncation that grows the file or cuts it between two blocks;
- a read that starts a block and asks for at most two.

For these TLC finds the blocks to be a sequence of bytes (`IsByteFile`).
With `"dense"` any write below or at the end is made; the runs `lost_write` and
`shrink` show what then goes wrong. Holes (a write behind the end) are left out.

### Namespace

A callback is `Call`, then one `Walk` for each component of each path it looks
up (`Lookups` gives the paths in the order the code looks them up), then its
last query. Between any two steps other mounts may act.

| in `job[t]` | in the code |
|---|---|
| `at` | in a lookup (`walk`), before and in the loop over children (`list`, `visit`), between INSERT and `mysql_insert_id` (`id`), before the append of a symlink's target (`text`) |
| `cur`, `todo` | `file` and the rest of the path in `myfs_file_get`; at `id` and `text`, the insert id |
| `got`, `parent` | what earlier lookups found, with the parents `myfs_db_file_swap` is going to use: the stale data of a later query |
| `slot` | the index `myfs_open_helper` has chosen |
| `list`, `kids` | `children`, and those still to be queried |
| `raced` | history: another move or swap changed the tree meanwhile (one that was rolled back, or put its files where they were, does not count) |

`Starts` gives the tree that the mounts find, and `requests` the callbacks and paths
that come to each thread, any number of times; these two choose the instance and
model no code. `Passes` is what the kernel refuses before it calls `rename`.

The table `files` has its unique key (`NameFree`), its foreign key (`IsFile`) and
its cascade (`Below`). `rename` is modelled with `RENAME_NOREPLACE` (`move`) and
`RENAME_EXCHANGE` (`swap`); without a flag the code answers `-EINVAL` and changes
nothing. The existence check of a move is modelled as what it does: it drops the
first character of the bare name and looks in the root (`Tail1`). A swap gives
each file the parent the other had when it was looked up, and leaves the names.

`rmdir` and `opendir` list a directory (`List`), which reads the ids of the
children and then queries each (`Visit`). The result of a child's query is not
tested, so that a child that went meanwhile, or a query that fails, leaves NULL
among the children (`list = "broken"`, in the table `whole = FALSE`): `readdir`
and the release of the directory then follow it, and the process dies.

`Executed` moves the insert id: it is that of the connection, so a statement of
one thread changes it for each thread of the mount that has yet to read its own.
`symlink` and `create` read it in a step of their own (`ReadId`), and
`AppendTarget` marks the target of a link `own` or `foreign`.

A failed query gives NULL like a missing file; `myfs_file_get` then reads
through the null pointer on its next turn, and the process dies (`WalkOffNull`,
`Dies`). The tree must survive that, so the checks go on after a `Remount`.
`Walk` also dies where the parents of what it found form a cycle, which the code
follows for ever.

### Reclaimer

Time stamps are kept as durations: `quiet` since `last_action`, `cool` until
`next_try`. `Process` has one step for each access to what is shared: `Loop` reads
`running`, `Check` reads the flags, `Timer` looks at `next_try`, the query
succeeds or fails, `Reset` clears the flags. `Notify` may come between any two.
`rest`, `asked` and `owed` are history variables.

### Config, Setup and Startup

`Config` has the sixteen options and what each way of setting one does: `Assign`
is `config_set` behind a handler of `main.c` (which may refuse the value or bring
it into a form of its own), `AcceptLine` and `ReadFile` are `config_read_file`,
`TakeArg` and `ReadCommandLine` one of the two passes over the command line. The
readers are folds over the lines and the words. An option's value is the string
it was given; `Number` is `atoi`. `Told` is the reference: the last source that
gives the option a value that is not refused.

`Setup` is the wizard, from its prompts to `create_cleanup`. A prompt is asked
until the answer passes the test behind it; the action is the last round of
that loop, since the rounds before leave nothing but a default. After the
operator's consent the config file is written (`FileOf`) and the statements are
sent one by one (`Send`, `SendFails`). The server's side is `Accepts` and `Takes`:
a statement needs its database, its `USE` and its `sql_mode`, and these two
are settings of a session that a silent reconnect loses (`Reconnected`). A
GRANT puts the account it names, the one of the server's host, and the database
into `grants`. Two
statements are refused as the code writes them (`AsWritten`): the INSERT of the
root directory, which names a column the table has not, and the DROP DATABASE of
the cleanup, whose name is quoted as a string. `Refusals` says which are; the
run takes the code as it is and with both corrected, since otherwise nothing
behind the INSERT would ever be checked: `SetUpIsWhole` speaks of the corrected
statements only, as no setup comes to its end with those of the code.
`databases[name].by` is the process that
created it; the wizard does not know that and must come out right all the same.

`Startup` is `main()`. `phase` is the place in its chain of conditions; each
failure sets `ret` and goes to `done`, from where `Disconnect` and `StopReclaimer`
follow, whatever was started. `fuse_main` fails without a directory to mount on,
and may fail with one. `sessions` and `reclaiming` are what a process
holds. `create` is a handler, so the wizard runs in the middle of the first pass
over the command line, and the process then ends as after a bad option
(`CreateReturns`). `Starts` gives what the processes find: arguments, config
file, mount point, accounts.

## The runs

| run | instance | shows |
|---|---|---|
| `session` | 1 thread, 4 calls (one of each shape), all faults, no retries or two | types; a transaction is all or nothing; a failed one leaves nothing; none stays open; an acknowledged single statement is stored; the session implements `AtomicCalls`; each call returns |
| `threads` | 2 threads, 3 calls (shrink, update, read), all faults | each call returns, though queries of one thread fall between the query and the fetch of the other |
| `shared_transaction` | 2 threads, 2 writes, no fault | violation: README.md's "Atomic reads and writes" |
| `file` | 2 handles, blocks of 2 bytes, file of up to 5, writes of 1 and 3 bytes, served requests | layout; no refused request; exact reads; what is written is stored and what is kept stays; refinement of `ByteFile` |
| `lost_write`, `shrink` | the same with dense requests | violation: a write is not in the file; a truncation blanks what it should keep |
| `reclaimer` | wait 4, retry 2, all levels | types; one request, one OPTIMIZE; a DELETE stays asked for until it is served; retries keep apart; stop returns; requests are served |
| `namespace` | 2 mounts with one thread each, of which the second has failing queries, in one of two starts. An empty tree: `t1` runs mkdir, unlink, move, getattr, setattr; `t2` runs rmdir, symlink, create, swap, open, opendir; names `b` and `ab`, up to two files. The tree `/ab`, `/cb`, `/cb/b`: `t1` moves `/ab` into `/cb` and back, `/cb` into `/ab` and back, and makes `/ab` anew; `t2` exchanges `/ab` with `/cb/b` and `/b` with `/cb/ab`, which changes the parents of both, and removes directories | names unique; parents exist; slots match open files; links hold their own target; a move or swap cuts off nothing unless two race |
| `slot_race` | 2 threads of one mount, no fault | violation: two files in one slot |
| `lookup_crash` | 1 mount, 1 thread, failing queries | violation: the process dies |
| `startup` | one process with up to two of nine arguments and up to two of eight config lines; or one without its file or mount point; or one wizard; or a wizard on each of two hosts. The two refused statements as they are or corrected; connections, statements, links, files, threads and the mount may fail | types; each option is as told; nothing is left running; an announced setup is whole, with an account that has privileges; a failed one leaves no config file; nobody touches what another made; the wizard ends |
| `error_forgotten` | one process, any file of up to two of the eight lines, no fault | violation: MyFS goes on after a line that was refused |

Why the bounds are enough.

- *Session.* All threads run the same code, and what one can do to another goes
  through `unread`, `inTxn` and `link`, each of which two threads already
  conflict over. Two `exec` steps allow half a transaction. Two attempts are the
  least number with a retry and with an end. The proofs remove all these bounds
  for the invariants.
- *File.* With blocks of two bytes, a file of five has an empty, a full and a half
  full last block behind zero, one or two full ones; a write of three bytes from
  inside a block touches two blocks, and reads of up to two blocks start at each
  of them. `MaxStat` is one more than `MaxSize`, so that a stale
  `st_size` can lie on either side of the size. `Word` is far above every size
  and still makes a wrap visible. Handles are symmetric, and no liveness is checked
  in that run. The proofs remove these bounds for served requests.
- *Namespace.* In the growing tree two files are a directory with a child, or two
  siblings; `ab` is a name whose tail is a name again, `b` one whose tail is empty.
  One slot makes the table full after one open. In the given tree a file can move
  below another one and the other way round, so that a cycle, and a subtree that is
  cut off, are within reach of each move and swap: three files are the least for
  an exchange between two directories. `MaxFiles` bounds creations (the guard is in
  `Insert`). The callbacks are divided so that each pair that can conflict is split
  over the two mounts (insert against rmdir, delete against listing and append,
  swap against move). The proofs remove these bounds.
- *Reclaimer.* Four seconds and two keep 1800 and 30 apart: a retry can lie inside
  the quiet period, on its end and behind it. The time stamps saturate at the
  bounds and lose nothing the code tells apart.
- *Startup.* Two arguments and two lines tell apart whether an option is given
  before, behind, twice or in both sources, and each branch of the readers has a word
  or a line that takes it. Two wizards race for two database names and two
  accounts; each statement can fail for either of them. The proofs remove these
  bounds for all that is not liveness.

Deadlock is checked in the file and reclaimer runs. The session stops when all
calls have returned, a mount in `Namespace` may run out of files to create, and a
process of `Startup` ends; these configurations turn the deadlock check off.

## Fairness

- `DbSession`: weak fairness on each worker's steps. A thread inside a call is
  scheduled; that each query comes back is an assumption about the environment, as
  `db.c` sets `MYSQL_OPT_RECONNECT` and no timeout (TCP, or the driver's defaults,
  have to give up for it). Nothing is
  assumed about faults: no fairness asks the link to recover, or a query to succeed.
- `Reclaimer`: weak fairness on the thread, on the clock, on `Stop` and on
  `Joined`, with the same assumption about its query. Not on `Unmount`: nothing says that a file system is ever unmounted.
  Nor on the *success* of OPTIMIZE: an attempt is promised, not its outcome.
  `RequestsAreServed` supposes that notifications cease: with the optimistic
  level, which waits for silence, a busy file system is never reclaimed, by design.
- `Startup`: weak fairness on what the wizard does once it asks no more (`Work`) and
  on the end of `main` (`CreateReturns`, `Disconnect`, `StopReclaimer`): the code goes on
  by itself, and each query is assumed to come back, as above. Not on the prompts:
  an operator may never answer.
- `FileStore` and `Namespace` have no liveness properties: their callbacks end when
  their queries do, which is a property of the session.

## The proofs

Each theorem names the property a run checks; PROJECT.json lists them. The
constants are those of the modules with the assumptions stated there, which TLC
evaluates on each instance.

`DbSession_proofs` (for every set of calls, script, retry setting, set of faults):

- `TypeCorrect`: the types, for any number of threads. Alone inductive.
  (The lemma `OwnRows`, that `unread` names the thread that fetches, serves the others.)
- `NothingLeftOpen`, for one thread (`OneWorker`): no transaction survives its call.
  The invariant says nothing of what happens inside a call, so `LinkInv` does: an
  open transaction has its link and the driver's flag; a call with
  `success = false` is at its last query; at its first none is open.
- `WholeOrNothing`, `FailureIsClean`, for one thread without retries: `AtomInv` adds
  that the open transaction holds exactly the effects of the statements passed
  so far, or is gone with the link while the driver still believes in it, in
  which case the driver refuses the next query instead of running it in a new
  session. That case is why the flag is modelled.

- `AcknowledgedSingles`, for one thread with any retry settings: a single statement
  (create, delete, rename, chmod) that returned true is durable.
- `SessionIsAtomic`, for one thread with any retry settings: the refinement
  `CallsAreAtomic`. Each step maps to a step of `AtomicCalls` or to none: the
  call takes effect where its COMMIT, or its single statement, does, and ends where
  it returns. The argument is `LinkInv`, `AtomInv` without retries, and that the
  call a thread executes is the one whose result is still `running`.

`OneWorker` is necessary (`shared_transaction`), and so is the absence of retries
where it is assumed: a statement that is retried after a reconnect runs outside
its transaction. With retries `AtomicCalls` promises only how calls end.

`Reclaimer_proofs` (for every pair of delays): `ReclaimerTypes`, `ServedOnce`,
`DeletesServed`, `RetriesWait`, from `Inv == TypeOK /\ Accounted /\ Flags`.
`Accounted` relates `next_try` to the time since the last failure; `Flags` says
where the thread may be once a flag it acted on was cleared.

`FileStore_proofs`, which rests on `BlockStore_proofs` (for every block size, set of
handles and bound, and every set of data that are sequences of bytes):

- The hypothesis of each theorem is `Requests = "served"`, without which they are
  false: `lost_write` and `shrink` are the counterexamples.
- `Invariant`: the file in the database is `Stored(c)` for some sequence of bytes `c`.
  The layout alone is not inductive: the write after next depends on which bytes
  the last block holds. `BlockStore_proofs` has one lemma for what each function of
  `myfs_db.c` makes of `Stored(c)`: `WriteInPlace`, `WriteAtEnd`, `ExtendIs` (the
  append), `ShrinkIs`, `ResizedIs`, `ReadIs`. Below them is the arithmetic of `div` and
  `%` by a block size that is a constant, from the definition of division alone.
- `TypesHold`, `LayoutHolds`, `NothingIsRefused`, `ReadsAreExact` follow from it.
- `BlocksImplementBytes`: the refinement `IsByteFile`. Each request maps to the step of
  `ByteFile` on the same `c`.
- `WritesAreStored`, `CutsKeepBytes`: what the two violation runs refute for dense
  requests is true of served ones.

`Namespace_proofs` (for every set of mounts, threads, names and paths, every
bound, every set of threads with failing queries):

- `TypeCorrect`: from `TypeInv == RowsOK /\ TableOK /\ JobsOK`, which is stronger
  than `TypeOK` in what it says of a job: which place it can be at with which
  callback, how many lookups it has behind it and what they found.
- `UniqueNames`, `NoOrphans`: from the types and `TreeInv`, with one lemma for each
  of the statements that change `files`. No callback checks a name in time, so
  the argument is about the keys alone; for the cascade it is that `Below` is closed
  under children.
- `OwnTargets`, if no two threads share a connection (`OneThread`): `LinkInv` adds
  that between its INSERT and the end of its append a thread holds the id of its
  own row, that no other thread holds it, and that the row, if it is still there,
  has no target yet.
- `OwnSlots`, if no two threads share a table (`OneThread`): `SlotInv` adds that the
  slot a call has chosen is free until it fills it.
- `TreeIsWhole`: a move or a swap that no other one raced keeps every file below the
  root. `MovesInv` says what the lookups of a rename know: for each path it has
  gone, in full or in part, the file at its end is gone or there still is a chain
  of directories from the root to it along the names of the path (`Reached`,
  `Along`). Creations cannot break the chain, as ids are not used twice; a
  deletion that takes away a directory takes away all that is below. Two chains that
  meet are the same up to there (`OneWay`), so the new directory could be below the
  file that moves only if the old path were a part of the new one, which the kernel
  refuses (`Within`). `TreeIsKept` then says that files given directories which are
  below none of them stay in the tree. `raced` is necessary: the two moves of two
  mounts at the end of the next section.

`OneThread` is necessary for both of the theorems that have it: `slot_race` shows it
for the slots, and two threads of a mount share the insert id of their connection.

`Config_proofs`, `Startup_proofs` and `Options_proofs` (for every set of processes,
arguments, config files, faults and refused statements):

- `NothingIsLeft`: `LifeInv` says at which places of `main` a session or the
  reclaimer's thread can be held at all; at `stop` the first is gone, at `down` both.
- `FailureLeavesNoConfig`: `MadeInv` (`FileMade`) says that nothing in `conf` differs
  from the start but the file the wizard named, and that only while it goes on
  or when it is done.
- `OthersAreSafe`: `MadeInv` (`DatabaseMade`) says that a wizard that believes to have
  created a database is the one it was created `by`. It starts with CREATE
  DATABASE, which the server refuses for a name that exists; that is why the look
  at the prompt, long ago by then, does not matter.
- `OptionsAsTold`: `OptInv` says for each place of
  `main` which of the three readings `values` is the outcome of. What one reading does
  is in `Config_proofs`, for every list: a fold runs through a trace of states, one
  for each prefix (`TraceOf`), and what holds along the trace is proved by its
  least counterexample, as no induction theorem of the library can be used.
  `LineIsRead` and `FileIsRead`: an option ends with what the last entry gave it that
  was not refused.
- `TypeCorrect`, `SetUpHolds`: `SetInv` says that what each statement the wizard has
  sent had to make is still there, privileges and the account they are for
  included, and that the config file names that database;
  the statements of another wizard take nothing away, by `MadeInv`.

Model-checked only:

- liveness (`CallsReturn`, `StopReturns`, `RequestsAreServed`, `AgreedEnds`), which is out of
  the prover's reach;
- the violations, which are counterexamples.

## Disagreements between code and documents

Each has a run whose counterexample is the scenario.

1. `shared_transaction`: all threads share one connection without a lock, so
   one thread's START TRANSACTION commits half of another's.
2. `lost_write`: an overwrite that makes the last block longer does not add to `size`.
3. `shrink`: a truncation into a block replaces what it keeps by spaces.
4. `slot_race`: two threads are given one slot of the table of open files.
5. `lookup_crash`: a query that fails while a path is walked is dereferenced on the next turn of the loop.
6. `error_forgotten`: `config.h:103` says that `config_read_file` returns false "if an
   invalid config was found", and `config.h:20` that a handler's false is returned;
   the answer to a later line overwrites it (`config.c:292`).

Others were met while modelling and have no run of their own. The models have
the behaviour of the code, and the properties are stated so that they allow it:

- the result of COMMIT is dropped (`myfs_db.c:273`), so that success can be answered
  for what is not stored;
- a DELETE notified while OPTIMIZE runs is cleared with the one before (`reclaimer.c:116`);
  OPTIMIZE names the table `file` (`reclaimer.c:108`);
- the read counter subtracts everything read so far (`myfs_db.c:610`);
- the wizard's INSERT of the root directory names a column `content` (`create.c:592`)
  that the table it has just made does not have (`create.c:535`), so every setup fails
  there, and its cleanup's DROP DATABASE quotes the name as a string (`create.c:489`) and
  is refused too: README.md:22 promises more. Both are in the run `startup`;
- README.md:29 shows `--print-create-sql` without a value; `config.c:329` refuses that;
- a successful wizard ends the process with status 1, like a bad option (`main.c:34`);
  its config file has neither the user and group nor the password that were asked
  for (`create.c:311`); its grants name the server's host (`create.c:455`, `462`) where
  the account was made for another: with the default `%` they fail, or give the privileges
  to an account that was not asked for;
- `rename` without a flag is `-EINVAL` (`myfs.c:956`); with `RENAME_NOREPLACE` it looks for
  the new name in the wrong directory (`myfs.c:897`); an exchange keeps the names
  (`myfs_db.c:508`);
- two moves of two mounts can make a cycle outside of the tree (`myfs.c:918`);
- a prompt that reaches the end of its input is asked again for ever (`util.c`).

## Not modelled

- Data races inside the driver; memory; the text of SQL, its quoting and the log.
- `statfs` (statistics): two SELECTs whose sums change nothing. The log prints.
- Help and version texts; the layout of a config line (trimming, `=`).
- Two threads inside one mount are in `slot_race` only; the run `namespace` and two of its
  theorems have one thread for each mount, and the conflicts within a mount are those
  of `shared_transaction`, `slot_race` and the shared insert id.
- Of the wizard: the user, group and passwords it asks for; Ctrl-C in the middle; a
  config file cut short by `fprintf` or `fclose`, whose results are not looked at; a
  failing `unlink`; two wizards on one host. Nothing is persisted that a restart
  would read back except the config file and the database themselves.
- The kernel's caches and permission checks: a callback may come with any path.
- Holes: a write behind the end of a file.
- `truncate` of a path that is not open: `myfs_truncate` reads its handle from `fi`
  (`myfs.c:413`), which is NULL then; `FileStore` truncates open files only.
- `getattr`, `chmod`, `chown` and `utimens` of an open handle (`fi`), which take the file's
  id from the table instead of a lookup; that `readlink` tests the type and reads the data.
- Numbers other than -2 to 3: `Number` stands for `atoi` on the words that the instances
  use, and gives 0 for each other string, also for one that is a number.

## Plan

Done: the session with its refinement, the file data and handles, the tree with
listing, attributes and links, the reclaimer, configuration, wizard and the life
of the process, and a theorem for each property of a passing run that is not
liveness. What is left, in this order:

1. The safety facts behind the liveness properties, as theorems: what decreases on
   the way to `RequestsAreServed` and to the return of a call.
2. A composition of session and tree, to carry `CallsAreAtomic` into `Namespace`.
