# Verification of the Partition Manager Tool (pmt)

TLA+ models of pmt, TLC configurations that check them on small instances, and
TLAPS proofs of what holds for every instance. Paths below are relative to the
repository (`src/plugins/...` is the repository's own `src/` directory).

## 1. The system

pmt is a command line tool for Android devices. One process handles one
command: `main` collects arguments (from `argv` and, when stdin is not a
terminal, from stdin), parses the early options, loads plugins, parses the
rest, runs the plugin whose subcommand was used and returns its verdict as the
exit status. Everything lives in memory for the length of that one command;
what persists is on the block devices and in the files it writes.

### Components

| Component | Code | State | Operations |
|---|---|---|---|
| AsyncManager | `srclib/libhelper/include/libhelper/management.hpp` | packaged tasks, futures, results, the flag `get`; one detached thread per job | `addProcess`, `startAll`, `getResults`, `finalize`, `operator()`, destruction |
| Backup, flash, erase | `src/plugins/{Backup,Flash,Erase}Plugin.cpp`, macros of `include/PartitionManager/Plugin.hpp` | partition names, outputs, flags; per job its progress | `onLoad`, `used`, `run`, `runAsync` (one job per partition) |
| Partition byte loops | `BasicPartition_t::dump`, `write` in `libpartition_map/partition.hpp`; the zero fill of erase | byte counter, buffer, `errno` | read, write, fill, sync |
| GPT table commands | `src/plugins/GptPlugin.cpp` | `table_names`, `file_list` | `read-table`, `backup-table`, `restore-table` |
| ProgressRenderer | `libpartition_map/partition.hpp` | `_running`, its thread, list of progresses under a mutex | `add`, `start`, `stop`, `render`, destruction |
| Main | `src/Main.cpp` | flags, the plugin manager | option handling, signal handlers, error to exit status |
| PartitionTableData | `libpartition_map/src/PartitionTableData.cpp` | table names, partitions, GPT data per table | `scan`, lookups, `partitionWithDupCheck`, `GPTDataOf`, table sets, `sync`, `reset`, moves |
| DynamicTableData | `libpartition_map/src/DynamicPartitionTable.cpp` | metadata of the super partition | `scan`, lookup, `sync`, free space |
| Partition objects and libopenpart handles | `partition.hpp`, `srclib/libopenpart/src/{core,io}.c` | a handle and its descriptor per partition | copy, move, `set`, `setOpenPart`, `closeFdNow`, `openpart_close` |
| Command line parser | `libhelper/cmdline.hpp` | options, subcommands, groups | `parse_earlies`, `parse` |
| PluginManager, registry | `Plugin.hpp`, `Main.cpp` | built-in and loaded plugins | load, duplicate check, `runUsed`, unload |
| BasicFlags | `src/PartitionManager.cpp` | the two tables, all flags | construction |
| confirmPrompt | `libhelper/src/Utilities.cpp` | a static count of tries | prompt on stdin |
| UniqueFD, UniqueFP, ScopeGuard, Silencer | `management.hpp` | a descriptor or a stream, saved copies of stdout and stderr | open, own, move, assign, `reOpen`, close, `silence`, `stop` |
| libopenpart information, transfers, mounts | `srclib/libopenpart/src/` | what is known of a device, `err` | getters, sector reads and writes, `wipe`, `checksum`, `hexdump`, mount and unmount |
| Query plugins (info, sizeof, real-path, type, lp-metadata, ...) | `src/plugins/` | none that outlives a call | look up and print |
| Error, files, hashes, reboot, logging | libhelper | a code; a log file | single calls |

### How they interact

- A plugin's `run()` binds one `runAsync` per partition to an AsyncManager. The
  jobs run on **detached** threads and hold plain pointers to the plugin, to
  the tables in `BasicFlags` and, through a captured pointer, to the renderer
  on `run()`'s stack.
- `getResults` blocks on one future after another; an exception of a job comes
  out of `future.get()` on the main thread, leaves `run()` and reaches main's
  handler. Meanwhile the other jobs go on.
- The renderer has a thread of its own that reads the progress objects the
  jobs update; `stop()` clears `_running` and joins it.
- Jobs may ask the user: which of several tables a partition name means
  (`partitionWithDupCheck`) and whether an erase is wanted (`confirmPrompt`).
  All of them share one stdin, which `main` has read to its end if it is not a
  terminal.
- GPT commands run on the main thread through the tables' GPT data (GPT fdisk)
  and close the descriptors of a table's partitions before the kernel rereads it.
- A signal handler turns SIGINT and SIGABRT into `exit`.

### Hard behaviours

1. Objects destroyed while detached threads still use them (only the join in
   `getResults` keeps them apart, and an exception skips the rest of the join).
2. One job's failure against the others: error result, exception, a thread that
   could not be started, a process that ends around running jobs.
3. Short transfers, failing transfers and an unsigned counter in the byte loops.
4. Lists of tables with a failure in the middle, with and without `--force`.
5. Liveness: blocking joins, a join of the render thread, prompts on an
   exhausted stdin, a device that ends early.
6. Ownership of descriptors across copies and moves of partition objects.
7. Two passes of a parser that see the same tokens with different knowledge.
8. Scans that stop half-way, on a device others change meanwhile.
9. Information that is loaded on the first question, and again after a failure.

`PROJECT.json` lists these hazards line by line, with the properties that cover
them or with the reason why none does.

### What makes each component correct

- AsyncManager: results are the outcomes of the futures in order; a join that
  returns has waited; no call blocks for ever; the verdict is success only if
  every joined job succeeded.
- Commands: exit 0 means every partition was processed; nothing is destroyed
  under a job; an image is deleted only after a complete write; the process ends
  unless a job is stuck in a read or in a question.
- Byte loops: success means the right bytes up to the last one; short transfers
  skip and repeat nothing; the progress shown is the share of the bytes that are
  done; the loops end, but for a dump over a byte its device does not give.
- GPT commands: success means every named table was dealt with; a failure
  leaves the rest alone; a file is not overwritten unless forced.
- Tables: names, partitions and GPT data agree after any sequence of calls, those
  that throw half-way included.
- Handles: each descriptor is closed once, and never used after.
- Parser: both passes take a token for the same thing, and a command that runs
  has what it requires.
- Plugins: each loaded once, unloaded once; the exit status is the verdict of the
  plugin whose subcommand was named.
- Descriptors: one owner per number, nothing lost, and the terminal comes back.
- libopenpart: success of a loop means its whole range; loaded information is whole;
  a loop ends unless it reads on behind the end of its device.
- Dynamic tables: a list follows its metadata; a command that succeeds has
  answered for every name, in order and from the right table.

## 2. The modules

```
ForkJoin  <--implements--  AsyncManager  <--extends--  CommandRun
                                                           ^
                                                    CommandRun_proofs
CmdLine  <--extends--  Startup  <--extends--  Startup_proofs  --extends-->  GptTables
PartitionIO, TableData, DynamicTable, OpenPart,
PartitionHandles, Descriptors  <--each extended by--  its ..._proofs
```

| Module | Models |
|---|---|
| `ForkJoin` | the abstract promise of AsyncManager: fork, settle, one join, a verdict; no threads or loops |
| `AsyncManager` | every member function, one action per step of its loops, and the detached threads |
| `CommandRun` | a whole run of backup, flash or erase: plugin, manager, renderer, jobs, teardown in main, signals |
| `PartitionIO` | the byte loops of dump, write and erase, system call by system call |
| `GptTables` | the three table commands, list entry by list entry |
| `TableData` | any number of `PartitionTableData` objects, every operation that changes one |
| `PartitionHandles` | partition objects, the openpart handles they own and the descriptor numbers behind these |
| `CmdLine` | options, what each plugin registers, lookup of options, values, the checks behind the last token |
| `Startup` | a process from its arguments to its exit status: both passes of the parser, plugins, main's checks, run, unloading |
| `Descriptors` | UniqueFD, UniqueFP, scope guards and silencers over the table of descriptors |
| `OpenPart` | open handles: information, sector transfers, loops, mounts |
| `DynamicTable` | tables of logical partitions, their scan, the choice between the two kinds of table, the commands that only ask |
| `MC...` | the instances for TLC |
| `..._proofs` | the TLAPS proofs; `CommandRun_proofs` also holds those about AsyncManager, `Startup_proofs` those about GptTables and about both together |

### AsyncManager and ForkJoin

`tasks`, `futures`, `results`, `get` are the members. `thread` and `shared`
stand for the detached threads and the shared states behind the futures
("unset", a result that is a success or an error, an exception). `caller` and
`pos` are the owner's program counter and loop index. `startAll` and
`getResults` are split into one action per loop iteration, since threads run in
between; `finalize` is one action, since it only reads the owner's own data.
`StartFails` is the `std::thread` constructor throwing after the future was
stored: the task dies with a broken promise. `getResults` with `get` already
set returns the collected results and changes nothing, so it is no action;
`operator()` is `getResults` again. The message of a result is abstracted; its
success flag is `Result(t)[2]`.

After an exception the owner can only destroy the manager: no code between
`getResults` and `main` catches it, so the model's `caller = "unwinding"` only
allows `Destroy`. A job is bound at most once, as the jobs are identified by
the call of `addProcess` that made them.

The refinement maps a job's `outcome` to "idle" without a future, to "pending"
while the shared state is unset, and otherwise to the shared state; `closed` is
`get`; `joined` are the jobs of the collected results once `get` is set. The
loop of `getResults` is thus one atomic join in ForkJoin, which is what its
documentation promises of it.

### CommandRun

`cmd` holds the subcommand and the flags that change the control flow, plus
whether stdin is a pipe. `stage` is where `run()` and `main` are. `alive` is
the set of objects with raw pointers to them. `job[t]` is the step of
`runAsync` the thread of `t` is at: lookup, choice among duplicate tables,
checks, confirmation, registration of the progress, opening, writing, what
follows the write. `full`, `writers` and `image` say of each job whether it
wrote its whole partition, whose data each place holds and whether flash's
image file is still there.

- The three plugins share one model; `cmd.kind` selects the differences (erase
  has no renderer and asks; backup does not overwrite unless forced and may
  verify; flash may delete its image).
- An exception of a job leaves `getResults` either as a `Helper::Error`, which
  main's handler turns into an exit status ("leave"), or as anything else,
  which terminates ("abort").
- `Interrupt` may happen at any time. `exit` ends all threads at once: after
  "exited" no job moves, and what a job had in hand stays as it was.
- `WrongCount` is the usage error of `backup` and `flash` when the lists have
  different lengths: an exception before any job. Its code is 64, but what is
  thrown is a copy and the copy constructor of `Error` drops the code
  (`error.hpp:75`): the exit status is 1.
- `exists` are the output files of a backup that are there already.
- A write may be done in any number of chunks; whether its data is right is the
  subject of `PartitionIO`. A backup of a partition that cannot be read
  (`BadRead`) is reported as a success by the code and is modelled so.
- `Hangs` names the two places where a job may stay for ever: the loop of `dump()` over a
  device that does not give a byte, and the choice among duplicates on a piped stdin,
  which `main` has read to its end (`PartitionTableData.cpp:251`).

### PartitionIO

Bytes are numbers (position in the source, 0, or the old contents), so that a
copy, a gap or a repetition can be told apart. Every system call may transfer
less than asked. A partition may have one byte, `bad`, at which reads go wrong as
`fault` says: they fail with EPERM, fail with EIO (and may succeed at any later
try, or never), or return 0. `off` is the code's unsigned counter,
modulo `Word`. `errno` is kept because the code reads it after a successful or
empty read. `write()` and the zero fill throw on a failure; a dump whose read
fails with anything but EPERM goes on with the count -1, exactly as the code, and
as often as it fails: the code has no limit and neither has the model. Of an image
that outgrows the partition the first `Size + 1` bytes are kept, enough to tell
that it is no copy. `done` and `Total` are what the bar divides: the callback
counts what was read or copied from the image, the total is the partition's
size, and the zero fill behind an image calls no callback.
`Put` is `pwrite(2)`, external.

### GptTables

`names`, `files`, `i` are the lists and the loop. `content`, `disk`, `closed`
and `reread` are the outside world: backup files, tables, descriptors and the
kernel's view. GPT fdisk's load and save calls and the ioctl are external:
they succeed or fail, and a failing save may have written part. The macro
`READ_ALL_HANDLE` replaces the list by the tables in the unspecified order of
an `unordered_set`. The macro `SPAWN_ERROR` returns from the whole operation.
`backup-table read-all` with one output passes the length check and then reads
`file_list` past its end: this undefined behaviour is the outcome "undefined",
about which no property says anything. `restore-table` has no
`READ_ALL_HANDLE`, so `read-all` is a name no table has and is passed over.
`scan()` keeps the name of a removable table without GPT data (`NoGPT`), so
`hasTable` holds and `GPTDataOf` throws.

### TableData

`names`, `gpt`, `parts` and `auto` are the four fields of an object,
`localTableNames`, `gptDataCollection`, `localPartitions` and
`buildAutoOnDiskChanges`. `gptDataCollection` holds shared pointers: `gpt[o][t]`
is the number of the copy of table `t` that object `o` points to, `content[t]`
what each copy holds, and a copy nobody points to is freed (`Kept`). A scan
makes new GPT data; `Fresh` picks a number no other object uses, which is what a
new allocation is. `readable` are the tables that GPT fdisk can load and that
are not removable; the others keep their name and get no data, as in `scan()`.
`std::sort` leaves partitions with the same name in any order, so `Sorted` is a
set of lists. `scan()` without a name throws before it clears anything; the
caller of `removeTable` and `reScan` is left with the object as it was up to
there (`ScanOrThrow`). The defaulted copy assignment goes member by member and the copy
of a partition opens its device, which may fail (`Vanishing`): `CopyThrows` leaves the new
data with a list that is `Mixed`, new up to the partition that threw and old behind it, or
empty. `sync()` visits an `unordered_set`, so a table without
data makes it throw after any part of the others has been saved.

`current`, `torn` and `told` are history variables: whether names and data are still
what the last scan saw, whether a copy assignment threw half-way and its list has
not been replaced, and which object's `sync()` has just returned true.
Handles of partitions are the subject of `PartitionHandles`; lookups, `isUFS`, the
free space and the printing of a table change nothing and are left out.

### PartitionHandles

`obj` holds the fields of each partition object (its handle, what it names,
whether it is logical) and `alive` the constructed ones. `heap.at` maps the
addresses in use to `openpart_t` structures, `heap.fdt` is the kernel's table:
what each number refers to, named by the handle that opened it. An action is a
whole member function, and each open in it may fail, so that a constructor
that throws leaves no object and an assignment that throws leaves one with the
new fields and no handle.

- `openpart_open` gets any free memory and the lowest free number. The device
  is opened read-write or, through the copy assignment, write-only.
- Every getter loads the file system information once (`QUICK_GET_CONTROLS`),
  which needs a read; for a device that cannot be read (`Unreadable`) the path
  is a null pointer, and the copy makes a `std::string` of it. This undefined
  behaviour is `Crash`, after which nothing is said.
- A copy of a normal partition opens the path of the *number* its source
  remembers (`PartPath`), one of a logical partition the path it stores.
- `closeFdNow` closes the number and leaves it in the handle; `Close` closes
  it again later, whoever has it by then.
- `set(data)` takes the handle of `data` without closing the object's own,
  which is lost: `leaked` is the history of these, so that the properties can
  speak about all others.
- `shut`, `reused` and `renamed` are history too: numbers closed early, a number
  given out while a handle remembered it, and a name that was changed alone.

Partition objects live on one thread in the code that changes them; the jobs
only read and write. The static buffer of `path_from_fd` is thus used and copied
by one thread at a time, and is left out. The handle a caller passes to
`setOpenPart`, `set` or the constructor is one it has just opened and, except
for the constructor from basic data, does not keep.

### CmdLine and Startup

An option is a record of what parsing looks at: names, what its value goes
through (`kind`), positional, required, early, superior. `CmdLine!Commands` are the
subcommands each plugin registers in `onLoad`, with their options in the order of
registration. `tab` says which plugin registered each path of subcommands: the
first of a name is found, a later one never.

- `args` are the tokens of the command line and of a piped stdin. `EarlyToken`
  is one turn of `parse_earlies`, which skips what it does not know; `Subcommand`,
  `OptionToken` and `PositionalToken` are the turns of `parse`. An option takes the
  text behind `=` or the next token, unless that begins with a dash; an empty next
  token throws out of range (`TakeOption`, which both passes have).
- `Registered` adds what plugins register behind what there is: `getSubcommand`
  finds the first of a name. `IsUsed` is a plugin's `used()`, and `runUsed` asks the
  loaded plugins in the order `InOrder`.
- `Handling` is `doToDoList`: a value is set, refused with an `Error`, or throws
  what main does not catch (`std::stod` on a word). `BufferSizeCheck` compares with
  references to parameters that are gone, so a size may pass or fail.
- `LoadBuiltins` stops behind the first plugin whose `onLoad` refuses and keeps
  what that one registered. `LoadPlugin` asks `alreadyExists`. A plugin loaded
  later under the name of the `Rejected` one registers behind it, so that its own
  subcommand is never found: `IsUsed` is about the instance.
- `Check` is `main` up to the run: license, version, root, the tables (absent,
  damaged or good), the super partition. With no table the pointer is null, and
  the first use of it ends in the SIGSEGV handler with 139.
- `uses`, `ran` and `unloaded` are history: which pass took which token for what,
  what ran with which verdict, what was unloaded.

Default values and help texts are left out; a plugin's own work is the single
step `Run`, which `CommandRun`, `GptTables` and `DynamicTable` open up. It returns,
throws an `Error`, ends the process in another way (`RunDies`), or stays for ever:
nothing makes `Run` happen.

### Descriptors

`table` is what each number stands for; the kernel gives the lowest free one.
`fd`, `fp` and `guard` are the objects, `loose` the raw numbers in the hands of
the caller, and `silencer` the members of each silencer. A stream is named by the
number under it. Each action is a member function: opening may fail, a
moved-from object is empty, an assignment first closes what the object held.
`UniqueFP::open` has its test the wrong way round: an empty object stays
empty, and an open one loses its stream. Silencers nest (main's around a
command's around a scan's), so only the innermost may stop. `cut` remembers that
a silencer had no number left for its copy of stdout or stderr.

### OpenPart

`handle` holds the fields of an open `openpart_t`, `size` being that of its opening.
`load_info` is two steps with others' writes in between: `Detect` reads the type,
`Details` the UUID and label of that type, and either read may fail and end the
call that asked. Neither looks at how much it got (`io.c:55`, `:72`, `:92`, `:109`, `:142`,
`:175` test only `< 0`): on a device that ends before its superblock (`Short`) the type
is any, and the details are "junk" from the stack. `doubt` remembers that a handle's
information came from such a read, or that others wrote between the two.
Detection is modelled as it is: a 16-bit magic looked for in a 32-bit word, so
that ext is never recognised. `Informed` lets the call that asked go on: `Get`,
`GetName`, `Mount`.

`call` is the loop of wipe, checksum or hexdump that runs, and a `Transfer` is
one `pread` or `pwrite` of it, which may be short or fail. The range of a hexdump is
not compared with the size, as in `utility.c:141`: at the end of the device `pread` returns
0, and a reading loop is `Stuck`. `reply` is the last answer; `asked` and
`did` in it are the range of the loop and what it covered, `alone` whether
nobody else wrote meanwhile (`touched`). `OthersMount` and `OthersWrite` act behind
the caller's back at any time: they mount and unmount, write data, zeros or a new
file system, and cut a file short (`Ends`).

### DynamicTable

`super`, `layout` and `mapped` are the device, which others change at any time;
`table` holds the fields of each `DynamicTableData`, with `Main` the one of
`BasicFlags`. `Scanned` opens the partitions the metadata names one by one, and
the first that cannot be opened throws and leaves those before it. A copy opens every
partition again; an assignment that throws there leaves the old metadata and the list
that is `Mixed` or empty (`CopyThrows`), which `torn` remembers. What liblp
cannot read is a null pointer the scan reads through; the constructor of
`BasicFlags` swallows the exception and leaves a null pointer of its own. A call
that would read through either is `Crash`, after which nothing happens. `Correct`
is the choice of `builder.hpp` between the two kinds of table; `InfoAll`, `InfoOf`,
`RealPath`, `Type` and `LpMetadata` are the commands, with what they print as the
sequence of partitions it is about. A size that cannot be had makes `freeSpace`,
`valid` and `aboutPartitions` throw (`SizeThrows`) and `info` and `sizeof` stop in the middle
(`BreaksOff`). `real-path` fails on a logical partition whose link is gone (`NoLink`); with
`--by-name`, whose `pathByName()` is empty for a partition of a GPT table unless the
link of its name leads to it, it prints a blank line (`Paths`). `InfoAll` is a keyword such as
`get-logicals`, and the names in front of it, which are not looked at. `ReadBeyond` is
`hasMagic` on a file shorter than a magic, whose unsigned loop bound wraps. `GoOn` is
the caller taking the answer before its next call.

## 3. The runs

| Run | Instance | Question |
|---|---|---|
| `async_manager` | three jobs, free order of the owner's calls | do results, waiting, termination and the refinement hold? |
| `command_run` | two partitions with a place each, one ambiguous name, one unreadable partition, all flags | teardown, exit status, deletion, end of the process |
| `error_isolation` | the same | *violated*: a failing job ends the process around another |
| `partition_io` | 4 bytes, buffer of 2, images of 1, 3, 4, 5 bytes, `Word` = 16, a bad byte anywhere | bytes, counters, the bar, end of the loops |
| `dump_reports_success` | the same | *violated*: a dump that returned without a copy counts as success |
| `gpt_tables` | two tables and a removable one, up to two names and files, one unknown name, `read-all` | meaning of success, failures in the middle, kept files |
| `table_data` | two objects, two tables of two entries, one with two layouts and with partitions that may fail to open, a name that both may have; every order of calls | do list, names and shared data stay in step; is a true `sync()` a whole one? |
| `partition_handles` | two objects, two devices of which one cannot be read, memory and numbers for three handles; every order of calls | is every handle owned once, nothing lost, and the device the object's own? |
| `startup` | every list of up to three of 17 tokens, alone, behind `flash boot` or behind `gpt`; up to four of seven behind `-p=tool.so`, a plugin with a group and a superior option; up to three of four, alone or behind `-p late.so`, a plugin that is also built in and refuses | do the passes agree, does the right plugin run, is the exit status the truth, does everything but a plugin's run end? |
| `descriptors` | two objects of each kind, two nested silencers, ten numbers | has each number one owner, is none lost, does the terminal come back? |
| `open_part` | a handle on one device of 3 blocks with f2fs, vfat or other data, which others write to and cut behind its first block; transfers of at most 2; hexdumps within the device and beyond it | is success the whole range, is information whole, do the loops end? |
| `dynamic_table` | main's table and two more, two layouts of up to two partitions, three GPT entries with a name on two disks | do lists follow the metadata, what is undefined, what does success mean? |

### Properties

AsyncManager: `ResultsMatchFutures`, `NormalReturnWaits` (a step from
"collecting" to "idle" leaves no started thread behind), `CallsEnd` (liveness),
`ImplementsForkJoin`.

CommandRun: `ExitZeroMeansAllDone`, `DestroyedUnderJobOnlyAfterThrow`,
`CutOffOnlyAfterThrow`, `DeletedOnlyAfterWrite`, `RunEnds` (liveness; but for a job that
stays where it may hang: then the join waits for it). Two of them are conditional on
"no job threw": without the condition they fail, and that is the finding of `error_isolation`.

PartitionIO: `DumpTrueMeansCopy`, `WriteMeansImageAndZeros`,
`EraseMeansZeros`, `NothingSkipped` (which also says what the callback has
reported), `BarIsShare` (the bar is full behind a backup that succeeded, and behind a
flash exactly if the image filled the partition), `Ends`. The first, fourth and fifth leave
reads that fail with EIO out, which `dump_reports_success` shows to be necessary for the first.
`Ends` names the one loop that may run for ever, a dump that comes back to its bad byte (`Stuck`).

GptTables: `TrueMeansAllDone` (without `--force`; a restored table holds the last backup
named for it, and no other table changed), `RestUntouched` (also: a torn
table is the last one and no success but under `--force`), `OldBackupsKept` (an action
property). The first two state the code where documents say otherwise (section 4).

TableData: `ListedHasData` (but for an object whose copy assignment threw),
`CurrentListIsData` (which also says that objects do not disturb each other; after such a
throw the list is not current), `SavedMeansOnDisk`.

PartitionHandles: `OneOwner`, `NothingLost`, `OwnDevice` (as long as no number
was given out twice: `read-table`, the only user of `closeFdNow`, opens nothing
afterwards that stays).

Startup: `PassesAgree` (an early option a subcommand in use also has a name of is
exempt: `flash -d` is the case where the passes differ), `RunsWhatWasNamed` (by instance),
`ZeroMeansDone`, `UnloadedOnce`, `Ends` (liveness: the process ends or stays in a plugin's run).

Descriptors: `OneOwner`, `OutputBack`, `LostOnlyByOpen` (an action property: the one
function that loses a number is named in it).

OpenPart: `DoneMeansAll` (zeros behind a wipe only where nobody else wrote),
`AnswerIsWhole` (but for the handles in `doubt`), `LoopsEnd` (liveness; but for a reading
loop at the end of its device).

DynamicTable: `ListIsPrefix` (but for a `torn` list), `UndefinedOnlyUnscanned` (which names
the three calls that are undefined on a good table too), `AnswersCoverAll` (both tables'
answers in order, a blank line of `--by-name` among them; not of names in front of a keyword).

Each module has a `TypeOK` (CommandRun's is `RunTypeOK`). Those of AsyncManager and
TableData are checked by their runs and proved; those of the other modules are proved or
part of a proved invariant.

### Bounds, and why they are enough

- Three jobs: one before, at and after the position of a loop, so that a
  failure can have jobs on both sides. The owner may call anything at any time,
  `addProcess` after a join included.
- Two partitions in a command: one that throws and one that is cut off; a third
  would only repeat the second. What is counted in jobs is proved for any
  number (section 5).
- Four bytes with a buffer of two: full chunks, short chunks, a last chunk
  smaller than the buffer; images shorter than, as long as and longer than the
  partition. `Word` = 16 is larger than any offset the loops reach, as 2^64
  is, so only the step below zero wraps. The bad byte is the first, the last or one
  between, so that the counter wraps or steps back within the partition, any
  number of times.
- Two names: a failure first, last, or twice; the same name or file twice.
  `read-all` makes the list three tables long, in every order.

- Two objects and two tables: one shares, one changes; copies and moves in both
  directions. A third object only adds sharers, and the proofs of section 5 hold
  for any number.

- Two partition objects and three handles: each object has one and there is one
  in passing, which an operation opens before it closes the old one, or one
  that `set` has lost. When memory or numbers run out, opening can only fail,
  which it may do anyway.

- `startup`: three tokens are an option, its value and one more, or two
  subcommands and an argument; the starts bring lists of five. The token set has for
  every kind of value one that is good, one that is not and an empty one, an option
  of each pass, and `-d`, which both passes know differently. The plugin from a
  file may be named twice, be found in the directory as well, or be built in.
- `descriptors`: ten numbers, of which two silencers take up to eight (stdout and
  stderr included), so that a copy can fail; at most two live objects and two open
  files (one while a silencer works), named `MaxLive` and `MaxOpen`. Two owners of one
  number, or a move in each direction, need no third.
- `open_part`: three blocks in chunks of at most two: a full, a short and a last
  transfer. The superblock is the second block: a file cut behind the first has none,
  one grown again by a write has zeros there. A second handle would only be one more
  of the others, who may do to the device all that a handle can.
- `dynamic_table`: a layout of two with a partition that is not mapped first,
  second or nowhere; a name in both kinds of table, one on two disks, one in a
  table only. Three objects: main's, and a source and a target of copies.

`table_data` permutes its two objects, which no operation tells apart (`Fresh`
picks numbers, and the initial states give either object either number); `partition_handles` permutes its
objects and the addresses of handles, `descriptors` the objects of each kind,
`dynamic_table` the two objects besides main's. None of these checks liveness. No
other run uses symmetry, and none a state constraint. `CHECK_DEADLOCK FALSE`
stands where a user may simply stop calling, or a crash ends everything:
`partition_handles`, `descriptors`, `dynamic_table`.

### Fairness

- AsyncManager: weak fairness of the loop steps of a call once made (the owner
  is a running thread) and of each worker (a detached thread is scheduled and
  its job ends). Nothing forces the owner to make a call.
- CommandRun: weak fairness of the main thread, of the renderer's thread and of
  each job where it cannot hang: the byte loops of other jobs end, which `PartitionIO`
  checks under `Ends`, and a user at a terminal answers. A job that `Hangs` may go on
  or stay. An interrupt is never owed.
- PartitionIO: weak fairness of the next system call: no call blocks for ever.
- Startup: weak fairness of the main thread's next step, `Run` excepted; nothing
  else waits.
- OpenPart: weak fairness of what a running call does next (`Step`): the caller
  waits in it and the kernel ends every transfer. That a transfer fails, or that
  others act, is never owed.

## 4. Findings

1. **Error isolation.** `docs/md/usage-guide.md:562` promises that a failure in
   one partition does not cancel the others. A job that throws (a declined
   erase does, at `ErasePlugin.cpp:127`) ends the process while others write.
2. **A failed dump reports success.** `partition.hpp:332` only takes EPERM for
   an error, and `BackupPlugin.cpp:143` ignores the value of `dump()`.
3. **`--force` does not skip a failed table.** `SPAWN_ERROR` (`GptPlugin.cpp:37`) returns true
   from the whole operation, where `docs/md/usage-guide.md:475` and `:542` say that failed tables
   are skipped and the rest goes on. `RestUntouched` in `gpt_tables` states what the code does.
4. **`restore-table read-all` restores nothing and succeeds**, against `usage-guide.md:533`
   and the help in `GptPlugin.cpp:213`. `TrueMeansAllDone` states it: a restore that succeeds
   has changed no table but those it names.

Smaller disagreements and defects met on the way, modelled as the code has them:

- Tables: `backup-table read-all` with one output reads past the list
  (`usage-guide.md:507`). A copy assignment that throws half-way leaves new data
  beside old partitions (`table_data_collection.hpp:136`, `partition.hpp:489`).
- Byte loops: a dump over a byte that cannot be read never ends (`partition.hpp:330-342`);
  the bar of a flash stops short of its end for any image smaller than the partition,
  since the zero fill reports nothing (`partition.hpp:378-385`, `:594`).
- Partition objects: after a copy assignment the device is open write-only
  (`partition.hpp:490` against `:103`), so `openpart_write` refuses it and `size()`
  throws. libopenpart's writes want a handle open for both directions.
- Dynamic tables: `sync()` is false when all went well
  (`DynamicPartitionTable.cpp:187`); `freeSpace(group)` looks the group up as a
  partition (`:143`); `readPartitionMetadata` is true despite failures. If the
  constructor throws, `info` reads through a null pointer and other commands report
  every partition as not found. A copy assignment that throws leaves a mixed list over
  the old metadata (`:298`). `info` and `sizeof` succeed without a word about names in
  front of a keyword (`InfoPlugin.cpp:136`), and `real-path --by-name` prints blank
  lines (`partition.hpp:219`).
- libopenpart: `openpart.h:170` documents 1 for success where the code returns 0,
  and likewise for mounting, wiping, sums and dumps; ext is reported as
  "unknown", its magic being compared as a 32-bit word; `err` is never cleared;
  a short read counts as a whole one (`io.c:142`); `hexdump` beyond the end of the
  device, and any read of a file that was cut short, never end (`utility.c:86`, `:141`).
- Descriptors: `UniqueFP::open` tests the wrong way round and `close` flushes after
  `fclose` (`management.hpp:814-839`); at the descriptor limit a silencer loses stdout.
- Command line: the `-d` of flash is taken for `--plugin-directory` by the early
  pass (`cmdline.hpp:1253`, `usage-guide.md:112`); groups are validated although a
  superior option was given; `-s` sets a flag nothing reads (`usage-guide.md:48`);
  the prohibited directories of memtest are not enforced; a device without a
  partition table ends in status 139 (`Main.cpp:175`); a thrown `Error` loses its
  code (`error.hpp:75`), so that every error ends in 1.
- `getResults` does not wait for all threads if a job threw (`management.hpp:225`);
  `hasMagic` wraps on files shorter than a magic (`Magic.cpp:92`).

## 5. The proofs

All proofs hold for every value of the constants that satisfies the modules'
assumptions (`CommandRunAssumption`; `TableDataAssumption`: finite sets, names
that are positive numbers; `DynamicAssumption`; `OpenPartAssumption`: a device of at
least one block, chunks no longer than it; `PartitionIOAssumption`: a partition and a
buffer of at least one byte, a counter wider than the partition;
`PartitionHandlesAssumption`: descriptors that are positive numbers, two values that are
no handle and no device; `DescriptorsAssumption`: room for stdout and stderr, and
marks for a free number, the terminal and /dev/null that differ from each other and
from every file; `GptTablesAssumption`: finitely many tables, names and marks that differ;
`CmdLineAssumption`: the options of other people's plugins are lists of options;
`StartupAssumption`: only a token with a dash has a value behind `=`, the registry names each
plugin once, and files hold known plugins; AsyncManager has none: any set of jobs).

**AsyncManager.** `ResultsMatchFutures` is not inductive: that the next entry
of `results` is the outcome of the next future needs the position of the loop,
and that an outcome does not change after it was collected needs that only a
running thread sets a shared state, once. The invariant `IInv` adds

- `ThreadsAndFutures`: a job without a future has neither thread nor value; a
  running one has no value yet; one whose thread ended, or never came, has one;
- `BoundOnce`: no task is bound twice, and the tasks still to be started have
  no future;
- `LoopPosition`: in the loop `pos` is one past the results; between calls there
  are results only behind a complete join;
- `NoCallAfterRaise`: an owner that was told of an exception makes no call.

From it follow `ResultsAgree`, `ReturnWaits` (at the end of the loop every
future has a result, hence a thread that exited) and `Refinement`: one lemma
per kind of step (a start, an end, a turn of the collecting loop, its end, the
verdict) maps it to a step of ForkJoin or to a stutter.

**CommandRun.** `RunUsesManager` shows that each step of a run is a step of the
manager or leaves it alone, so that a run is a behaviour of `AsyncManager` and
inherits its theorems (`RunResultsAgree`). `NoCutOff` and
`NothingDestroyedUnderJobs` then need one more invariant, `JoinProtects`: from
the end of the join on, and wherever something has been destroyed or main has
returned, either no job is running or one of them threw. The step that makes it
true is the end of the loop, where `IInv` says that every future has been
collected and every job without a future has no thread. That nothing runs while
`run()` still binds is part of it, since a usage error leaves from there.

`ImageDeletedLast` and `ZeroMeansAllDone` follow the jobs. `JobSteps` says that a job
which got behind its write, or succeeded, has written its partition (or could not
read it, backup's silent failure), and that an image is only gone once its job has
ended. `AllJoined` carries the jobs from the binding through the loops: none is left
without a future when `run()` joins, nor without a result behind the join; `TrueMeansOk`
says that `finalize` is true only of successes, and that main returns 0 only for that.
That the data is still where it was written needs `Places`, and `Places` needs
that no two jobs have the same output: `ZeroMeansAllDone` has the hypothesis
`DistinctTargets`. Without it the theorem would be false: two jobs may have one output
file, which `BackupPlugin.cpp:129` does not notice (a hazard in `PROJECT.json`).

**PartitionIO.** The five invariants of `partition_io` for any partition, image,
buffer, bad byte and `Word`. `NothingSkipped` gives the bytes before and behind the counter;
what it lacks is `Control`: where the counter may be at each place of the loops (never
beyond the image while that is copied, before the end while zeros are filled in, at
the end for the sync), and that it never passes the end of the partition unless
a read failed with EIO. Where the counter is at the end, `NothingSkipped` is the
whole image or partition, which is what a return means, and `BarIsShare` too.

**TableData.** All four invariants of `table_data` hold for any number of
tables, entries, names and objects. `ListedHasData` and `CurrentListIsData` are
inductive together with the types and with the throwing copies, whose lists are
those of two objects in part (`MixedList`); three facts carry the argument: a list
that `std::sort` may leave has exactly the partitions it was given, each once
(`SortedList`, a counting argument); there is always memory that no other object
points to (`FreshIsFree`, by the pigeonhole principle: there are as many copies
as objects, and one object does not count); and what an object points to
survives both freeing and the loading of another (`KeptContent`, `Loading`). With
these, a step leaves every object with what some object had before (`Gets`), or
empty, or freshly scanned, or no longer current; each operation has one lemma
that says which.

**GptTables.** The three properties of `gpt_tables` hold for any tables and any
lists. Their invariant relates the outside world to the position of the loop:
what lies behind the loop has been dealt with (`LoopBehind`), and the operation's
phase and verdict say how it left the loop (`Control`). Without `LoopBehind`
success would say nothing of the earlier entries, and without `Control` a torn
table could lie before the last.

**DynamicTable.** `ListIsPrefix` for any partitions, metadata and objects. A scan
adds a prefix of the metadata to a list that is empty (`ScanIsPrefix`), and each
operation leaves every object but one as it was (`OneObject`), so that copies and
moves keep the property; one that throws takes the object out of it (`CopyThrowsKeeps`).
`UndefinedTheorem` needs no further invariant: every
call either goes on or crashes with one of the excuses that `UndefinedOnlyUnscanned`
lists (`Defined`), and as a crash changes nothing, its excuse still holds behind it.
Two lemmas keep the other calls from being excuses: a complete scan lists every
partition of a group (`GroupIsListed`), and the choice between the tables never names
one without the partition (`NeverDangling`).

`AnswersTheorem` is about subsequences: what a loop that passes over the rest keeps of a
list. `Kept` says which element comes k-th without a recursion, as the one with k of the
kept places up to it; that there is one, and only one (`NthIsPlace`, `PlaceIsNth`),
is an argument about the least place with that many. Of what `info` prints, `KeptBehind`
then takes the part about logical partitions out again, and `KeptFront` that about the GPT
tables (`InfoCovers`); of what `real-path` prints each entry is the partition named at its
place, or a blank line that `--by-name` explains (`PathIsNamed`). Since every step gives
an answer of its own or crashes, and none that answers changes a table, no invariant
besides the property is needed (`Complete`).

**OpenPart.** `DoneMeansAll` and `AnswerIsWhole` for any devices, handles and sizes.
`HandlesSound` says that a handle that counts as loaded has a type and what belongs
to it, unless it is in doubt, and that one that does not count as loaded has
no details yet: this is what makes a second attempt after a half-done load safe. `LoadSound` is
about the two reads of a load: the file system is still the one whose type was
detected, or somebody wrote in between. `LoopSound` says that the two counters
of a loop add up to its end and that a wipe leaves zeros behind it on a device that
nobody else touched.

**PartitionHandles.** All three invariants for any objects, handles and numbers, with
any opening failing. `IInv` says of the kernel's side that the open numbers and the
handles that remember one agree, and that no two handles remember the same number
until one was given out again (`Heap`, `Numbers`); of the objects' side that each
allocated handle is had by exactly one object or was dropped by `set`
(`Owners`), and that an object that is not there has nothing (`Unbuilt`). Every operation is an
exchange, in which one object gives up a handle and gets another (`Exchanged`), or it
hands its handle on to a second object, as moves do. `NameTrue` ties the handle to the device the object names; it is
inductive only with both sides.

**Descriptors.** The two invariants and the action property, for any number of objects, any
`Depth` of silencers and any limit. The invariant treats whatever may hold a number as a
slot: objects, guards, the four members of each silencer, the caller's hands.
`Sole` and `Open` say that a number is in one slot and open; the lemmas `OneSlot` and
`TwoSlots` then do every member function, as each changes one slot or moves a number
between two. That the kernel gives the lowest free number needs that there is one:
`Least`, from the well-foundedness of the natural numbers. What `OutputBack` lacks is
`Stack` (silencers nest, and each remembers the next one) and `Copies` (what a saved
copy stands for depends on the silencers around it), without which stopping an inner
silencer could put the terminal back under an outer one.

**Startup.** All four invariants for any lists of arguments, plugins (of this repository and
others), plugin files and refusals. The parser's loops are steps over a position, so what
they do with a list is an invariant over that position and needs no induction over the
list. The inductive invariant has seven parts:

- `Basics`: types; `Registry`, that a path is registered by a plugin that has it;
  `Chain` and `Uses`, that subcommands are found by the second pass only and that
  `uses` names options that are registered;
- `EarlyPass`: the first pass has recorded, of the tokens it has passed, exactly
  what `TakenFor` says, a definition that looks at a token and its neighbour only and
  at main's own options, which alone are registered then;
- `AllPass`: the second has taken each token it passed once, and for every early
  option that no subcommand shadows the same tokens as the first (`TakenAlike`). It
  knows more subcommands: that it still finds the same option is `FoundAlike`, where
  being shadowed is the only way out;
- `Heads`: the first token taken for anything but main's options names the first
  of the chain; `Supplied`: what `ParseDone` looked at still holds when the plugin runs;
- `Verdict`: a plugin has run only on the way out, with the status its result
  gives, and status 0 otherwise needs an answer asked for;
- `Loads`: no plugin is in the lists twice or in both, and what is unloaded is both lists.

Each step is first brought into one of a few forms (`StepCases`), among them that it
leaves (`Stops`); the seven parts are then preserved form by form. `PassesAgree` is not
inductive without `EarlyPass` in its closed form: during the second pass the property
would have to say what the first did with tokens still ahead.

**Both together.** `GptExitStatus` joins `TrueMeansAllDone` of GptTables to `ZeroMeansDone` of
Startup. Its one hypothesis besides the two specifications is `GptHasRun`: when gpt is the
plugin that ran, its result is what its `run()` returned and its `--force` is pmt's `-f`.
Then `pmt gpt ...` exits with 0 only when every named table has been read again, saved
or restored, or -f was given, or an answer was asked for instead, or the list of outputs was
read past its end, the undefined behaviour of section 4.

**Only model-checked:** liveness (`CallsEnd`, `RunEnds`, `LoopsEnd`, both `Ends`), which the
prover cannot treat. Every invariant and action property that a passing run checks is
proved.

## 6. Plan

Written, in order: ForkJoin, AsyncManager, CommandRun, PartitionIO, GptTables,
TableData, PartitionHandles, CmdLine, Startup, Descriptors, DynamicTable, OpenPart,
with their runs; the proofs about AsyncManager, CommandRun, PartitionIO, TableData,
GptTables, DynamicTable, OpenPart, PartitionHandles, Descriptors and Startup.

Next: a module `ConfirmPrompt`, the count of tries that the jobs share.

## 7. Not modelled

- Output, logging and formatting, capsules and random numbers: nothing a command
  decides by. Two defects there: `clean-logs` calls `setLogging(true)`
  (`CleanLogPlugin.cpp:85`), and a new log file is overwritten with the old one.
- The files, hashes and reboot helpers, and what `reboot`, `clean-logs` and `memtest`
  run: straight lines of system calls, whose results the commands' models choose
  freely.
- The renderer's list of entries under its mutex, which `add` and `render` alone
  take, and the drawing.
- The shared count of tries and whose prompt an answer reaches: a `std::cin` used by
  several threads has no defined outcome that could be held against it.
- Queries of the tables that only look up: `operator()`, `partition`, `hasTable` and the like.
  One defect there: `operator()(table, index)` finds the entry, keeps the name alone and
  answers with the first partition of that name in any table (`PartitionTableData.cpp:518`).
- Vendored code; GPT fdisk and liblp, which are not in the repository, are external.

The components marked "partly" or "not_modelled" in `PROJECT.json` say what is
left out.

## 8. Running

`tlc -config MCAsyncManager.cfg MCAsyncManager`, and likewise for each run of
`PROJECT.json`; `tlapm CommandRun_proofs.tla`, and likewise for each `..._proofs` module.
Definitions preceded by "Mutant:" are deliberate errors: each replaces the
definition after it and makes a property fail, which shows that the property
depends on the code it is about.
