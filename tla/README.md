# Verification of the device-information agent

`ssegw-devinfo` is an agent on an IoT gateway. On a command from the server it collects sixteen
items about the gateway (vendor, serial number, network interfaces, SIMs, OS, ...), builds a JSON
report and sends it back in a notification. It is a C program of one process and one thread, driven
by the event loop of the MOAT runtime: a command, a timer or an event of a shell process runs a
callback to completion.

This directory holds TLA+ models of it, TLC runs and TLAPS proofs. Source paths below are relative
to the repository root.

## 1. Inventory

| Part | Source | State | Operations |
|---|---|---|---|
| Application | `src/devinfo.c` | none of its own | command handler, asynchronous part, completion callback, start and teardown |
| Model command | `src/devinfo/devinfo_model_command.c` | one heap context per accepted command | New, Delete |
| Manager | `src/devinfo/devinfo_manager.c` | state counter, requester's callback data, polling interval, timer | Initialize, Finalize, Collect, GetDevinfo, timer callback, one storing callback per item |
| Collector | `ports/*/src/devinfo_collector.c` | status, registered callback, shell command | Initialize, Finalize, one getter per item, three shell events |
| Repository | `src/devinfo/devinfo_repository.c` | the report, a tree of objects, lists and values | Reset, LoadDevinfo, GetDevinfo, SetDevinfo, typed Set/Add functions |
| Configuration | `ports/*/conf/devinfo.conf` | preset report entries | read by Reset |
| Runtime | `include/servicesync`, binary library | timers, asynchronous commands, notifications, shell processes | external |

How they interact. The server's command reaches `DeviceInfo_collect`, which asks the runtime to run
`DeviceInfo_CollectAsync` and answers `SSE_E_INPROGRESS`. The asynchronous part allocates a context
and calls `TDEVINFOManager_Collect`, which resets the repository (and reloads the configuration
file), enters the first item and arms a timer. The timer's callback walks through the items: it
calls the getter of the item, which hands values to the storing callback of the item, and moves on
when the collector's status is final. A getter that starts a shell process leaves the status
COLLECTING; the callback then doubles the polling interval and arms a new timer. The process's
events (lines read, error, completion) act on the *shared* status and the *currently registered*
callback. After the last item the manager calls back, the application fetches the report while the
state is still DONE, sends it, and the manager becomes free.

What is hard here, and what correctness means for each part:

* *Manager*: polling, back-off and timer failures must not lose the collection or wake it twice;
  refusals must not disturb the collection in progress; the requester is called back exactly once.
* *Collector*: one status word serves all items, so a late event of one process can end another
  item; each failure path of each getter must leave a final status.
* *Repository*: the report must be the requester's own; each item the report must contain is there;
  updates that fail half-way lose nothing and touch no other entry; a preset that conflicts with the
  report's layout does no harm; lists grow.
* *Texts of the device*: what a getter takes out of a file is the value that stands there, whatever
  the line's length and end, and it looks at nothing behind the line (for one kind of line it does).
* *Shell commands*: one command structure serves all shell getters; a process must find its own.
* *Application*: contexts outlive their use and do not pile up; whoever was promised an answer
  gets one, once.
* *Program*: the report object is owned from the start to the teardown, and a program that cannot
  start says so.

The hazards, each at its line, are in `PROJECT.json`.

## 2. Modules

| Module | What it is |
|---|---|
| `DevinfoCollector` | status, callback and shell processes; what each kind of getter can do |
| `DevinfoManager` | extends it with the manager, the timers and the event loop |
| `CollectService` | abstract specification: what the manager promises its requesters |
| `CommandService` | abstract specification: what the server that sends the command is promised |
| `DevinfoShell` | extends the manager with the shell command that the shell getters share |
| `DevinfoApp` | extends the manager with commands, contexts and notifications |
| `DevinfoMain` | extends the application with start, teardown and the report object |
| `DevinfoPorts` | the code's tables: sixteen items, storing policies, getters and presets of the ports |
| `DevinfoRepository` | the report as a tree |
| `ReportEntries` | abstract specification: the report as a table of entries that do not depend on each other |
| `DevinfoRepositoryTests` | the repository's unit tests, run on the tree |
| `DeviceText` | how values are taken out of the device's text files |
| `ResolvConf` | which text of a line of `/etc/resolv.conf` is reported |
| `MCDevinfoManager`, `MCDevinfoShell`, `MCDevinfoApp`, `MCDevinfoMain`, `MCDevinfoRepository`, `MCDeviceText` | instances for TLC |
| `DevinfoManager_proofs`, `DevinfoShell_proofs`, `DevinfoApp_proofs`, `DevinfoMain_proofs`, `DevinfoRepository_proofs`, `DeviceText_proofs`, `ResolvConf_proofs` | theorems and proofs |

The specifications are stacked: every behaviour of `DevinfoMain` is one of `DevinfoApp`, every
behaviour of that and of `DevinfoShell` one of `DevinfoManager`, which implements `CollectService`;
the application, and with it the program, implements `CommandService`, and the repository
implements `ReportEntries`. All these steps are theorems.

### Correspondence

*Atomicity.* Callbacks run to completion. A run of the timer callback is nevertheless modelled as
several steps (`Execute`, `NextItem`, ..., `Finish`), one per turn of the recursion in
`TDEVINFOManager_Progress`, with `loop = "progress"` excluding every other action until it ends. All
other callbacks are one action each. `loop = "dead"` is a program that has ended abnormally,
`"stopped"` one that was torn down.

*State.* `fState`, `fCollectCallbackUserData`, `fStateMonitorInterval`, `fStatus` and
`fOnGetCallback` are the struct members of those names; `fState` counts 0 (NOT_STARTED), the items,
`LastItem + 1` (DONE). `timers` holds the intervals of armed timers and `firing` that of the timer
whose callback runs, because a callback that returns `sse_true` asks for the same timer again.
`processes` are the shell processes that can still call back, each with the item that launched it
and the request it was launched for. `disturbed` is a history variable: the latest collection began
while a process of an earlier one was left, or a process has reported an error since. The start value of the collector's status is arbitrary:
the manager is a local variable of `moat_app_main` and its initialisation leaves the collector alone.

*Values.* In the manager's model `fRepository` maps an item to where its value comes from: nothing,
the configuration file, the blank string, or the requests during which it was read from the device.
That is what the properties tell apart. The contents, as a tree, are in `DevinfoRepository`.

*Storing callbacks.* The sixteen callbacks are of four kinds (`ItemPolicy`): `keepPreset` (vendor,
product, model, serial: SSE_E_NOENT keeps a preset or stores ""), `blankOut` (firmware version,
device id: SSE_E_NOENT always stores ""), `list` (interfaces, name servers, SIMs: append), `plain`.

*Getters.* Each getter is one of nine kinds, given by the answers it can hand to the callback
together with the status it leaves. A port is a function from items to kinds (`RiGetter`,
`ObsGetter`, `ArmadilloGetter`). Raspberry Pi uses the reference port's getters. A log line whose
conversion fits no argument is undefined behaviour; the model lets the program end there or go on.
Three kinds of getters have one (`MislogsKinds`): an interface without an address is logged with `%s`
on an integer, a failed search of `cpuinfo` with `%s` and no argument (`ports/ri`, lines 82 and 86),
and the IMSI on OpenBlocks IoT with `%[` (line 278 of its collector); in the manager's model they end
the program in `Crash`, in that of the texts at the line. The others are on the error paths of
timers and notifications (`loop' \in {"idle", "dead"}` where a timer cannot be armed).

*External code.* The source of the shell-command utility is not in the repository, so the model allows
what its callers leave open. The error callback of the ports only reports the error and sets
ABEND; it neither stops the command nor finalises it. Hence a process that has reported an error may
be over, or go on, read and complete later (`OnError`). The completion callback finalises the one
command structure, and a shell getter initialises it again: a process whose command stood there may
fall silent then, or not (`OnComplete`, `Launch`). `RuntimeMayFail` lets the runtime refuse timers,
asynchronous commands, notifications and, in the repository, objects and values. A refused addition
is taken to leave the object as it was. `sse_strndup` is taken to stop at a terminator like
`strndup`, whatever length it is given.

*Repository.* A tree is a function from the paths that exist to nodes; the root is implicit. An
operation is an operator from a tree to the set of its outcomes: the code it returns and the tree it
leaves. It succeeds (`ok`), finds something in its way or no list (`inTheWay`), or is refused by the runtime
at any object it creates on the way or at the value itself (`Refused`): the objects created until then
stay. The entries of the OS and of the client are set in a row (`OsRow`, `SsclRow`) up to the first
error, so that a refusal can leave a type without its version.
`last` records for the properties which operation was performed last, which entries it was about and
what it returned. `SetDevinfo` is the recursion of the same name: missing objects on the way are
created, a node on the way that is no object is an error. `DeviceValues` are the values that getters
deliver. An addition to a list gets a clone of the
list, adds to its links and stores the clone back; the empty list has no link. An entry without a
source that is present is a clone too, stored back with all that is below it (`SetMissing`).
`EntriesAssumption` says that no entry is another one or part of it and that lists are not set like
values, as is the case for the paths in the code (`hardware.platform.*`, `hardware.modem.*`,
`hardware.network.interface` and `.nameserver`, `hardware.sim`, `software.os.*`, `software.sscl.*`).
`ReportEntries` is the table that the callbacks believe they fill: `entries` is what `Table` finds at
each entry, `unusable` are those for which the configuration file is in the way (`Closed`).
`DevinfoRepositoryTests` runs the unit tests of `src/devinfo_unittest.c` on these operators: a test
is its sequence of operations, its expected JSON the tree that the text prints, and TLC evaluates
the comparison as an assumption of the runs of `MCDevinfoMain`. (They are not part of
`MCDevinfoRepository` because a mutant of the repository would fail them before its property.) An object in a list is represented by the string that names it.

*Report object.* `DevinfoMain` adds what the tree leaves out: which heap object the repository
points to. Initialisation and each reset make a new object and may replace it by the one that the
configuration file is parsed into.

*Texts.* `DeviceText` is one getter at work on one file. `source` says which kind of parser runs:
`proc` is the code of `DEVINFOCollector_ReadProc` (three other getters of the reference port repeat
it), `firmware` adds the extraction of the version on Armadillo-IoT, `cpuinfo` is
`DEVINFOCollector_FindEntryFromCpuInfo`, `sim` the file of OpenBlocks IoT's modem. `buff` is memory
indexed from 0 with bytes that were never written; `p` is the pointer of the loop that cuts line
ends, one turn per action; `looked` records how far the code has looked, and `end` where the line in
the buffer was terminated. A length of -1, which a line that is over one character behind the colon gives
(`ports/ri`, line 90), is the largest value of the unsigned `sse_size` (`AsSize`, `MaxSize`). The
`sim` texts are the pieces that `fgets` hands out: a line that does not fit comes in several, and a
piece may be shorter than the place of the number that is copied from it. Such a copy reads the
buffer as earlier lines left it; a byte that was never written may or may not be a terminator, and
`CopyLengths` is the set of the lengths that are possible. The files hold no terminators. The widths of the code (a buffer of 64, 128 or 256 bytes, 15 digits of an
IMSI, 19 of an ICCID, 11 of a phone number) and the keys are constants. `ResolvConf` is the test
that the read callback of the name servers applies to a line, as operators.

*Shell command.* `DevinfoShell` extends the manager with `fCommand`: the process whose command the
collector's one structure holds. A shell getter writes it, the completion callback finalises it, the
error callback leaves it. `fCommand` is what the structure holds; a process that was left over by an
error and whose command was overwritten stays in `processes`, or falls silent (`Launch`).

*Program.* `stage` is the place in `moat_app_main`. The event loop's actions are those of
`DevinfoApp`, at stage `run` only. The manager is a local variable whose memory is garbage until it is
initialised; `fDevinfo = Garbage` stands for it. The report object that belongs to a preset report is
the one that was loaded, so `BeginsCollection` conjoins the manager's step, which chooses the
report, with `NewDevinfo`, which chooses the object.

## 3. Runs

Bounds common to the manager's runs: `IntervalModulus = 4` (2 in `Manager_short`) stands for the 2^32 of the
interval's `sse_int`, so that the doubling interval wraps within three steps or fewer (the C code would take
about 68 years to overflow; the model is a superset of what can happen before). Two requests are
enough for every interference between a collection and an earlier or a concurrent one; requests are
not reused, so a run ends after each was told something, which is why deadlock is not an error
(`CHECK_DEADLOCK FALSE`: the program may also have died or been stopped). The short
report has three items: a MUST item with a preset, and two consecutive shell items (a string list and
an object list), so that a process that an error left over can reach the callback and the status of
the next item, of the next collection, and of its first item before it was tried.

| Run | Question | Result |
|---|---|---|
| `Manager_short` | type, timer chain, own process, own report, MUST items, no process left without an error, back-off, every run of the timer callback ends, the abstract service, every accepted request called back | holds |
| `Shell_Armadillo` | the shared shell command and what its processes can reach; five items of Armadillo-IoT's table (firmware version, interfaces, name servers, SIM, OS) | holds |
| `Main_commands` | contexts, notifications, report object, quiet between collections, the server's view; the whole program with two overlapping commands; the repository's unit tests | holds |
| `Repository_tree` | tree, failures lose nothing, others kept, lists grow, table of independent entries | holds |
| `Text_lines` | what the parsers take out of every short text; `resolv.conf` | holds |
| `Manager_firmware` | every accepted request is called back, with the firmware-file getter | **violated** |
| `Manager_wedge` | the manager does not stay occupied, full table of OpenBlocks IoT | **violated** |
| `Manager_interfaces` | reading interfaces does not end the program | **violated** |
| `App_refused` | every command answered SSE_E_INPROGRESS is notified | **violated** |
| `Repository_emptylist` | an addition that succeeds has added | **violated** |
| `Text_blank` | a value holds no line end | **violated** |
| `Main_start` | a program that cannot start returns | **violated** |

A process that fails ends its item, and its later events then reach whatever item comes next: the
shared status, so that an item is left before it is answered, and the callback registered at the
time, so that lines of one item land in the entry of another. `ReportIsOwn`, `MustItemsReported`,
`NoItemLeftRunning`, `CommandIsOwn` and `OnlyOwnEntryChanges` say how far this goes. Without a
`disturbed` collection nothing of it happens. In one that is disturbed, late lines change the entries
of items that the manager waits for (`AwaitedItems`) and no others, and each only while it waits for
that item; the one getter that can be skipped is that of the first item, because the others run
in the same turn of the loop in which their item is entered; and the command that is waited for is
still the one in the structure, while that of a left-over process may have been overwritten.
The exceptions are part of the properties because the code allows these effects; the runs fire the
steps that lead to them.

`Shell_Armadillo` lets no timer fail: the properties of the command do not speak of timers, and
`Manager_short` has them fail. In `Main_commands` the two items (a probe with a preset and a shell
list) are the shortest report in which late events of one collection can meet the next; a pool of two
report objects is what the code needs most at a time, so that an object that is not freed shows
at once.

`Repository_tree` has three values (the blank one, a preset, and one that getters deliver), one
platform entry, one list of at most two entries, the OS and client entries, refusals of the
runtime at every object and value, and nine configurations, each tripping a different operation: a
preset, a value or an object (empty or not) in the wrong place, a list with and without entries, and a
partial OS entry.

`Text_lines` has a buffer of seven bytes. The `proc` texts are all lines of up to three characters of
an alphabet with a blank and a carriage return, ended by a line feed, by both line ends or by
nothing, and lines of five and six characters, which fill the buffer or overflow it; the `firmware`
texts are built the same way behind two characters that are no space. The `cpuinfo` texts are all
files of up to three lines out of nine kinds of line (with and without key, colon, blank and value),
optionally with a last line that has no line end; the `sim` texts all files of up to three of eleven
lines, optionally with a last line without an end: lines of the three kinds and others, in every order
and repetition, with lines that are over before the place of their number, also behind longer ones
whose bytes are still in the buffer, and lines that do not fit and come in two pieces. `MaxSize = 15`
is larger than any text, as 2^w - 1 is. `VersionAssumption` takes the kernel's version to begin with
two characters that are no space; `PiecesAssumption` says what `fgets` does: a piece fits into the
buffer, and fills it if its line goes on. `LooksInLine` names the one getter that does look behind
a line: the phone number of a `+CNUM:` line that is over before the number's place
(`ports/obs_iot/src/devinfo_collector.c:284`). It then reports bytes of an earlier line, or bytes that were
never written, but stays in the buffer. `EntryIsRead` speaks of entries that are printed as the kernel
does and of those that are over one character behind the colon (empty value); the value of an entry without
a line end loses its last character.

### Findings

* `Manager_firmware`: Armadillo-IoT's firmware getter leaves COLLECTING on its failure paths
  (`ports/armadillo_iot/src/devinfo_collector.c:66-81`); the collection never ends.
* `Manager_wedge`: a timer that Collect cannot arm leaves the manager occupied
  (`src/devinfo/devinfo_manager.c:173`).
* `Manager_interfaces`: an interface without an IPv4 or IPv6 address is logged with a wrong
  conversion (`ports/ri/src/devinfo_collector.c:696,710,724`).
* `App_refused`: a command refused after SSE_E_INPROGRESS is never notified (`src/devinfo.c:170`).
* `Repository_emptylist`: an entry added to an empty list is lost
  (`src/devinfo/devinfo_repository.c:617-627`).
* `Text_blank`: the loop "Strip CRLF" never looks at the first byte, so that an empty line is read as
  a value that is its line feed (`ports/ri/src/devinfo_collector.c:127`).
* `Main_start`: when `moat_init` fails, a manager that was never initialised is finalised
  (`src/devinfo.c:275`).

### Fairness

`FairSpec` assumes that a callback that has started goes on (weak fairness of `Progress`), that an
armed timer fires (weak fairness), and that a shell process ends and its end is noticed although
timers keep firing in between (strong fairness of `ProcessCompletes`: a step of it is disabled only
while another callback runs, and the loop serves every ready watcher). No fairness is assumed of
requests, reads, errors or teardown. `MainFairSpec` assumes the same of the event loop inside the
program. `AppFairSpec`, used by `App_refused`, adds that the runtime runs the asynchronous
part of a command it has started, again strongly. Liveness allows for the end of the program: a dead
or stopped program owes nothing.

## 4. Proofs

TLAPS proves the following for all values of the constants: any number of items and requests, any
table of getters and policies, any width of the interval, any size of the buffer, any texts.

*Manager.* `TypeCorrect`: the type invariant. `OneWakeUpCorrect`: not inductive by itself; its
strengthening adds that during a run no timer is armed and a request that is being served was
accepted, so that the timer a run leaves behind is the only one. `BackOffRestartsCorrect` rests on
the same invariant: a collection is started only with interval 0, since every run that ends a
collection resets it. `ImplementsService`: initial states map to initial states and each step to a
step or a stutter, under the mapping *serving = the callback data unless the state is NOT_STARTED*,
*up = not stopped*; it needs the invariant for "the request being served was accepted".
`RunEndsCorrect`: a run of the timer callback is a recursion over the items that stops when an item
is collecting or the end is reached; `StepsLeft` counts what is left of it, and every turn
decreases it, whatever the getters answer. It has no other hypothesis than that the getters are of
the kinds of the code; that the turns do happen is the fairness of `Progress`.

`CollectingHasProcessCorrect` assumes that no getter leaves COLLECTING behind without a process (the
assumption that the firmware getter breaks). `NoItemLeftRunningCorrect` and `ReportIsOwnCorrect`
assume nothing about processes or ports. They rest on two invariants. `SoleProcess`: unless the
collection is disturbed at most one process is there; it belongs to the item being collected and to
the request being served, and the status is COLLECTING while it is. `AwaitedCallback`: while the
manager waits, the callback that is registered is that of the item it waits for, whatever other
processes do, so that the items it passes without waiting are out of their reach.
`MustItemsReportedCorrect` assumes that MUST items have getters that answer with a value or
SSE_E_NOENT (`AnsweringGetters`); its invariant says that the MUST items before the present one have
values already, but for a first item whose getter was skipped.
`QuietBetweenCollectionsCorrect` needs no assumption: entering DONE clears the callback, so
that a process which is still alive when no item is being collected has none to store through.

*Shell command.* `CommandIsOwnCorrect` and `OnlyOwnEntryChangesCorrect` have no assumption either. No
getter runs while the manager waits for a process, so nobody else writes the structure, and a process
whose completion finalises it also ends the wait; the rest is `SoleProcess` and `AwaitedCallback`.

*Application.* `AppImplementsManager`: every behaviour of the application is one of the manager,
so the manager's theorems carry over. `CallsBackLiveContextCorrect`, `ContextsAccountedCorrect`
and `NotifiedOnceCorrect` share one invariant that relates what the handler replied, whether the
asynchronous part is pending, what the manager told the request, and which contexts are allocated.
`AppImplementsCommands` is a refinement of what the server can see. A command's `Phase` is read off
four variables (the reply, the asynchronous part, the manager's word, the notifications); the mapping
is sound only because of that invariant, which excludes their other combinations, and of the
manager's, which says whose collection is going on. The step from *promised* to *dropped* is part of the
abstract specification because the code takes it: `App_refused` shows that it does.

*Program.* `MainImplementsApp` carries all of these over to the whole program, by
`MainCallsBackLiveContext`, `MainContextsAccounted`, `MainNotifiedOnce`, `MainOneWakeUp`, `MainRunEnds`,
`MainQuietBetweenCollections`, `MainCollectingHasProcess`, and the refinements
`MainImplementsService` and `MainImplementsCommands`. `HeapOwnedCorrect` and `MainTypeCorrect` rest on one invariant: before the
manager is initialised the pointer is garbage and no object is allocated, from then on the pointer's
object is the only one, and after the teardown there is none.

*Repository.* `TreeCorrect`: every node is reached through objects, for any configuration
file that is a tree; the argument is that a node placed where no path is blocked leaves a tree.
`FailureLosesNothingCorrect`: once one entry of a row has been set, a path through the same objects
cannot be blocked, so the second and third entry of the OS and of the client can only be refused; and
a refusal adds objects on the way and takes nothing away.
`OthersKeptCorrect`: from the definition of placing a node, by transitivity for entries set in a row.
`ListsGrowCorrect`: no entry that is set is a list or has one below it, and the tree invariant gives
that a list that exists has objects above it.
`RepositoryImplementsReport` is the strongest of them: under the mapping of `Table` and `Closed` each
operation is one of the table's. Placing a node at an entry changes neither the content of another
entry nor what is in its way, because entries are not prefixes of each other; a closed entry is
empty, because a tree has only objects above its nodes; and the entries of the OS, as those of the
client, have their objects in common, so that they are closed together and the operation fails
before it has stored any of them. A row that is refused is set in order up to the first refusal.

*Texts.* All seven properties of `Text_lines` follow from one inductive invariant with named parts.
`Control` says which variables are still unset at each place of the program, `Provenance` that the
lines still to be read are the rest of the text, `Cutting` what the loop has done to the bytes
before `p` and that it has left those behind, `Searching` that no line read so far has the key,
`Results` what a finished getter has found, and `Numbers` which of the modem's lines each number was
taken from. `TextTypeCorrect` is not a matter of shape: a value must be free of terminators, and
every value but the phone number free of bytes that were never written, for which the loop must have
cut inside the line. `LooksInLineCorrect` says where a getter can look behind its line, and that it
looks at nothing behind the buffer.
`AddressIsReadCorrect` and `OnlyKeyIsReadCorrect` say of every line of `/etc/resolv.conf`
what the run of `MCDeviceText` evaluates for the short ones.

*Model-checked only*: the liveness properties (`Completion`, `AcceptedIsNotified`), which are out of
the prover's reach, the unit tests, and the order of the name servers of a file, which `SelectSeq`,
a recursive operator, decides.

## 5. Not modelled

* The fields of a network interface (one entry of the list is one value) and the test of the
  machine's architecture by which the reference port chooses a getter's source: each is a table
  without state.
* JSON and Base64 text, logging (except where it is undefined behaviour), the Remove functions of
  the repository, which return SSE_E_GENERIC.
* The runtime and the shell-command utility beyond what the program uses of them: their source is
  not in the repository. Neither is what the utility does to the structure of a command that is
  initialised again while its process lives: the process calls back as before or falls silent.
* A command's memory against the teardown: a process that is alive when the program leaves its loop
  calls back no more, as the loop is gone.
* Build and packaging scripts.

What the repository refuses (a configuration file with a value where the report needs an object, or the
runtime) is in the tree's model only: `MustItemsReported` takes presets to be values of items and
every value to be stored. A refinement that links the manager's origins to the tree would close that
gap and is the next thing to do.

Met on the way, without a bearing on the models: `README.md:29` names a source for the model of OpenBlocks IoT
that its getter does not read, and the README's place of Armadillo-IoT's name-server file is not the one the
code passes to `cat`.
