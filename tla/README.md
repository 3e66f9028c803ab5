# TLA+ specifications of nvscope

nvscope is a shared library loaded with `LD_PRELOAD` into programs that use
NVIDIA GPUs in a container. The container sees the driver's files for every
GPU of the host but may use only some of them. The shim interposes libc calls
and hides the other GPUs from three discovery paths: the directory
`/proc/driver/nvidia/gpus`, the `CARD_INFO` ioctl, and two Resource Manager
(RM) queries that list GPU ids.

This directory models the state the shim keeps and the calls that change it,
checks the models with TLC on small instances, and proves the safety
properties for every instance with TLAPS.

## 1. The system

Paths below are relative to `src/src/` unless they start with `docs/`, `tools/` or `README`.

| Component | State | Operations | Interacts with |
| --- | --- | --- | --- |
| Descriptor tracking (`fd_map.c`, `preload.c`) | `g_fd_map`: number -> record, under `g_fd_map_lock`, which forks and signal handlers also meet | open*, openat*, opendir store a record; close removes it; ioctl, getdents64, readdir, openat look it up | the kernel's descriptor table, which it shadows; every filter depends on its answer |
| RM filter (`ioctl_filter.c`) | `g_allowed_gpu_ids`, its count, `g_ioctl_filter_lock` | after each ioctl on `/dev/nvidiactl`: learn ids, hide cards, compact id lists | descriptor tracking selects its calls; the topology gives it the allowed minors |
| Listing of the gpus directory (`preload.c`, `proc_filter.c`) | none of its own; the kernel's directory offset | getdents64 (filtered in place), readdir, readdir64 (filtered one by one) | descriptor tracking selects its calls; the topology gives it the allowed buses |
| Path check (`proc_filter.c`, `preload.c`, `fd_map.c`) | none | classify a path; make a path below the gpus directory absolute; deny `gpus/<bus>/...` of other GPUs | used by open*, opendir, stat, newfstatat |
| Topology detection (`proc_filter.c`) | `g_allowed_gpus`, `g_proc_filter_ready`, written once | list `/dev` and the gpus directory, read the information files, match minors and UUID | runs in the constructor; everything above reads its result |
| Configuration (`env.c`), wrapper (`tools/nvscope`) | environment, `g_nvfix_config` | options to variables to settings | decides which filters run |
| Logging, ioctl tracing (`log.c`, `ioctl_trace.c`) | none | print | none |

What makes it hard:

* The shim keeps a copy of something the kernel owns. It recognises a file by
  the path it was opened with and remembers that by descriptor *number*, but
  numbers are reused, duplicated, inherited, and released by calls that are
  not interposed (`closedir`, `dup2`, a `close` that fails after Linux has
  freed the number).
* The copy is updated in another step than the kernel's table, and every
  program thread takes part.
* The RM ids are learned from one kind of answer and applied to another,
  concurrently.
* A filtered answer must still be a legal answer: a listing must not end
  early, a compacted buffer must be well formed.

What makes each component correct: a descriptor is treated as the file behind
it deserves, and nothing else is filtered (tracking); only ids of allowed GPUs
are learned, before the process sees the cards, and lists agree with the
cards (RM filter); each visible entry is shown once, no other is, and a
listing ends where the directory does (listing); only files of hidden GPUs
are refused, whatever the spelling (path check); an assigned GPU is never dropped unless detection
is abandoned as a whole (topology); settings mean what the documents say
(configuration).

The hazards that follow from this are listed with their lines in
`PROJECT.json`.

## 2. Modules

| Module | Role | Models |
| --- | --- | --- |
| `FdTracking` | component | `fd_map.c`; the entry points of `preload.c` that write or read the map |
| `DescriptorView` | abstract specification | what tracking promises, without the map |
| `RmFilter` | component | `ioctl_filter.c`, the `ioctl` hook |
| `GpuAllowList` | abstract specification | what the RM filter promises about lists, without locks, loops and arrays |
| `GpusListing` | component | `getdents64`, `readdir`, `readdir64` on the gpus directory |
| `DirentFilter` | algorithm | `nvfix_filter_dirent64_buffer`, cell by cell |
| `Startup` | component | the detection in `proc_filter.c`, as the constructor runs it |
| `ProcPaths` | component | one hooked call with a path: recognition, normalisation, denial, record |
| `Launcher` | component | `tools/nvscope`, `env.c`, the constructor's choice of filters |
| `MapLock` | component | `nvfix_fd_map_set`, `get` and `remove`, access by access, with fork and signal handlers |
| `FdTrackingProofs`, `RmFilterProofs`, `GpusListingProofs`, `DirentFilterProofs`, `StartupProofs`, `ProcPathsProofs`, `LauncherProofs`, `MapLockProofs` | proofs | |
| `MCFdTracking`, `MCRmFilter`, `MCGpusListing`, `MCDirentFilter`, `MCStartup`, `MCProcPaths`, `MCLauncher`, `MCMapLock` | values for TLC | |

The modules share assumptions rather than variables. `Startup` establishes
what `GpusListing`, `RmFilter` and `ProcPaths` take as their allowed set, and
its `ViewsAgree` is why one set serves all three. `MapLock` justifies that
`FdTracking` takes each access to the map as one step. `ProcPaths` justifies
the classes of paths of `FdTracking`.

`PROJECT.json` maps each definition to the lines it translates. Operators
called "mutant of" something are plausible wrong versions of the definition
they precede; they are used only to check that the properties notice them.

### FdTracking

A step is one system call or one critical section of `g_fd_map_lock`, with the
thread-local code around it. `file` is the kernel's table and `fdmap` the
shim's; `pc`, `fd` and `path` say which hooked call each thread is in.

| Action | Code |
| --- | --- |
| `OpenDenied`, `OpenReal`, `Track` | `nvfix_open_common`: denial, real open, `nvfix_trace_and_track_open` |
| `Opendir` | `nvfix_opendir_common` |
| `OpenatLookup`, `OpenatReal` | `nvfix_effective_openat_path`, `nvfix_openat_common` |
| `CloseReal`, `Untrack` | `close` before and after the real call |
| `CallReal`, `Decide` | the system call, then the lookup, of `ioctl`, `getdents64` and each `readdir` |
| `Constructor` | `nvfix_constructor` |
| `CloseFails`, `Closedir`, `Dup2` | what the shim does not see; `Unseen` selects them |

Paths are abstracted to what the code distinguishes (`Files`), plus `alias`:
any of these files, spelled so that `nvfix_classify_path` does not recognise
it (`Named`). A path relative to a directory other than the gpus directory is
passed on as it is, whatever it leads to, so one that leads to a file the shim
knows is an `alias` too (`Resolve`). `/dev/nvidia-uvm` and `/dev/nvidiaN` are one class, since no caller tells
their kinds apart. `how` and `leftover` are ghosts that say how an open number
was obtained and which numbers were taken away unseen; no guard reads them.

### RmFilter

`Constructor`, `IoctlCards` and `IoctlList` begin a call, with any answer of
`CardAnswers` or `ListAnswers` and any outcome of the tests the code makes;
`LearnLock`, `LearnCard`, `LearnUnlock` and `MaskCards` are the two card
functions, one loop iteration per step; `ScanLock`, `ScanNothing`,
`ScanEntry`, `ScanUnlock` and `Write` are the two list functions, whose
differences (how a list ends, which one bounds its copy, what happens to the
rest of the array) are kept. `Return` ends the call. The ghosts record what
the driver answered, what was known when the lock was taken and what earlier
calls had shown.

Each list query has its own set of answers, as its array has its own size in
`nvidia_rm.h`. The array of attached ids holds 32 entries
(`nvidia_rm.h:26`), which is also the size of the table (`proc_filter.h:7`);
the assumption that it is not longer than `MaxGpus` says so. `GpuAllowList`
promises a list from which the unknown ids are missing (`Restricts`), without
saying how it is computed.

### GpusListing

Entries are named by their position in the kernel's listing. Every choice of
allowed GPUs is an initial state, so every arrangement of visible and hidden
entries is. Threads may share one descriptor (`getdents64`), or one thread
reads a stream (`readdir`). The descriptor is assumed to be recorded as the
gpus directory: whether it is, is the subject of `FdTracking`.

### DirentFilter

Offsets count cells of eight bytes, the alignment of the kernel's entries.
The model keeps one detail of the code that a coarser one would lose:
`entry->d_reclen` is read again *after* `memmove`, from the place the entry
was moved away from. An entry whose length exceeds what was dropped before it
by more than 16 bytes would overwrite its own `d_reclen`. What was dropped is
at least 24 bytes, so kept entries up to 40 bytes (names up to 20 characters)
are safe, and PCI bus names have at most 16. The bound is tight: with kept
entries of 48 bytes the offsets go astray, and `NVFIX_PROC_BUS_ID_MAX` would
admit them (up to 56 bytes). `ShortKept` is the premise of `UnreadIntact` and
`FilterExact`, not an assumption of the model: answers with longer kept
entries are checked too, and `TypeOK` says that whatever is found as `d_reclen`
then, each entry that passes the checks is read and moved inside the buffer.

The kernel produces well-formed buffers; malformed ones are included because
the function has checks for them. The reference of `FilterExact` knows no
offsets that move: a buffer is well formed when a set of entry starts exists
that is closed under "and the next one" (`Layouts`), and the result must hold,
at place n, the n-th cell of the kernel's buffer that belongs to a kept name.

### Startup

`OpenDev`, `TakeMinor`, `EndMinors` are the scan of `/dev`; `OpenGpus`,
`TakeInfo`, `EndInfos` that of the gpus directory; `BuildAllowed` is
`nvfix_build_allowed_gpus` and what the constructor stores. An open may fail,
a scan may end early (`getdents64` fails, or an entry is malformed), an
information file may be unreadable or hold anything of `Texts`. `Change` adds
or removes a device node or a GPU at any moment. Entries are scanned in any
order, one at a time. Names and numbers are sequences of digits, since the two
parsers and their overflow checks (`AddDigit`) are what must agree; other
texts are lines with a key and a value. `ever`, `stayed`, `lost` and `cut` are
ghosts: what was present at some moment or all the time, and what failed.

The driver is assumed to speak about the right GPU (`DriverHonest`): a line of
a GPU's file is true, or has a value the parser refuses.

### ProcPaths

Each initial state is one call (`open`, which also stands for `opendir`,
`openat`, `newfstatat`, `stat`), a descriptor and a path: where it starts (the
gpus directory by its name, by another name, or a descriptor) and up to
`MaxSegs` segments of which any may be empty, `.`, `..`, a bus, a directory
name, or too long. `Walk` is what the kernel makes of one segment and `Walked`
of all; `KeptNames` is the loop of `nvfix_normalize_relative_path`. `ExtractBus`,
`Classify`, `Normalize` and `Effective` are what the shim makes of them;
`Deny` and `Real` are the two outcomes. `ExtractBus` and `Classify` are two
copies of one recognition in the code, and are kept as two.

### Launcher

The wrapper is a loop over words: one action per option, `EndOptions` for `--`
or the first other word, `Refuse`, `Help` and `NoLibrary` for the exits,
`Launch` for the default of `NVSCOPE_IOCTL`, `LD_PRELOAD` and `exec`. What is
executed may again be `nvscope` (`StartWrapper`), or a program whose
constructor loads the configuration and detects the topology, if procfs
filtering is on (`StartProgram`). Variables exist under
two names; only the newer is ever exported. `asked` and `depth` are ghosts:
the last option given for each setting, and the wrappers passed. Whether
detection would find a GPU is chosen at the start (`detectable`).

### MapLock

A step is one memory access, or one lock operation. `frame` holds the call
under way for each process, thread and depth: `Begin` above depth 1 is a signal
handler that interrupts the thread wherever it is, and only the innermost
frame runs. `Fork` copies the memory, the lock included, and leaves the child
with the thread that forked; nothing in the code registers `pthread_atfork`.
`committed` is a ghost: what the completed calls made of the entry. One entry
suffices, as the lock is common and no call touches two.

## 3. Runs

| Run | Instance | Shows |
| --- | --- | --- |
| `fd_threads` | 2 threads, 2 tracked numbers, every call, seen or not, paths of 5 classes, `alias` and a refused one among them | `StaleOnlyWhileClosing`: a record filters a file it is not about only while a `close` of that number is unfinished or after an unseen call. `HookedOpensTracked`: an open by the known name is tracked when it returns, unless a `close` of that number was pending. `Discipline`: why. `AnswersFit`: an answer is treated as its file deserves although the record is looked up after the call, unless the number changed hands meanwhile |
| `fd_view` | 1 thread, 2 tracked numbers and 1 beyond the table, every file, interposed calls | `ImplementsView`: the table cannot be told from `DescriptorView` |
| `fd_race` | 2 threads, interposed calls | violation of `OpenDescriptorsTracked`, see below |
| `fd_closedir` | 1 thread with `closedir` | violation of `OrdinaryNeverFiltered`, see below |
| `rm_safety` | 2 threads, 4 allowed GPUs and a foreign one, 4 card answers, 5 arrays of attached ids and 4 longer ones of active ids, a table for 3 ids, fair | `LearnedSound`, `CardsTaught`, `ListsAgreeWithCards`; `ImplementsAllowList`, also while the table overflows; `LockReleased`: every path through a critical section unlocks |
| `list_safety` | 2 threads, 4 GPUs, every allowed set, fair | `ShownOnce`: each entry handed out is shown once or hidden, as it should. `EndsAtTheEnd`: the end is told at the end, unless a buffer can be all hidden. `ListingEnds` |
| `list_getdents` | 1 thread, 3 GPUs | violation of `AllowedAreListed`, see below |
| `dirent_compact` | every answer of up to 4 entries of 24 to 48 bytes, 6 kinds of rest | `UnreadIntact`, `FilterExact`, `TypeOK`, `Terminates` |
| `startup_failures` | 3 GPUs with 5 kinds of file each, 4 names in `/dev`, room for 2, `INT_MAX` = 25, one change at any time, fair | `AllowedAreAssigned`: no GPU is allowed that was not listed with a device node, or is not the wanted one. `HiddenOnlyIfLost`: one failure hides no other GPU. `ViewsAgree`: judging by bus and by minor is the same. `LoadEnds` |
| `paths_spellings` | 2 GPUs, 1 shown, all paths of up to 4 segments | `DeniedAreHidden`, `SpellingIrrelevant`, `RecordNamesFile` |
| `launcher_options` | every line of up to 3 words, and two wrappers with options; one setting, under either name or both; the user's own preloads and `NVSCOPE_LIB`; 3 installations | `SettingsAsGiven`: settings are what was said, and a topology is detected exactly where procfs filtering was. `PreloadKept` |
| `maplock_calls` | 2 threads that set, get and remove, a handler that sets over each, a fork at any moment, fair | `GetsWhole`: no lookup copies half of a call. `SectionsEnd`: the lock is released, except in the two cases the property names |

Why the bounds are enough. A stale or lost record needs one number and two
threads. Two numbers are enough
for a directory and a file opened below it, and a third one, in `fd_view`, is
beyond the table. The RM filter distinguishes allowed, foreign and invalid
ids; the lists contain each at the first, a middle and the last place, and the
card answers can teach one id more than the table holds. A listing differs only
in which neighbouring entries are hidden, and four GPUs give every pattern up
to four. The overlap in the compaction depends on one kept entry and what was
dropped before it; four entries cover a drop, a move and what follows.

In `Startup`, capacity 2 with three GPUs and three device nodes makes both
arrays overflow, a small `INT_MAX` puts one minor on the limit and another just
above it, and one change hits every gap between the scans. A path of four
segments has room for the two that matter and two that are dropped or too many. Settings do not influence each other in
`env.c`, so one is varied at a time; three words hold the wrapper, an option
and a value or a second option, and the longer lines are those whose interest
is a second wrapper. Each depth of handlers repeats the one above it, a fork of
a fork repeats the fork, and to a frame it interrupts a handler that takes the
lock is like any other.

The counters are bounded by `MaxChanges`, `MaxGpus`, `MaxSegs`, `Depth` and
the lengths of `Lines`; `Calls` names the calls made at each depth; nothing
else grows.

Deadlock checking is off where the modelled activity ends: a listing that is
finished, a function that has returned, a constructor or a wrapper at its end,
and, in `MapLock`, the deadlocks that `SectionsEnd` names.

### Disagreements with the documents

* **`fd_race`**. `close` removes the record after the real close. Between the
  two, another thread's open can get the same number and store its record,
  which the remove then wipes: an open `/dev/nvidiactl` is no longer filtered.
  `fd_map.h:25` says the map tracks descriptors 0 through 4095.
* **`fd_closedir`**. `opendir` stores a record, `closedir` does not remove
  it, and opening a path of no interest does not clear the slot. The next
  directory with that number loses its entries. `docs/safety-model.md:5-9`
  lists the discovery paths that are filtered.
* **`list_getdents`**. A chunk with hidden entries only is returned as length
  0, which means end of directory. It takes a buffer that holds a few entries;
  the C library's own buffers hold hundreds. `README.md:32` says the directory
  is filtered to the mounted devices.

In three more places the documents promise more than the code does; there the
properties hold with the exceptions they state.

* `HiddenOnlyIfLost` excepts GPUs whose own file could not be read and scans
  that were cut short: the rest of the allowed set still counts as valid, and
  an assigned GPU is hidden. `docs/safety-model.md:20` says that ambiguous
  detection prefers pass-through.
* `ImplementsAllowList` answers a list without any learned id unchanged.
  `docs/technical-notes.md:26` says returned arrays are compacted to the
  learned ids.
* `SpellingIrrelevant` is about paths relative to the directory's descriptor:
  absolute paths are compared as they are written. `README.md:32`.

Two settings interact in a way the documents do not mention. The topology is
detected for procfs filtering only (`preload.c:614-619`), so with
`NVSCOPE_PROC=0` or `--no-proc` the RM filter, though enabled, has no set to
filter by. `README.md:105-106` gives each variable a meaning of its own, and
`docs/safety-model.md:22` names `NVSCOPE_IOCTL=1` as the filter's guard.
`SettingsAsGiven` says when there is a topology; that the filter needs it is in
the code's own condition.

`SectionsEnd` names the two ways in which the lock of the map is lost for good: a
fork while another thread holds it leaves the child waiting in its next `open`
or `close`, and so does a signal handler that opens or closes a file over the
holder. No document promises otherwise.

One more can be read off without a model: `make install` puts the library in
`/usr/local/lib/nvscope` (`Makefile:8-10`), where the wrapper does not look
(`tools/nvscope:23-24`), so that the command of `README.md:66-69` takes the
branch `NoLibrary`. With `PREFIX=/usr`, and from the build tree, it works.

## 4. Fairness

`RmFilter` assumes weak fairness of each thread's steps inside `ioctl`: a
thread in the call is scheduled again. Nothing is assumed about who gets the
lock or about further calls. `GpusListing` assumes that a program that lists
keeps calling until it is told that the directory has ended, and weak fairness
inside the calls, which do not wait. `DirentFilter` is a sequential loop.
`FdTracking` has no liveness property. `Startup` assumes weak fairness of the
constructor as a whole, which runs before `main` and waits for nobody; that it
ends rests on each scan meeting a directory's entries once, which the mutant
that rescans breaks. `MapLock` assumes weak fairness of each thread's steps: a
thread that can run runs, and a mutex that stays free is got. Handlers
and forks are never required. `ProcPaths` and `Launcher` have no liveness property.

## 5. Proofs

Every safety property that a passing run checks, and both refinements, are theorems
`Spec => []P` or `Spec => Refinement`, for every value of the constants that
satisfies the module's assumption.

* **`FdTrackingProofs`**: `TypeCorrect`, and the invariant `TrackingInv`
  (`TrackingCorrect`) from which `NoStaleRecords`, `OpensAreTracked`,
  `OpensUndisturbed` (`Discipline`) and, for the step that looks a record up,
  `AnswersTreatedByFile` (`AnswersFit`) follow. The first two are not inductive.
  `Discipline` adds what they rest on: the thread about to store a record is
  the only one for its number and will store one that fits the file, because
  the kernel hands out only free numbers and programs do not close numbers that
  open has not returned; and a `close` that still has to remove its record is
  about a number that is free or was handed out meanwhile. The proof has one
  lemma per kind of step: reading, opening, freeing, storing, removing.
* **`FdTrackingProofs`, the view**: `TableIsView` is
  `SoleUser => (Spec => ImplementsView)`. `SoleUser` says what the program must
  be like: one thread, no call the shim does not see, nothing inherited that
  it would have to filter, and files of interest under their known names only. The
  instance of `fd_view` is one; `fd_race` and `fd_closedir` show what is lost
  without the first two. The table alone does not determine the view, since it
  lags behind the kernel inside a call: `SoleInv` says for each place in a call
  what the table will answer when the call gets to the kernel (`CallInv`), and
  that every number not opened by a hooked call deserves no filter. Opening,
  closing and forwarding map to the view's steps at the moment they take
  effect in the kernel, the lookups and updates of the table to stutters.
* **`RmFilterProofs`**: `TypeCorrect`; `OnlyAllowedLearned` (`LearnedSound`,
  which contains mutual exclusion); `ShownCardsAreLearned` (`CardsTaught`),
  from `CardsInv`: behind the loop index every allowed card has been learned,
  and the table only grows.
* **`RmFilterProofs`, the lists**: `DiscoveryPathsAgree` (`ListsAgreeWithCards`)
  and `FilterIsAllowList` (`ImplementsAllowList`), from `QueryInv`. Its parts:
  `LearnInv`, the table changes inside a critical section only and by ids of
  one answer, so that outside of it the abstract `known` is the table;
  `ListInv`, what a query has kept so far is its list's beginning restricted to
  the table, which stays the same while the lock is held, and afterwards to the
  table it saw; `PromiseInv`, the table a query sees holds all the ids that were
  shown when it began, until it overflows. `Restricts` is carried through the
  loop by `RestrictsEmpty` and `RestrictsNext`. A batch becomes known at the
  unlock of `CARD_INFO`, a query looks at the lock and answers when the array is
  written or left.
* **`GpusListingProofs`**: `TypeCorrect`; `ListingCorrect`, from which
  `EntriesShownOnce` and `NoEarlyEnd` follow. The strengthening is
  `CallsInProgress`: what a call in progress holds fills its buffer, or is the
  rest of the directory.
* **`DirentFilterProofs`**: `FilterCorrect`, from which `StaysInBuffer` and
  `UnreadStaysIntact` follow: the first for every answer, where a valid entry
  lies in the buffer and the writing offset never passes the reading one, the
  second from `ShortKept`. The strengthening is `GapIsHeader`: the distance of
  the two offsets is nothing or at least a header. `ReturnsWhatStays`
  (`FilterExact`) adds `ExactInv`: the reading offset is in every layout of the
  buffer (`AtEntry`), the writing offset counts the kept cells before the
  reading one, and each of these is at the place of its rank (`Copied`).
* **`StartupProofs`**, from `DriverHonest` and `GpusDiffer`: `TypeCorrect`;
  `OnlyAssignedAllowed` and `OneJudgement`, from `Collected` (what was
  collected was there, is numbered as its GPU, and only that is allowed);
  `NoneHiddenForAnother`, from `Accounted`: each GPU that stayed is still to
  come, or collected, or lost, or without a place. A parsed record is that of
  its GPU (`Genuine`) by lemmas about `LastValue` and `Parsed`.
  `NumberIsDecimal`, from `IntMaxAssumption`: for strings of any length, the
  number read is the decimal value (`Worth`, which has no limit), and only an
  empty string, one with another character, or one beyond `INT_MAX` is refused.
* **`ProcPathsProofs`**, from `PathsAssumption`, for paths of any length:
  `OnlyHiddenDenied`, `EverySpellingDenied`, `RecordsTellTheFile`. What a call
  answers and records is a function of the path (`AnswerInv`), so the work is in
  the lemmas about paths: `LoopFollowsWalk`, the kernel's walk and the shim's
  loop stay together segment by segment, and the loop loses no name;
  `AsWritten`, where a path leads that is judged as it is written, `.` and `..`
  in place of the bus included; and from both `JudgedIsReached`.
* **`LauncherProofs`**, from `WordsAssumption`: `ConfiguredAsGiven`, from
  `SettingsInv` (`Exported`: each variable is the last option, else the
  wrapper's default where neither name was set, else the user's);
  and `PreloadedBehindWrappers`, from `PreloadInv`. For any number of wrappers, which TLC cannot check.
* **`MapLockProofs`**, from `LockAssumption`: `TypeCorrect` and
  `NoTornRecord`. The strengthening is `LockInv`: a frame between lock and unlock
  is the holder's only one, and what it has done so far determines the entry
  from `committed`; when the lock is free, the entry is what was committed. A
  child whose lock came without its holder has no such frame, and none can
  begin. For any number of threads and any depth of handlers.

The provers take no induction theorem that has an operator as parameter. Where
a proof is by induction over data, as in `ProcPathsProofs`, the claim is put as
a set of numbers (`SetInduction`, from the well-foundedness of the natural
numbers), and a recursive function exists because a step that can be taken from
everywhere can be taken n times (`Iterate`).

Only model-checked: the liveness properties (`LockReleased`, `ListingEnds`,
`Terminates`, `LoadEnds`, `SectionsEnd`), which are out of the prover's reach.

## 6. Not modelled

* Logging, ioctl tracing and the resolution of the real functions with
  `dlsym`: output, or idempotent writes of one value. `read`, `fstat` and
  `fdopendir` only forward; `nvfix_fd_map_clear` is called by tests only.
* The probe and comparison scripts, packaging, the build (of the Makefile,
  only where it installs the library), the tests.
* The byte layout of RM structures. The model takes the tests on sizes and
  status as one condition.
* Information files of more than 8191 bytes, of which the code reads the
  beginning (the driver's have a few hundred), and configured UUIDs of more
  than the 95 characters that are kept.
* GPUs bound or unbound after the constructor: by design the topology is read
  once, and `HiddenOnlyIfLost` and `AllowedAreAssigned` are about what was
  there during the detection and what stayed.
* Two threads that read one `DIR` stream: the shim's loop, like the C
  library's buffer, is not made for it.

## 7. Plan

All components with state are modelled. What could follow:

1. `Views`: composition of `Startup`, `GpusListing` and `RmFilter` over one
   allowed set, with the abstract promise that a GPU visible on one discovery
   path is visible on the others. `ViewsAgree` and the assumptions of the
   modules cover its parts.
2. `g_ioctl_filter_lock` under fork and signal handlers, with the frames of
   `MapLock`; the code has the same shape.
