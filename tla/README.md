# A TLA+ model of PAPI

This directory models PAPI 3, the Performance API library under `src/src`: the
portable layer (`papi.c`, `papi_internal.c`, `extras.c`, `multiplex.c`) on the
Linux perfctr substrate for P6 and Athlon processors (`perfctr-p3.c`). Paths and
line numbers in this file, and in the comments of the modules, are relative to
`src/src`.

TLC checks the models on small instances; TLAPS proves the theorems of the
modules whose names end in `Proofs` for every value of the constants. `PROJECT.json`
lists the runs, the lines every definition stands for, the mutants that show each property
can fail, the hazards, and the findings.

## 1. Inventory

PAPI lets a thread gather hardware events in *EventSets*, start and stop them,
and have a signal delivered when a counter overflows.

| Component | State | Operations | What makes it hard | What makes it correct |
|---|---|---|---|---|
| **Run control** (`papi.c`, `extras.c`, `perfctr-p3.c`) | `EventSetInfo_t.state` (RUNNING, STOPPED, OVERFLOWING), `ThreadInfo_t.running_eventset`, the counters programmed by `vperfctr_control`, `_papi_hwi_using_signal`, the SIGPROF disposition, `ITIMER_PROF`, static `ovalue` | create, add, remove, destroy, `PAPI_overflow`, `PAPI_start`, `PAPI_stop`, `PAPI_reset`, the signal dispatcher | no lock around the process-wide signal state; signals between any two steps of a call; failing system calls halfway | the records of "running" agree; one set per thread is on the counters; a signal always meets the dispatcher; due overflows are delivered |
| **Events of a set** (`papi_internal.c`, `perfctr-p3.c`) | `EventInfoArray`, `NativeInfoArray` with owner counts, the control state (event select registers) | `PAPI_add_event`, `PAPI_remove_event`, `PAPI_cleanup_eventset` | presets share native events; a call that fails after it changed half of them; positions cached in the events | owners match users; a failed call changes nothing; each event reads its own counters |
| **Counter allocator** (`_papi_hwi_bipartite_alloc`) | none | one function, recursive | greedy pass with backtracking | succeeds exactly when an assignment exists |
| **Multiplexing** (`multiplex.c`) | per thread a list of master events with `uses` and `active` counts, `cur_event`; per set the list `mev`; the timer, the signal mask | add, remove, start, the SIGPROF handler, read, reset, stop, cleanup | sets share master events; restarts fail inside the handler; one timer for several threads | master events live as long as they are used; the current event is active; every active event gets its turn |
| **Overflow and profile tables** (`papi.c`, `papi_internal.c`, `extras.c`) | arrays of events, deadlines, thresholds, buffers in one allocation | `PAPI_overflow`, `PAPI_sprofil`, `_papi_hwi_dispatch_profile`, and what remove and cleanup do to them | the arrays are laid out one element apart and overlap; profile and overflow tables are kept in step by hand | each overflow is delivered for the event it happened to, with that event's threshold and buffer |
| **EventSet map** (`papi_internal.c`) | `dataSlotArray`, `totalSlots`, `availSlots`, `fullSlots` | create, look up, free, grow | written under `INTERNAL_LOCK`, read without it | a handle denotes one live set |
| **Thread list** (`threads.c`) | circular list of `ThreadInfo_t`, thread-local pointer | look up or create, register, unregister, shutdown | shutdown while other threads hold pointers | the list holds the registered threads and nothing freed |
| **Library initialisation** (`papi.c`) | `init_retval`, `init_level`, the static `_in_papi_library_init_cnt` | `PAPI_library_init`, `PAPI_shutdown`, `PAPI_is_initialized`, `PAPI_thread_init` | concurrent first calls | one initialisation; every caller returns |
| **Memory tracker** (`papi_memory.c`) | doubly linked list of allocations | malloc, realloc, free, valid_free, shutdown | `MEMORY_LOCK` and nested calls | the list holds the live allocations |
| **High-level interface** (`papi_hl.c`) | per-thread `HighLevelInfo` | start, read, accumulate, stop, flips, flops, ipc | a client of the low-level calls; failures halfway | the state it keeps agrees with its EventSet |
| Preset and native tables, substrate vector | static data | look-ups | - | data, not behaviour |
| Other substrates, wrappers, utilities, tests, perfctr, libpfm | - | - | - | not modelled |

How they interact: every call looks its handle up in the EventSet map and the
calling thread up in the thread list. Run control calls the substrate, which
reads the control state that the events component wrote. The substrate, or the
interval timer, raises SIGPROF; run control's dispatcher looks at
`running_eventset` and the overflow tables and calls the user's handler or the
profiler. Multiplexing installs a SIGPROF handler of its own and calls
`PAPI_start` and `PAPI_stop` on EventSets that it creates for its master events.
The high-level interface is a client of all this.

`PROJECT.json` lists the hazards, each at its line, with the properties that
cover it or the module that is to cover it.

## 2. Modules

| Module | What it is |
|---|---|
| `RunControl` | run control, interleaved per observable step |
| `RunControlMC` | two threads, two sets, one or two timers for TLC |
| `RunControlProofs` | theorems about `RunControl`: types, run states, counters |
| `RunControlSignalProofs` | the theorem about its SIGPROF handler |
| `EventList` | abstract: what an EventSet promises of its list of events |
| `EventSetNatives` | the events component; implements `EventList` |
| `EventSetNativesMC` | events on three counters, and on those of a Pentium III |
| `EventSetNativesProofs` | the theorems about `EventSetNatives`, checked by TLAPS |
| `Bipartite` | the counter allocator, against a reference definition |
| `BipartiteProofs` | the theorems about `Bipartite`, checked by TLAPS |
| `HandleMap` | abstract: what the map from handles to EventSets promises |
| `EventSetMap` | the dynamic array, its lock and its unlocked readers; implements `HandleMap` |
| `EventSetMapProofs` | the theorems about `EventSetMap`, checked by TLAPS |
| `Multiplex` | multiplexed sets of threads, the handler, the timer |
| `MultiplexMC` | one or two threads with two sets |
| `MultiplexProofs` | the theorems about `Multiplex`, checked by TLAPS |
| `ThreadRegistry` | abstract: a set of threads that join and leave |
| `ThreadList` | the circular list of threads and its lock; implements `ThreadRegistry` |
| `ThreadListProofs` | the theorems about `ThreadList`, checked by TLAPS |
| `HighLevel` | the high-level interface as a client of the low-level calls |
| `HighLevelMC` | five events on three counters |
| `HighLevelProofs` | the theorems about `HighLevel`, checked by TLAPS |
| `OverflowTable` | the overflow table of a set, in its memory layout |

### RunControl

The state is the code's: three records of "this set runs" (`stoppedBit` and
`runningBit` of `ESI->state`, `running_eventset` of the thread, `ctx` for what
`vperfctr_control` put on the counters), the overflow attribute (`overflowing`,
`entry`, `deadline`, `intEnable`), and the process-wide signal state.
`PAPI_start` and `PAPI_stop` are cut where another thread or a signal can see the
difference: `pc[t]` names the next step. Calls that only touch the calling
thread's stopped set (create, add, `PAPI_overflow`, remove, destroy) are one
action each. A signal (`TimerTick`, `PmcOverflow`) may come on a thread between
any two of its steps; a handler is one action, as the signal it handles is
blocked in it and only its own thread's set is touched.

`TimerOf` says whether `ITIMER_PROF` belongs to the calling thread (LinuxThreads,
where threads are processes) or to the process (NPTL); the code runs on both.
`FailingCalls` lists the system calls that may report an error.

Kept from the code although it looks odd: `PAPI_start` tests only
`running_eventset`; `PAPI_overflow` called twice for an event toggles the
OVERFLOWING bit off with the entry left in the table and counts the signal up
again; `ovalue` is one static variable; `PAPI_stop` that fails in the substrate
leaves the set RUNNING after its signal and timer were given up, while one whose
timer cannot be stopped returns before it gave up anything (papi.c:852-854);
`PAPI_reset` leaves the software deadline where it was.

Abstracted: a set has at most one event, counts are numbers from 0, thresholds
are one constant, the user's handler does nothing, the user calls only from the
thread that created the set.

### EventSetNatives, EventList, Bipartite

`EventSetNatives` keeps one stopped EventSet as the code's structure `esi`. Each
call is one action, as it runs in one thread and nothing else reads the set
while it is stopped. An add folds `AddNative` over the natives of the event, and
then takes one of four ways: the array is full and what was done is undone;
nothing new, and positions are copied; the allocator accepts, and array, control
state and all positions are redone; or it refuses, and everything is undone. A
removal is the owners' loop, the compaction loop (`FillSlot`, folded over the
slots) and the control state. `AddEvent` uses `Allocatable` for the allocator's
answer; `Bipartite` has the recursive algorithm itself, with the substrate's
`bpt_map` routines, against the existence of an assignment, so the two fit
together (`ServesAnySet` in `BipartiteProofs`).

In `Bipartite` the list of a call is a sequence of selectors. `ScanQueue` is the
while loop over the queue of exclusive events, folded over its turns: it has at most
one for each event, since no event is queued twice. `Meet` is one turn, with the inner
loop over the other events done at once, as that loop reads of each event only its
own selector and that of the head, which it does not change. `bipartite_alloc` is a
recursive function: `Rest` is the list of unmapped events, each counter of the
first is tried on a copy of its own (`Place`, `FirstFit`: the backup list of the
code), and the one that works is copied back (`Update`). On failure the code leaves a
half-preempted list. Nobody reads it, as `_papi_hwd_allocate_registers` drops its
array and the recursion restores the backup, so the answer `NoMapping` has no list.

`EventList` is the abstract specification: a list of events and the one that
overflows. An event is accepted exactly when it is new, there is room, none of its
natives is the event that overflows (papi_internal.c:664-673, 698-705), and the
natives of all events can be counted at once. `EventSetNatives` implements it under
the mapping `added <- Codes(esi)`, `overflow <- esi.overflow` (property
`KeepsPromise`); the content of that is that sharing, owner counts and roll-back
never make the array differ from what the list needs, and that what an overflow
does to the registers never makes an add fail.

Hardware overflow is in it for one event at a time, turned off before it is turned
on again. perfctr wants the interrupting counters last in its list, so
`PAPI_overflow` swaps the event's register with the last counting one (`Swap`), and
the positions cached in events and native events must follow. Nothing else is
asked of the set: events may be added and removed while another one overflows, and
an overflow may be turned on in a set that a removal left wrong
(`EventSetNativesRemove`). In such a set the position of the event may be another
event's register, or one that nothing programs. With three counters: add n1, n2, n3;
remove n1; turn the overflow of n3 on, which has the stale position 2; remove n2;
turn it off. The register that is taken out of the interrupting ones was behind
those counted, and `nrictrs` becomes -1. On two counters: add n1, n2; remove n1; turn
the overflow of n2 on and off, and the swap leaves the old command of n1 behind the
registers in use, where `clear_cs_events` does not reach it and the next add or's
another into it.

The properties therefore tell three kinds of sets apart. A set is right when every
event reads its own counters (`EventsReadTheirOwn`), `Clean` when nothing is left
behind the programmed registers, `Tidy` when also the registers that interrupt are
the last ones and the overflowing event's. `OverflowMovesRight`: in a set that is
right and tidy, an overflow turned on or off leaves it right. `AddSetsRight`: an add
that brings in a native event makes any clean set right, whatever a removal had
mixed up. `InterruptsStayLast`: a tidy set stops being tidy in one way only, when an
overflow is turned on or off in a set that is not right; adds, failed adds and
removals, before and during an overflow, never do it. `TypeOK` bounds what
happens in the others: `nrictrs` stays within -1..1 and positions within the array.

Two things of the code that no property speaks of: an add that brings in a native
event while an overflow is on rewrites the control state, which clears
PERF_INT_ENABLE, `nrictrs` and with it the overflow, although the table still has
it (the model follows the code; a set in which nothing interrupts is tidy); and a
second `PAPI_overflow` of the same event counts `nrictrs` up again, which is why the
model turns an overflow off before it turns it on.

### OverflowTable

The tables of all overflowing events share one block. `mem` is that block in words
of four bytes, and an element of an array is the word where the code's pointers
put it, which is one element, not one array, behind the array before
(papi_internal.c:265-269). With one entry nothing overlaps. With two, the
threshold of entry 1 is the index of entry 0, and the index of entry 1 is the
code of entry 0; `EachHasItsEntry` says what the manual promises instead.
`ctests/overflow_twoevents.c` shows one consequence: turning the overflows off by
code finds no entry, and `PAPI_cleanup_eventset` returns PAPI_ENOEVNT.

Beyond the property: the index in the table is not adjusted when an earlier event
is removed, so the dispatcher reads another event's count; and an entry stays in
the table when the substrate refuses the overflow (papi.c:1588). `PAPI_add_event`
refuses a code that the table of an overflowing set still has
(papi_internal.c:698-705).

### HighLevel

The record `hl` is the thread's `HighLevelInfo` together with the EventSet it
names. Each call is one action: only its own thread works on it. The low-level
calls beneath are taken as the other modules have them between calls: an event is
accepted when `EventList` accepts it, a start is refused when the thread runs
another set (`userRuns`, a set the program drives itself), and `FailingCalls`
says which substrate calls may fail.

A `PAPI_start` that fails leaves the events in the set. The next
`PAPI_start_counters` adds its own behind them, so that its values are of other
events, and `PAPI_stop` writes more of them than the caller's array holds. The
history variables `leftover` and `asked` record what failed calls left, in the order
they added it, and the argument of the call whose counters run.
`EventsAreTheCalls` says that the EventSet holds the one and behind it the other,
event for event. It keeps a call's events together however calls fail, and where
nothing failed it says that the values are the call's own. A rate call meets its own
PAPI_TOT_CYC in a leftover set, is refused and cleans up, which is also why a series
never starts with an old total (`SeriesStartsAtZero`).

Which events the CPU has (`present`) is chosen at the start from `Platforms`. On one
without PAPI_TOT_CYC a rate call adds its first event and returns at
papi_hl.c:239-240 without cleaning up (`FirstRateUnknown`), so that this event is
left too. `PAPI_stop_counters` returns PAPI_OK when `PAPI_stop` reported an error
(papi_hl.c:417); nothing has changed then.

### Multiplex

A thread's list of master events is a sequence of event codes, newest first as
`mpx_insert_events` links them; `uses` and `active` are the counts in the master
events. `Kept` is the one list that is left when others are unlinked from it.
Between `mpx_hold` and `mpx_release` a thread takes no tick, and no other
thread touches its master events, so that stretch is one action. A start
is cut twice: between the test of `running_eventset` (papi.c:748), which the calling
thread makes with the signal open, and `mpx_hold`; and before `mpx_startup_itimer`,
which runs after the signal was released.

`running_eventset` is the master event whose own EventSet runs: `PAPI_start` and
`PAPI_stop` on master events read and write it, and each of them may fail in the
substrate as in `RunControl`. The handler drops both results (multiplex.c:571, 635).
If its stop fails, `cur_event` passes on and `running_eventset` does not, so that
the following start is refused; `stopFailed` records that this has happened, and
from then on `CurrentIsActive` no longer says that nothing but the current event is on
the counters. A stop of the current event in `MPX_stop` (multiplex.c:1019) that fails
is the call's result when no other event is active; otherwise the next event's start
is refused. The starts in `MPX_start` and `MPX_stop` are asserted to succeed
(multiplex.c:799, 1035): where they do not, the program ends (`pc = "aborted"`). A
master event that is freed while its EventSet still runs (after a stop that failed)
leaves `running_eventset` on memory that was given back, `Freed`.

Two assertions of `mpx_delete_events` and `mpx_delete_one_event` can fail. When
a restart failed in the handler, `running_eventset` is NULL while a multiplexed
set is running, so `PAPI_start` accepts that set a second time and activates its
events twice; after the stop they are still active, and a removal meets
"If it's no longer used, it should not be active!" (multiplex.c:1235-1236). The
model goes to `pc = "aborted"` and stops; the invariants that read the
structure being torn down are stated for a program that is still alive.

Left out: the counts and their extrapolation, `PAPI_read` of the current event (taken
to succeed, as multiplex.c:714 asserts), `is_a_rate`, the Windows code, and
the `PTHREADS` variant, in which the thread that caught the tick passes it on
(no makefile defines that macro). The calls that only read (`MPX_read`,
`MPX_reset`) change nothing that is modelled.

### ThreadList, ThreadRegistry

`ThreadList` has both builds: with thread-local storage `mine[t]` is the thread's
record, without it a search of the list finds it and makes it the head. The calls
are cut at the lock, at each element of a walk and at each store, since a fork may
cut them there, and so may a thread that does not hold the lock if the code let
it. The lock does nothing until `PAPI_thread_init` sets the id function; the
manual has that called before any other thread calls. Initialisation,
`PAPI_thread_init` and `PAPI_shutdown` are one action each, while no thread is
inside a call. GLOBAL_LOCK, which `_papi_hwi_init_global_threads` takes
(threads.c:423-438) and whose unlock does nothing if the id function was reset in
between, is left out. A fork keeps the calling thread, the list and the lock as they are,
the child's `PAPI_library_init` starts a new list and frees the locks
(`lock_init`).

The list is read as the smallest set that holds the head and is closed under
`next` (`Listed`); `ListIsRing` says that it is a ring of allocated records.
`ThreadRegistry` is the abstract specification, a set of threads that join and
leave one at a time; the refinement maps the list to the threads that own its
records.

`LeaveFirst` is the rule that other threads unregister before one shuts the
library down. Without it (`LeaveFirst = FALSE`, two threads, `MaxThreaded = 2`)
`LockReleased` is violated: `_papi_hwi_shutdown_global_threads` resets the head
and the pointer of its caller only, so after a new initialisation a thread that
kept its pointer unregisters a record that is not in the list, and the loop of
threads.c:213 runs for ever with THREADS_LOCK held. The rule reaches one
initialisation too: a forked child whose `PAPI_library_init` fails at papi.c:265
keeps its pointer to the parent's record, and nothing stops another thread of it
from trying again; the first one then holds a record that is not in the new list.
The comment above the loop,
"short circuit if we've seen the head twice", says otherwise, and the test for
that (threads.c:218) is never reached, nor is its return without an unlock.
Others seen on the way: PAPI_THREAD_LEVEL_INITED is set even if the id function
was refused (papi.c:91), and `_papi_hwi_set_thread_id_fn` reads through a NULL
head when the only thread has unregistered (threads.c:326).

### EventSetMap, HandleMap

`EventSetMap` cuts the calls where a thread that holds no lock can tell the
difference. A creation allocates its `EventSetInfo_t`, takes `INTERNAL_LOCK`,
grows the array when `availSlots` is 0 in the three steps of
`expand_dynamic_array` (realloc, the assignment of the new address, the memset
and the new counts), fills the lowest free slot and releases the lock, and reads
the handle back from the structure. A look-up is the bound check, the load of
`dataSlotArray` and the load of the slot. A destruction looks its handle up,
frees the structure, and clears the slot under the lock. The search for a slot
and the memset are one action each: they only touch NULL or new slots, which no
handle of a program names.

The heap is modelled as far as it matters. An `EventSetInfo_t` is its address,
and may be handed out again as soon as it was freed; so it is in a build with
PAPI_NO_MEMORY_MANAGEMENT (Makefile.irix-mips:13), while the default `papi_free`
gives back only its own record (papi_memory.c:186-200), of which the model allows
more than happens. `ThreadList` does the same. `block` names the memory
that holds the array; `Realloc` may move it or not, and new memory holds `Junk`.
A look-up that loads the slot from a block that is no longer the array's goes to
`"undefined"`, where the behaviour ends; the run `EventSetMapGrow` shows that this
happens, and every other statement is about behaviours in which it does not.

A program hands in only handles it was given and not yet destroyed, and one
thread works with a handle; RELEASENOTES.txt:271-274 treats a look-up of another
thread's EventSet as a problem to debug, and the DEBUG build can refuse it. `Free` is the
destruction of an empty, stopped set; `Found` stands for any other call.

`HandleMap` is the abstract specification: a set of handles with the EventSet
and the thread of each, where one step creates, looks up or destroys.
`EventSetMap` implements it with the table read off the slots in use
(`HandleTable`), where a slot whose structure is already freed no longer counts.

## 3. Runs

| Run | Shows |
|---|---|
| `RunControlMC` | Two threads, two sets, one process-wide timer, all three system calls failing at will: `TypeOK`; `RunStateAgrees`; `CountersNotStolen` (a start never reprograms counters that are in use). |
| `RunControlSignals` | A timer per thread, no failures, fairness: `NoStockHandler` (no armed timer or interrupting counter without the dispatcher), `DueIsServed` (a due software overflow reaches the user's handler). |
| `RunControlResume` | violation of `RunningSetCounts`: an overflow between `vperfctr_control` and the assignment of `running_eventset` leaves the counters suspended. |
| `EventSetNatives` | Three counters, six events of five natives, three of them with restricted counters, one overflow at a time in any set: `TypeOK`, `OwnersMatch`, `InterruptsStayLast`, `AddSetsRight`, `OverflowMovesRight`, `FailureLeavesNoTrace`, `KeepsPromise`. |
| `EventSetNativesRemove` | violation of `EventsReadTheirOwn` on two counters: a removal that moves a native event down keeps the register bits of the removed one. |
| `Bipartite` | `AllocatorIsExact` for every list of up to four selectors on four counters (69,904 lists; `Exact` proves it for all). |
| `Multiplex` | One thread, two sets, two events, failing starts and stops, fairness: `TypeOK`, `UsesMatch`, `CurrentIsActive`, `TicksArrive`, `TurnComes`. |
| `EventSetMap` | Two threads, three EventSets, an array that grows from one slot to four: `TypeOK`; `AddFindsSlot` (`PAPI_EBUG` of `add_EventSet` is never returned); `KeepsPromise` (the refinement); `LockReleased`. |
| `EventSetMapGrow` | violation of `NoStaleArray`: the array moves between the two loads of a look-up. |
| `ThreadList` | Three threads, both builds, three initialisations, fork: `TypeOK` (with: who is between lock and unlock holds the lock), `ListIsRing`, `OneRecordEach`, `KeepsRegistry` (the refinement), `LockReleased`. |
| `HighLevel` | Five events on three counters, CPUs that have them all or lack one, failing starts and stops: `TypeOK`, `LevelAgrees`, `EventsAreTheCalls`, `SeriesStartsAtZero`. |
| `OverflowTable` | violation of `EachHasItsEntry` with two overflowing events. |

Each property has a mutant in its module, a plausible slip in the code (a wrong
sign, a missing test, a forgotten reset) with which TLC finds it violated.

### Bounds, and why they suffice

* `RunControl`: two threads are what it takes to interleave on the signal state,
  and two sets give one thread two sets or each thread one. `Threshold = 1`:
  only count against deadline matters. `MaxCount` is 0 where counts do not
  matter and 1 where an overflow must become due. `MaxSignal` (2 or 3) bounds the
  reference count, which repeated `PAPI_overflow` calls raise without limit: it
  lets both sets hold a reference, and one of them a repeated one.
  `SignalFloor` stops the count at -1, which a stop that is retried after a failed
  `vperfctr_stop` reaches, and repeated retries would pass.
* `EventSetNatives`: three counters are what it takes for a removal to leave a stale
  position behind the registers in use and for `nrictrs` to reach -1. The events share
  natives in pairs and in threes, the array can overflow at the first, second and
  third native of a preset, and n3, n4 and n5 compete for two counters. Nothing else
  bounds it: the state space is finite.
* `Multiplex`: threads share only the handler, which is never removed, and the
  timer, so with a timer each they do not affect each other, and one thread shows
  all. Two events let the turn pass, and one be stuck on the counters while the other is
  current. `MaxDegree = 2` makes a set full;
  `MaxActive = 2` lets two sets share an event, or one be started twice in the
  case above.
* `EventSetMap`: two threads are a reader and a writer, or two writers that wait
  for each other; one slot that grows to two and to four makes the array full
  with one and with two EventSets, and three EventSets fill more than half of the
  largest array, so that realloc succeeds twice and fails once. Handles are reused
  and addresses come back within these bounds.
* `ThreadList`: three records tell apart the three cases of `insert_thread`, and
  let a removal meet the head, its neighbour and neither. `MaxInits = 3` lets the
  library be initialised again, after a failure, a shutdown or a fork, in a
  process whose memory has the old list, and once more after that failed (with two,
  the pointer that a failed initialisation leaves behind is never used);
  `MaxThreaded = 1` has threads only the first time, and the others show the reset.
* `HighLevel`: argument lists of up to two events on three counters, so that two
  calls whose events pile up reach the last counter and pass it; two of the five
  events exclude each other. `MaxTotal = 2` tells a fresh total from an old one.
* `OverflowTable`: two events and two thresholds are the least that show the
  overlap.

### Fairness

`RunControl!Fairness`: a thread inside a library call runs on (its steps are
never blocked), and an armed timer expires again and again. Nothing makes the
program call or the counters count, and `DueIsServed` needs neither.
`Multiplex!Fairness`: the steps of a start that is under way are taken, and a
thread whose timer is armed gets, again and again, a tick after a slice of at
least `MPX_MINCYC` cycles: the timer runs on the CPU time of the thread, which
the counters count. But each `MPX_start` calls `setitimer` again (multiplex.c:258),
which begins the interval anew, and a program that starts sets faster than the
interval gets no tick at all. So ticks are promised only to a thread whose running
timer is not set again for ever (`Again`), and `TurnComes` excepts the same
programs; any finite number of starts delays it only. Whether the stops and starts in
the handler succeed is left open: `TurnComes` holds although every one may
fail, because a failed stop also passes the turn (multiplex.c:621).

`EventSetMap!Fairness`: a thread inside a call takes its next step when that step
stays possible. The lock is a spin lock without a queue, so nothing promises that
a thread that waits for it ever gets it, and only `LockReleased` is claimed.
`ThreadList!Fairness` is the same, and so is its `LockReleased`; after a fork the
holder may be gone, which the property leaves out.

Deadlock is checked except in `Bipartite` (one call, then the end), `Multiplex` (a
failed assertion ends the program), `EventSetMap` (so does a read of freed
memory) and `ThreadList` (the initialisations are bounded).

## 4. Proofs

`RunControlProofs` proves for any numbers of threads, sets and timers, any
assignment of timers, any failing calls and any bounds, from
`RunControlAssumption` alone:

* `TypeCorrect`: `Spec => []TypeOK`,
* `Invariance`: `Spec => []RunInv`,
* `RunStates`: `Spec => []RunStateAgrees`,
* `NotStolen`: `Spec => CountersNotStolen`.

`RunStateAgrees` is not inductive: it says nothing of threads that are inside a
call. `RunInv` adds three things. `Ownership`: the set a thread is calling on is
its own, and a thread runs no set of another, so that steps of one thread
leave alone what another's invariant reads. `CallInv`: what holds at each label
of a call, for instance that from `hwd_start` on the thread's `running_eventset`
is still NULL, so that only its own later step sets it. `BitsInv` and
`CountersInv`: the bits of a set and the counters of a thread as functions of
`running_eventset`, for idle threads and at each label. Together they say that
`ctx` names a set only if that set's owner is between its `HwdStart` and its
`HwdStop`; hence the last theorem, as the start's own test then rules out a
programmed counter. The proof has a lemma for the steps of a call, one for the
hardware and signals, and one for the calls on stopped sets, each split by
action and by conjunct.

`RunControlSignalProofs` proves `HandlerThere`: `Spec => []NoStockHandler` for any
threads, sets and bounds, under two premises besides `RunControlAssumption`: each
thread has an interval timer of its own (`OwnTimers`), and `vperfctr_stop` does not
fail (`StopsWork`); `setitimer` and `vperfctr_control` may. Neither premise can be
dropped: TLC finds the handler missing with one timer for the process, and with
`FailingCalls = {"vperfctr_stop"}` in `RunControlSignals.cfg`, where a stop that is
tried again counts the same signal down twice. The invariant `SignalInv` compares
`_papi_hwi_using_signal` with its users: the sets with a hardware overflow entry
and the threads that are inside a software overflow run (`Users`). The count never
falls short of them, but it may exceed them for ever, after a start that failed at
`vperfctr_control` or a second `PAPI_overflow` of the same event. That excess
(`Spare`) is what makes the code right: a timer that runs outside any run, or that
`ovalue` puts back into another thread, was left by a failed start, whose reference
keeps the handler. Who the users are changes with one thread or one set at a time
(`OneHolder`, `OneHwSet`), and no call on a set matters to those who run another
(`Quiet`).

`EventSetMapProofs` proves for any threads, EventSets and sizes of the array, from
`EventSetMapAssumption` alone:

* `TypeCorrect`: `Spec => []TypeOK`,
* `SlotFound`: `Spec => []AddFindsSlot`,
* `Implements`: `Spec => KeepsPromise`.

The inductive invariant `IInv` has two halves. `MapInv` is about structure: only
the holder of the lock is at a step under it (`LockInv`); the array has the size
the counts say, or twice that between realloc and the new counts, with junk
exactly in the upper half (`SizeInv`); an EventSet in the map knows its index
(`TableInv`); an EventSet not yet in the map belongs to one call (`MakeInv`); a
handle of a thread names a slot in use whose master is that thread (`HandleInv`),
and so does the handle of a look-up under way (`ReadInv`); a slot about to be
cleared is cleared by one thread (`EraseInv`). `CountInv` is about numbers:
`availSlots` is the number of free slots and `fullSlots` the rest. The refinement
needs the first half only. Most steps change nothing of what the map denotes;
they are handled together (`Steady`, `SteadyStep`). The others have a lemma each,
that shows the invariant and names the step of `HandleMap` taken. The counts
change at three places (`CountGrow`, `CountAdd`, `CountErase`), by lemmas on
cardinality. The proof takes no account of the moves of the array beyond the
premise that no stale block was read, so it holds for every allocator.

`ThreadListProofs` proves `TypeCorrect`: `Spec => []TypeOK` for any threads and
records, from `ThreadListAssumption` alone. The part of `TypeOK` that matters is
that a thread between lock and unlock holds THREADS_LOCK, and it is inductive
only with `Alone`: while there is no id function, nobody but the thread that
initialised the library is inside a call. Without that, `PAPI_thread_init` could
switch the lock on behind the back of a thread that is already past it.

It proves from the same assumption

* `Rings`: `Spec => []ListIsRing`,
* `Refinement`: `Spec => KeepsRegistry`,
* `NoDoubles`: no two records in the list have the same owner,

for programs that keep the rule `LeaveFirst` or not, and `OneRecord`:
`Spec => []OneRecordEach` for those that do. A ring is a set closed under `next`, with
injective links, that no smaller closed set is part of (`IsRing`). A statement about all
records a walk meets is then proved without induction along the walk: the records
for which it holds are a closed set, so they are the whole ring. `RingInsert` and
`RingRemove` show what the two stores of an insertion and the one of a removal do to
a ring, `RingFrame` that other stores do nothing. `ListInv` adds to the ring who the
records belong to (`Named`), where in its walk or between which stores each thread is
(`Places`), and that the thread-local pointers lead to allocated records, each to
another (`Mine`). A record that a thread inserts is out of the list until its second
store, one that it removes is in the list, and no other thread works on either
(`Exclusive`); so each store is the step of `ThreadRegistry` that it should be.
`OneInv` says what a thread knows at each label. The delicate case is the search of a
build without thread-local storage (threads.h:102-113), which makes what it finds the
head: the caller's record, if there is one, is among those still to be met
(`Ahead`), so that a search that comes round has not missed it and the insertion that
follows is no double.

`HighLevelProofs` proves for any events, counters, argument lists and rate calls,
from `HighLevelAssumption` and `NoInfoAssumption` alone:

* `TypeCorrect`: `Spec => []TypeOK`,
* `Levels`: `Spec => []LevelAgrees`,
* `Calls`: `Spec => []EventsAreTheCalls`,
* `FromZero`: `Spec => SeriesStartsAtZero`.

The first three strengthen each other into one invariant of a `HighLevelInfo`
(`Inv`), shown for the record that a call starts from (`Checked`), fresh or not.
`CallsInv` is `EventsAreTheCalls` itself. It needs that a set which is yet to be
created has nothing left in it, and gives what the starts rest on: a set no call
runs holds exactly what failed calls left (`OnlyLeftover`), so that the events of
the next come right behind. The last theorem needs `TotalInv`: whoever added
anything up left PAPI_TOT_CYC in the set, and with it there no series can start
(`SeriesRefused`). `NoInfoAssumption` says that NULL is no `HighLevelInfo`.

`MultiplexProofs` proves for any threads, EventSets, events and bounds, from
`MultiplexAssumption` alone:

* `TypeCorrect`: `Spec => []TypeOK`; no count goes below zero,
* `Uses`: `Spec => []UsesMatch`,
* `Currents`: `Spec => []CurrentIsActive`,

and `Ticks`: `Spec => []TicksArrive`, if each thread has a timer of its own
(`OwnTimers`); one thread on the process's only timer is the case that the code
gets right. All starts and stops of master events may fail in them. The first three
come from one inductive invariant, for a program that no assertion has ended.
`Lists`: the master
events of a thread are those its EventSets use, with one reference for each.
`Actives`: a master event is active at least once for each of its started sets;
not exactly once, because a set can be started twice (see `Multiplex` above), which
is why `mpx_delete_events` needs its assertion, and why the invariant may use it:
what is active has a user. `StartedRuns`: a set that was started says so in its
state bits, so that `PAPI_add_event` and `PAPI_cleanup_eventset` refuse it.
`Current`: the current event, and that nothing else runs until a stop has failed.
`Begins`: the set that a start is under way for is the thread's own and has events, so
that there is one to make current. That a stop finds the next active event, or that
there is none, is `NextActiveFinds`, on the way round the list; that unlinking
neither loses nor doubles a master event is `KeptList`.

`EventSetNativesProofs` proves for any events, native events, counters and
selectors, from `EventSetNativesAssumption` alone:

* `WellFormed`: `Spec => []TypeOK`,
* `ArrayIsExact`: `Spec => []OwnersMatch`,
* `InterruptingLast`: `Spec => InterruptsStayLast`,
* `FailureIsClean`: `Spec => FailureLeavesNoTrace`,
* `AddLeavesRight`: `Spec => AddSetsRight`,
* `SwapsLeaveRight`: `Spec => OverflowMovesRight`,
* `ImplementsEventList`: `Spec => KeepsPromise`.

The operations are loops, which the module writes as folds. A fold over a sequence
is unfolded into a chain of values with one link for each turn (`FoldExists`,
`FoldChain`); the loops have names there, since a lemma cannot be about any
operator. `Along` is induction over the turns, from the least turn at which a set of
good ones ends. Each loop then has an invariant. `Adding`: what an add has counted
in so far, old slots with at most an owner more and new slots behind them.
`Undoing`: what is left of that on the way back, which ends at the very structure the
add started from (`UndoLoop`), wherever it failed (`NothingLeft`). `Disowned`: the
owners a removal has given up. `Moved`: the compaction, in which the slots below are
settled, no live slot is behind an empty one, and the live native events are those
there were; at the end they are the first ones, as many as are left (`Compacted`).

Between calls the invariant is `IInv`. `OwnersMatch` is not inductive: nothing in it
says where the events point or what the registers hold, and a removal reads
both. `StateInv` adds this to the table of native events (`NativesInv`): events are
different and have the positions that the table says (`EventsInv`), and the kernel is
told of as many registers as there are native events (`RegInv`). It holds in every
set, also in those a removal left wrong, in which events may read other registers
than their own. `OverInv` says how far `nrictrs` can go wrong in these: it is -1
only with no overflow on, after one was turned off whose register was behind
those ever programmed. `TidyInv` is `Tidy` in terms of these counts; it is no
invariant, but each operation has a lemma which says that it keeps a set tidy, and
those that move registers (`Enable`, `Disable`) that they keep one tidy and right
if it was both; so the exceptions in the properties are exactly the cases that the
proof cannot rule out. `CountInv`, that the native
events can all be counted, is what makes the code accept an event that brings
nothing new without asking the allocator. `Kinds` sums up what a step can be: nothing,
an event more, one less, none, or an overflow turned on or off; the theorems on
steps follow from it. In the refinement, the refusal of a full array needs an
argument of its own: the allocator was never asked, but with one native event
more than there are counters it would have refused too (`TooMany`, by the
pigeonhole principle).

`BipartiteProofs` proves for any number of counters and any length of the list, from
`BipartiteAssumption` alone:

* `Exact`: `Spec => []AllocatorIsExact`,
* `ServesAnySet`: the allocator's answer for a list of the selectors of a set of
  natives is `Allocatable` of that set, which is what `EventSetNatives` takes it for.

The scan has the loop invariant `Scanned`: the queue holds exactly the exclusive
events, each once; the heads that have had their turn share no counter with any
other event; and the assignments of the list are those there were, or a conflict was
met and there are none (`MeetTurn`, `Scan`). So an event mapped by the scan is on the
counter that every assignment gives it, and only the unmapped events are left to
decide: an assignment of all is one of them (`Down`), and one of them extends
to all (`Up`). Trying each counter of the first loses nothing, as the
assignments of `Place(rest, ctr)` are those of the rest with the first event on `ctr`
(`Placed`). The recursion ends because the events that are not exclusive become
fewer with each call: those of a call are unmapped ones of its caller, and the first
of them has been placed (`Descends`). Going up the number of undecided events, that is
used twice: to show that the recursive function exists (`SolutionExists`,
`Allocates`; TLA+ does not grant it), and that its answer is right (`ByUndecided`,
`SomeLeft`).

Only model-checked: the three liveness properties `DueIsServed`, `TurnComes` and
`LockReleased` (of `EventSetMap` and of `ThreadList`), as the prover has no rules for
fairness here. Every invariant, action property and refinement that a passing run
checks is a theorem.

## 5. Findings

* `RunControlResume`: counters suspended for ever after an overflow in the window
  between papi.c:800 and papi.c:810.
* `EventSetNativesRemove`: a stale register after a removal (papi_internal.c:778).
* `EventSetMapGrow`: an unlocked look-up reads an array that realloc has freed
  (papi_internal.h:590).
* `OverflowTable`: the arrays of the overflow table overlap (papi_internal.c:265).

Two more are reproduced by changing the constants of a run:

* With one timer for the process (`TimerOf <- TimerPerProcess` in
  `RunControlSignals.cfg`), `NoStockHandler` is violated: `ovalue` is shared by all
  threads (extras.c:514), starts and stops of two threads swap it, and the timer outlives the handler. ChangeLogP306.txt:540-542
  records the symptom.
* With one timer for two threads (`Threads = {t1, t2}` and `MasterOf <- TwoMasters`
  in `Multiplex.cfg`), `TicksArrive` is violated: the first thread to stop shuts the
  timer of the process down (multiplex.c:1037).

One was met while translating `Allocate`: `_papi_hwd_allocate_registers` asks whether
the native events can be assigned to counters that can count them, and then drops the
assignment. Each native event gets the position it has in the list (perfctr-p3.c:357),
and `pmc_map[i] = i` (perfctr-p3.c:374) makes that the hardware counter. Where every
native event can be counted on every counter (the Athlon) this is right. On a Pentium
III, MUL, which p3_events.c:1129-1131 restricts to the second counter, is programmed
on the first when it is added first, although perfctr-p3.h:153 says that the selector
is "Used in resources.selector to determine on which counters an event can live".
With the constants of `EventSetNativesRemove.cfg`, TLC refutes
`[][esi'.NativeCount > esi.NativeCount => \A k \in 0..esi'.nractrs - 1 :
\A n \in esi'.evntsel[k] : k \in Selector[n]]_vars` in the first step.

## 6. Not modelled

* `PAPI_sprofil`, the profile table and `dispatch_profile`: address arithmetic on
  buffers, and a table kept in step with the overflow table by hand. The hazards
  are listed.
* Two first calls of `PAPI_library_init` at once: `_in_papi_library_init_cnt` is
  counted up by both before either is let in, so both wait for ever (papi.c:188-193).
  The comment there calls it a "poor attempt at a lock". It is two lines, and a model
  of them would only restate it.
* The memory tracker, whose list is debugging aid. Its one hazard is a self
  deadlock: `_papi_valid_free` calls `_papi_free` with MEMORY_LOCK held
  (papi_memory.c:174-197).
* `RunControl` and `Multiplex` in one process, which take SIGPROF from each other
  (`mpx_startup_itimer` installs its handler over the dispatcher's), and failures of
  `sigaction` and `setitimer` in `MPX_start`.
* The extrapolation of multiplexed counts, and all counts returned to programs.
* Preset and native tables (data), the substrate vector (one substrate), other
  substrates (one is compiled in), kernel drivers and libpfm (third-party, the bulk
  of the repository's lines), wrappers (argument conversion), utilities and tests.

Still worth doing: a composition `SharedSignal` of `RunControl` and `Multiplex`;
`PAPI_sprofil` on top of `OverflowTable`.
