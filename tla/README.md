# Chao's OS: a verification project

TLA+ models of the kernel's own logic, checked with TLC on small instances and,
for the core of it, proved with TLAPS for every instance. Paths are relative to
the repository, which is under `src/`.

## 1. The system

Chao's OS is a small i386 kernel for one processor. `kernel_main` sets the parts up
in order (memory, interrupts, timer, scheduler, keyboard, terminal) and becomes
thread 0. After that everything runs in kernel threads that the timer
interrupt preempts. There are no user processes, and nothing is persistent.

| Part | State | Operations | Used by |
|---|---|---|---|
| Frame allocator, `pmm.c` | `free_lists[11]`, the `page_frame_t` table | `init_normal_mem_zone`, `frame_alloc`, `physic_alloc`, `frame_free`, `physic_free` | slice allocator, paging |
| Slice allocator, `kmm.c` | per size a chain of managers with three lists of allocators; headers in the pages | `init_kmm`, `kmalloc`, `kfree` | everything that allocates |
| Scheduler, `schedule.c`, `task.c` | ring `tasks`, `current_task`, `_next_task`, `task_struct_t` | `task_schedule`, `thread_create`, `thread_exit` | timer, mutex, queue |
| Mutex, `sync.h` | `value`, `holder`, `waiting_list` | `mutex_acquire`, `mutex_release` | `printf`, queue |
| Lists, `list.h` | `next`, `prev` | `list_add_tail`, `list_del`, `list_move_to_tail` | scheduler, mutex, queue |
| Hash map, `map.c` | `list`, `capacity_level`, `size` | `map_init`, `map_insert`, `map_delete`, `map_find` | `task.c` (pid to task) |
| Circular queue, `queue.h` | `arr`, `begin`, `count`, two lists of sleepers | `circular_enqueue`, `circular_dequeue` | nobody yet |
| Software timers, `timer.c` | list of `timer_t` | `register_timer`, `unregister_timer`, the tick | scheduler |
| Paging, `vmm.c`, start of `kernel.c` | two page directories, tables; the processor's TLB | `kernel_main_init`, `init_vmm`, `switch_pgd`, `map`, `unmap`, `get_mapping` | boot, `vbe.c` |
| Keyboard, `keyboard.c` | modifier keys, output buffer | the interrupt handler | nobody yet |
| `printf.c` | `io_lock`, four globals of the hex formats | `printf` | all |
| Terminal, `terminal.c`, and `vbe.c` | `vbe_buffer`, cursor, video memory | `main_terminal_write`, `swap_buffer` (a timer's callback) | `printf` |
| VGA text, fonts, boot code, GDT, IDT | screen, descriptor tables | machine set-up | all |

How they interact: the timer interrupt calls `task_schedule` through the timer
list; the mutex and the queue take threads off the run ring and put them back by
writing the scheduler's lists themselves; `thread_create` calls `kmalloc`,
`map_insert` and the lists; `kmalloc` and `map` get pages from the frame allocator; `printf`
takes a mutex for each piece of text, and a timer copies the terminal's buffer to the screen.

What is hard:

* **Interrupts.** `cli`/`sti` pairs do not nest. `task_schedule` ends with `sti`, so
  a caller that had disabled interrupts goes on with them enabled. The
  allocators, the map, the page tables and the globals of `printf` have no lock at all.
* **Linked structures by index**, whose fields go stale in orders of calls
  nobody tests: the buddy lists, the allocator lists of a manager, tombstones.
* **Ends of ranges**: the last block of a zone that is no power of two, a list that
  becomes empty, a table with no empty node, an 8-bit counter, `INT_MAX`.
* **Failure.** No caller of the frame allocator looks whether it got a frame.
* **The machine behind the code**: translations the processor remembers, and page
  directories that change under the code that runs.

What makes each part correct: the frame allocator gives no frame twice, loses
none and merges what can be merged; the slice allocator the same for slices; the
mutex excludes and wakes; a runnable thread gets to run; the map is a map; the
queue is a queue; a page is where it was mapped last; what was printed is on the screen. `PROJECT.json` lists the places where that can go wrong
("hazards") with the properties that watch them.

## 2. The modules

| Module | Models | Abstract specification |
|---|---|---|
| `BuddySystem` | `pmm.c`, with `next_power_of_2`/`power_of_2` of `math.c` | `FrameAllocator` |
| `BuddySystemProofs` | theorems about it | |
| `Scheduler` | `schedule.c`, `sync.h`, `list.h`, `task.c` | `Mutex` |
| `SchedulerProofs` | theorems about it | |
| `HashMap` | `map.c` | `AbstractMap` |
| `HashMapProofs` | theorems about it | |
| `SliceAllocator` | `kmm.c` for one slice size | – |
| `SliceAllocatorProofs` | theorems about it, in bitmap mode | |
| `SleepingMutex` | how threads wait for a mutex of `sync.h`; built on `Mutex` | – |
| `CircularQueue` | `queue.h` over an abstract run ring; uses `SleepingMutex` | – |
| `CircularQueueProofs` | theorems about it | |
| `Timers` | `timer.c`, `isr_handler` of `idt.c`, the switch of threads inside a tick | – |
| `TimersProofs` | theorems about it | |
| `Keyboard` | `keyboard.c` | – |
| `Paging` | boot code of `kernel.c`, `vmm.c`, the processor's TLB; uses `FrameAllocator` | – |
| `PagingProofs` | theorems about it | |
| `Console` | `printf.c`, `terminal.c`, `swap_buffer` of `vbe.c`; uses `SleepingMutex` | – |
| `TerminalProofs` | theorems about `Keyboard` and `Console` | |
| `MC*` | definitions TLC needs for an instance: `1 << l` as a table, symmetry, state constraints | |

Three modules are built on the abstract specification of another: `Paging` gets its tables from
`FrameAllocator`, which `BuddySystem` implements; `CircularQueue` counts and `Console` prints under
`Mutex`, which `Scheduler` implements, and wait for it as `SleepingMutex` says.

Operators with names such as `LinkNothing` or `list_del_OneWay`, each after a comment
"A bug to be caught", are wrong versions of the definition that follows them.
Nothing uses them; they are there to show, by putting one in place of the right
definition, that the properties can fail (`PROJECT.json`, "mutants"). Each module has a type
invariant `TypeOK`; in most of them it is a conjunct of the invariant that leans on it.

### BuddySystem

The table is one function per field (`flags`, `level`, `next_frame`,
`prev_frame`), `free_lists` a function of the level, and the list end is
`FramesNumber`, as in the code. A call is several actions, one per iteration of its
loop: `AllocBegin` searches and pops, `Split` runs until the level is reached, `AllocEnd`
marks the block; `FreeBegin`, `Merge`, `FreeEnd` likewise; `InitShrink`,
`InitBlock`, `InitDone` are `init_normal_mem_zone`. `pc`, `page_index`, `cur` and `want`
are the local variables. `owned` is a history variable: the blocks clients hold.
Clients free only what they hold (`FreeBegin`), or something the code refuses
(`FreeReject`).

Two things in the code leave the path on which anything can be promised, and the
history variable `corrupted` records them: `Merge` unlinks a buddy that is the
first of its list but has an old `prev_frame` (popping and splitting never reset
it), and `MergePastEnd` finds memory past the table that looks like a free
buddy, whose contents are arbitrary. What holds is stated for the states before.

`BlockSize` is a constant with the assumption that it doubles, instead of `2 ^ l`,
so that the provers need no exponentiation. `asked` is the size a client asked for, and
`FrameAllocator` with `held` the sets of frames of the blocks in `owned` is what clients may rely on:
the block has that many frames in a row, and nobody else has one of them. `BUDDY_MAXLEVEL` is 11 in the code
and free here. `ZoneAssumption` says that one block of the top level fits: with less
than 4 MiB, `frames_number - block_page_size` wraps in `init_normal_mem_zone`.

### Scheduler

`links` holds the `next` and `prev` fields of all list heads, and the list
operations are those of `list.h`. What runs with interrupts disabled is one
action: `Timer`, the first round of `mutex_acquire` (`Acquire` or `Block`), `Release`.
The later rounds of `mutex_acquire` run with interrupts enabled, because
`task_schedule` ended with `sti`, and are split where a tick makes a difference:
`Retry`, `RetryDel`, `RetryAdd`, `RetrySleep`, `RetryYield`, `SetHolder`. So is
`thread_create`, whose `list_add_tail` is unprotected (`CreateBegin`, `CreateEnd`).
`thread_exit` is split in the same way (`ExitBegin`, `ExitEnd`); `tasks_map` is the set of pids
in the hash map, and a thread that is not in it is gone. `raced` records that a
tick fell into one of these windows, or that `thread_exit` was called for a thread that is in
use (`InUse`): the running one, the next one, the holder of the mutex, or a waiter
that was woken to take it. `thread_exit` asks nothing of the kind. After a race it
is not called any more, a bound. After a race a link may be null, and a write
through it (`list.h:26`, `list.h:41`) is a page fault, whose handler never returns: the
thread stays there and ticks go on (`CanAdd`, `CanDel`, `CanMove` guard the actions that write). There is one mutex; thread 0
never takes it and so stays in the ring, as `kernel_main` does.

### HashMap

`list` is a function from node numbers to nodes. A call begins (`InsertBegin`,
`DeleteBegin`, `FindBegin`), perhaps starting a rehash; `RehashNode` moves one
node, `RehashEnd` frees the old list; `Insert`, `Delete` or `Find` is the
call's own loop of probes. A loop only reads until it stops, so what matters is
the order in which it first comes to each node: `rank` computes it from the code's
`(h + i * i) % capacity` in words of `WordSize`. When no node stops the loop, `Spin`.

The word is 32 bits in the code. With a prime capacity `i * i` alone visits
half of the nodes; after the product has wrapped the others come too. With 32
bits this is so for every capacity of `map.c` up to 43669, from every first node
(computed outside TLC); `WordSize = 256` has the same effect on capacities
5, 7 and 19, and the same order before the first wrap. `UniqueKeys` says
that clients insert only keys the map does not have, as `task.c` does with pids.
`PrimesAssumption` says that from level to level the capacities grow by a third at least
and threefold at most, which is true of `primes` from level 2 on: it is what keeps a list that
has just grown or shrunk below the load at which the next `map_insert` would rehash it.

### SliceAllocator

One slice size: `managers[1..n]`, where the chain of `next` goes from n down to 1,
each with its three lists of allocators. `first_avai` is the set of slices in use
(bitmap) or a slice number (linked list); `header` holds the bytes in front
of the slices in linked mode. `live` is a history variable, the slices clients
hold. `KmallocPartial`, `KmallocFresh` and `KmallocManager` are the branches of
`kmalloc_helper`; `Kfree` is all of `kfree`. Linked mode is modelled as written:
`kfree` puts the old `first_avai` into the freed memory and not into the header, so
`header` is unchanged. A header byte outside the page has an arbitrary value.
Frames come from `Pages` in any order. When there is none left `frame_alloc` returns 0, which the
code takes for a page: the slices of `NoPage`, of which clients may get the same one
twice.

### SleepingMutex

Who owns the mutex is `Mutex`. A thread that cannot have it leaves the run ring (`waiting`), and a
release puts one thread back, which tries again. The first try is made with interrupts off
(`Acquire` or `Block`); a later one with interrupts on, so a tick may come between the failed
test-and-set and the sleep (`Fail`, `SleepAgain`, `sync.h:62-66`). The modules that use a mutex
model that tick: it sets `broken`. From then on nothing is known about the lists, so `waiting`
is empty for good: each thread may run at any time, and none has to.

### CircularQueue

Each side's call is split at the points where a switch of threads matters, and any thread that
is not asleep may take the next step, so a tick may fall anywhere. `circular_count` is
`mutex_acquire` (`CountLock`, or `CountWait` when the mutex is taken) and then the count with
`mutex_release`. The list changes of lines 45, 54, 63 and 73 run with interrupts on and no lock, and each is two
actions: a thread that cannot go on takes itself off the ring and then puts itself on the queue's list
(`EnqueueUnlink`, `EnqueueSleep`); one that has an element to announce looks at
the list and then moves its first thread (`EnqueueSignal`, `EnqueueWake`). A tick in the middle of one of
them, or of a retry of the mutex, is `Tick`: it sets `broken`, and the lists are
empty from then on, as in `SleepingMutex`. `raced` records that a thread ran while another was in
a `Window`: between its test of the count and what it does about it, or waking. The compiler may read `begin` after
`circular_count` in line 49 or before it (`EnqueueEarly`); both are modelled.

### Timers

The list is the code's: `timers`, and a `timer_t` at each place `kmalloc` may return;
a freed place keeps its contents until it is given out again. `walk` holds, for each
thread, the calls of `timer_schedule` on its stack. `Tick` enters one with interrupts
off, `Visit` counts a timer down, `Callback` or `Switch` calls it, `WalkOn` goes to the
next timer or returns. `Switch` is `task_schedule`: the walk is left half way and goes on
with interrupts on when its thread runs again, so that the next `Tick` may come on top of
it. The end of interrupt is sent before the handler, so ticks also come while walks
of other threads are suspended. `register_timer` is `RegisterBegin` and `RegisterEnd`,
between which ticks fall; `unregister_timer` is one action. Only one thread calls them, as
in the kernel, where `kernel_main` does; two threads in `register_timer` at once
could lose a timer. `age` is a history variable, the ticks a timer has seen.

`unregister_timer` of the first timer does not change `timers`, because `prev` starts at the
head. The list then begins with freed memory, and when `kmalloc` returns it
again `register_timer` links the timer to itself and the next tick never ends. A walk
suspended at a timer that is freed has the same problem. The history variable
`broken` records such a call, and the properties are about the time before.

### Keyboard

Keys are pairs of a prefix and a scan code. `Press` and `Release` are the environment:
they put one or two bytes into the controller, and `keyboard_input_handler` reads one byte
per interrupt, in the branches `Extended`, `Prefix`, `Modifier` and `Character`. A character
is its scan code and its column in `keymap`. `shift`, `caps` and `typed` are history
variables that follow the key strokes, not the bytes. The driver has one `shift_status` for both
shift keys, so shift ends when either of them comes up; `shift` says the same.
`KeyboardAssumption` excludes a key without prefix whose release code is the prefix 0xE0 itself:
the handler would take it for one. Scan code set 1 has no such key. The parts of the specification are
named `KeyboardInit`, `KeyboardNext` and so on: `TerminalProofs` extends this module together with `Console`.

### Paging

A page is its two indexes, a table is known by where it is, and `table` holds what tables
contain. `EnablePaging` is `kernel_main_init` up to the switch of stacks, `InitVmm` the body of
`init_vmm`, `Switch` is `switch_pgd`, `ResetLow` the first line of `kernel_main`. Then `map` is
`MapTable`, `MapClear`, `MapEntry`, `Invlpg` or, when there is a table, `MapPresent` and `Invlpg`;
`Unmap` likewise; `get_mapping` is an operator. `Walk` is the memory management unit:
it may look up any page at any time (`TlbFill`), as processors do speculatively, keeps what
it found until `invlpg` of that page or a new `cr3`, and never keeps a missing page.
`OtherAlloc` and `OtherFree` are the other clients of the frame allocator, which leave
anything (`Wild`) in a frame. One call at a time; all entries are PRESENT and WRITE.

Assumed (`PagingAssumption`): all memory of the frame allocator is in the linear zone, frame 0 is
not part of it, and what clients map, the frame buffer, lies outside the zone. `vbe.c:35` maps
wherever the card says, and does not look.

Two histories bound what can be promised. `exhausted`: a `map` found no frame, linked
the 0 and cleared frame 0. `premature`: the processor looked a page up in a new
table between lines 52 and 54, where it is linked and not cleared.

### Console

A format is a sequence of pieces with their arguments. A thread's call of `printf` is `Call`, then
for each piece `Format` and, for conversions, `PrintStr`; a text is printed by `PrintBegin`,
`Putchar` for each character, `PrintEnd`. The hex formats set four globals one after the other (`HexSet`)
and read them digit by digit (`HexDigit`, `HexPad`, `HexSign`) without the lock.
Threads are switched between any two actions. A thread that cannot have `io_lock` waits as in
`SleepingMutex` (`PrintWait`); a tick between a failed retry and the sleep on it is `Tick`. The buffer is a row per line of pixels
and a cell per character column; `rolled` moves lines of pixels, so that a screen whose
height is no multiple of the font's shows what happens to the rest. `Swap` copies
the buffer in one step: it runs in the interrupt handler, with interrupts off. `paper` is a history variable, all
that was ever written, from which `ScreenIsTail` computes what the screen should show.
`muddled` has the threads whose call met another's globals, or printed an old string
again after a `%c`. `written` is an `int` and wraps round: `maxrem` is computed before a `%c`, and the old
string printed after it is not counted, so `written` may pass `INT_MAX` (`int`, `Repeats`). Assumed (`FormatsAssumption`):
a `%c` has one character, a `%d` an `int`, a `%x` a `size_t`, and the characters include the digits.

## 3. The runs

| Run | Instance | Shows |
|---|---|---|
| `buddy` | 6 frames, 3 levels, requests of 0 to 5 frames | `TableConsistent` (the inductive invariant), `FreshUntilCorrupted`, `FramesConserved`, `NoSpuriousFailure`, `ImplementsFrameAllocator`. 6 is no multiple of the largest block, so the zone is carved in two sizes and there are buddies past its end; 3 levels let a split and a merge go two levels; requests of 5 are refused. States behind `corrupted` are cut off. 1.7 million states. |
| `buddy_double_alloc` | 4 frames, 2 levels | **violated**: `HandedOutIsFresh`. See section 6. |
| `scheduler` | 4 threads, races included | `MutualExclusion`, `ImplementsMutex`, whatever ticks do; `RunnableUntilRaced`, `WakeupUntilRaced`, `ListsPartition`, `EveryRunnerRuns` until the first race. Two threads can wait while one holds the mutex and thread 0 runs, and any of them can be ended. Deadlock is not checked: after a race `_next_task` may be no thread at all, and the machine stops. |
| `lost_thread` | 3 threads, none of which is ended, no tick in `thread_create` (`RetrySpec`) | **violated**: `RunnableIsReady`. A thread blocks, is woken, finds the mutex taken again, and a tick falls between the two halves of its `list_move_to_tail`. |
| `hash_map` | capacities 5 and 7, five keys, three of which collide, two values | `ImplementsMap`, `FindsContents`, `NoNestedRehash` (with the count), `OnlyMissesSpin`. The table grows at the fifth key and shrinks again, and tombstones fill it. `map.c` starts at capacity 7, one level up; with 7 and 19 the instance is too large to exhaust. |
| `slices_bitmap` | 3 slices a page, 3 allocators a manager, 2 managers, 4 pages | `InsidePages`, `NoUseAfterFree`, `BitmapExact`, `ListsMatchUse`, `NoWaste`. Three slices are enough for an allocator to stay on its list, three allocators for one to leave from the middle, four pages for a second manager, and for a manager that finds no page left. |
| `slices_linked` | the same in linked mode | **violated**: `InsidePages`. |
| `queue` | 2 producers with 2 and 1 elements, 2 consumers, 2 slots, 4 elements taken at most | `CountExact`, in races too; `InOrder`, `NobodyForgotten`, `AllDelivered` until the first. Three elements bring `begin` round, and a fourth may be taken once a race has broken the count. Behind a race two threads at most are in a call at once (`RacesOfTwo`): a producer and a consumer, two producers, two consumers; before it, all four. Deadlock is not checked: when the producers are done the consumers sleep for ever. |
| `timers` | 2 threads, 3 timers, intervals 0, 1 and 2, frequencies out of range, a tick on top of a tick | `NoTimerLost`, `ExactTicks`, `TimersFire`. Three timers are enough for one to leave from the middle. States behind `broken` are cut off (`UntilBroken`). |
| `keyboard` | 9 keys (a letter, a digit, the keypad's enter, caps lock, both shifts, both ctrls, right alt), 3 bytes in the controller, 2 characters | `BufferIsWhatWasTyped`, `NoStuckModifier`. Three bytes hold one key stroke while another waits half read. |
| `paging` | directories of 5 entries, tables of 2, a zone of 2 tables, 2 free frames, 3 pages to map to 2 frames, 2 translations remembered | `BootMapped`, `ZoneLinear`, `MappingExact`, `TlbCoherent`, `TablesPrivate`. The pages need two tables, so the second may find no frame; two of them share one. 1.4 million states. |
| `console` | 2 threads, one `printf` each, of 4 formats; a screen of 5 lines of pixels, characters 2 lines high and 3 in a row; `INT_MAX` 9 | `ScreenIsTail`, `TextsWhole`, `PrintfExact`, `ReturnsLength`, `ShownAtLast`. Two rows and a line left over, so that texts wrap and roll; the formats set each global differently, have a `%c` before and after a number, an unknown conversion, and more than `INT_MAX` characters; in one a `%c` repeats a number until `written` has wrapped. The formats have several texts each, so a thread may take `io_lock` from one that was woken for it. States behind `broken` are cut off (`UntilBroken`). Deadlock is not checked: printing ends. |

**Fairness.** `scheduler` assumes only that ticks keep coming (`WF` of `Timer`): no thread has
to call anything. `EveryRunnerRuns` speaks of the behaviours without a race, since a
lost thread never runs again (`lost_thread`). `queue` and `console` assume `WF` of the step of each thread
that is on the run ring: `EveryRunnerRuns` says that it has its turn, as long as no tick breaks the lists. In
its turn a thread that cannot have the mutex goes to sleep, so the assumption gives nobody the mutex;
a thread that sleeps has no step until another one's release, or a wakeup, puts it back on the ring.
`AllDelivered` speaks of the behaviours without a race, `ShownAtLast` of those without a tick in a retry
of `io_lock` (`broken`), because after such a tick the code guarantees none of this. `timers` assumes `WF` of `Tick`
and of the handler's steps, for the same reason as `scheduler`; it says nothing about which thread runs.
`console` also assumes `WF` of `Swap`, a timer's callback (`TimersFire`).
Nothing says that a thread that waits for the mutex gets it if others go on taking it: a
woken waiter may find it taken again each time, and goes back to the end of the list. In `console` and `queue`
each thread makes a bounded number of calls, and so the others stop taking it at last.

## 4. What is proved

All proofs are complete, for every value of the constants that satisfies the named assumptions of
the modules. The theorems about invariants have the shape `Spec => []Inv`, by way of an inductive
invariant; TLC checked it before it was proved, with the walk of a list in place of a statement that
there is a chain (not those of the console, which speak of functions that TLC cannot enumerate: it checked the
properties they prove). One lemma per action shows that the action keeps it.

| Module | Theorems |
|---|---|
| `BuddySystemProofs` | `TypeCorrect`, `Consistency` (`TableConsistent`), `NoDoubleAllocation` (`FreshUntilCorrupted`), `NoFrameLost` (`FramesConserved`), `FailsOnlyWhenShort` (`NoSpuriousFailure`), `PromiseKept` (`ImplementsFrameAllocator`) |
| `SchedulerProofs` | `MutexExcludes` (`MutualExclusion`), `MutexRefinement` (`ImplementsMutex`), `TypeCorrect`, `RunnableStaysReady` (`RunnableUntilRaced`), `NoWakeupLost` (`WakeupUntilRaced`), `ListsStayWhole` (`ListsPartition`) |
| `HashMapProofs` | `RehashNeverNests` (`NoNestedRehash`), `FindsWhatWasInserted` (`FindsContents`), `MapImplemented` (`ImplementsMap`), `OtherCallsReturn` (`OnlyMissesSpin`) |
| `CircularQueueProofs` | `CountKept` (`CountExact`), `OrderKept` (`InOrder`), `NobodyLeftAsleep` (`NobodyForgotten`) |
| `PagingProofs` | `BootStaysMapped` (`BootMapped`), `ZoneStaysLinear` (`ZoneLinear`), `MappingsExact` (`MappingExact`), `TlbStaysCoherent` (`TlbCoherent`), `TablesStayPrivate` (`TablesPrivate`) |
| `SliceAllocatorProofs` | `SlicesInside` (`InsidePages`), `PagesKept` (`NoUseAfterFree`), `BitmapsAreExact` (`BitmapExact`), `ListsAreRight` (`ListsMatchUse`), `NothingWasted` (`NoWaste`) |
| `TimersProofs` | `TimersStayListed` (`NoTimerLost`), `TicksAreExact` (`ExactTicks`) |
| `TerminalProofs` | `TypingIsKept` (`BufferIsWhatWasTyped`), `ModifiersFollowKeys` (`NoStuckModifier`), `TextsStayWhole` (`TextsWhole`), `ScreenShowsTail` (`ScreenIsTail`), `LengthReturned` (`ReturnsLength`), `PrintfMeans` (`PrintfExact`), `TypesKept` |

### BuddySystem

For all `FramesNumber`, `BUDDY_MAXLEVEL` and `MaxRequest`, until a wild pointer is followed (`corrupted`);
that goes for `TypeCorrect` too. `HandedOutIsFresh` is not inductive: that
the block an allocation works on is not in a client's hands follows from what the lists and the
table say about each other. `TableConsistent` says it, in five parts: blocks are aligned and in the
zone, even those of a call in progress (`BlocksAligned`); they do not overlap (`BlocksDisjoint`);
initialisation fills the zone from below (`ZoneCarved`); each list is doubly linked and holds the
free blocks of its level, except that the `prev_frame` of its first block is arbitrary
(`ListsLinked`), which is all that popping and splitting leave; clients' blocks are marked allocated
(`OwnedAllocated`). The lemmas below it are about alignment (the buddy of an aligned block is aligned
and next to it) and about pushing, popping and unlinking.

That no frame is lost needs more (`ZoneWhole`): every frame below the point initialisation has got to
is in a block (`Covered`), a client's block is one the table knows (`OwnedKnown`), what is left at
the end of the zone is smaller than the block of the level in progress (`Tail`), two buddies of one
level are never both free but for the one a merge is about to take (`Merged`), and every free block
is on a chain of `next_frame` that starts at the head of its list (`Complete`). The last is an
existential statement about a chain, not a recursive walk, and so can be proved inductive; that the walk `Listed`
finds what the chain has is then a matter of sets and cardinalities. `FailsOnlyWhenShort` takes, of
the free blocks inside the aligned block that nobody holds, a largest one: were it smaller, its buddy
would lie in the same block, be free too, and contradict `Merged`. `PromiseKept` needs in addition
that the level an allocation works towards is large enough for what was asked from its first step to
its last (`RequestStep`).

### Scheduler

For every finite set of threads. `MutexInv` says nothing about the lists, so the mutex excludes
whatever ticks do to them; each step of the scheduler is a step of `Mutex` or leaves its owners alone.

The other theorems are about the time before the first race and need to know the shape of the lists
in the middle of an operation. `ListInv` says: the links, with the half of a `list_del` or
`list_add_tail` that is in progress completed, form two rings with disjoint members (`Linked`); the
running thread and the next one are on the run ring (`Running`); where the threads of the map are
and what state the others have (`Others`); how far the operation in progress has got (`Half`); a free
mutex with waiters has a woken thread (`Woken`). A ring is an enumeration of its members such that
`next` and `prev` go round it; lemmas say what adding, deleting and moving do to one ring and that they
leave the other alone. That a walk along `next` (`OnList`) meets exactly the members follows by
cardinality.

### HashMap

Under `UniqueKeys`, as `task.c` uses the map. The list is a table (`IsTable`) when no key is in two
nodes and no node that a search for a key looks at before the key's own is empty (`Reached`). Tombstones
and insertions into them keep that; an insertion into the first node that is not occupied establishes
it for the new key. `Moving` speaks of `map_rehash` in progress: the keys yet to be moved are not in
the new list, and with them it stays at three quarters of its capacity at most. `Agrees` ties the nodes, moved or not,
to what clients have inserted. `Stored`, the refinement's view of the contents, is then `contents`
itself, so that every step of `map_rehash` is a stutter of `AbstractMap`.

`OtherCallsReturn` has three more hypotheses: the keys are finitely many and no more than the last
capacity (at that level the list no longer grows), and `ProbesReachAll`, a fact about squares modulo a
power of two and then a prime, which is true of the instance and, by computation, of the capacities
up to 43669 with 32-bit words. Without it the other half of the statement still holds: no search for a
key that is there goes on for ever (`MissingKeeps`).

### CircularQueue

For any sets of producers and consumers and any size, as long as a word holds twice the size.
`Counted` relates the count modulo the word to the elements sent, received and counted out but not
yet read, and holds in every race. The rest holds until a switch in a window, which a tick in the middle of a list
change always is (`Told`: `broken` only after `raced`), and wakeups are windows too: one thread is in a
window (`Alone`), which knows what the count is (`InRange`), and the array has the elements from `begin` on
(`Stored`). `NobodyForgotten` is not inductive either: one signal wakes one thread, so it has to be known
that while a consumer sleeps there are at least as many threads after the elements, or about to wake one that is, as
there are elements (`Remembered`), and likewise for producers.

### Paging

For directories and tables of any size, any memory and any TLB. `Phases` says what the two
directories hold between the steps of the boot sequence, `Private` who has the frames that are
tables, `Exact` what the tables outside the zone hold, a table that is linked and not yet cleared excepted,
and `Remembered` that the processor knows no page of such a table.

### Keyboard

For any set of keys. A property about what was typed speaks of bytes that the driver has not read.
The invariant therefore runs the handler ahead of time: there is a sequence of driver states over
the bytes that wait, the last of which is what the key strokes mean. A key stroke lengthens it at its end,
the handler shortens it at its beginning. The proof needs the assumption on release codes above; TLC
had not met it, having no such key.

### Console

For any threads and formats, any size of the screen, the font and a row, any `INT_MAX`. `Shaped` gives the threads' variables
their types and says that `io_lock` belongs to the thread that is in `print`, and to one thread at most. The actions are
first reduced to a few kinds of moves (`Quiet`, `CallMove`, `BeginMove`, `PutMove`, `EndMove`), each a statement about the variables of one
thread before and after; only `PutMove` changes the paper and the terminal. Four invariants follow the moves.

`InTurn`, for `TextsWhole`: what a thread has on the paper is of texts up to the one it prints now, and if it is
in the middle of that text, its last character is the last on the paper. Nobody else can
write meanwhile, because of `Shaped`.

`Windowed`, for `ScreenIsTail`: there is a function that has the rows of the paper after each of its characters, and the
buffer shows the end of the last of them. Drawing, a new row that fits and a new row that rolls are lemmas about any buffer and any
rows (`DrawnShows`, `NewlineFits`, `NewlineRolls`); the last needs that the lines a roll blanks are
those of the last row of characters and below it (`LastLines`), which is where the height of the screen that is no multiple of the font's comes in.
That `PaperRows` is the last value of this function follows by the least `k` where two such functions differ; so does, in
`DecimalEquation`, that `uint2string` satisfies its recursive definition, which is all the types need.

`Lengths`, for `ReturnsLength`: `written` is the number of the call's characters on the paper, taken as an `int`; and unless
a `%c` repeats a text, that number and what is left of the text being printed are together at most `INT_MAX`,
because `maxrem` is `INT_MAX` less that number when it is used (`Small`). Before the proof the property
said that a number returned is never larger than `INT_MAX` plus one. That is not inductive, and not true: each
`%c` may repeat a text, `written` passes `INT_MAX` and wraps, and from then on everything fits. The model had left `written` unbounded
there; it wraps now, and the property says so.

`Precise`, for `PrintfExact`: `Lengths`, and for each call that nobody has disturbed, what it has on the paper is
the meaning of the pieces it has taken (`TakenUpTo`, `SaidUpTo`), less what it still has to print of the last one.
During a `%x` (`Converting`) the digits made so far, with those of the rest of the number before them, are the numeral of the
piece, and the hex globals are those the piece asks for: another thread that sets them has put this one in `muddled`.
A call that failed has met a piece longer than what is left of `INT_MAX`, so the whole format is too long (`AllSaid`).

What a number means is defined apart from the code, as the sequence of digits of its value without a leading zero
(`Value`, `Numeral`). `NumeralUnique` says that there is only one, `NumeralRule` that the numeral of `n` is
that of `n \div b` and the digit `n % b` behind it, which is what `uint2string` and the loop of
`hex2string` compute. The induction theorems of the library cannot be used, as they take an operator as a parameter; each induction
is therefore made by hand, over a set of numbers by its least element outside the claim.

### SliceAllocator

For any number of pages, slices, allocators and managers, under `BitmapMode`: `first_avai` is a
bitmap and `avai_num`, a byte, can count the slices of a page. The code uses bitmaps from 512 bytes
on, for eight slices at most. (In linked mode `InsidePages` is false, see section 6.) `NULL` is
assumed to be no pair of numbers, so that an allocator is never taken for none.

The invariant has four parts. `Pool`: each list of each manager is doubly linked and holds exactly
the allocators whose page and `avai_num` put them there. `Known`: a bitmap has the slices that are in
use, the counter the number of the others, and a page refers back to its allocator. `Owned`: a page
refers to an allocator that has it. `Used`: slices in use are on pages in use. `Owned` and the third
part of `Known` together say that no two allocators have one page, which is why taking or freeing a
slice cannot disturb what another allocator knows. The list code is treated once: `kmalloc` (pop
and push) and `kfree` (unlink and push) are both shown to be a `Moves` of one allocator from one list
to another, and what a move does to the list it leaves, the one it goes to and the third one are
three lemmas. `kfree` unlinks from the list on which it believes the allocator to be; that it is on
that list follows from `Pool` and the counter. Each call has an `Effect` on one allocator and one page, from which the rest of the
invariant follows. `NothingWasted` is an action property: an empty `p_full` list means, by `Pool` and
`Known`, that all slices of the manager's pages are in use.

### Timers

For any finite number of timers and any number of threads, nested ticks included, until `broken`.
`Whole`: the list holds the timers that are registered and is not circular, the timer that `register_timer` is about to link points to
its head, and `task_schedule`, the first to be registered, is at the end of the list. `Placed`: every call on
every stack is at a registered timer, and one that was suspended in `task_schedule` is at the
end, so that it has nothing left to do when it goes on with interrupts on. `Counted`: there is a set of
timers, those the running call has yet to come to, that have missed the last tick; all others
have counted every one. That a walk along `next` finds the list again follows by cardinality.

### Only model-checked

Liveness (`EveryRunnerRuns`, `AllDelivered`, `TimersFire`, `ShownAtLast`), which is beyond the prover:
every other property of a passing run is a theorem. That
`ProbesReachAll` holds of the code's capacities is a computation, not a proof.

## 5. What is not modelled

* What the record past the end of the table of frames holds. The code writes the `prev_frame` of that record
  (`pmm.c:141`) when it puts a block on an empty list; the model gives the table this one record more and so accepts the write.
* A second shift key held down while the first comes up: the driver has one status for both, and the model's
  history has it too.
* The stack a new thread starts on. `thread_create` lays it out as fn, arg, thread_exit, so that
  the function's return address is `arg` and its argument `thread_exit`; no thread of the kernel returns.
  Of `thread_exit`, the `kfree` of `page_dir` (`task.c:79`), which is the physical address of `pgd_k` and
  never came from `kmalloc`: what its write hits is not known.
* The spin lock, `list_replace`, `list_swap`, and the VGA text terminal of `tty.c` but for its
  initialisation: nobody calls them.
* `kmalloc` above 2048 bytes, `kfree` of a slice of a failed page, and a manager whose own
  page could not be had.
* Preemption inside the allocators, the map and `map`/`unmap`. They take no lock; the models
  show that they are right, or wrong, already for one thread at a time.
* The limit of the keyboard's output buffer: the code has none (`keyboard.c:169`), and the
  513th character is written behind it.
* Addresses of pixels, the font file and its glyphs, `pages` rounded down in `vbe.c:28`; the flags of page
  table entries other than PRESENT.
* Descriptor tables, register saving, port input and output: machine set-up, with no state
  whose order matters. `page_fault` prints and stops.

## 6. Where the code and its documentation disagree

1. **Frames given twice** (`buddy_double_alloc`, `pmm.c:239`). The new head of a list
   keeps its `prev_frame`. When it is merged later, the code follows it, changes
   another block's `next_frame` and leaves the head on the list.
2. **A lost thread** (`lost_thread`, `sync.h:64`). In the second round of `mutex_acquire`
   interrupts are on, and a tick between `list_del` and `list_add_tail` switches away
   from a thread that is on no list.
   For the same reason a wakeup may be lost (`sync.h:62`): after a tick behind the
   failed test-and-set the holder releases, sees no waiter, and the thread
   sleeps on a free mutex. `WakeupUntilRaced` without its condition,
   `NoLostWakeup`, fails on the same instance.
3. **Memory outside the page** (`slices_linked`, `kmm.c:250`). `kfree` in linked mode writes
   one byte too far on; ten calls later `kmalloc` returns slice 255 of a page.

Seen in the models, without a run of their own: each is a condition that a property of section 3
needs, and taking the condition away makes TLC show it.

* **An endless search** (`map.c:60`; `map.h:47` says "else *value unchanged, return 0"), when
  tombstones have used up the empty nodes: seven pids are enough, and `thread_exit` of a pid that
  is gone gets there. `OnlyMissesSpin` says that only searches of absent keys do.
* **An element read before it is written** (`queue.h:49`; `CHANGELOG.md:38` says "concurrent circular
  queue"): it is counted in, and stored later, with interrupts on. `FirstInFirstOut`, which is `InOrder` without
  its condition, fails with one producer and one consumer.
* **A sleep on a queue that has changed** (`queue.h:44`, `queue.h:62`): the count is tested under the mutex, and the thread
  goes to sleep on the result after it. The other side may have put its element in and found nobody asleep in between:
  `NobodyForgotten` without its condition fails. The list changes that follow have no lock either, and a tick between
  `list_del` and `list_add_tail` loses the thread as in 2.
* **`thread_exit` of a thread in use** (`task.c:77`; `README.md:117` says "release a thread: thread_exit(pid)").
  Ending the thread that runs next leaves `_next_task` at freed memory; ending a woken waiter loses the wakeup;
  ending the holder leaves the mutex taken.
* **`%c` prints an old string again** (`printf.c:235`; `printf.c:99` says "%c: character"): the code falls through
  to the printing of `str`, which still has the last conversion of the call. `maxrem` was computed before the `%c`: near `INT_MAX`
  the repeated text may carry `written` past it (`ReturnsLength` without `Repeats` fails).
* **Hex digits of somebody else's format** (`printf.c:159`): the globals are outside `io_lock`.
* **A table used before it is cleared** (`vmm.c:52`), and a failed `physic_alloc` linked as a table (`vmm.c:51`).

Not a disagreement for the clients the kernel has, but close: with
`UniqueKeys = FALSE` `FindsContents` fails. `map_insert` stops at a tombstone (`map.c:93`) without
looking whether the key is further on; the key gets two nodes, and after
`map_delete` it is still found, with its old value.
Likewise `timer.c:36` says `frequency: [2, 1193180]`, but above `TIMER_FRE` (1000) the interval is 0,
the counter wraps, and the timer is called every 2^32 ticks (`ExactTicks` fails for such a
timer, and excludes it; `TimersFire` is content with that).

## 7. Plan

Done: every part of the kernel with state of its own has a module; the invariants, the action property and
the refinements of all of them are proved, where they are safety properties. Next, in this order:

1. Two threads inside an allocator at once, each call split at the pointers it writes.
2. The slice allocator over `FrameAllocator` in one module, with sizes above 2048 bytes.
