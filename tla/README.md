# A specification of BadAppleOS

BadAppleOS is a program on a bare x86: a boot loader brings the CPU to protected
mode, `kinitialize()` sets up console, paging, descriptors, interrupts and a
timer, static constructors unpack a film into the heap, and `play()` shows it
from inside the handler of the timer interrupt while the main flow idles. There
are no threads; all concurrency is between the main flow and interrupt handlers,
and between a handler and the callbacks it makes, which change the very list it
walks. That was specified first; the components that run alone (loader, paging, heap,
constructors, the film's decoder) followed.

Paths below are relative to `src/kernel/` unless they say otherwise.

## 1. Inventory

| Component | State | Operations | Interacts with | What makes it correct |
|---|---|---|---|---|
| Interrupt flag and guards (`krnl/cpu/manipulate.cc`) | `cli_count`, `int_aon`, EFLAGS.IF; a bit per `int_guard` | `cli`, `sti`, `die`, `halt`, `sleep`; `int_guard` acquire, release, destructor | called by boot, timers, panic; interrupted at any instruction | a guard keeps handlers out; handlers stay masked; the flag comes back; the count is balanced |
| Programmable timers (`krnl/timer.cc`) | `timer_head` and a doubly linked list of heap nodes; `system_tick` | `initialize`, `handler` (IRQ 0), `add`, `remove`, `get_system_tick` | PIC, heap, guards; callbacks re-enter `add` and `remove` | each timer is called on every interval-th tick with counts 0, 1, 2...; removed timers are silent and freed; no use after free |
| Player (`ba/main.cc`) | which timer is live | `play` and three callbacks | timers, video, console, RTC, allocation log | acts hand over without losing a tick; the pool outlives the film |
| Video (`ba/video.cc`) | `pool`, `count`, `cur_frame`, a union-find | constructor, `next`, `has_next`, `free`, `artify` | heap, decompressor, console | the pool holds the film, exactly; connected blocks get one character |
| Decompression (`ba/decompressor.cc`, `ba/stream.cc`, `src/resource/encode.py`) | prefix tree, bit cursor, buffer | constructor, `nextb` | data linked into the image | decodes what the encoder wrote |
| PIC, dispatch, IDT (`krnl/irq.cc`, `irq_handler.asm`, `idt.cc`) | masks, handler table, gates | `initialize`, `install`, `uninstall`, `enable`, `disable`, `dispatcher` | hardware, timers | no interrupt reaches a missing gate; each is acknowledged once, at the right chip |
| Exceptions (`krnl/isr.cc`, `isr_handler.asm`, `panic.cc`) | none | `dispatcher`, `panic` | console, `die` | the frame it prints is the frame that was pushed |
| Boot (`init.cc`, `begin.asm`, `gdt.cc`, `tmppgdir.c`) | program order | `kinitialize` | everything | nothing is used by a handler before it is ready; console and heap never have two users |
| Constructors, destructors (`krnl/abi/`) | hash table of functions, insertion index | `ctors`, `cxa_atexit`, `cxa_finalize` | heap, vector, sort | destructors once each, in reverse order |
| Console (`krnl/console.cc`) | cursor, attribute, video memory | `putch`, `clear`, `bkcopy`, `setcolor` | everybody who prints | the cursor stays on the screen; scrolling keeps the last lines |
| Real-time clock (`krnl/systime.cc`) | last reading | `get_systime` | CMOS that updates meanwhile | a consistent reading, in 24 hours |
| Memory (`mm/init.cc`, `mm/sbrk.cc`) | page tables, `pbreak` | `initialize`, `sbrk` | CMOS, malloc | the break stays in the pool; distinct pages map distinct frames |
| Heap (`mm/malloc.cc`, `stl/new`) | chunks with boundary tags, bins, trees, top, designated victim | `malloc`, `free`, `realloc`, `memalign` and the rest, `operator new` | `sbrk`, allocation log | blocks apart from one another; every free chunk found again; failure only for want of memory |
| STL port (`stl/`) | `vector` buffer | `insert`, `erase`, `reserve`, `sort` | abi, video | sequence semantics |
| Boot loader (`src/boot/`) | sector registers, retries | `detect`, `load`, `read` | BIOS | every sector at its place, or "Disk error." |

Hard behaviours, with their lines, are listed under "hazards" in `PROJECT.json`:
interrupts between any two instructions of `cli()` and `sti()`; callbacks that
change the list under the walk; delayed frees and reused addresses; unsigned counters
that a decrement would wrap; mask registers read and written in two accesses; registers read while a chip
updates them; the order of initialisation against the first interrupt.

## 2. Modules

| Module | Models | Uses |
|---|---|---|
| `IntGuard` | `cli`, `sti`, `die`, `int_guard`, interrupt delivery, `iret` | |
| `TimerService` | what the timers promise to callers | |
| `Timer` | handler, `add`, `remove` over the list as a sequence | refines `TimerService` |
| `TimerProofs` | its inductive invariant, that it implements `TimerService`, the schedule | `Timer` |
| `TimerList` | the same list by loads and stores, under real guards | extends `IntGuard`, refines `Timer` |
| `TimerListProofs` | the guards, the list that stays whole, its refinement of `Timer` | `TimerList` |
| `MCTimerList` | the permutations of addresses, for TLC | `TimerList` |
| `Play` | `play()` and its callbacks | composes `Timer` |
| `PlayProofs` | hand-over, pool and timing, for any length of the film | `Play` |
| `Irq` | `irq.cc`, the stubs, and the two interrupt controllers (external) | |
| `IrqProofs` | acknowledgement, and which mask updates can be lost, for any lines | `Irq` |
| `Boot` | `kinitialize()`: order of preparation, users of console and heap | composes `Irq` |
| `Loader` | the boot loader: `detect()`, `load()`, `read()`, and `link.py` | |
| `Paging` | `begin.asm`, the temporary directory, `mm::initialize()` | |
| `Exception` | stubs and dispatcher of `isr.cc` | |
| `PowerOn` | from the reset to the film | extends `Boot`, composes `Loader`, `Paging`, `Exception` |
| `MCPowerOn` | drives and images, for TLC | `PowerOn` |
| `PowerOnProofs` | loading, paging, reports and the order of preparation, for any machine | `PowerOn` |
| `Allocator` | what a heap promises | |
| `Heap` | `malloc.cc` as configured, and `sbrk()` | refines `Allocator` |
| `MCHeap` | arguments of the calls, for TLC | `Heap` |
| `Video` | `encode.py`, the decoder, the constructor of `video`, `artify()` | |
| `Registry` | what registered destructors are promised | |
| `AtExit` | `dtor.cc` with its vectors and its sort | refines `Registry` |
| `Ctors` | `abi::ctors()`: the constructors of the kernel in the main flow | composes `Video` and `AtExit` |
| `MCCtors` | films and lists of constructors, for TLC | `Ctors` |
| `CtorsProofs` | soundness of the table of destructors, for any hash and any registrations; film decoded, blocks coloured, for any film | `Ctors` |
| `SysTime` | `get_systime()` against the clock chip (external) | |
| `MCSysTime` | settings of the clock, for TLC | `SysTime` |
| `SysTimeProofs` | why two readings that agree are one moment | `SysTime` |
| `Console` | `putch`, `setcolor`, `clear`, `bkcopy` | |
| `ConsoleProofs` | theorems for any size of the screen | `Console` |

The tower is `Play` on `Timer`; `TimerList` with `IntGuard` below `Timer`;
`TimerService` above it; `PowerOn` on `Boot` on `Irq`; `Ctors` on `Video` and `AtExit`, which has
`Registry` above it; and `Heap` below `Allocator`. `Irq` relies on a result of `IntGuard` (handlers
stay masked, so they are not nested). `Mut...` operators are deliberately wrong variants of the
definition that follows them; each property is known to fail for one of them.

### IntGuard

The unit of interleaving is the machine instruction. `pc[c]` says where context
`c` ("main" or "irq") is inside `cli()`, `sti()` or `die()`; between two of these
steps `Interrupt` may enter the handler when `ifl` is set and a request is
`pending`, and `InterruptReturn` (iret) restores the flag that was pushed. Guards
are anonymous: `held[c]` counts those acquired, `spare[c]` those released early
and still in scope. The initial state is the call of `sti()` in `kinitialize()`,
with `cli_count = 1` as the source initialises it. The gate clears IF, so there is no nesting
of handlers; a second IRQ 0 merges with the pending one, as in the PIC. The `cli` at the head of
the assembly stubs finds IF clear already and is left out.

### TimerService and Timer

`TimerService` has no list and no walk. A timer has an interval, the ticks `left`,
a `count`, and (history) the tick it was added `since`. `Tick` counts all timers
down at once and is allowed only when every timer due has been fired.
`OnSchedule` bounds `left` by the interval, and from below outside of a walk: the sum alone, which is modulo the width, would also hold of a
`count_down` that has wrapped past zero.

`Timer` has the nodes of the heap and the walk of the handler. The list from
`timer_head` on is `passed \o ahead`, cut at the handler's cursor `cur`; `Tick` is the
entry of the handler, `Unlink`, `CountDown` and `Call` are the three ways through the
loop's body, `Return` is the code after the callback, `Done` the end of the loop. `Add`
puts a node at the head, so behind the cursor of a running walk; `Remove` marks.
Both may happen in the main flow (`pc = "main"`) or in a callback (`pc = "call"`), any
number of times. An allocation that fails is `AddFails`, after which nothing
happens, since `operator new` panics. The refinement mapping says that a
timer still ahead of the walk has one tick less to go than its `count_down` says, and one
whose callback runs has its whole interval.

All counters are taken modulo `Width`, for 2^64 in the code, so that behaviours are
infinite with finitely many states, and wrap-around is covered.

### TimerList

`add()` statement by statement (`New`, `LinkNext`, `LinkBack`, `Fill`, `LinkHead`), with
two chains of pointers, freed memory that is zeroed, and addresses that are given
out again. The module extends `IntGuard` and adds its variables to the guards': `Enter` and `Leave` are the constructor
and destructor of the function's `int_guard`, with one guard per context, and `GuardStep`, `RaiseIrq`, `TimerIrq` and `HandlerReturn`
are `IntGuard`'s own steps. One iteration of the handler is one step, because
`HandlerStaysMasked` holds and nothing can come between. `remove()` is one step: its
read and write of one flag are under the guard. `add()` takes effect for `Timer`
with the store to `timer_head`.

The refinement mapping to `Timer`: its list is what one meets by following `next` from `timer_head` (`List`), cut where the
same from `cur` begins (`Passed`, `Ahead`); its heap is ours without the links (`Shown`) and without the node that
an `add()` has under way (`View`); its `pc` is "main" unless a walk is (`Where`).

### Play

`lpfn[n]` says which callback a node has, `todo` where that callback stands between
its calls of the timers. The constants 18 and 9 are the source's. `count` is the number of frames,
any number up to `MaxFrames` including none. `v.progress()`, printing, the RTC
and the screen are left out.

### Irq

`imr`, `irr` and `isr` are the three registers of each controller: masked, latched, in
service. The priority rule, the cascade and the spurious interrupt (`Glitch`: a
request withdrawn while it is acknowledged becomes line 7 or 15, with nothing
in service at the chip that glitched) are the 8259A as `irq.cc` programs it: fixed priorities, no automatic
end of interrupt. The code's part is `Remap`, `MaskAll` and `SetGates`
(`initialize`), `Install`, `Uninstall`, `ReadMask` and `WriteMask` (the `inb` and the
`outb` of `enable` and `disable`, between which an interrupt may come) and
`Acknowledge` (the end-of-interrupt bytes of `dispatcher`).

`enable()` and `disable()` do not turn interrupts off, nor do they ask their callers to, so `ReadMask` may
happen with the flag set, on a register that a handler then changes before `WriteMask` puts the old
value back: the handler's change is undone. That race is in the model, and three history variables say
what it does: `asked` holds the lines enabled and not disabled since, `missed` those that handlers have changed
in the register that the main flow is between reading and writing, and `overtaken` those of them that the
write may have undone, until their next call completes. `MasksAsAsked` is the exact
damage: lines of handlers only, only those overtaken in this way, and never another line of the register.
With every mask simply as asked the property is false for `HandlerLines = {8}`: `enable(9)` reads,
the handler of line 8 enables 8, `enable(9)` writes. In the tree `enable(0)` of `timer::initialize()`
is the only call, and no handler makes one, so nothing is undone there (`NoUpdateLost`, section 4).

### Boot

`Program` is `kinitialize()` as a sequence of steps with the resources each
uses, and every step has a beginning and an end, so that interrupts come during it.
Effects are the actions of `Irq`. `InHandler` says what an interrupt uses when it arrives: the
report of a line without handler prints; a tick with timers prints and frees.

### Loader, Paging, Exception and PowerOn

`Loader` has the registers of `load()` (`ax` sectors left, `bx` and `dx` the address,
`cx` the sector) and does the arithmetic of `read()` on them: `ch`, `cl` and `dh`
are what the BIOS gets, `Served` the sector that it takes them for. A sector's
content is its number, so a read from the wrong place shows. `Fail` is a read that
failed, left rubbish behind and was followed by a reset; the fifth is fatal. `detect()` may fail on a
floppy, whose geometry is the built-in one.

`Paging` keeps in `frames` what was written at which physical page and translates
every access as the processor would (`Frame`), also those by which
`setup_pte()` writes the tables: a wrong table under the feet of the code that
writes it is a state of the model. Pages, not bytes, are counted.

`Exception` has the stack as words named for what they hold, pushed in the order of
processor, stub and `isr_routine`, and reads them back as `isr_context_t`.

`PowerOn` puts these around `Boot`: the loader first, `mm::initialize()` inside its step of
`kinitialize()`, and an exception at any point after `isr::initialize()`, in the main flow
or in a handler. An earlier one resets the machine; it is left out.

### Heap

`gm` is the `malloc_state`; heads of chunks with their two bits are `head`,
the sizes that free chunks leave at their end `foot`, the small bins sequences, and a tree of
large chunks is a function from paths (`<<tree, turn, turn...>>`) to the ring of chunks of one
size there. Operators carry the names of the functions and macros they translate and are
functions of a state, since a call in `malloc.cc` runs through several of them; an
action is one whole call, and nothing runs beside it (`Boot!OneUser`). `blocks` is what the
callers have. All arithmetic is modulo `Word`, so that requests near the end
of the numbers, negative increments of `sbrk()` and the comparison with the ends of the
pool wrap as they do on the machine. The size of a pointer, of a chunk and of the
bins are the machine's; the pool, the page and the threshold of trimming are small. Assertions under `DEBUG`
and the checks of `INSECURE` hold in every sound state (`HeapSound`) and are not separate steps;
chunks of a second segment cannot arise, because nothing but malloc moves the break.

### Video, AtExit and Ctors

`Video` follows the film from text to screen. `encode.py` packs it (`encode`), builds the
tree (`Merge`; which of equally rare trees comes first is open, as the order of Python's heap is
not part of the code) and writes the file (`compress`). The decoder reads that file byte by byte and
bit by bit: `InsertKey` is one key into `trie`, `DecodeBit` one bit and, at a leaf, one byte of the buffer. `Fill`
draws one cell per bit, `Separate`, `Connect` and `Visit` are the three passes of `artify()` over
a frame, with `find()` (path compression, caching the root's pair) and `join()` on `dsu`, and
`Outline` is the last loop. `rand()` is a free choice.
Films with one distinct byte, or with all 256, are excluded: the file has one
byte for the number of keys, and a code of no bits is none.

`AtExit` has the chains of `slot_header` as sequences of nodes. `cxa_atexit` is one step; a
finalization is one step per destructor called (`CallOne`, `CallNext`) and per element sifted by
the sort (`Heapify`, `Pop`). `Registry` is the promise. `Ctors` is
`abi::ctors()`: `which` and `i` are the table and the entry, the constructor of the video does all of `Decode`
and `Draw` and then registers its destructor. The kernel's list has this one entry; the other lists, and
the calls `Later`, stand for other users of the same runtime.

### SysTime

Six registers are read one per step (`Read`) after `Poll` saw the update bit clear,
and the chip may announce an update, be in it (a register then reads as old, new or
255) and settle, between any two steps. `systime` and `reading` are
the code's `systime` and `cur_systime`. The calendar is a list of values per field, whose
last one carries; `Converted` is the conversion of BCD and of 12 hours.
`Gap` says that updates are a second apart: at least that many
readings are begun in between. A real reading takes microseconds, so `Gap = 3` is
far less than the hardware gives.

### Console

`X` is the row and `Y` the column, as in the code, and `screen` the video memory. `Putch`
has the code's order: draw, move, wrap, scroll. `paper` is history: the same text on
a roll that never scrolls, where a tab goes to *the* next multiple of four and a full
line goes on below. `ShowsLastRows` says that the screen is the end of the roll. Replacing
the screen (`Clear`, `Bkcopy`, `Recolor`) begins a new roll.

## 3. Runs

| Run | Question | Bounds |
|---|---|---|
| `intguard` | masking, restoration, balance, no panic in `cli`/`sti`, delivery; guards may be released early | 3 guards per context: one nested inside another inside a third is the first depth where the inner release is neither first nor last |
| `intguard_release` | may a guard be released early? (violated, see below) | 1 guard |
| `timer` | soundness of the list, calls on schedule, refinement of `TimerService`, reclamation, no starvation | 2 nodes, one at the cursor while the other is added, removed or called; intervals 0 (refused) to 3; modulus 4, which 3 does not divide |
| `timerlist` | both chains whole, no dangling pointer, refinement of `Timer` | 3 nodes, so that one is unlinked between two; interval 2, so that walks count down and call; modulus 3; addresses are symmetric |
| `play` | hand-over of the acts | 3 nodes where 2 suffice; up to 4 frames; modulus 20, just above the longest interval |
| `irq` | acknowledgement, what a race on a mask can undo, service of every line | one line of the master and two of the slave, one of which its handlers enable and disable: the slave's mask is shared by main flow and handler, with interrupts on or off, and both chips have priorities to keep |
| `boot` | image, pages, readiness, one user of console and heap, reports, the film starts | timer, keyboard, one line of the slave: a line that is enabled and two that are not, at either chip; a floppy, a drive of one head and one sector (carries at every sector) and the largest; images of 1 byte to 260 sectors, which step the segment and, one sector to a cylinder, the cylinder's ninth bit; five vectors, with error code and without |
| `systime` | one reading is one moment; the loop ends | BCD and binary, carries from second to hour; 3 readings per update at least |
| `systime_12h` | the hour in 12-hour mode (violated, see below) | all 24 hours |
| `console` | cursor and scrolling | 2 rows of 5 columns (one tab stop inside a row, one beyond), 2 colours, 7 characters: enough to fill the screen's first row and to scroll it out |
| `heap` | soundness of chunks, bins and trees; apart blocks; best fit; failure only when full | a pool of 4 KB in words of 14 bits, grown by pages of 512 bytes: every kind of bin, splits, joins on both sides, growth, trimming and exhaustion occur; requests up to the end of the word, of which 7600 makes `pbreak + increment` wrap to an address below the pool (`sbrk()` must refuse it) and 9000 carries it above; 4 calls, of which the first 3 may be any, after lists of up to 8 blocks |
| `ctors` | the film drawn, blocks in one character, order of destructors, construction ends | films of 2 to 6 frames of 2 x 3 cells in bytes of 3 bits, so that a frame ends within a byte and a code is longer than a byte; 3 slots with a collision of three functions; vectors that start at 2 and grow by either rule; 5 registrations |

Deadlock is checked in `timerlist`, `irq`, `systime`, `systime_12h` and `console`. The
others switch it off: a panic, a disk error or an exception halts the machine (`Die`, `AddFails`,
`Stop`, `Fail`, `dispatcher`), and `heap` and `ctors` end at a bound.

What they show. All properties hold, but two:

* `ReleasedGuardEndsQuietly`. `int_guard` offers `release()` on an object documented as
  "scoped/RAII", and its destructor calls `release()` without asking `owns()`; a guard
  released early panics with "Nothing to release." when its scope ends. No caller does that today.
* `HourIsRight`. In 12-hour mode `get_systime()` adds 12 to the afternoon's hours modulo 24, so
  noon becomes 0, and midnight stays 12.

Two remarks on what holds. `EveryLineServed` asks for line 2 of the master to be open when the line
is the slave's: `enable()` of such a line alone does not open it, and no caller in the
tree needs one. `OneUser` has an exception: while the constructors print,
a spurious interrupt on line 7 prints too ("unhandled"); only the text gets mixed.

Remarks on the heap, which no property of a run contradicts:

* `malloc_set_footprint_limit(0)` removes the limit, although its comment (`mm/malloc.cc:1005-1016`) has
  later growth fail: the `else` of a missing `else if` overwrites the minimal size. Set before
  the first allocation, any limit is rounded to a granularity of zero and lost.
* `config.h` defines `EINVAL` and `ENOMEM` as 0, so `posix_memalign()` returns 0, for success, when it fails.
* After one request that `sbrk()` refused, the heap no longer takes the rest of the top into account
  when it grows: each later request asks for all it needs. `FailsOnlyWhenFull` is stated accordingly.

Fairness. Code that was entered goes on (`WF` of a context's own steps): there is
no scheduler that could stop it. A pending request is taken (`SF` of `Interrupt`):
the flag may be cleared again just before, but not at every instruction for
ever. The PIT ticks for ever (`WF` of `Tick`, in `Boot` of `Raise(Timer)`), which with `IntGuard!Delivery` is why
the handler runs. Callbacks return (`WF` of `Handler`; in `Irq`, `SF` of
`Acknowledge`, since a handler may change masks in between); in this tree they do. `Play` and `Boot` need `SF` of the main
flow: ticks are 55 ms apart, and the main flow executes in between. The loader and the constructors have nothing
beside them but interrupts, which return (`WF` of `Load`, `Enter32`, `Map`, and of the main flow in `Ctors`). The clock chip completes
an update it announced (`WF` of `Update`, `Settle`), and polling sees the bit clear at
some time (`SF` of `Poll`), since it is clear for nearly all of every second.

## 4. Proofs

All theorems hold for every value of the constants, under named assumptions on them, which TLC
evaluates too (as it does those of the modules without proofs):

* `GuardAssumption`: the bound is a number. `ListAssumption`: memory is finite, NULL is no object's address, and `add()` has refused 0. `TimerAssumption`: intervals are smaller than the
  modulus. `PlayAssumption`: a second is, too. `IrqAssumption`: no device is wired to the cascade.
  `ConsoleAssumption`: the screen has a cell, the default colour is a colour.
* `PowerAssumption`: the drive has 1024 cylinders, as many as the BIOS can name, of 1 to 256 heads and 1 to 63
  sectors, a floppy with the geometry that `disk.asm` is built for; the image has at most 1792 sectors, so that it ends
  below 0xf0000, up to where `mm::initialize()` maps the kernel, and fits on the drive; exceptions are those
  of `isr.cc` but vector 15, reserved, and 17, which ring 0 does not raise (and for which the stub pushes a zero
  although the processor pushes a code, so that its report would be shifted by a word).
  `BootAssumption`: the timer is wired, the cascade is not a device.
* `CtorsAssumption`: the capacity of a new vector is a number, and tables list functions; a screen, a byte and a large
  block have a size. A film is a sequence of bits, of whole screens and of whole bytes (the program's screen
  is 2000 cells, so its bytes always end with a frame), two bytes of which differ: films cut off within a screen and codes of no bits
  are outside of what is checked and proved.
* `ClockAssumption`: each field has its values once each, of two digits, and hours are below 24.

Type invariants (`TypeOK`) are proved in `IntGuard`, `Timer`, `Irq` and `Console`, and no run repeats them.

* `TimerListProofs`, on the guards. The invariant `IInv` ties `cli_count` to the guards held in both
  contexts plus the call in progress, and `int_aon` to what the next outermost
  `sti()` must do in each context. It is needed because `GuardExcludesHandler` alone is
  not inductive: in a state with a wrong count the next `sti()` would unmask. Proved
  from it: `TypeCorrect`, `MutualExclusion`, `HandlerMasked`, `FlagIsRestored`, `NeverPanics`, `HandlerBalanced`.
* `TimerListProofs`, on the list. Its steps are steps of the guards or leave them alone (`ListObeysGuards`), so `IInv` holds there too, and
  `LInv` builds on it. It names the list instead of following it: the heap chains *some* sequence `p \o a` of nodes, each
  once, both ways, of which `p` is behind the cursor and `a` from it on (`Whole`). Besides: outside of `add()` those are all that is
  allocated, within it all but `ptr` (`Begun`: its links are those that the statements so far have stored); a node that can be reached has an interval and a
  `count_down` not above it (`Filled`); and who is between the statements of `add()` holds the guard, so the other
  context is not (`Guarded`). That last part is why the rest is inductive: without it a handler could unlink the node to which `LinkBack` is about to write.
  * `ListFromIs`: under `Chained`, the recursive function of `List` yields just that sequence. A recursion on an index is within the
    provers' reach where the indices at which a claim fails can be named as a set: it has a least element (`LeastNatural`, from the library's theorem
    on well-founded relations), which is refuted.
  * Each action has a lemma on what it does to `p` and `a`: `add()` puts a node before `p`, the walk moves the first of `a` to the end of `p`, `Unlink` takes
    it out and mends both neighbours, of which either may be missing. From them `ListStaysWhole` (`ListWhole`: no reader meets a half-linked node or a freed one).
  * `ListImplementsTimer`: with `List` and `Ahead` known to be `p \o a` and `a`, every step is a step of `Timer` or a stutter, one lemma per
    action. What `TimerProofs` says of `Timer` (`ListSound`, the service, the schedule) thus holds of the code's statements.
* `TimerProofs`. `IInv` is `TypeOK`, `ListSound` and `CountDownInRange` together: the
  range of `count_down` needs the cursor's node to be linked once, which needs the
  list to be free of repetition. The lemmas on sequences (`TailFacts`, `AppendFacts`,
  `PushFacts`) turn the list into sets of nodes; from there each action has a lemma.
  * `Refinement`: `Timer` implements `TimerService`. One lemma per action: `TickRefines`, `UnlinkRefines`
    (stutter), `CountDownRefines` (stutter), `CallRefines`, `ReturnRefines`, `AddRefines`,
    `RemoveRefines`. The crux is that `Left` and `Fired` anticipate the rest of the walk.
  * `CallsOnSchedule` builds on it: seen as a timer of the service, a node keeps "ticks since `add()`
    = calls made * interval + ticks since the last call" at each of the service's steps (`TickSchedule`,
    `FireSchedule`), modulo the width; the list's steps are those or stutters (`StepRefines`). That makes `Elapsed` an invariant; what the modulus
    cannot tell is in `NextCallInReach`: by `CountDownInRange` the next call is at most an interval away, and since no walk ends with
    nodes ahead of it, no call is due when the handler has returned.
  * The lemmas on remainders say that an integer modulo `w` is the integer plus a multiple of `w`
    (`Quotient`), which leaves the remainder of a sum or a product alone (`SumOf`, `ProductOf`); the
    provers find neither by themselves. `PlayProofs` has those of them that it needs.
* `PlayProofs`. `PlayInv` says which nodes are linked, on which side of the cursor and with
  which callback, at each point of the hand-over: none, one (`One`), or, from the moment a callback has
  added its successor until the walk has unlinked the marked predecessor, both (`Two`, `Handing`). It also
  says how many ticks have passed since `play()` (`Due`), as a function of frames shown and `count_down`. Neither half is inductive alone:
  `cur_frame` determines the time only while one live timer counts, and the pool is freed once only because
  the film's timer is marked in the same call. Nothing in it counts frames or nodes, so the theorems hold for
  any film and any heap. Proved from it: `ActsFollow`, `PoolIsKept`, `FilmEndsInSilence`, `FramesKeepTime`.
* `IrqProofs`. `ServiceInv` says what is in service at each point of a handler: at most one
  bit per chip, the one the coming end-of-interrupt bytes will clear, or none when the interrupt was spurious.
  `AllAcknowledged` is its case outside handlers. `MaskInv` adds what a context knows of a mask register between
  reading and writing it: a handler, which nothing interrupts, all of it; the main flow all but the lines in `missed`. A write thus
  leaves every line as its last call asked except its own, which it sets, and those missed, which become `overtaken`
  (`MaskWrite`). `OnlyOvertakenLost` follows, with no assumption on the interrupt flag, and, for a kernel whose
  handlers change no mask, as this one's, `NoUpdateLost`: the masks are exactly what was asked.
* `PowerOnProofs` has four invariants, of four parts of the state that meet at the steps of `PowerOn`.
  * `LoadInv` (`KernelIsLoaded`): while `load()` runs, `ax`, `bx` and `dx` say the same of how far it is as `cx` does, and
    memory holds sector after sector up to there, and perhaps rubbish of a failed read in the next place. That the next read takes the
    sector meant is arithmetic (`Geometry`, `ServedIsMeant`): cylinder, head and sector are found by two
    divisions, and multiplying back gives the block that was divided, ninth and tenth bit of the cylinder included. The number of
    retries does not occur in it.
  * `PageInv` (`PagesSettle`): which tables are filled after each of the four `setup_pte()`. A
    table is written through the mapping that the ones before it made, so the proof follows each address that is
    written through the directory (`LowPages`, `Mapped`) before it can say that the entry went where it was meant;
    `WholePool` is that every page of the pool has a frame of its own.
  * `StackInv` (`ExceptionIsReported`): what is on the stack at stub, routine and dispatcher. The stub
    pushes a zero exactly for the exceptions for which the processor pushes no code.
  * `BootInv` (`InterruptsFindAllReady`, `OneAtATime`): how far `kinitialize()` is decides which gates and handlers are installed and
    that, as long as interrupts may come, the one line open is the timer's (`Controllers`), and whether the flag
    can be set (`Flags`). `ReadyWhenReached` alone is not inductive: it says nothing of the masks.
* `ConsoleProofs`. `IInv` is the three invariants of the run and that the roll has at least the rows of the screen.
  `TabAgrees` shows that clearing two bits finds the only tab stop there is, `TypedIsAdvance` and
  `AdvanceFacts` that a character adds at most one row to the roll, and `DrawnAgrees` and `ScrolledFacts` that drawing and
  scrolling do the same to the screen. `CursorStays` and `ShowsRoll` follow.
* `CtorsProofs`. `TableStaysSound`: `TableInv` adds the types to `TableSound`, and what is needed for them, that
  `wkctor()` stays inside of its table (`ListedCtor`). A chain stays sound when a node is put before it, when one
  of its vectors grows (`PushBack`) and when a node is taken out (`InsertSound`, `ExtendSound`, `RemoveSound`).
* `CtorsProofs`, on the film. `VideoInv` is one invariant of the way of the film from `encode.py` to the screen, in two halves that meet
  where the pool is filled: `CodeInv`, by which `FilmIsDecoded` (`Silhouette`), and `DrawInv`, by which `BlocksAreColoured`. It says nothing of
  how often a byte occurs: a code is decoded because it is prefix-free, not because it is short, so the proof holds for any choice
  between trees.
  * `QueueInv`: in each tree of the queue no code begins another, and every byte of the film is in one. Joining two trees
    puts a 0 before the codes of one and a 1 before those of the other (`MergeStep`). Because two bytes of the film differ, the last tree is no leaf and no code is
    empty (`CodesNotEmpty`). That matters for the length of a key: `(length - 1) / 8 + 1` truncates towards zero and would skip a byte after
    a code of no bits; for all others `InsertKeyStep` shows that it ends where the next key begins.
  * `KeysAt` and `DataAt` say where in the file each key and each bit are, by a function `koff` or `hoff` from the number of keys or symbols to the offset
    behind them (`Packed`, `DataFacts`). `FieldFacts` and `HeaderStep` invert the division of numbers into bytes. `TrieHas`: the trie holds the codes inserted so far and their
    beginnings, and labels at the codes alone. `AtData`: what is decoded is a beginning of the film's bytes, `cur` a beginning of the next
    code, and the stream right behind it (`Within`); at each bit `DecodeBitStep` stays in that state.
  * `Forest` says of the union-find that there are `rt`, the root above each cell, and `rank`, which decreases along `father`: `find()` is a
    recursion on it, and shortening paths keeps both. `Collected`: a root holds the size of its class and the character of
    one of its cells that had one. `Apart`: no class reaches out of a connected block; `JoinedSoFar`: the pairs the loop has visited have one root. At the end of the loop both
    give `Blocks`: classes are the connected blocks, whatever the order of the joins. `Colouring` and `ShownSoFar` follow the
    loop that chooses characters: a class is settled when it is first visited (`SettledInfo`), and cells visited show what it was settled to.
  * Recursive functions (`encode`'s bytes, `read()`, `FlattenSeq`, `Path`) are handled as in `TimerListProofs`: the least index at which a claim fails is refuted.
* `SysTimeProofs`. `ReadsATime` is stated for clocks that count 24 hours (with 12 it is false, see `HourIsRight`)
  and `Gap >= 2` (with updates after every reading, two mixed readings could agree). `SysInv`: a reading under way is
  of the present time so far, unless an update settled or is in progress during it (`Clean`); then the reading before it
  is of one second, since between two updates there is a whole reading (`LastReading`). When both
  agree one of them is of one second, hence both are. `BinaryOfEncoded` inverts BCD; `SuccIsTime` is the calendar's carry.

Only model-checked:

* Liveness (`Delivery`, `Reclaimed`, `TimersFire`, `EndsInClock`, `EveryLineServed`, `FilmPlays`, `FilmReady`,
  `Returns`), since the proof system does not handle fairness.
* `Heap` (`HeapSound`, `ImplementsAllocator`, `BestFit`, `FailsOnlyWhenFull`): what it says of bins and trees is said by recursions over them.
* `AtExit` under `Ctors` (`ImplementsRegistry`): the order of destructors is what a heap sort makes of a vector, and that a loop of sifts
  sorts every sequence is an induction over data.
* `HourIsRight` and `ReleasedGuardEndsQuietly`, which are false.

## 5. Plan

Theorems to come: for `AtExit` that no registration is lost or made twice up to the sort.

## 6. Not modelled

* `util/xprintf.cc` is vendored; formatting, the hardware cursor (it follows `X` and `Y` and is hidden), the divisor
  of the PIT, port timing, segment descriptors, the A20 gate and the loader's messages carry no state that a property could be about.
* The parts of `malloc.cc` that `config.h` compiles out (mmap, locks, footers, mspaces), the
  statistics it prints, and the bytes inside of blocks, which `realloc()` copies and `calloc()` clears.
* `sleep()`, and with it `get_system_tick()`, has no caller.
* Handles are used as callers in the tree use them: a handle whose
  node may already be freed is never passed to `remove()`; `timer.cc` cannot detect it.
* `.bss` is not part of `kernel.bin`, and nothing clears it: the modules begin with the zeroes
  that the program relies on. `Paging` does not count its pages among those used either.
* Page 0 is mapped, so a use of `NULL` does not fault; no module has one.
* `find()` recurses along the path to the root, on the kernel's stack of 40 KB above the page tables; its depth is not bounded by a model.
* `dtors()` and `cxa_finalize()` have no caller in the tree. Registration from inside a destructor is left
  out, and so is anything after `cxa_finalize(NULL)`, which leaves the addresses of deleted nodes in `slot_header`.
* Build rules and the film's text are data.
