# A verification of the myOS kernel

myOS is a small x86-64 kernel in C. A UEFI boot loader starts it, it sets up
its memory allocator, page tables, descriptor tables and timer once, prints
what it does on the framebuffer, and then loops for ever. This directory holds
TLA+ modules that model it, TLC configurations that check them on small
machines, and proofs of the safety properties of the allocator, the page
tables, the initialisation of paging, the boot that composes them, the timers,
the console, the formatting of text and the bitmap for every machine.

Paths below are relative to the repository root, which is `src/`: the C code
is in `src/src/`.

## 1. The system

One processor runs `_start` (`kernel.c`) from its beginning to its final loop.
There are no threads, so calls do not overlap. The kernel contains no `cli` and no
`sti`: that no interrupt arrives is something it inherits from its loader, and
`BootSequence` shows what depends on it. What moves beside the processor is the
HPET's counter. What makes the code hard is something else: memory that
describes itself (the allocator's array and the page tables live in the memory
they manage), data that other software left behind, limits and results that are
not checked, and an order of steps on which everything depends because no fault
handler exists yet.

| component | state | operations | uses |
|---|---|---|---|
| memory map (`memory/mmap.c`) | the UEFI descriptors, constant | `get_memory_descriptor`, `get_number_of_page_frames` | loader |
| physical memory (`memory/pmem.c`) | `physical_memory`: an array of frames (state, address) and three counters | `init_physical_memory`, `PhysicalMemory__init`, lock / free / reserve / unreserve frame, `pmem_request_frame` | memory map |
| page tables (`memory/paging.c`) | `PML4` and the tables below it | `map_vaddr_to_paddr`, `is_page_present` | physical memory |
| paging initialisation (`memory/paging.c`, `paging.asm`) | CR3, CR4, EFER | `init_paging`, `_identity_paging_memory`, `_identity_paging` | page tables, framebuffer, HPET |
| HPET (`acpi/hpet/hpet.c`) | the device's registers | `HPET_init`, enable / disable the counter, read it, count timers | ACPI tables |
| HPET timers (`acpi/hpet/timer.c`) | configuration and comparator of each timer | `HTimer_set_one_shot` and the register accesses under it | HPET |
| framebuffer (`framebuffer/`) | the pixels | `set_pixel`, `set_all_pixels`, `print_glyph` | loader |
| console (`console/`) | cursor (position, colours), font | `print_char`, `print_str`, `clear_screen`, `printf`, cursor moves | framebuffer, libc |
| kernel messages (`kutils.c`) | none | `kprint_*`, `kpanic` | console |
| ACPI tables (`acpi/acpi.c`) | firmware tables, constant | `get_acpi_std_header`, version, signatures | |
| local APIC, LVT (`acpi/apic/`) | device registers, an MSR | `APIC_enable`, id, version, `LVT_set_entry` | cpu |
| GDT, IDT, handlers (`gdt/`, `idt/`) | two tables | `init_gdt`, `init_idt`, two handlers that print and loop | console |
| CPU information (`cpu/`) | `cpu` | `CPU_init`, `check_cpu_state`, CPUID, MSRs | |
| libc (`libc/`) | none | `itoa`, `str_reverse`, `str_len`, `memcpy`, `memset`, `strncmp` | |
| bitmap (`bitmap.c`) | a buffer with its header; no one uses it | `Bitmap_init`, `Bitmap_get`, `Bitmap_set` | libc |
| boot sequence (`kernel.c`) | `kernel` | `_start` | all |
| boot loader, firmware | memory map, stack, framebuffer, old page tables | outside the repository | |

What makes each of them correct:

* memory map and allocator: exact counters, no frame granted twice, nothing
  that belongs to the firmware, the loader, the stack or the allocator's own
  array granted at all, NULL only when memory is exhausted;
* page tables: a call changes the translation of its page and of no other,
  from frames full of old data, and writes only to tables;
* paging initialisation: everything the kernel touches after the load of CR3 is
  mapped to itself, and stays so; nothing else is mapped;
* HPET timers: each request is answered by one interrupt, not too early;
* framebuffer and console: what was printed is what is shown, and nothing
  outside the framebuffer is written;
* formatting: the text is the format with its conversions replaced, in order, and
  no buffer is left unless the text does not fit;
* bitmap: no two bits share a place, and the header the bits overlap is changed
  only through the bits that overlap it;
* boot sequence: on a machine that has what the code relies on, the last loop is
  reached; on every machine the boot ends, a fault or a wild access has one of five
  causes the code does not check and comes at the step where that matters, and the
  tables are built without spoiling protected memory.

The hazards, each at its line, with the properties that cover it or the reason
why none does, are in `PROJECT.json`.

## 2. The modules

| module | models | lines of code |
|---|---|---|
| `MemoryMap` | the descriptors, the number of frames, the largest free segment | `mmap.c`, `mmap.h`, `pmem.c:9-36` |
| `PhysicalMemory` | the allocator | `pmem.c`, `pmem.h` |
| `FramePool` | abstract: a pool of frames that are free, used or withheld | |
| `PageTables` | the walks of the page tables | `paging.c:28-144`, `paging.h` |
| `PageTableClients` | any sequence of calls of `map_vaddr_to_paddr` | |
| `AddressSpace` | abstract: a map from pages to frames | |
| `Paging` | `init_paging`; extends `PageTables` | `paging.c:146-199` |
| `HpetTimer` | the HPET and the calls that program it | `hpet.c`, `timer.c` and headers |
| `Framebuffer` | pixel writes, glyphs, fills | `framebuffer/` |
| `Console` | cursor, printing, clearing, panic; extends `Framebuffer` | `console.c`, `kutils.c:41-49` |
| `Printf` | the formatting of text and numbers | `console.c:116-194`, `stdlib.c` |
| `Bitmap` | bits in a buffer that holds its own header | `bitmap.c`, `bitmap.h` |
| `BootSequence` | `_start`; extends `PhysicalMemory`, with an instance of `Paging` | `kernel.c`, `cpu.c`, `acpi.c`, `gdt.c`, `idt.c`, `apic.c`, `paging.asm` |
| `MC*` | values of the constants for TLC | |
| `*Proofs` | theorems of the module they are named after (`PhysicalMemoryProofs`: of `MemoryMap` too; `ConsoleProofs`: of `Framebuffer` and `Printf` too) | |

Definitions whose name ends in an underscore and a word (`FreeFrame_Unchecked`)
and whose comment begins with "Mutant" are variants of the definition below
them with a plausible bug. No specification uses them; they show that each
property depends on the code.

### The allocator

Memory is counted in frames. The array of `PageFrame` is one function per field
(`state`, `frame_addr`), the counters one function of the state (`count`).
`PhysicalMemory__init` is one action per loop head or iteration
(`InitPhysicalMemory`, `EnterRegion`, `MapPage`, `LeaveRegion`,
`ReserveStackFrame`, `LockArrayFrame`, `FinishInit`), with the loop variables
as state, so that its invariants speak of every point of the loops. Afterwards
(`pc = "ready"`) `Operate` lets the kernel call any operation on any frame of
the array; a call of `init_physical_memory` again changes nothing. The array is
placed where `__get_largest_free_mem_seg` says, at `LargestFreeMemSeg`. Two history
variables are not in the code: `held`, the frames granted and not freed since,
and `released`, the frames a caller has explicitly freed or unreserved.

`NULL` is 0, the address of frame 0, as in the code.

### Page tables

A frame holds, for each index, a `present` bit and a frame number: what a walk
reads if it takes the frame for a table. Frames nobody has cleared hold
`Garbage`, which the configurations choose as full of present entries. A call
of `map_vaddr_to_paddr` is one action per level (`EnterTable` if the entry is
present, `CreateTable` if not, `SetPage` at the last), so that the state
between the levels, in which tables are linked but empty, is visible. `Pointer`
is the 32-bit shift by which the code turns an entry into a pointer (checked
against the compiler: the type of a 32-bit bit field is `unsigned int`), while
the walk of the processor (`Below`) keeps all the bits. `pmem_request_frame` is
`Requested`, the first free frame in array order, or `NULL`, which the code uses
without a check, and so does the model. `Paging` adds `init_paging` as a
sequence of phases (`identity`, `test`, `write`, `check`, `done`).

The test of the new tables writes 123 to the address 0x99999999999, whose page it
has mapped to frame 0 (`WriteTestByte`). If that frame is in use as a table, the
byte at offset 0x999 is the second byte of its entry 307 (`TestEntry`): the bit of
present is in another byte, but the upper four bits of this one are the lowest of
the entry's frame number, which become 7 (`WithTestByte`). An entry that is present
then leads to another frame. `TestHarmless` says that the entry is not present when
the byte is written; `TestEntryUnused` is what this takes of a machine: if frame 0
can be a table, no page to be mapped lies behind that entry, that is, between 307
and 308 GiB. `paging_test_byte` is a machine with a framebuffer there.

The translations a processor keeps are not a variable: nothing in the code ever
invalidates one, so it may keep every translation and every table it could have
seen since CR3 was loaded, and `NoStaleTranslation` says that none of these
changes.

### The timer

The processor's call `HTimer_set_one_shot` is four steps (call, write of the
configuration, read of the counter, write of the comparator), and the counter
ticks between them. Everything the device does is taken from the HPET
specification that `hpet.h` and `timer.h` refer to, and marked external. In the
periodic mode with `tn_val_set_cnf` clear, devices differ in whether a write
of the comparator register sets the comparator or only the period: the model
allows both. The
history `shot` keeps the last request of each timer, the count of its
interrupts, and whether the interrupt of an earlier request was still due when
the timer was programmed again: that one is not counted against the new request.

### The console

`Framebuffer` is a set of functions from contents to contents. A pixel has four
bytes, but `set_pixel` stores a `uint64_t`: the pixel after it is set to the
upper half of the colour, which is 0. The loops of a glyph and of a fill are a
sequence of dots, in the order of the code, set one by one (`AfterDots`), because
the order decides what survives. Memory after the buffer is modelled for `Margin` pixels. Each call of
the console is one action; `kpanic` is one action with all it calls.

`Printf` models how the text comes about: one iteration of printf's loop per
step, with the buffers `buf`, `temp_buf` and `str` and the 16-bit indexes, in
sizes that the configuration scales down. The first write outside of a buffer
ends the model (`overrun`), since what it hits depends on the compiler. What
should be printed (`Expected`) is stated on the tokens the format was made of,
which the loop never sees.

### The boot

`BootSequence` follows `_start` statement by statement (`step`). It extends
`PhysicalMemory` and instantiates `Paging` with the frames of the allocator's
array as `FrameArray` and its free frames as `free`, so that `MapMemory` is a step
of `init_paging` together with the step of the allocator that it causes. A
`machine` records what the code relies on without a check: the signatures of the
ACPI tables, whether the APIC is on, whether interrupts are on, whether the
processor checks the reserved bits of CR4, whether LA57 is set, and where the
firmware's page tables lie. `dead` and `wild` are the ends the code does not have
in mind: a fault that finds no handler, or one that never returns; and a
dereference, or a translation, of whatever happens to be there. `LostForCause`
says, of every machine, which of the unchecked things has to have happened for such
an end, and at which point of the boot: an interrupt under the kernel's GDT; no HPET
table, or a processor that checks CR4's reserved bits, before any page table is
built; a page table built over one of the firmware's, before CR3 is loaded; LA57,
when it is loaded. It also says that no boot gets past the two that come first, nor
past LA57. `Supported` is the set of machines with none of the five. Nothing is wrong
with the others by any document of the repository; the model says which of its
assumptions each step needs.

### The bitmap

A byte is the set of its bits. `Bitmap_init` points `buffer` to the start of the
buffer, so the first 128 bits are the header itself; `status` becomes `wild` when
a call changes a bit of the pointer. `set` and `touched` are history: the bits set
by the last call on them, and all bits written.

## 3. The runs

| run | what it asks | result |
|---|---|---|
| `pmem_operations` | all allocator properties: initialisation, then every sequence of calls on every frame | holds |
| `pmem_frame_zero` | NULL means exhausted, when the map begins with free memory at 0 | violated |
| `tables_clients` | `PageTableClients` implements `AddressSpace`, tables form a tree, only tables are written, the frames suffice, calls return | holds |
| `tables_exhausted` | the same refinement when frames run out | violated |
| `paging_init` | all memory and devices mapped and staying mapped, no page fault, nothing else mapped, no stale translation, enough frames, nothing behind the entry the test's byte falls into, `init_paging` returns | holds |
| `paging_framebuffer` | devices mapped, framebuffer of a size the rounding gets wrong | violated |
| `paging_test_byte` | devices mapped, framebuffer behind the entry the byte of the test falls into | violated |
| `hpet_one_shot` | each request answered once and on time, timers without periodic mode | holds |
| `hpet_periodic_timer` | one interrupt only, on a timer with the periodic mode | violated |
| `console_operations` | what was printed is shown; nothing after the buffer is written | holds |
| `printf` | the text printed, for every short format; overruns; every call returns | holds |
| `boot` | `_start` on 144 machines: supported ones reach the loop, every boot ends, those lost are lost for one of the five causes, none spoils protected memory | holds |

The violated ones are disagreements of the code with its own comments, or with what
these say it is for, listed in `PROJECT.json` under "findings". Each checks one property in one situation
in which the code does not keep it; the passing runs show that outside of that
situation it does.

One disagreement is part of the passing runs: `pmem.c:68` multiplies the size of the
array by 8 in a line commented "In bytes", so the loop commented "Lock frames where
the frames' array is placed" (`pmem.c:129`) locks frames behind the array too, in
`PhysicalMemory.cfg` three for an array of one. No property forbids it.

More such situations are within reach of the same modules by a change of a
constant, and have no run of their own:

* `PointerFrames = 4` in `PageTables.cfg`, and no `MemoryAssumption`, puts tables
  above the 4 GiB that the 32-bit shift of `paging.c:77` can address:
  `PresentAgrees` and `ImplementsAddressSpace` fail, the table is created and not
  found again;
* `FirstComparators = {1, 11}` in `HpetTimer.cfg`, a comparator the firmware left
  within reach: `FiresOnTime` fails, as the interrupt is enabled (`timer.c:50`)
  before the comparator is written;
* `TickNs = 1` there, a device faster than the 100 ns the code supposes:
  `FiresOnTime` fails;
* `Requests = {0}` there: `RequestsAnswered` fails, the count asked for has passed
  when it is written.

### Bounds, and why they are enough

* Allocator: six frames in five regions. The map contains what the code
  distinguishes: usable and unusable types, holes, an empty descriptor, equal
  segments, addresses out of order, the array not in the first region, frames
  locked beyond the region of the array, the stack in memory that may otherwise
  be granted. No counter is capped: a frame has three states and the state
  space is finite. For larger maps there are the proofs.
* Page tables: two entries per table and nine frames (`tables_clients`), four
  entries and sixteen frames (`paging_init`). Four levels are kept. The virtual
  pages 0, 1, 2, 8 share all tables, all but the last, and only the root; each
  call may meet tables created by any earlier one. Frame numbers go up to 255, so the
  four bits the byte of the test overwrites are those of the code; `TestEntry` is the
  last of the four entries. `MaxInUse` bounds how many
  frames are taken when paging starts; every choice of them is an initial state.
* Timer: `Horizon` stops the counter long before its 64-bit wrap (thousands of
  years at 100 ns), and a request is made only if its interrupt lies before it.
  `MaxLag` bounds the ticks between two instructions of a call; it is smaller
  than the shortest request in the passing run, which is the assumption under
  which the code works at all. Two timers show that they do not disturb
  each other.
* `printf`: formats of up to three tokens of six kinds, with and without a lone
  percent sign at the end, three lists of arguments chosen so that a long number
  comes before a short one and some texts just fit `BufSz`, and the numbers of
  `print_int` in bases 2, 8, 10 and 16. `IndexRange` is the size of the 16-bit
  index; a format at least that long would never end (`CallsAssumption`).
* Boot: one memory map of six regions and 16 frames, in which frame 0 is usable,
  the kernel is in memory of the loader, and the stack and the firmware's tables
  can be in memory that may be granted. `Variants` has every combination of the
  machine's other properties. `MaxInUse` of `Paging` is the number of frames the
  allocator's initialisation does not leave free (`FramesTaken`), and not a bound.
* Console: glyphs of 2 by 2 pixels, two lines of two characters, scanlines that
  follow each other without padding. A pixel write reaches the next pixel only,
  which is in the glyph to the right or at the beginning of the next scanline, so
  two neighbours in either direction are all that can interact. `OnScreen` stops
  printing when the cursor has left the screen: the console never scrolls, and
  what it spoils then is a hazard without a property.

### Deadlock and fairness

Deadlock is checked except in the runs of `init_paging`, of `_start` and of
`printf`, which come to an end.

Fairness is weak and only on steps the processor or a clock takes by itself:
initialisation of the allocator, the walk of a call in progress, the steps of
`init_paging`, the steps of a timer call, and the tick of an enabled counter.
Nothing preempts `_start`, so an enabled step of a running call is taken. No
fairness is assumed of callers: the kernel need never call anything. `Tick` and
the steps of a timer call have separate fairness conditions, and a call that
has let `MaxLag` ticks pass must move first. In `BootSequence` the condition is on
`Start`, the steps of `_start`; none is on interrupts.

### Assumptions on the machine

Each is an `ASSUME` that TLC evaluates in every run, and none is checked by the
code:

* `MemoryMapAssumption`: descriptors are of known types and cover disjoint
  memory, with distinct addresses, as UEFI promises.
* `MachineAssumption` (allocator): the stack lies in the map, some memory is
  conventional, the array fits into the largest free segment, the number of
  frames it locks is at least one and does not run past the array. The code
  computes the array's size eight times too large, so with 32 frames or more
  it locks at least as many frames as it should.
* `PagingAssumption`, `DevicesAssumption`, `ClientsAssumption`: numbers are numbers,
  the root table lies in memory, and callers map frames that fit an entry; the byte of
  the test lies in some entry.
* `MemoryAssumption`: memory lies below 4 GiB, where the 32-bit shift loses nothing.
* `PagesAssumption`: the kernel lies in the memory map, its variable `PML4` not at
  address 0, page numbers fit the four
  indexes, and the page of the test is not in use.
  `Paging` alone takes the firmware's identity map, in force until CR3 is loaded, to
  be intact; `BootSequence` says on which machines it is.
* `PrintfAssumption`: buffers have a size, smaller than the range of the 16-bit index
  (4096 and 65536), and the digits are characters, NUL is none.
* `CallsAssumption`: formats are tokens and shorter than the range of the index;
  there is an argument for each conversion; and the digits of a number in base 10
  or 16 fit `temp_buf`, as those of every number of 64 bits do.
* `HpetAssumption`: numbers are numbers.
* `FramebufferAssumption`, `ConsoleAssumption`, `FontAssumption`: the screen has
  room for the 37 by 100 positions and at least one scanline more (37 lines of
  16 pixels leave 8 of 600), and the leftmost column of a glyph is dark,
  as it is for every printable ASCII character of `fonts/zap-light16.psf`.
* `MessageAssumption`: what `kpanic` prints consists of characters and, printed from
  the first position on, ends on the screen.
* `MachinesAssumption`, `BootAssumption`: the fields of a machine have their types;
  the assumptions of `Paging` hold of it, and the kernel, PML4 with it, was loaded
  into memory of a type that the kernel does not use.

What `BootSequence` needs of a machine to reach the last loop is `Supported`: an HPET
table, interrupts off, no LA57, a processor that does not check the reserved bits of
CR4, and the firmware's page tables outside of the memory the kernel may use. Only
the second part of `BootCompletes` is claimed of these machines alone; everything
else, `LostForCause` too, of all.

## 4. The proofs

The theorems hold for every value of the constants that satisfies the assumptions
above, and for behaviours of any length. A hypothesis of a theorem is named next to
it.

### The allocator: `PhysicalMemoryProofs`

* `TypeCorrect`: `Spec => []TypeOK`;
* `CountersCorrect`: `Spec => []CountersMatch`;
* `GrantedStaysLocked`: `Spec => []HeldFramesLocked`;
* `ProtectedNotGranted`: `Spec => []NoProtectedFrameGranted`;
* `NullOnlyWhenExhausted`: `Spec => []NullMeansExhausted`, if no descriptor covers
  address 0 (`NullIsNoFrame`);
* `AllocatorImplementsPool`: `Spec => ImplementsPool`.

None of these is inductive alone. The inductive invariant has two parts. `Base`
is the type invariant, the counters, and what the loops know: where `frame_id`
stands relative to the descriptor and the page (`ControlInv`), which addresses
have been entered into the array so far (`AddressInv`), and that
`array_frame_id` is the first frame of the largest segment once its region has
been passed (`ArrayInv`). `Safe` adds which protected frames are already
reserved or locked at each point of initialisation (`SecuredKept`), and with it
the two safety invariants. `ControlInv` is needed because `frame_id` is only a
valid index while the loop over the map runs; `AddressInv` because the stack is
found by its address; `SecuredKept` because a frame must be protected before
the first request and stay so until a caller releases it. The facts
on `FirstFrame` (it is a sum, so it grows with the index, and every frame belongs to
exactly one descriptor) are proved first, by induction on the naturals written out
with a least counterexample (`LeastElement`), since theorems with operator
parameters cannot be instantiated. The refinement follows from the invariant:
each action either leaves the pool alone or is one of its actions, and `held` is
part of what is used.

`NullMeansExhausted` follows from `Base`: if a frame is free the counter is not
zero, so the request finds a frame, and its address, which `AddressInv` gives, is
covered by a descriptor. `pmem_frame_zero` shows what happens without the
hypothesis.

### Page tables: `PageTablesProofs`, `PageTableClientsProofs`

Under `[]EnoughFrames` (a frame is free whenever a table is missing; without it
`tables_exhausted` shows the refinement to fail):

* `TypeCorrect`, `TablesStayDistinct`, `PresentCorrect`: the invariants `TypeOK`,
  `TablesDistinct`, `PresentAgrees`;
* `WritesOnlyTables`: the action property `OnlyTablesWritten`;
* `TablesImplementSpace`: `ImplementsAddressSpace`.

`Node(ix, l)` is the frame that the walk of an address has reached at a level, so
that a fact about all levels is one statement. The invariant `Inv` says that what
is linked was requested for a table (`Known`), that two addresses lead to the same
table only at the same level and if they agree in all indexes above it (`Tree`),
and that a call in progress stands where the processor's walk would be (`AtNode`).
`Tree` is what makes the properties inductive: a write to one entry of one table
changes the walk of exactly the addresses below that entry. `PageTablesProofs`
states what each step does to `Node`, and both users cite it.

The hypothesis on the run is then replaced by one on the machine, `RoomFor(VPages)`:
`MaxInUse` frames, those not free at the start, and one for each place below PML4
where the walk of some page needs a table (`TablePlaces`) are no more than there
are.

* `FramesSuffice`: `Spec => []EnoughFrames`;
* `ClientsCorrect`: the properties above, with nothing assumed of the run.

The invariant is a count (`FramesCounted`): the frames not free are at most
`MaxInUse` and the places that have their table. A step that takes a frame fills a
place (`CountCreateTable`), since the place of a missing table was not filled, and
no step empties one. `PageTables.cfg` has exactly the frames asked for.

### Initialisation of paging: `PagingProofs`

Under `[]EnoughFrames` and `[]TestHarmless` (if frame 0 is a table when the byte of the
test is written to it, the entry whose frame number it overwrites is not present; both
are properties of the run `paging_init`):

* `PagingTypeCorrect`, `PagingTablesDistinct`, `MemoryIsMapped`,
  `PagingTakesNoFault`, `OnlyJobsMapped`: the invariants `PagingTypeOK`,
  `TablesDistinct`, `MemoryStaysMapped`, `NoPageFault`, `NothingElseMapped`;
* `DevicesAreMapped`: `DevicesStayMapped`, if the sizes of the framebuffer and the
  HPET are among those that the code rounds up correctly (`SizesRoundUp`);
* `NothingGoesStale`: the action property `NoStaleTranslation`.

The inductive invariant `PInv` adds to `Inv` which page the call in progress maps
(`CallInv`), that the loop is at its end when paging is on (`ProgressInv`), that
every job already done is mapped to itself (`MappedInv`) and that whatever is
mapped is one of the jobs done, or the page of the test (`NothingElse`). That two
pages differ in some index as long as they lie below the limit of the four indexes
is proved from the division; that a job done stays done, from `Tree`. The write of the
test is not one to an entry of a call, so `Tree` says nothing of it: a walk reads of a
table which entries are present and, of those only, the frame number (`ReadsAlike`),
and a write that leaves this as it is changes no walk (`WriteUnseen`). The byte is such
a write (`TestUnseen`), by `TestHarmless` if frame 0 is a table, and because no walk
reads frame 0 otherwise.

The second part replaces the two hypotheses on the run by three on the machine:
`RoomFor(AllPages)`, as above for the pages that are mapped here; `FrameZeroFirst`,
frame 0 is the first of the frame array or not in it (the array is in the order of
the memory map, and the firmware's starts at the lowest address); and
`TestEntryUnused`, no page is behind the entry that the byte falls into, if frame 0 is
in the memory map. `paging_test_byte` shows that the last one is needed.

* `PagingFramesSuffice`, `TestIsHarmless`: `Spec => []EnoughFrames` and
  `Spec => []TestHarmless`;
* `InitPagingCorrect`: the theorems above, that on the devices under `SizesRoundUp`,
  with nothing assumed of the run.

The invariant `ZeroInv` says that frame 0 is a table only as the table of level 3 on
the way to page 0, and is free only while no table has been created: if it is free,
the first request gets it (`ZeroRequested`), and the first walk is that of page 0, the
first page mapped (`FirstCall`). `TablesUsed` says that every table of level 2 is on
the way to some page that is to be mapped: were the entry of frame 0 present, it would
lead to such a table, and its page would be behind the entry (`BInvHarmless`).
`Paging.cfg` has exactly the frames asked for, and frame 0 first.

### The boot: `BootSequenceProofs`

The theorems on the allocator and on paging are each about one module by itself.
Here they are proved of the two running together, where the frames that
`init_paging` takes are those the allocator grants, and what it writes over is
memory that something else may be in:

* `BootRunsAllocator`: `BootSpec => Spec`, every behaviour of `_start` is one of the
  allocator, so every theorem above about it is one about the boot;
* `BootTypeCorrect`, `BootKeepsProtected`: `BootTypeOK` and `ProtectedIntact`, on
  every machine that `FitsItsTables`;
* `BootNeverLost`: `LostForCause`, on those machines, strict processors and all, whose
  devices are also of sizes the code rounds up correctly (`SizesRoundUp`); and from it,
  that a supported machine is never lost;
* `BootPagingCorrect`: once the allocator runs, paging keeps what
  `InitPagingCorrect` says of it alone;
* `BootRequestsAgree`: the frame `Paging` takes for a table (`Requested`) is the one
  `pmem_request_frame` of `PhysicalMemory` grants. `MapMemory` is a conjunction of a
  step of each, and one that can never be taken would make everything true; this
  theorem says that no step is lost.

`FitsItsTables` is the hypothesis of `InitPagingCorrect` for this memory map: frames
enough for the tables beside those that initialisation takes, frame 0 the first
of the array or not in it, and no page behind the entry that the test's byte falls
into.

The inductive invariant `BootInv` has five parts. `Base` and `Safe` are those of the
allocator. `StepInv` says which step of `_start` goes with which phase of the
allocator, and whose descriptor tables are loaded. `PagingInv` is the inductive
invariant of `PagingProofs`, of this instance of `Paging`, from the moment the
allocator is ready; before, nothing is mapped and what is not free is in
`FramesTaken`. `OthersIntact` says that no table but PML4 lies in protected memory,
and that a frame that is no table holds what it held. `LostInv` adds to `LostForCause` how far a boot has come at each step: what it has
found of the HPET, which tables there are, whether CR3 is loaded. The parts meet where initialisation ends: paging does
not start in an initial state of `Paging` by itself but with the free frames the
allocator leaves, and `FramesTaken` counts the others. The type invariant of paging
is part of `BootTypeOK` only once the allocator is ready: before that, the address
of a frame not yet entered into the array is still NULL.

### Timers: `HpetTimerProofs`

* `TypeCorrect`: `Spec => []TypeOK`, for every device;
* `AnsweredOnce`, `AnsweredOnTime`: `FiresOnlyOnce` and `FiresOnTime`, for every
  request, every lag and every number of timers, on a device without the periodic
  mode whose comparators start out of reach and whose period is the one the code
  supposes (`OneShotDevice`).

The invariant `ShotInv(t)` relates the comparator, the last request and what has
fired: while a call is between its writes only the interrupt of an earlier request
can come, and afterwards the comparator is at least the time asked for after the
counter that was read. Each hypothesis in `OneShotDevice` has a run or a change of
constants above that shows it to be needed.

### Console and formatting: `ConsoleProofs`

For every size of the screen, of the scanlines, the glyphs and the memory after the
buffer, and every font and message the assumptions allow:

* `ConsoleTypeCorrect`: `ConsoleSpec => []ConsoleTypeOK`;
* `TextIsShown`: `ConsoleSpec => []TextShown`;
* `PrintingStaysInBuffer`: the action property `StaysInBuffer`.

The argument starts at one pixel (`SetPixel`: its value, and black in the next one)
and goes on to any sequence of dots set in the order of their addresses
(`AfterDotsInOrder`): a dot keeps its colour, since what its predecessor spilt into
it came before, and a pixel that is no dot is unchanged or black, the latter only
behind a dot. `GlyphDotsPlaces` says that the dots of a glyph are in that order and
are its places, which is division with remainder; `PixelsDiffer` and `PixelAfter`,
that two positions of the screen share no pixel and that the pixel behind one glyph
lies in the leftmost column of another, or in none. There the font is dark, so
black is allowed: this is what `FontAssumption` is for. From `CharDrawn` the
result goes up to strings (`StringPrinted`), to the cleared screen, which is as many
blanks as the screen has positions, counted by `NextPlace`, and to a panic
(`PanicReady`): where its message ends does not depend on the colours, so it ends
where `MessageAssumption` says. Each of these inductions over a recursive function
is a lemma that the function exists (`AfterDotsDef`, `PrintStrDef`) and a least
counterexample. The inductive invariant `CInv` is the type invariant, `TextShown`
and the cursor's line.

For every size of the buffers, and every format, string and number that
`CallsAssumption` allows:

* `PrintfTypeCorrect`: `Spec => []TypeOK`;
* `PrintfExpands`: `Spec => []PrintsExpansion`;
* `PrintfOverruns`: `Spec => []OverrunsIffTooLong`.

`itoa` comes first: its digits are those of the number, the lowest one first
(`LowDigitsAre`: the digits of a quotient are the higher digits of the number,
`DivTwice`); exchanging from both ends reverses them (`Reversed`); so what it writes
is the numeral of the reference, which is stated with powers of the base, and a NUL
(`NumeralIs`). The loop of `printf` does not see tokens, so the invariant
`PrintfInv` finds them again: there is a number of tokens t such that the index is
behind their characters, or one percent sign further, the next argument is the one
behind their conversions, and the buffer holds the text for them and nothing else
(`AtToken`). Each step does one token or one percent sign (`AtStart`,
`AtConversion`). `ConvertIntKeeps` is where the digits of an earlier number could be
left in `temp_buf`: the NUL that `itoa` wrote is the first one in it (`Terminated`).
`AtEnd` says that the end of the format is the end of the tokens, a lone percent
sign included. A step that overruns a buffer adds a piece that ends behind it, and
the expansion is at least as long.

### Bitmap: `BitmapProofs`

* `BitsCorrect`, `HeaderCorrect`, `PointerCorrect`: the properties `BitsAreSet`,
  `HeaderKept` and `WildOnlyByHeader`, for every buffer with room for the header
  (`BufferAssumption`).

The kernel does not use the bitmap, so it has no run. The invariant adds that the
pointer is intact while the bitmap is usable and that what `Bitmap_init` accepted
fits the buffer; that no two bits share a place is a fact about division by 8.

### Only model-checked

* Every liveness property (`InitializationEnds`, `CallsReturn`,
  `InitPagingReturns`, `RequestsAnswered`, `CallEnds`, `BootCompletes`): the prover
  does not handle fairness. Every safety property and every refinement that a
  passing run checks is stated by a theorem.
* What the five runs with a violation show: a counterexample is an instance.

## 5. What is not modelled, and the plan

Not modelled:

* the bits rw and us of page table entries, set and never read, and PWT and PCD of
  CR3, which are always clear;
* texts and their order, the decoding of CPUID and the version of ACPI: they are
  printed and nothing depends on them;
* code that nothing calls: `LVT_set_entry`, `is_rsdp_sig_correct`,
  `is_rsdt_sig_correct`, `strcmp`, `APIC_get_init_id`;
* the contents of the GDT and of the gates: constants;
* what is drawn once the cursor has left the screen, and what a buffer overrun
  hits: the repository says nothing about either, and the second is up to the
  compiler;
* the registers the compiler keeps across `get_cpuid`, and the types of variable
  arguments;
* the boot loader and the firmware, which are outside the repository.

What remains of the plan:

1. A second memory map for `BootSequence` with holes, and the position of the
   array in another region.
2. The LVT and a handler for the timer's interrupt, once the kernel has one.
