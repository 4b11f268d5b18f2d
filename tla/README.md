# TLA+ verification of sharix

sharix is a 32-bit x86 teaching kernel derived from ucore: a boot loader, a
physical and a virtual memory manager, kernel threads inside one process, a
keyboard, and a small graphics layer.  This directory models the parts that
carry its own logic, checks them with TLC on small instances and proves the
central properties with TLAPS for every instance.  Paths below are relative to
`src/`.

Contents: [the system](#the-system) · [modules](#modules) · [runs](#runs) ·
[bounds](#bounds) · [fairness](#fairness) · [proofs](#proofs) ·
[only model-checked](#only-model-checked) ·
[abstractions](#abstractions-and-what-is-left-out) · [findings](#findings) ·
[plan](#plan)

## The system

One CPU, no preemption of kernel code, no user mode.  Concurrency comes from
interrupts (the timer and the keyboard may run between any two instructions while
the interrupt flag is set), from page faults inside any access, from the
processor's TLB, and from threads that hand the CPU to each other by
`switch_to`.

| Component | State | Operations | Interacts with | What is hard | What makes it correct |
|---|---|---|---|---|---|
| Intrusive lists, `libs/list.h` | `prev`, `next` of every entry | init, add_after, add_before, del, del_init | every other component | stale links of deleted entries; stores that read what others overwrite | links stay inverse; a list is a sequence |
| Page allocator, `kern/mm/buddy_pmm.c` | 11 block lists and counters, the order field of each page | init_memmap, alloc_pages (split, give the tail back), free_pages (carve, merge) | called by paging, slab, faults | order fields and list heads that merging trusts; sizes that are no powers of two; exhaustion | one owner per page, none lost, exact counters, termination |
| Object allocator, `kern/mm/slab.c` | caches, full and notfull lists of slabs, free chains, marks in the page descriptors | kmalloc, kfree, grow, destroy | takes pages; takes the control part of large slabs from itself | nested allocation failing half way; destruction that frees an object of another cache | one owner per object, exact chains and lists, pages come back |
| Page tables, `kern/mm/pmm.c` | directory, tables, TLB | get_pte, page_insert, page_remove, tlb_invalidate, the boot sequence and its self tests | allocates frames; read by the processor at any moment | the TLB read between a store and its invlpg; a lookup that allocates, and finds no memory | the tables are one flat map, the TLB agrees but for the page of a call under way, no frame serves twice |
| Areas and faults, `kern/mm/vmm.c` | sorted list of areas, its one-entry cache, `check_mm_struct` | mm_create, insert_vma_struct, find_vma, mm_destroy, do_pgfault | page tables, page allocator, trap | answering from the cache; a retry after the handler; memory running out in it; a fault in the handler | the cache is invisible; faults are answered as the areas say, once |
| Boot, tick, threads: `kern/init/init.c`, `kern/trap/trap.c`, `kern/process/`, `switch_to` | `current`, `need_resched`, thread list, `currentthread`, contexts, interrupt flag | kern_init, timer interrupt, schedule, thread_create/join/exit, halt loop | list.h, rand.c | contexts saved over one another; unset flags; interrupts between any two steps | what is switched to can be run; a thread ends itself and once; requests are served |
| Key buffer, `libs/stringbuffer.c` | ring of characters, `front`, `rear` | keybuf_push (interrupt), keybuf_pop, keybuf_init | keyboard interrupt; `editbox.c`, which nothing calls | an interrupt between the accesses of pop and init | a bounded FIFO that refuses only when full |
| Red-black tree, `kern/libs/rb_tree.c` | child, parent, colour of every node | insert, delete, search, next, prev | nothing but its own self test calls it | fix-up loops that keep copies of nodes across rotations; equal keys | red-black between calls; an ordered bag |
| Console and keyboard driver, `kern/driver/console.c` | ring of 512 characters, shift state | cons_intr, kbd_proc_data, cons_getc, cons_init | keyboard, keyboard interrupt, key buffer, monitor | a drain that stops between the bytes of a key; prefixes and faked shifts; the ring laps itself; one character per interrupt | every byte is decoded as the key meant; FIFO until 512 unread characters |
| Line input, `readline.c`, `stdio.c`, `editbox.c` | line buffer, cursor | readline, edit_readline, edit_putchar | the two rings | backspaces at the start, the limit, special keys | the line meant, within the buffer |
| Monitor and panic, `kern/debug/` | argument vector, `is_panic` | parse, runcmd, panic | readline | overflow of the vector | the words of the line |
| Debug information, `kdebug.c` | none | stab_binsearch, debuginfo_eip | monitor, panic | a binary search over mixed entries, a match at which it goes on | agrees with a linear search |
| Strings and printing, `string.c`, `printfmt.c`, `x86.h` | none | memmove, strcpy, strtol, vprintfmt, ... | everybody | overlap, widths, the most negative number, the end of the buffer | agree with their definitions |
| Unused process code, `proc.c`, `sched.c` | run queue | kernel_thread, do_exit, proc_run, wakeup_proc, ... | no caller that runs it | would free what it is running on | - |
| Memory map and segments, `pmm.c` | `npage`, segment tables | page_init, gdt_init | BIOS memory map | clipping and rounding at both ends | only whole usable pages are given, each once |
| Interrupt controller, IDT, vectors | mask | pic_enable, idt_init | ports | - | - |
| Graphics, windows, fonts | video memory | draw_*, fill_*, create_window | rand, kmalloc | clipping; a line that swaps its ends for ever | pixels stay on the screen, calls return |
| Boot loader, `boot/` | - | readsect, readseg, bootmain | disk, BIOS | whole sectors written over the ends of the neighbours | the image is where it is linked |
| Build tools and resources | - | - | - | - | - |

The hazards behind these columns are listed with their lines in `PROJECT.json`
(`hazards`), each with the properties that would notice it going wrong.

## Modules

| Module | Models | State and actions against the code |
|---|---|---|
| `SeqLists` | what list.h promises | a set of disjoint sequences |
| `DList` | `libs/list.h` | `next`, `prev` are the two fields; one action per function, its stores in the code's order |
| `PageAlloc` | what a page allocator promises | `live`: the extents callers hold |
| `Buddy` | `buddy_pmm.c` | `freeList`, `nrFree`, `pageOrder` are the fields; `op` holds the locals of the call in progress; one action per loop iteration (`SplitStep`, `CarveStep`, `MergeLeft`, `MergeRight`, ...) |
| `Slab` | `slab.c` over `PageAlloc` | `slab` is the descriptors, `lists` the two lists per cache, `back` the marks in the page descriptors, `stack` the nested allocations; growing, its failures and `kfree` with destruction are separate actions |
| `BoundedFifo` | what the key buffer promises | a bounded queue; a refusal is an action of its own, possible only when the queue is full |
| `KeyBuf` | `stringbuffer.c` | one action per access to shared memory of pop and init; a push of the interrupt fits between any two; `answer` is what the last push returned |
| `Threads` | boot order, tick, threads | `pc` is the CPU, `stack` whose stack it is on, `frame` the schedule call waiting on each stack, `mainContext` the only context ever saved; `Tick` may come between any two steps with interrupts on |
| `AddressSpace` | what page tables promise | one map from pages to entries; a page is absent before it gets another frame; nothing is promised once memory has run out within a call |
| `Paging` | `pmm.c`, `check_pgfault` | `pde`, `table` and `tlb`; the boot sequence of `pmm_init` and the self tests in order, then any calls of kernel code; `edit` is the page_insert or page_remove under way, whose stores and invlpgs are steps (`invlpg_removed`, `store`, `invlpg`); `Fill` and `Evict` are the processor, between any two of them |
| `Vmm` | `vmm.c` | `vmas`, `cache`, `pgdir`; an access that the tables deny is the page fault, `Answered`, `Unanswered`, `Nested` are do_pgfault's outcomes, `Retry` the instruction executed again.  It uses the flat map that `Paging` implements |
| `OrderedBag` | what the tree promises | the nodes in order |
| `RBTree` | `rb_tree.c` | `tree` is the fields; a deletion's removal is one step and every iteration of a fix-up loop another; left and right are the two values of one parameter, as in the macros |
| `KeyPath` | what driver, interrupt and key buffer promise together | three queues in a row, the second of which forgets all when it laps |
| `Console` | `console.c`, the keyboard case of `trap_dispatch`, the panic's polling | `wire` is the bytes the keyboard has sent; `KbdInterrupt` and `getchar` drain as many as have come; `shift`, `buf`, `rpos`, `wpos` are the statics; `held`, `on`, `typed` say what the user did |
| `SlabSizes` | `cache_estimate`, `calculate_slab_order`, `init_kmem_cache` | operators on sizes in bytes |
| `MemoryMap` | `page_init` | from the memory map to the pages handed to init_memmap |
| `BootLoader` | `bootmain`, `readseg` | a byte of memory is the number of the disk byte it came from |
| `Printing` | `vprintfmt`, `printnum`, `vsnprintf`, `strtol` | formats as tokens, integers of `Bits` and `LongBits` bits |
| `PageListing` | `print_pgdir`, `get_pgtable_items` | entries as sets of flags |
| `Stabs` | `stab_binsearch`, `debuginfo_eip` | the table as an array of records; the search's loop as a recursive function on its variables |
| `LineInput` | `edit_readline`, `readline`, `parse` | a fold of one turn of the loop over the characters given |
| `MemoryOps` | `memmove`, `memcpy`, `strcpy`, ... of `string.c` and `x86.h` | moves in the order the instructions make them |
| `Routines` | the calls of the eight modules above | `call` is the routine that has returned, with its input and its result |
| `MC*` | - | values of the constants for TLC |
| `*Proofs`, `CommonLemmas` | - | theorems, and the lemmas they share |

Composition: `DList` is what the lists inside the other modules rest on, so these
use sequences.  `Buddy` implements `PageAlloc`, and `Slab` instantiates
`PageAlloc` for its pages.  `Paging` implements `AddressSpace`, and `Vmm` builds
on such a map.  `Console` implements `KeyPath` and holds the key buffer as the
bounded queue that `KeyBuf` is shown to be.  `SlabSizes` says of the real caches
what `Slab` assumes of its own, and `MemoryMap` of the memory map
what `Buddy` assumes of its regions.

Operators whose names carry a suffix (`Take_OwnColour` beside `Take`, `Full_NoWrap`
beside `Full`, ...) are variants with one mistake; no specification uses
them.  They document which mistake each property notices.

## Runs

| Run | Question | Result |
|---|---|---|
| `dlist` | Do the pointer functions implement sequences under every legal order of calls? | holds |
| `buddy` | Has every page one owner at every iteration of every loop; is none lost; do calls return? | holds, as long as the list of the largest order is not used up |
| `buddy_null` | Is a failing allocation answered by NULL? | no, see findings |
| `slab` | Has every object one owner, with nested growth failing at any time; do pages come back? | holds |
| `threads` | Can whatever is switched to be run; do linked threads start; is a request to reschedule answered? | holds, up to the halt with interrupts off |
| `paging` | Do two levels and a TLB implement a flat map through boot and any calls? | holds outside the first directory entry, as long as get_pte finds memory |
| `paging_invalid` | Is linear address 0 unmapped once the boot code is over? | no, see findings |
| `paging_noframe` | Is memory that runs out in get_pte reported to its callers? | no, see findings |
| `vmm` | Is the cache of areas invisible, and are faults answered as the areas say? | holds |
| `rbtree` | Are the fix-up loops right, with equal keys and a copy of the top node that may be stale? | holds |
| `keyboard` | Is every key decoded as it was meant, and does each character come through driver, interrupt and key buffer once and in turn; is the key buffer a FIFO that refuses only when full, although the interrupt runs between the reader's accesses? | holds; a ring that laps forgets all it holds, a full key buffer refuses |
| `routines` | Do the routines that only compute keep their contracts on all small inputs? | holds |

Which properties each run checks is in `PROJECT.json`; each property is stated in
words where it is defined.

## Bounds

TLC's instances are small, chosen so that the cases that differ in the code all occur:

- `dlist`: two heads and three entries: empty lists, single entries, first, middle and last ones, moves between lists.
- `buddy`: orders 0 to 3 of up to 8 pages instead of 10; two regions neither of which is a power of two; requests of 0, 1, 3, 5 and 9 pages: refused, fitting, with a tail, too large; three live extents, the bound `MaxLive`.  `buddy_init` leaves the list of order `MaxOrder` alone, as the code does.
- `slab`: three caches, one of each kind `slab_init` makes; four frames; three objects of users (`MaxUser`); page allocation may fail at any time.
- `threads`: the list `proc_init` builds and one with a thread more, and one thread joined later: the API allows both and the shipped boot only the first.  `TickNum` is 3 instead of 100, which only changes how many ticks pass between two requests.  The generator is started in its real state (1) and eight others; the parity of its output depends on the low 13 bits, which are modelled exactly.
- `paging`: the first, the kernel's and one other directory entry, two slots in each table, six frames (symmetric): a table can be missing, made, shared by alias, and frames can run out (`paging_noframe` needs that).
- `vmm`: two pages of two units each, so that areas may end inside a page and two may share one; up to three areas (`MaxVmas`); three frames, fewer than needed after some areas were faulted in and detached.
- `rbtree`: ten nodes, the fewest that lead to trees with three black nodes on each way down, where a deletion's fix-up climbs twice; two have equal keys.
- `keyboard`, `KeyBuf`: a ring of four slots instead of 32: each relation of front and rear, both wraps.  It shares no variable with the driver, so a behaviour moves one of the two and the states add up instead of multiplying.
- `keyboard`, `Console`: a ring of three and a key buffer of two, so that both overflow; a shift, a control key behind the prefix, a letter with a character in each column of the tables, and a cursor key whose prefix meets faked shifts; two bytes unread (`MaxWire`), so that a drain may end within a key; two keys down (`MaxHeld`).  What does not occur is a third key that changes the same bits.
- `routines`: every input set is around the edges the code has.  Memory maps of one or two regions that begin and end in any way against pages, descriptors and KMEMSIZE; segments of up to nine bytes in sectors of four; sizes of slabs with the constants of the build, so that all thirteen caches and forty other sizes are computed as the kernel does; integers of 5 and 7 bits with both extremes, buffers too small by any amount; directories and tables of two entries; debugging tables of one to three functions in one or two files, each address in and around them; texts up to five characters for lines of three; every overlap of two areas in twelve bytes with words of four.

`CHECK_DEADLOCK FALSE` is set where the system may stop: after a write through NULL
(`Buddy`), a panic (`Vmm`), a processor halted with interrupts off
(`Threads`), a wild access (`Paging`).

## Fairness

- `Buddy`, `Slab`: weak fairness of the steps of a call in progress.  Calls run on one CPU without waiting, so a call that can go on does.  Nothing makes callers call.
- `Threads`: weak fairness of the CPU's steps and of the tick: the CPU executes unless it waits, and the 8253 runs in periodic mode and is never stopped.
- `DList`, `KeyBuf`, `Paging`, `Vmm`, `RBTree`, `Console`, `Routines` state no liveness and assume no fairness.  Of the key buffer there is none to state: `getcontent` and `edit_readline`, the only readers, are called by nothing in the repository, so in the kernel as it is a full ring stays full and its later characters are refused.  A character waits in the driver until the next byte from the keyboard, which nobody need send (see findings).  In `RBTree` a call that cannot go on would be a deadlock, which the run excludes.

## Proofs

The theorems hold for all values of the constants that satisfy the named
assumptions of the modules: any sizes and orders, any regions and requests, any
sets of threads, frames, entries and characters.  The assumptions say no more
than the build does: heads and entries of lists are distinct, finitely many and
not NULL; memory and the array of caches are finite; objects have a size and slabs at least
one object and one page; the control parts of large slabs come from caches that
keep theirs in the slab.  Each section gives the inductive invariant and why the
property alone is not one.

**Lists** (`DListProofs`).  `LinksAgreeAlways` and `TypeCorrect`: the invariant adds
to the property that linked entries are exactly those whose neighbours point
back; each function is a case of two lemmas on replacing a link.
`ImplementsLists`, that the pointer functions implement `SeqLists`, needs sequences that are not in the
state: `Holds(L)` says that the linked nodes are the rings of the sequences `L`, which lie apart.
Insertions and deletions are shown on `L` (`AddAfterHolds`, `AddBeforeHolds`,
`DeleteHolds`).  The refinement mapping walks `next` from each head;
`ReadBack` shows that the walk of a ring returns its sequence, so that what the
fields say and `L` are one, and `StepBecomes` carries each step over.

**Page allocator** (`BuddyProofs`).  `TypeCorrect` needs `Shape`:
how the locals of a call relate at each place (what is still to do is never
negative, the order at hand lies between the wanted and the largest).  For ownership
the pages are in the lists, in callers' hands or in up to three extents that the call in
progress holds (`Held`, `Rest`, `Kept`).  The invariant `IInv` says that all of
these are pairwise disjoint, lie in managed memory, and that the heads of free
blocks bear their orders (`Stored`, `InHandOK`).  From it: `PagesHaveOneOwner`,
`TagsExact`, `CountsExact`, and `Implements`, that every step of the loops is a
step of `PageAlloc` or a stutter.  Why order fields suffice for merging is the
heart of it: a page's field may be left over from an earlier block, but
only the heads of the lists are compared, and those are exact.
`NoPageLost` adds the other half of ownership, `NoneLost`: a page given once has an
owner since.  Each action moves pages between lists, callers and hands, and its
`Cover` lemma says where each page goes.

**Object allocator** (`SlabProofs`).  `InvariantHolds`, and from it
`NoObjectTwice`, `SlabsOnTheirList`, `PagesFindTheirSlab`, `NoPageKept`,
`ChainsHoldFreeObjects` and `ReportIsExact`.  None of these holds by itself: an object is given
out once because its chain holds what nobody has, a page's mark is exact because extents lie
apart, and a control part that is freed lies in a slab whose page says so.  `IInv` joins
- `Calls`: at most two activations of kmem_cache_alloc, the inner one for the control part of the outer's slab;
- `Memory`: the extents of slabs and of the grow in progress lie apart, and are what the page allocator gave (`Extents`, `LiveExact`);
- `Objects`: each slab's free chain is a sequence of the indices nobody has, each once (`Chains`), and control parts are where the cache says (`HeadersPlaced`);
- `Lists`: each list names its slabs once;
- `Unused`: a slab without an object in use is the one just made, about to be used.

`FreeChainIs` shows that following `bufctl`, a recursive function, reads the sequence back.
`ReportIsExact` counts bytes: the folds over lists, caches and objects are sizes of one set of
bytes cut in three ways (`SumCounts`).

**Key buffer** (`InterruptProofs`, first part).  `TypeCorrect` and `SlotKeptAlways`: during pop,
`front` may be one past the array; the invariant `Inside`/`Waiting` says when, and that the
slot being read differs from `rear`.  `Implements`: the sequence from `front` to
`rear` around the ring (`RingContents`) is the queue of `BoundedFifo`; a push adds to its
end (`PushPuts`), one that is refused finds Size - 1 characters waiting (`RefusedFull`), the store to `front` takes its head (`AdvanceTakes`), the
reset to 0 changes nothing (`WrapKeeps`), and while keybuf_init is between its stores the queue
is the empty one it is about to leave (`Emptied`).

**Console** (`InterruptProofs`, second part).  `KeysAlwaysDecoded`: KeysDecoded folds the decoder
over the bytes to come, and a fold cannot be taken apart by induction here.  The invariant
`ConsoleInv` says the same with witnesses: `Means(w, s0, s1, cs)` is that there
are a state and a count of characters after each byte of `w`.  Bytes are then added at the end
(`MeansAppend`; `MakeSpelled`, `BreakSpelled` and `FakeSpelled` say which the keyboard adds for each key) and taken from the front (`MeansRest`),
and `Understood` leads back to the fold.  That no modifier sticks is `HeldOn`.
`DriverImplements`: cons_intr is a fold too, and `DrainFeeds` follows it turn by turn
beside the fold of `KeyPath`; each turn that makes a character is a store to the queue, the one that laps the ring
included (`RingStores`), and cons_getc takes the head (`RingGives`).  The theorems assume of `Keys` only that they
are among the eight that the cut-down tables know.

**Threads** (`InterruptProofs`, third part).  `IdleStaysInterruptible`, `SwitchResumable`,
`ThreadExitsItself`, `ThreadListSound`, for any threads, any list `proc_init` may
build and any state of the generator.  The invariant: the boot sets gates, timer and flag in its
order and never comes back (`Booting`); a schedule called from the idle loop remembers
that interrupts were on (`Remembered`); one runs on the stack that has its frame (`Called`); what
it chose is listed and is `currentthread` until the switch (`Chosen`), which
`WalkListed` shows of any random number.

**Page tables** (`PagingProofs`).  `TypeCorrect`, `TlbCoherent`, `Exclusive`,
`Implements`.  `IInv` adds: before paging is on the TLB is empty (`Early`), no two
directory entries share a table except for the boot's alias (`TablesApart`), tables
are neither free nor held (`TablesTaken`), where the boot sequence is fixes
what the first entry holds (`BootOK`), pages mapped by kernel code are frames it holds
(`ClientMaps`), cached translations too (`TlbHeld`), and a call between its first store and its
last invlpg is on a page of its caller, empty until the new entry is stored (`EditOK`).
The TLB does not always say what the tables say: between a store and its invlpg it may hold the old entry, and
`TlbAgrees` allows that for the page of the call alone.  It follows because a store touches one slot of one
table (`StoreLookup`), and a call ends only by the invlpg of that page (`EditIInv`).  `Implements`
takes each store for a change of the flat map: the removal of another frame's entry, then the new one.
After a call that ran out of memory for a table nothing is promised, so the invariant of
all states is `WildInv`: types always, `IInv` until then.

**Areas and faults** (`VmmProofs`).  `TypeCorrect`, `CacheIsTransparent`,
`FaultsAnswered`, `FramesAlwaysKept`.  The invariant: areas are sorted and disjoint (`Sorted`), the cache is
one of them (`CacheListed`), a present page lies in some area with the access it was given
(`Backed`, `Mapping`), and a retry finds the access allowed (`Answers`).  For the frames,
an action property, it adds that no two pages have one frame (`FramesOnce`), the
junk frame of a failed allocation excepted.

**Red-black tree** (`RBTreeProofs`).  `RedBlackKept`, and `OrderedBagImplemented`, that
the pointer code implements `OrderedBag`.  Both speak of recursive functions on a
tree that rotations reshape, and no induction over trees is at hand.  So the tree is described without one:
`at` numbers the nodes from left to right, `edge` gives the outermost places below
each, and `Shape` says of every node and its children alone that these fit together.  A rotation
changes no place and two edges (`RotateShape`), a new leaf
moves the nodes behind it one place on (`LeafShape`), and a deletion moves them back (`SpliceShape`, `TakeShape`).  The
black heights are a function `h` in the same way (`Even`), with a hole where a black node
is missing during a deletion; `Calm` says that no red node has a red child but where the loop is.
The invariant `IInv` joins the three with the order of the keys
(`Sorted`).  Each branch of the two loops has its lemma (`InsertRecolourKeeps`, `InsertRotateKeeps`,
`DeleteRecolourKeeps`, `DeleteRotateKeeps` and the two for the ends); the one about the copy of the top that
`rb_delete_fixup` keeps is the second case of `Deleting`: when the loop jumps to it, it is a black node, at the top or not,
and blackening it changes nothing.  Loops that walk are functions of the rounds made; `WalkEnds` says
that one that comes nearer to something each round ends there, from which follow where a leaf goes
(`LeafPlaceSorted`), what lies next (`AdjacentFacts`) and what is found (`SearchFacts`).  In the end `HeightFacts` and `OrderSpans`
lead back to the recursive functions: a height and a sequence that fit the places are the ones they compute.

`CommonLemmas` holds what these share: the least number of a set, going through the indices of a loop (`Steps`), the
existence of what a recursive definition or a fold defines (`IterationExists`, `SumCounts`, `FoldExists`,
`FoldUnique`, `FoldTrace`), and what `list_add` and `list_del` do to a list that names nothing twice.

## Only model-checked

- Liveness (`CallsReturn`, `LinkedRun`, `ReschedServed`) and everything that needs fairness or ENABLED is beyond the prover.
- The library's induction theorems take an operator as a parameter, which the installed provers cannot instantiate.  Finite induction was possible through well-founded orders (`LeastNat`, `Steps`, `SumCounts`), and recursive functions by showing that what they CHOOSE exists and is unique.  For trees it was possible through numberings of their nodes (`Shape`).
- The operators of `Routines` are recursive functions or folds over their inputs; each would need an induction of its own, and its run enumerates inputs instead.

`TypeCorrect` of each proof module and `CountsExact` are proved only: the runs
keep to the properties that more than one action can break.

## Abstractions and what is left out

- Names, the wording of messages and the assembly of segment descriptors do not appear.
- `Buddy`: writes through NULL go to the state `fault`: before paging they land in linear address 0x40000000, afterwards they fault; nothing sensible follows either.
- `Slab`: what fails is page allocation; the sizes of the caches are constants with assumptions, and `SlabSizes` computes the real ones.
- `Threads`: of the flags a new thread starts with only IF is modelled, as either value.  Thread functions do not call schedule themselves: none does.  kmalloc failing in thread_create is left out.  Other interrupts only end `hlt`.  A NULL `current` at the hundredth tick leads to `fault`.
- `KeyBuf`: a push while keybuf_init is between its stores belongs to a buffer being emptied: its character is lost and its answer says nothing (`Emptying`).
- `Paging`: contents of frames that are no tables are one junk value; the self-map at VPT and the mapping of video memory are omitted.  Kernel code frees a frame once no page maps it (`free_page`), and inserts frames it has: with a caller that does not, a frame would serve twice however the tables are kept.  get_pte and the first store of a call are one step, since the new table is cleared before the directory names it.  When get_pte finds no memory, the address it computes from NULL depends on where the linker puts the page descriptors: with a kernel smaller than some twelve megabytes it lies outside the map of physical memory, and clearing it faults (`fault`); the model allows memory in other use as well (`wild`), and does not follow kernel code after that call.  check_boot_pgdir's second insertion at page 0 (pmm.c:332) stores the same entry once more and is left out.
- `Vmm`: areas do not overlap; no code checks it and every caller keeps to it.  kmalloc failing in mm_create and vma_create is left out.  An error code 1 (read of a present page) does not occur without user mode.
- `Console`: `KeysDecoded` says that every modifier in force has its key held; the converse, that a held key always is in force, is not stated on its own.  Of the four character tables one key stands for each kind of entry; Ctrl-Alt-Del restarts the machine and is left out, as are the parallel port and the echo on the screen.  The keyboard is modelled from the codes the tables expect and is not part of the repository.
- `Routines`: strings are padded and the width is a minimum in `PrintedAsAsked`, as the code has it; its comments say otherwise (see [findings](#findings)).  That `PagesHanded` meets no page twice rests on the regions of the memory map being disjoint, and `SegmentsLoaded` on the linker's layout: segments that share a sector agree on what is in it, so that what is checked is the rounding and not the order of the segments.  The texts are too short for the sixteenth argument of `parse`.
- `Routines`: one call at a time; nothing these routines read is changed by an interrupt.  Inputs meet what callers ensure: images as the linker lays them out, disjoint regions of the memory map, debugging tables in the order the compiler emits.  `%c`, `%e` and the wording of the monitor's commands are left out.
- `Stabs`: strings of the table are left out, and with them the copy of the function's name.
- `RBTree`: nodes outside the tree and nil's parent field between calls are set to nil, since no call reads what they held.

### Not modelled

- The functions of `proc.c` and `sched.c` that nobody calls: there is no order of calls to check them under, and any chosen here would be an invention.
- Drawing, windows and fonts: pixels computed with floating-point slopes, which TLA+ has no numbers for, and lists of windows that no code creates.
- The interrupt controller, the descriptor tables and the vectors: port numbers and generated code.  Which interrupts are on when is part of `Threads`.
- The real-mode assembly of the boot loader, the self-map at VPT, the walk over saved frame pointers: instructions whose meaning is the machine's.
- Build tools and resources: not part of the running system.

## Findings

Each is a run that ends in a counterexample.

1. `buddy_null`: `buddy_init` (buddy_pmm.c:13) leaves the list of the largest order uninitialised, so that its emptiness is never noticed and the last block of it is taken through NULL.
2. `paging_invalid`: `check_boot_pgdir` and `pmm_init` clear directory entries without `tlb_invalidate`, so that "Invalid Memory" (memlayout.h:62) stays mapped in the TLB.
3. `paging_noframe`: `get_pte` (pmm.c:239) does not notice that alloc_page returns NULL, makes a table of whatever address that becomes, and returns a pointer; its callers wait for NULL (vmm.c:216, pmm.c:249, 265).

Comments that the code contradicts.  They are no runs of their own: it takes no search to
see them, and the modules and their properties follow the code.

- vmm.c:30 says of find_vma "vma->vm_start <= addr <= vma_vm_end"; the code excludes the end (vmm.c:38, 46), so that an access at `vm_end` belongs to the next area or to none.  `AnsweredByAreas` asks only for what half-open areas allow: by the comment, the panic for an access at the end of the last area would be wrong.  Nor does find_vma see to the start: it may return an area that begins behind the address, which do_pgfault tests itself (vmm.c:182).
- printfmt.c:8-9 says "Space or zero padding and a field width are supported for the numeric formats only"; the code pads strings as well (printfmt.c:206-223).
- printfmt.c:33 calls the width of printnum the "maximum number of digits"; all digits are printed and the width is a minimum (printfmt.c:43-48).
- printfmt.c:139 calls `-` the "flag to pad on the right"; numbers are padded with dashes on their left (printfmt.c:47), only strings on the right.

What the modules keep as the code has it, and no property excludes:

- `nr_free` counts blocks of its order (buddy_pmm.c), where memlayout.h:125 says pages; `CountsExact` is about blocks.
- Interrupts are enabled (init.c:41) before `current` exists (init.c:47), and a finished thread may halt with interrupts off (`Threads`).
- The keyboard interrupt hands on one character (trap.c:88), however many it has read; the others wait for the next byte from the keyboard (`Console`).
- A special key ends a line where characters that were taken back still stand behind it (editbox.c:57; `LinesMeant` allows it).
- At the last line of the box, `ch_y` is reset where the cursor was meant (editbox.c:70).
- The sixteenth argument of a command and later ones are reported and stored all the same (monitor.c:53; `parse` in `LineInput`).
- After an exact match `stab_binsearch` goes on for the next address, so that a stab just there is taken for the match; none is in a compiled table, and `RegionFound` says so.  `debuginfo_eip` reads the line from the last stab of the region (`stabs[rline]`), which may be one that is no line; `AddressesFound` promises function, file and parameters, and not the line.
- The test against `off_slab_limit` has no body (slab.c:193); `CachesCut` shows that the caches the kernel makes need none.
- `ctlmap` has 0x97 where the home key is 0xC7 (console.c), and `draw_line` swaps the ends of a line that rises to the right for ever (graphic.c:49); no window is created that draws one.

## Plan

Done, in this order: lists, with the refinement; page allocator, with all of its safety and its
refinement; slabs, with all of their safety; key buffer and threads with their proofs;
page tables, areas and faults with their proofs; red-black tree and console, with their invariants and
refinements; the routines that only compute.  Every safety property and every refinement
the runs check is proved as well, those of `routines` excepted.

Next, proofs: of `Routines`, that `cache_estimate` leaves room for the control part it counts, and that
`page_init` hands no page to the allocator twice.
