------------------------------ MODULE Routines -------------------------------
(***************************************************************************)
(* The kernel's and the boot loader's routines that only compute: one call *)
(* of one of them at a time, on any of the given inputs.                   *)
(***************************************************************************)
EXTENDS MemoryMap, BootLoader, SlabSizes, Printing, PageListing, Stabs, LineInput, MemoryOps

CONSTANTS Maps,       \* memory maps and ends of the kernel
          Images,     \* program headers of a kernel
          Sizes,      \* of objects
          Directories, \* with their tables
          Formats, Args, BufferSizes, StringFormats, Strings,
          Tables,     \* debugging tables and addresses
          Texts, OldBuffers,  \* characters given to a reader; what its buffer holds
          Moves, Copies

VARIABLE call   \* the routine that has returned, with its input and result

Idle == [of |-> "none"]
Init == call = Idle

(* Every action tests Free before it enumerates its inputs.                   *)
Free == call = Idle
Made(routine, input, result) == call' = [of |-> routine, in |-> input, out |-> result]

PageInit == Free /\ \E i \in Maps : Made("page_init", i, page_init(i.map, i.end))
BootMain ==
  /\ Free
  /\ \E i \in Images :
       /\ WellLinked(i.headers)
       /\ Made("bootmain", i, bootmain([a \in 0 .. i.top |-> Unread], i.elf, i.headers))
SlabInit == Free /\ \E size \in Sizes : Made("init_kmem_cache", size, init_kmem_cache(size))
Format ==
  /\ Free
  /\ \E f \in Formats, arg \in Args, size \in BufferSizes :
       Made("vprintfmt", [f |-> f, arg |-> arg, size |-> size],
            vsnprintf(size, Written(f), f.conv, arg))
FormatString ==
  /\ Free
  /\ \E f \in StringFormats, s \in Strings :
       Made("%s", [f |-> f, arg |-> s], vprintfmt(Written(f), "s", s))
ListPages ==
  Free /\ \E d \in Directories : Made("print_pgdir", d, print_pgdir(d.vpd, d.vpt))
FindRegion ==
  /\ Free
  /\ \E t \in Tables : \E addr \in t.addrs, type \in {"SO", "FUN", "SLINE"} :
       Made("stab_binsearch", [t |-> t, addr |-> addr, type |-> type],
            stab_binsearch(t.stabs, 0, t.n - 1, type, addr))
FindFunction ==
  /\ Free
  /\ \E t \in Tables : \E addr \in t.addrs :
       Made("debuginfo_eip", [t |-> t, addr |-> addr], debuginfo_eip(t.stabs, t.n, addr))
ReadLine ==
  /\ Free
  /\ \E chars \in Texts, old \in OldBuffers :
       Made("readline", [chars |-> chars, old |-> old], edit_readline(chars))
Parse == Free /\ \E line \in Texts : Made("parse", line, parse(line))
MoveMemory ==
  Free /\ \E i \in Moves : Made("memmove", i, memmove(i.mem, i.dst, i.src, i.n))
CopyString == Free /\ \E i \in Copies : Made("strcpy", i, strcpy(i.mem, i.dst, i.src))
Return == ~Free /\ call' = Idle

Next ==
  \/ PageInit \/ BootMain \/ SlabInit \/ Format \/ FormatString \/ ListPages
  \/ FindRegion \/ FindFunction \/ ReadLine \/ Parse \/ MoveMemory \/ CopyString \/ Return

Spec == Init /\ [][Next]_call

-----------------------------------------------------------------------------
(* Every whole page of usable memory behind the descriptors and below         *)
(* KMEMSIZE goes to the page allocator once, and no other (pmm.c:80).         *)
PagesHanded == call.of = "page_init" => HandedExactly(call.in.map, call.out)

(* Reading whole sectors, in increasing order, leaves every segment complete  *)
(* although each may be written beyond both its ends (boot/setup/main.c:80).  *)
SegmentsLoaded == call.of = "bootmain" /\ call.in.elf => SegmentsAt(call.out, call.in.headers)

(* The slabs of every cache hold what init_kmem_cache says they hold, and an  *)
(* outside control part never needs a second slab with one (slab.c:235).      *)
CachesCut == call.of = "init_kmem_cache" => CutWell(call.out)

(* What cprintf writes for a number is that number, in its width at least and *)
(* within the buffer (printfmt.c:37, 291, 329); a string stands where its     *)
(* flag says, in its width at least (printfmt.c:206); the listing of the page *)
(* tables shows what they hold (pmm.c:382).  The width is a minimum and holds *)
(* for strings because that is what the code does; comments of printfmt.c     *)
(* say otherwise.                                                             *)
PrintedAsAsked ==
  /\ call.of = "vprintfmt" => ReadsBack(call.in.f, call.in.arg, call.in.size, call.out)
  /\ call.of = "%s" => Placed(call.in.f, call.in.arg, call.out)
  /\ call.of = "print_pgdir" => ListedExactly(call.in.vpd, call.in.vpt, call.out)

(* The backtrace names the function and file an address belongs to, and the   *)
(* search under it the region (kdebug.c:67, 119).                             *)
AddressesFound ==
  /\ call.of = "stab_binsearch" =>
       RegionFound(call.in.t.stabs, 0, call.in.t.n - 1, call.in.type, call.in.addr)
  /\ call.of = "debuginfo_eip" =>
       LET t == call.in.t
       IN  \A fun \in t.funs : call.in.addr \in fun.extent =>
             FunctionFound(t.stabs, t.n, call.in.addr, fun.file, fun.at)

(* The editor and the monitor get the line that was meant, and the monitor    *)
(* its words (editbox.c:49, readline.c:28, monitor.c:41).                     *)
LinesRead ==
  /\ call.of = "readline" => LinesMeant(call.in.old, call.in.chars)
  /\ call.of = "parse" => WordsOf(call.in, call.out)

(* Moving by words and bytes, upwards or downwards, overwrites nothing that   *)
(* is still to be moved, and copied strings equal their sources (x86.h:254,   *)
(* string.c:55).                                                              *)
MemoryMoved ==
  /\ call.of = "memmove" =>
       MovedExactly(call.in.mem, call.out, call.in.dst, call.in.src, call.in.n)
  /\ call.of = "strcpy" => CopiedExactly(call.in.mem, call.in.dst, call.in.src, call.in.len)
=============================================================================
