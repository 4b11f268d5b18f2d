----------------------------- MODULE BootLoader ------------------------------
(***************************************************************************)
(* boot/setup/main.c: bootmain reads the kernel's ELF header and then each *)
(* segment by whole sectors, rounding down where a segment begins within a *)
(* sector and reading past where it ends within one.  A byte of memory is  *)
(* the number of the disk byte it was read from, or Unread.                *)
(***************************************************************************)
EXTENDS Integers, Sequences, SequencesExt

CONSTANTS SECTSIZE, AddrMask,    \* 512, 0xFFFFFF
          ELFHDR, HdrSectors,    \* where the header goes: 0x10000, 8 sectors
          RES_ADDR, ResSectors, ResSector, \* the resources: 0x11000, 124 from 8000 on
          Unread

(* The kernel starts at sector 1 of the disk.                                *)
DiskByte(offset) == SECTSIZE + offset

(* Mistake: the segment is read to where it begins, not its sector.          *)
readseg_Unaligned(mem, va, count, offset) ==
  LET sectors == (count + SECTSIZE - 1) \div SECTSIZE
      secno == offset \div SECTSIZE + 1
  IN  [a \in DOMAIN mem |-> IF a \in va .. va + sectors * SECTSIZE - 1
                              THEN secno * SECTSIZE + (a - va) ELSE mem[a]]

(* readseg: sectors from the one that holds offset until va + count.         *)
readseg(mem, va, count, offset) ==
  LET start == va - (offset % SECTSIZE)
      sectors == (va + count - start + SECTSIZE - 1) \div SECTSIZE
      secno == offset \div SECTSIZE + 1
  IN  [a \in DOMAIN mem |-> IF a \in start .. start + sectors * SECTSIZE - 1
                              THEN secno * SECTSIZE + (a - start) ELSE mem[a]]

(* One turn of bootmain's loop over the program headers.                     *)
LoadSegment(mem, ph) ==
  readseg(mem, ph.p_va % (AddrMask + 1), ph.p_memsz, SECTSIZE * 2 + ph.p_offset)

(* bootmain up to the call of the kernel; a header that is not ELF stops it. *)
bootmain(mem, elf, headers) ==
  LET header == readseg(mem, ELFHDR, SECTSIZE * HdrSectors, SECTSIZE * 2)
  IN  IF elf
        THEN readseg(FoldLeft(LoadSegment, header, headers),
                     RES_ADDR, SECTSIZE * ResSectors, SECTSIZE * ResSector)
        ELSE header
-----------------------------------------------------------------------------
(* An image as the linker lays it out: segments ascend in memory and in the   *)
(* file, each begins as far into a sector there as here, and one that begins  *)
(* in a sector the one before ends in continues it.                           *)
WellLinked(headers) ==
  /\ \A k \in DOMAIN headers : headers[k].p_va % SECTSIZE = headers[k].p_offset % SECTSIZE
  /\ \A k \in DOMAIN headers \ {1} :
       LET this == headers[k]
           last == headers[k - 1]
           gap == this.p_va - last.p_va
       IN  /\ gap >= last.p_memsz /\ this.p_offset >= last.p_offset
           /\ \/ this.p_va - (this.p_va % SECTSIZE) >= last.p_va + last.p_memsz
              \/ this.p_offset - last.p_offset = gap

(* Every byte of every segment is the file's, behind the setup's two sectors. *)
SegmentsAt(mem, headers) ==
  \A k \in DOMAIN headers : \A b \in 0 .. headers[k].p_memsz - 1 :
    mem[(headers[k].p_va % (AddrMask + 1)) + b]
      = DiskByte(SECTSIZE * 2 + headers[k].p_offset + b)
=============================================================================
