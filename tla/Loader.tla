------------------------------- MODULE Loader -------------------------------
(***************************************************************************)
(* emulate() of libemulator/emulate.c: it reads the headers of an          *)
(* executable, reserves one contiguous range of memory for its segments,   *)
(* maps them one by one, builds the in-memory shared object with the       *)
(* system calls, and jumps to the entry point.  It returns only when it    *)
(* fails.                                                                  *)
(*                                                                         *)
(* Memory is a function from addresses to bytes.  A byte of the executable *)
(* is its position in the file plus one, so that no two are alike and none *)
(* is zero; Foreign is memory that belongs to somebody else, Bus a page    *)
(* mapped beyond the end of the file.  The header has HeaderLen bytes, and *)
(* a program header is one byte.                                           *)
(*                                                                         *)
(* Nothing is assumed of the program headers: segments may overlap, have   *)
(* more bytes in the file than in memory, or lie beyond the end of a file  *)
(* that was truncated.                                                     *)
(***************************************************************************)
EXTENDS Integers, Sequences, SequencesExt, FiniteSetsExt

CONSTANTS
  PageSize,     \* sysconf(_SC_PAGESIZE)
  HeaderLen,    \* sizeof(ElfW(Ehdr))
  Reservation,  \* the page-aligned address that mmap(NULL) returns
  MemorySize,   \* bytes of memory
  Syscalls,     \* lengths of the names of the system calls
  Gsbase        \* CONFIG_TLS_USE_GSBASE

Foreign == -1
Bus == -2

ASSUME LoaderAssumption ==
  /\ {PageSize, HeaderLen, Reservation, MemorySize} \subseteq Nat \ {0}
  /\ Reservation % PageSize = 0
  /\ Gsbase \in BOOLEAN

VARIABLES
  image,    \* the executable: its ELF header, program headers and length
  step,     \* where emulate() is
  unread,   \* bytes that do_pread() has yet to read
  nextph,   \* the program header to load next
  base,     \* what the program's virtual addresses are relative to
  memory,   \* address -> byte
  prot,     \* address -> protection of its page
  symtab,   \* the name offsets of the symbol table
  auxv      \* the auxiliary vector

loaderVars == <<image, step, unread, nextph, base, memory, prot, symtab, auxv>>

Addresses == 0..(MemorySize - 1)
Phnum(i) == Len(i.phdrs)
Loads(i) == {n \in 1..Phnum(i) : i.phdrs[n].type = "LOAD"}

roundup(a, b) == ((a + b - 1) \div b) * b

\* strlen() of the string at index p of a sequence of characters.
strlen(s, p) == (CHOOSE e \in p..Len(s) : s[e] = 0 /\ \A i \in p..(e - 1) : s[i] # 0) - p

\* The addresses of the region that the load segments span.
addr_begin(i) == Min({i.phdrs[n].vaddr : n \in Loads(i)})
addr_end(i) == Max({i.phdrs[n].vaddr + i.phdrs[n].memsz : n \in Loads(i)})

-----------------------------------------------------------------------------
\* i is the executable.
LoaderInit(i) ==
  /\ image = i
  /\ step = "idle"
  /\ unread = 0
  /\ nextph = 1
  /\ base = 0
  /\ memory = [a \in Addresses |-> Foreign]
  /\ prot = [a \in Addresses |-> {}]
  /\ symtab = <<>>
  /\ auxv = <<>>

LoaderFails ==
  /\ step' = "failed"
  /\ UNCHANGED <<image, unread, nextph, base, memory, prot, symtab, auxv>>

\* emulate() is called and begins to read the ELF header.
CallEmulate ==
  /\ step = "idle"
  /\ step' = "header"
  /\ unread' = HeaderLen
  /\ UNCHANGED <<image, nextph, base, memory, prot, symtab, auxv>>

Position == IF step = "header" THEN HeaderLen - unread
            ELSE image.phoff + Phnum(image) - unread

\* Mutant: the end of the file does not end the loop.
do_preadMutant ==
  /\ step \in {"header", "phdrs"} /\ unread > 0
  /\ Position < image.length
  /\ \E retval \in 1..Min({unread, image.length - Position}) : unread' = unread - retval
  /\ UNCHANGED <<image, step, nextph, base, memory, prot, symtab, auxv>>

\* One pread() of do_pread() that does not fail: it finds the end of the file,
\* or returns some of the bytes that are left.
do_pread ==
  /\ step \in {"header", "phdrs"} /\ unread > 0
  /\ \/ Position >= image.length /\ LoaderFails
     \/ /\ Position < image.length
        /\ \E retval \in 1..Min({unread, image.length - Position}) : unread' = unread - retval
        /\ UNCHANGED <<image, step, nextph, base, memory, prot, symtab, auxv>>

\* The ELF header has been read: it is refused, or the program headers are
\* read next.
ParseHeader ==
  /\ step = "header" /\ unread = 0
  /\ \/ ~image.cloudabi /\ LoaderFails
     \/ /\ image.cloudabi
        /\ step' = "phdrs"
        /\ unread' = Phnum(image)
        /\ UNCHANGED <<image, nextph, base, memory, prot, symtab, auxv>>

\* The program headers have been read: the scan for the region, and its
\* reservation as memory that cannot be accessed.  There must be a region, and
\* mmap() fails if it is empty.
Aligned == \A n \in Loads(image) : /\ image.phdrs[n].vaddr % PageSize = 0
                                  /\ image.phdrs[n].offset % PageSize = 0
Region == IF Loads(image) = {} THEN 0 ELSE addr_end(image) - addr_begin(image)
Reserve ==
  LET end == Reservation + roundup(Region, PageSize)
  IN  /\ step = "phdrs" /\ unread = 0
      /\ \/ ~(Aligned /\ Region > 0) /\ LoaderFails
         \/ /\ Aligned /\ Region > 0
            /\ step' = "map"
            /\ base' = Reservation - addr_begin(image)
            /\ memory' = [a \in Addresses |->
                            IF a \in Reservation..(end - 1) THEN 0 ELSE memory[a]]
            /\ UNCHANGED <<image, unread, nextph, prot, symtab, auxv>>

\* Mutant: a whole page is cleared when the file's part of the segment ends on
\* a page boundary.
ClearedPageMutant(bss_start) == bss_start..(bss_start + PageSize - (bss_start % PageSize) - 1)

\* The addresses that memset() clears.
Cleared(bss_start) == bss_start..(bss_start + ((-bss_start) % PageSize) - 1)

\* The number of bytes that mprotect() covers.
Protected(phdr) == roundup(phdr.memsz, PageSize)

Protection(phdr) ==
  phdr.flags \cup (IF Gsbase /\ "X" \in phdr.flags THEN {"W"} ELSE {})

\* What a page of the file holds at a position: its last page is padded with
\* zeros, and the pages after it cannot be accessed.
FileByte(position) ==
  IF position < image.length THEN position + 1
  ELSE IF position < roundup(image.length, PageSize) THEN 0 ELSE Bus

\* mmap() of the n-th segment's part of the file, over whatever is there.
SegmentAt(n) == base + image.phdrs[n].vaddr
Mapped(n) == SegmentAt(n)..(SegmentAt(n) + roundup(image.phdrs[n].filesz, PageSize) - 1)
MappedMemory(n) ==
  [a \in Addresses |-> IF a \in Mapped(n) THEN FileByte(image.phdrs[n].offset + (a - SegmentAt(n)))
                       ELSE memory[a]]

\* The second loop over the program headers maps a segment.  mmap() fails for
\* an empty part of the file, and memset() kills the process when it clears a
\* page beyond the end of the file.
LoadSegment ==
  LET phdr == image.phdrs[nextph]
      cleared == Cleared(SegmentAt(nextph) + phdr.filesz)
      faults == \E a \in cleared : MappedMemory(nextph)[a] = Bus
  IN  /\ step = "map" /\ nextph <= Phnum(image)
      /\ \/ /\ phdr.type # "LOAD"
            /\ nextph' = nextph + 1
            /\ UNCHANGED <<step, memory, prot>>
         \/ /\ phdr.type = "LOAD" /\ phdr.filesz = 0
            /\ step' = "failed"
            /\ UNCHANGED <<nextph, memory, prot>>
         \/ /\ phdr.type = "LOAD" /\ phdr.filesz > 0 /\ faults
            /\ step' = "killed"
            /\ UNCHANGED <<nextph, memory, prot>>
         \/ /\ phdr.type = "LOAD" /\ phdr.filesz > 0 /\ ~faults
            /\ memory' = [a \in Addresses |-> IF a \in cleared THEN 0 ELSE MappedMemory(nextph)[a]]
            /\ prot' = [a \in Addresses |-> IF a \in Mapped(nextph) THEN {"W"} ELSE prot[a]]
            /\ step' = "protect"
            /\ UNCHANGED nextph
      /\ UNCHANGED <<image, unread, base, symtab, auxv>>

\* ... and gives it its protection.
ProtectSegment ==
  LET phdr == image.phdrs[nextph]
  IN  /\ step = "protect"
      /\ prot' = [a \in Addresses |->
                    IF a \in SegmentAt(nextph)..(SegmentAt(nextph) + Protected(phdr) - 1)
                    THEN Protection(phdr) ELSE prot[a]]
      /\ nextph' = nextph + 1
      /\ step' = "map"
      /\ UNCHANGED <<image, unread, base, memory, symtab, auxv>>

\* The host fails a pread(), an mmap() or an mprotect().
HostFailsLoader ==
  /\ \/ step \in {"header", "phdrs"} /\ unread > 0
     \/ step = "phdrs" /\ unread = 0 /\ Aligned /\ Region > 0
     \/ step = "map" /\ nextph <= Phnum(image) /\ image.phdrs[nextph].type = "LOAD"
     \/ step = "protect"
  /\ LoaderFails

\* The string table of the shared object: a null byte before every name, and
\* the one that ends it.  The characters of the n-th name are n.
strtab ==
  FlattenSeq([n \in 1..Len(Syscalls) |-> <<0>> \o [c \in 1..Syscalls[n] |-> n]]) \o <<0>>

\* Mutant: the null byte between two names is not skipped.
NameOffsetsMutant(s) ==
  LET offset[n \in 1..Len(Syscalls)] ==
        IF n = 1 THEN 1 ELSE offset[n - 1] + strlen(s, offset[n - 1] + 1)
  IN  offset

\* st_name of every symbol (counted from zero).
NameOffsets(s) ==
  LET offset[n \in 1..Len(Syscalls)] ==
        IF n = 1 THEN 1 ELSE offset[n - 1] + strlen(s, offset[n - 1] + 1) + 1
  IN  offset

\* The only chain of the symbol hash table: STN_UNDEF, zero, ends it.
Chains == [n \in 1..Len(Syscalls) |-> IF n < Len(Syscalls) THEN n ELSE 0]

\* All segments are loaded: the shared object, the auxiliary vector and the
\* call of the entry point.
Start ==
  /\ step = "map" /\ nextph > Phnum(image)
  /\ step' = "started"
  /\ symtab' = [name |-> NameOffsets(strtab), chain |-> Chains]
  /\ auxv' = [base |-> base, phdr |-> base + image.phoff, phnum |-> Phnum(image)]
  /\ UNCHANGED <<image, unread, nextph, base, memory, prot>>

\* The steps of emulate() before the program starts, unless the host fails.
LoaderNext == do_pread \/ ParseHeader \/ Reserve \/ LoadSegment \/ ProtectSegment

-----------------------------------------------------------------------------
\* The pages of a segment, with those of the file that do not belong to it.
PagesOf(n) == SegmentAt(n)..(SegmentAt(n) + roundup(image.phdrs[n].memsz, PageSize) - 1)
Footprint(n) == PagesOf(n) \cup Mapped(n)

\* The segments that a linker produces: the part in the file is the smaller
\* one and is there, and no other segment comes near.
Alone(n) == \A m \in Loads(image) \ {n} : Footprint(n) \cap Footprint(m) = {}
Fits(n) == image.phdrs[n].filesz <= image.phdrs[n].memsz
Present(n) == image.phdrs[n].offset + image.phdrs[n].filesz <= image.length

\* When the program starts, every proper segment holds its part of the
\* executable followed by zeros, up to the end of its last page: neither the
\* rest of the file's page nor another segment shows through.  Its pages have
\* the protection that its program header asks for (and may be written to
\* where code has to be patched), and memory between segments cannot be
\* accessed, whatever the other segments are like.  If no segment has more
\* bytes in the file than in memory, nothing is ever touched outside the
\* reservation, which MAP_FIXED would overwrite.
Reserved == Reservation..(Reservation + roundup(Region, PageSize) - 1)
ImageFaithful ==
  /\ step = "started" =>
       /\ \A n \in Loads(image) : (Alone(n) /\ Fits(n) /\ Present(n)) => \A a \in PagesOf(n) :
            LET k == a - SegmentAt(n)
                wanted == image.phdrs[n].flags
            IN  /\ memory[a] = IF k < image.phdrs[n].filesz THEN image.phdrs[n].offset + k + 1 ELSE 0
                /\ prot[a] = wanted \/ (Gsbase /\ "X" \in wanted /\ prot[a] = wanted \cup {"W"})
       /\ \A a \in Addresses : (\A n \in Loads(image) : a \notin Footprint(n)) => prot[a] = {}
  /\ (\A n \in Loads(image) : Fits(n)) =>
       \A a \in Addresses \ Reserved : memory[a] = Foreign

\* What the loader tells the program is true.  The auxiliary vector leads to
\* its own program headers, if a segment of their own maps the start of the
\* file at the virtual address zero.  And the name of the symbol of every system call
\* is the n-th of the list that numbers the entries of struct syscalls.
ProgramFindsItsData ==
  /\ (step = "started" /\ \E n \in Loads(image) :
         Alone(n) /\ image.phdrs[n].vaddr = 0 /\ image.phdrs[n].offset = 0
           /\ image.phoff + Phnum(image) <= image.phdrs[n].filesz) =>
       \A k \in 0..(auxv.phnum - 1) : memory[auxv.phdr + k] = image.phoff + k + 1
  /\ step = "started" =>
       \A n \in 1..Len(Syscalls) :
         LET p == symtab.name[n] + 1
         IN  strlen(strtab, p) = Syscalls[n] /\ \A i \in p..(p + Syscalls[n] - 1) : strtab[i] = n
=============================================================================
