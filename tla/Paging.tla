------------------------------- MODULE Paging -------------------------------
(***************************************************************************)
(* Paging: the boot sequence of kernel_main_init, init_vmm and kernel_main *)
(* and then map, unmap and get_mapping of kernel/kernel/vmm.c, on a        *)
(* machine with a TLB. Page tables come from the frame allocator, which    *)
(* other parts of the kernel use too and which may have nothing left.      *)
(*                                                                         *)
(* A virtual page is <<PGD_INDEX, PTE_INDEX>>. The processor may look up   *)
(* any page at any time, speculatively too, and keeps what it finds until  *)
(* invlpg of that page or a write to cr3; it never keeps a missing page.   *)
(* All mappings of the kernel are PRESENT and WRITE.                       *)
(***************************************************************************)
EXTENDS Integers, FiniteSets

CONSTANTS
    PgdSize,      \* entries of a directory, 1024
    PteSize,      \* entries of a table, 1024
    OffsetDir,    \* PGD_INDEX(PAGE_OFFSET), 768
    ZoneDirs,     \* KERNEL_NORMAL_ZONE_DIRECTORY_SIZE, 224
    Memory,       \* the frames of the frame allocator
    ClientPages,  \* the virtual pages that callers of map and unmap name ...
    ClientFrames, \* ... and the frames they map: a device's, outside memory
    Wild,         \* a frame that memory nobody has cleared may name
    TlbSize       \* bound: how many translations the processor keeps

Pages      == (0 .. PgdSize - 1) \X (0 .. PteSize - 1)
ZoneFrames == 0 .. ZoneDirs * PteSize - 1
Zone       == {v \in Pages : v[1] - OffsetDir \in 0 .. ZoneDirs - 1}

\* Frame 0 holds the BIOS's data and is never free; all of memory is in the
\* linear zone; what clients map is not, as the frame buffer's address is not.
ASSUME PagingAssumption ==
    /\ PgdSize \in Nat /\ PteSize \in Nat \ {0} /\ TlbSize \in Nat
    /\ OffsetDir \in Nat \ {0} /\ ZoneDirs \in Nat \ {0} /\ OffsetDir + ZoneDirs <= PgdSize
    /\ Memory \subseteq ZoneFrames \ {0}
    /\ ClientPages \subseteq Pages \ Zone
    /\ ClientFrames \subseteq Nat /\ Wild \in Nat

\* Tables by place: of the boot code, of init_vmm, of the frame allocator
pt0       == <<"pt0", 0>>
pt1       == <<"pt1", 0>>
tables(i) == <<"tables", i>>
Frame(f)  == <<"frame", f>>
Unset     == <<"unset", 0>>  \* what an entry nobody has written points to
NULL      == <<"null", 0>>   \* an entry that is 0
Failed    == Frame(0)        \* an entry that is 0 | flags: physic_alloc failed
NoPage    == -1              \* a table's entry that is 0

FrameTables == {Frame(f) : f \in Memory \union {0}}
Tables      == FrameTables \union {pt0, pt1, Unset} \union {tables(i) : i \in 0 .. ZoneDirs - 1}

VARIABLES
    pgd_tmp, pgd_k,  \* the two page directories
    table,           \* what the tables hold
    cr3,             \* "off", "tmp" or "k": the directory in use
    tlb,             \* pairs <<page, frame>>
    held,            \* the frame allocator's: blocks in use
    pc,              \* of the boot sequence, then of the call in progress
    arg,             \* the call's page and frame
    mapped,          \* history: the frame clients last mapped each page to
    exhausted,       \* history: a map found no frame for a table
    premature        \* history: the processor used a table that was not cleared yet

dirs == <<pgd_tmp, pgd_k>>
hist == <<mapped, exhausted, premature>>
vars == <<pgd_tmp, pgd_k, table, cr3, tlb, held, pc, arg, mapped, exhausted, premature>>

Pmm == INSTANCE FrameAllocator WITH Frames <- Memory, asked <- 1

\* What the memory management unit finds for page v
Walk(v) ==
    LET entry == CASE cr3 = "tmp" -> pgd_tmp[v[1]] [] cr3 = "k" -> pgd_k[v[1]] [] OTHER -> NULL
    IN  IF entry = NULL THEN NoPage ELSE table[entry][v[2]]

\* What map, unmap and get_mapping take for an entry without a table
NoTable(entry) == entry \in {NULL, Failed}

\* Bugs to be caught: the row of a table is not scaled, and a table keeps what
\* its frame held.
LinearUnscaled(i) == [e \in 0 .. PteSize - 1 |-> i + e]
ClearedNot        == [e \in 0 .. PteSize - 1 |-> Wild]

\* What tables hold
Garbage   == [e \in 0 .. PteSize - 1 |-> Wild]
Linear(i) == [e \in 0 .. PteSize - 1 |-> i * PteSize + e]
Cleared   == [e \in 0 .. PteSize - 1 |-> NoPage]

----------------------------------------------------------------------------
(* Boot                                                                    *)

\* Memory is as the boot loader left it, with entries that look present for
\* the worst; the kernel's static data are 0.
Init ==
    /\ pgd_tmp = [d \in 0 .. PgdSize - 1 |-> Unset]
    /\ pgd_k = [d \in 0 .. PgdSize - 1 |-> NULL]
    /\ table = [t \in Tables |-> IF t \in {tables(i) : i \in 0 .. ZoneDirs - 1} THEN Cleared ELSE Garbage]
    /\ cr3 = "off" /\ tlb = {} /\ Pmm!Init /\ pc = "boot" /\ arg = <<>>
    /\ mapped = [v \in ClientPages |-> NoPage] /\ exhausted = FALSE /\ premature = FALSE

\* kernel_main_init, at its low address: both halves of the temporary
\* directory show the first frames, then paging is turned on
EnablePaging ==
    /\ pc = "boot" /\ pc' = "init_vmm"
    /\ pgd_tmp' = [pgd_tmp EXCEPT ![0] = pt0, ![OffsetDir] = pt1]
    /\ table' = [table EXCEPT ![pt0] = Linear(0), ![pt1] = Linear(0)]
    /\ cr3' = "tmp"
    /\ UNCHANGED <<pgd_k, tlb, held, arg, hist>>

\* A bug to be caught: the kernel's directory has no low half to return to.
LowEntryMissing == NULL

LowEntry == pt0

\* The directory that init_vmm builds: the linear zone, and the low half until
\* its caller, at a low address, has called kernel_main
KernelDir ==
    [d \in 0 .. PgdSize - 1 |-> IF d - OffsetDir \in 0 .. ZoneDirs - 1 THEN tables(d - OffsetDir)
                               ELSE IF d = 0 THEN LowEntry ELSE NULL]

\* init_vmm, at its high address, up to the switch
InitVmm ==
    /\ pc = "init_vmm" /\ pc' = "switch"
    /\ pgd_k' = KernelDir
    /\ table' = [t \in Tables |->
          IF \E i \in 0 .. ZoneDirs - 1 : t = tables(i) THEN Linear(t[2]) ELSE table[t]]
    /\ UNCHANGED <<pgd_tmp, cr3, tlb, held, arg, hist>>

\* switch_pgd
Switch(from, to) ==
    /\ pc = from /\ pc' = to
    /\ cr3' = "k" /\ tlb' = {}
    /\ UNCHANGED <<dirs, table, held, arg, hist>>

\* back in kernel_main_init, which calls kernel_main; the low half goes ...
ResetLow ==
    /\ pc = "return" /\ pc' = "reset"
    /\ pgd_k' = [pgd_k EXCEPT ![0] = NULL]
    /\ UNCHANGED <<pgd_tmp, table, cr3, tlb, held, arg, hist>>

\* ... and a second switch_pgd drops what the processor remembers of it
Boot == EnablePaging \/ InitVmm \/ Switch("switch", "return") \/ ResetLow \/ Switch("reset", "idle")

----------------------------------------------------------------------------
(* map, unmap and get_mapping of a page of pgd_k                           *)

IsTable(f) == \E d \in 0 .. PgdSize - 1 : pgd_k[d] = Frame(f)

\* A bug to be caught: the frame stays free.
physic_alloc_Unmarked(f) == f \in Memory /\ Pmm!Fresh({f}) /\ UNCHANGED held

physic_alloc(f) == f \in Memory /\ Pmm!Alloc({f})

\* map needs a table: physic_alloc, whose frame is linked before it is cleared.
\* When there is none its 0 is linked all the same.
MapTable(v, p) ==
    /\ pc = "idle" /\ NoTable(pgd_k[v[1]])
    /\ \/ \E f \in Memory : /\ physic_alloc(f)
                            /\ pgd_k' = [pgd_k EXCEPT ![v[1]] = Frame(f)]
                            /\ UNCHANGED exhausted
       \/ /\ \A f \in Memory : ~Pmm!Fresh({f})
          /\ pgd_k' = [pgd_k EXCEPT ![v[1]] = Failed]
          /\ exhausted' = TRUE
          /\ UNCHANGED held
    /\ pc' = "clear" /\ arg' = <<v, p>>
    /\ UNCHANGED <<pgd_tmp, table, cr3, tlb, mapped, premature>>

MapClear ==
    /\ pc = "clear" /\ pc' = "entry"
    /\ table' = [table EXCEPT ![pgd_k[arg[1][1]]] = Cleared]
    /\ UNCHANGED <<dirs, cr3, tlb, held, arg, hist>>

\* The entry of page v becomes p.
SetEntry(v, p) ==
    /\ table' = [table EXCEPT ![pgd_k[v[1]]][v[2]] = p]
    /\ mapped' = [mapped EXCEPT ![v] = p]
    /\ arg' = <<v, p>> /\ pc' = "invlpg"
    /\ UNCHANGED <<dirs, cr3, tlb, held, exhausted, premature>>

MapEntry == pc = "entry" /\ SetEntry(arg[1], arg[2])

\* map finds a table; unmap returns at once when it does not
MapPresent(v, p) == pc = "idle" /\ ~NoTable(pgd_k[v[1]]) /\ SetEntry(v, p)
Unmap(v)         == pc = "idle" /\ ~NoTable(pgd_k[v[1]]) /\ SetEntry(v, NoPage)

\* A bug to be caught: the old translation stays with the processor.
FlushedNot(v) == tlb

Flushed(v) == {x \in tlb : x[1] # v}

Invlpg ==
    /\ pc = "invlpg" /\ pc' = "idle" /\ arg' = <<>>
    /\ tlb' = Flushed(arg[1])
    /\ UNCHANGED <<dirs, table, cr3, held, hist>>

\* The frame get_mapping stores, NoPage when it returns 0
get_mapping(v) == IF NoTable(pgd_k[v[1]]) THEN NoPage ELSE table[pgd_k[v[1]]][v[2]]

----------------------------------------------------------------------------
(* The processor, and the other clients of the frame allocator             *)

TlbFill(v) ==
    /\ Walk(v) # NoPage /\ Cardinality(tlb) < TlbSize /\ \A x \in tlb : x[1] # v
    /\ tlb' = tlb \union {<<v, Walk(v)>>}
    /\ premature' = (premature \/ (pc = "clear" /\ v[1] = arg[1][1]))
    /\ UNCHANGED <<dirs, table, cr3, held, pc, arg, mapped, exhausted>>

TlbEvict(x) ==
    /\ x \in tlb /\ tlb' = tlb \ {x}
    /\ UNCHANGED <<dirs, table, cr3, held, pc, arg, hist>>

\* A frame somebody else has allocated has been written to when it comes back.
OtherAlloc(f) ==
    /\ pc = "idle" /\ Pmm!Alloc({f})
    /\ table' = [table EXCEPT ![Frame(f)] = Garbage]
    /\ UNCHANGED <<dirs, cr3, tlb, pc, arg, hist>>

OtherFree(f) ==
    /\ pc = "idle" /\ Pmm!Free({f}) /\ ~IsTable(f)
    /\ UNCHANGED <<dirs, table, cr3, tlb, pc, arg, hist>>

Next ==
    \/ Boot
    \/ \E v \in ClientPages : \/ Unmap(v)
                              \/ \E p \in ClientFrames : MapTable(v, p) \/ MapPresent(v, p)
    \/ MapClear \/ MapEntry \/ Invlpg
    \/ \E v \in Pages : TlbFill(v)
    \/ \E x \in tlb : TlbEvict(x)
    \/ \E f \in Memory : OtherAlloc(f) \/ OtherFree(f)

Spec == Init /\ [][Next]_vars

----------------------------------------------------------------------------
(* Properties                                                              *)

Booting == pc \in {"boot", "init_vmm", "switch", "return", "reset"}

\* Every field keeps to its range; the directory in use has tables only.
TypeOK ==
    /\ pgd_tmp \in [0 .. PgdSize - 1 -> Tables \union {NULL}]
    /\ pgd_k \in [0 .. PgdSize - 1 -> Tables \union {NULL}]
    /\ \A t \in Tables : \A e \in 0 .. PteSize - 1 :
          table[t][e] \in ZoneFrames \union ClientFrames \union {NoPage, Wild}
    /\ \A x \in tlb : x[1] \in Pages
    /\ held \subseteq SUBSET Memory
    /\ Booting \/ pc \in {"idle", "clear", "entry", "invlpg"}

\* The pages the boot sequence fetches from, stores to or reads at each step
\* once paging is on: kernel_main_init and its data are low, everything else,
\* the stack too, is high, and init_vmm reads pt0.
InUse ==
    LET low  == {v \in Pages : v[1] = 0}
        high == {v \in Pages : v[1] = OffsetDir}
    IN  CASE pc \in {"init_vmm", "switch", "return"} -> low \union high
          [] pc = "boot" -> {}
          [] OTHER -> high

\* From the moment paging is on, no step of the boot sequence and nothing
\* after it runs in, or touches, memory that the directory in use does not
\* map to the frame it was linked for: each return and each call across the
\* switches lands where it should.
BootMapped == \A v \in InUse : Walk(v) = v[2]

\* Whatever clients map and unmap, and even when the frame allocator has
\* failed, the linear zone shows memory: the kernel's pointers, PAGE_OFFSET
\* plus a physical address, stay good.
ZoneLinear ==
    ~Booting => \A v \in Zone : Walk(v) = (v[1] - OffsetDir) * PteSize + v[2]

\* The page a client last mapped is where the machine finds it and where
\* get_mapping says, a page unmapped or never mapped faults (page 0 too), and
\* no call disturbs another page: as long as each table got its frame.
MappingExact ==
    (pc = "idle" /\ ~exhausted) => \A v \in Pages \ Zone :
        /\ Walk(v) = IF v \in ClientPages THEN mapped[v] ELSE NoPage
        /\ get_mapping(v) = Walk(v)

\* The processor remembers no translation that the tables no longer have, but
\* that of the page whose invlpg is next: until it uses a new table before map
\* has cleared it, or a map fails to get one.
TlbCoherent ==
    (~Booting /\ ~premature /\ ~exhausted) => \A x \in tlb : Walk(x[1]) = x[2] \/ (pc = "invlpg" /\ x[1] = arg[1])

\* A table is a frame that the allocator gave to paging, and to one directory
\* entry: nobody else writes to it. Directories and tables hold nothing else
\* (TypeOK).
TablesPrivate ==
    TypeOK /\ \A d, c \in 0 .. PgdSize - 1 : \A f \in Memory :
        pgd_k[d] = Frame(f) => {f} \in held /\ (pgd_k[c] = Frame(f) => c = d)
=============================================================================
