---------------------------- MODULE PagingProofs ----------------------------
(***************************************************************************)
(* Proofs about Paging, for directories and tables of any size, any memory *)
(* and any number of translations in the TLB: the boot sequence never runs *)
(* in memory that is not mapped, the linear zone stays linear, tables are  *)
(* private to paging, map and unmap do what they say and the TLB follows.  *)
(*                                                                         *)
(* The inductive invariant has one part per concern: the types (Typed),    *)
(* what the two directories hold in each phase (Phases), who has the       *)
(* frames that are tables (Private), what the tables outside the zone hold *)
(* (Exact) and what the processor remembers of them (Remembered).          *)
(***************************************************************************)
EXTENDS Paging, TLAPS

Dirs       == 0 .. PgdSize - 1
Slots      == 0 .. PteSize - 1
ZoneRows   == 0 .. ZoneDirs - 1
InZone(d)  == d - OffsetDir \in ZoneRows
Entries    == ZoneFrames \union ClientFrames \union {NoPage, Wild}

Early == {"boot", "init_vmm", "switch", "return"}
Calls == {"clear", "entry", "invlpg"}

Typed ==
  /\ pgd_tmp \in [Dirs -> Tables \union {NULL}]
  /\ pgd_k \in [Dirs -> Tables \union {NULL}]
  /\ table \in [Tables -> [Slots -> Entries]]
  /\ tlb \subseteq Pages \X (Entries \ {NoPage})
  /\ held \subseteq SUBSET Memory
  /\ pc \in Early \union {"reset", "idle"} \union Calls
  /\ mapped \in [ClientPages -> ClientFrames \union {NoPage}]
  /\ pc \in Calls => arg \in ClientPages \X (ClientFrames \union {NoPage})
  /\ exhausted \in BOOLEAN /\ premature \in BOOLEAN

\* Which directory is in use, and what the boot sequence has made of it. Once
\* it is over, entries outside the zone have tables of the frame allocator.
Phases ==
  /\ cr3 = (IF pc = "boot" THEN "off" ELSE IF pc \in {"init_vmm", "switch"} THEN "tmp" ELSE "k")
  /\ pc \in {"init_vmm", "switch"} => pgd_tmp[0] = pt0 /\ pgd_tmp[OffsetDir] = pt1
  /\ pc # "boot" => table[pt0] = Linear(0) /\ table[pt1] = Linear(0)
  /\ pc \in {"boot", "init_vmm"} => \A d \in Dirs : pgd_k[d] = NULL
  /\ pc \in {"switch", "return"} => pgd_k = KernelDir
  /\ pc \notin {"boot", "init_vmm"} => \A i \in ZoneRows : table[tables(i)] = Linear(i)
  /\ pc \notin Early => \A d \in Dirs : IF InZone(d) THEN pgd_k[d] = tables(d - OffsetDir)
                                        ELSE pgd_k[d] \in FrameTables \union {NULL}
  /\ pc = "reset" => \A d \in Dirs : ~InZone(d) => pgd_k[d] = NULL
  /\ Booting => ~exhausted /\ \A v \in ClientPages : mapped[v] = NoPage

\* A frame that is a table is held, and by one entry only.
Private ==
  \A d, c \in Dirs : \A f \in Memory :
     pgd_k[d] = Frame(f) => {f} \in held /\ (pgd_k[c] = Frame(f) => c = d)

\* What the tables say of slot e of directory entry d, and what they should say
Entry(d, e) == IF pgd_k[d] = NULL THEN NoPage ELSE table[pgd_k[d]][e]
Meant(d, e) == IF <<d, e>> \in ClientPages THEN mapped[<<d, e>>] ELSE NoPage

\* As long as every map got its table, no entry has failed; the tables hold
\* what clients mapped, except one that map has linked and not yet cleared,
\* of which no page was mapped before.
Exact ==
  (pc \notin Early /\ ~exhausted) =>
    \A d \in Dirs : ~InZone(d) =>
      /\ pgd_k[d] # Failed
      /\ (pc \in {"clear", "entry"} /\ d = arg[1][1]) =>
            pgd_k[d] # NULL /\ \A e \in Slots : Meant(d, e) = NoPage
      /\ ~(pc = "clear" /\ d = arg[1][1]) => \A e \in Slots : Entry(d, e) = Meant(d, e)

\* While a table waits to be cleared the processor knows no page of it, unless
\* it has looked too early.
Remembered ==
  (~Booting /\ ~premature /\ ~exhausted) =>
     /\ \A x \in tlb : Walk(x[1]) = x[2] \/ (pc = "invlpg" /\ x[1] = arg[1])
     /\ pc = "clear" => \A x \in tlb : x[1][1] # arg[1][1]

IInv == Typed /\ Phases /\ Private /\ Exact /\ Remembered

----------------------------------------------------------------------------
(* Facts about the constants                                               *)

\* Tables in different places are different tables.
LEMMA Places ==
  /\ \A f, g : Frame(f) = Frame(g) => f = g
  /\ \A i, j : tables(i) = tables(j) => i = j
  /\ \A f, i : Frame(f) \notin {tables(i), pt0, pt1, Unset, NULL}
  /\ \A i : tables(i) \notin {pt0, pt1, Unset, NULL}
  /\ pt0 \notin {pt1, Unset, NULL} /\ pt1 \notin {Unset, NULL} /\ Unset # NULL
BY DEF Frame, tables, pt0, pt1, Unset, NULL

\* Which places are tables
LEMMA TableSet ==
  /\ pt0 \in Tables /\ pt1 \in Tables /\ Unset \in Tables
  /\ \A i \in ZoneRows : tables(i) \in Tables
  /\ FrameTables \subseteq Tables /\ Failed \in FrameTables
  /\ \A f \in Memory : Frame(f) \in FrameTables /\ Frame(f) # Failed
  /\ \A t \in FrameTables : t # Failed => \E f \in Memory : t = Frame(f)
<1>1. 0 \notin Memory
  BY PagingAssumption
<1>2. \A f \in Memory : Frame(f) # Failed
  BY <1>1, Places DEF Failed
<1> QED BY <1>2 DEF Tables, FrameTables, Failed, ZoneRows

\* Directory entries inside and outside the zone
LEMMA Sizes ==
  /\ PgdSize \in Nat /\ PteSize \in Nat \ {0} /\ OffsetDir \in Nat \ {0} /\ ZoneDirs \in Nat \ {0}
  /\ 0 \in Dirs /\ ~InZone(0) /\ OffsetDir \in Dirs /\ InZone(OffsetDir) /\ 0 \in ZoneRows
  /\ \A d \in Dirs : InZone(d) => d - OffsetDir \in ZoneRows
BY PagingAssumption DEF Dirs, InZone, ZoneRows

\* A page is an entry of a directory and a slot of its table; clients name no
\* page of the zone.
LEMMA PageParts ==
  /\ \A v \in Pages : v[1] \in Dirs /\ v[2] \in Slots /\ v = <<v[1], v[2]>>
  /\ \A d \in Dirs, e \in Slots : <<d, e>> \in Pages /\ <<d, e>>[1] = d /\ <<d, e>>[2] = e
  /\ \A v \in Pages : v \in Zone <=> InZone(v[1])
  /\ \A v \in ClientPages : v \in Pages /\ ~InZone(v[1])
BY PagingAssumption DEF Pages, Zone, InZone, ZoneRows, Dirs, Slots

\* What tables are filled with
LEMMA Contents ==
  /\ Cleared \in [Slots -> Entries] /\ Garbage \in [Slots -> Entries]
  /\ \A i \in ZoneRows : Linear(i) \in [Slots -> Entries]
  /\ \A i, e : e \in Slots => Linear(i)[e] = i * PteSize + e
  /\ \A e \in Slots : Cleared[e] = NoPage
<1>1. ASSUME NEW i \in ZoneRows, NEW e \in Slots
      PROVE  i * PteSize + e \in ZoneFrames
  <2>1. i * PteSize + PteSize = (i + 1) * PteSize /\ (i + 1) * PteSize <= ZoneDirs * PteSize
    BY Sizes DEF ZoneRows
  <2> QED BY <2>1, Sizes DEF ZoneFrames, ZoneRows, Slots
<1>2. \A i \in ZoneRows : Linear(i) \in [Slots -> Entries]
  BY <1>1 DEF Linear, Entries, Slots
<1> QED BY <1>2 DEF Cleared, Garbage, Linear, Slots, Entries

----------------------------------------------------------------------------
(* The invariant implies the properties                                    *)

\* Once the kernel's directory is in use the machine walks its tables.
LEMMA WalkIsEntry ==
  ASSUME Phases, pc \notin {"boot", "init_vmm", "switch"}, NEW v
  PROVE  Walk(v) = Entry(v[1], v[2])
BY DEF Phases, Walk, Entry

\* In the zone it finds memory, from the first switch on.
LEMMA ZoneWalk ==
  ASSUME Typed, Phases, pc \notin {"boot", "init_vmm", "switch"},
         NEW v \in Pages, InZone(v[1])
  PROVE  Walk(v) = (v[1] - OffsetDir) * PteSize + v[2]
<1>1. v[1] \in Dirs /\ v[2] \in Slots
  BY PageParts
<1>2. pgd_k[v[1]] = tables(v[1] - OffsetDir)
  <2>1. CASE pc \in Early
    BY <2>1, <1>1, Sizes DEF Phases, Early, KernelDir, Dirs, InZone, ZoneRows
  <2>2. CASE pc \notin Early
    BY <2>2, <1>1 DEF Phases
  <2> QED BY <2>1, <2>2
<1>3. table[tables(v[1] - OffsetDir)] = Linear(v[1] - OffsetDir)
  BY Sizes DEF Phases, InZone
<1> QED BY <1>1, <1>2, <1>3, WalkIsEntry, Contents, Places DEF Entry

\* The invariant implies that the zone is linear ...
LEMMA ZoneLinearHolds ==
  ASSUME IInv
  PROVE  ZoneLinear
BY ZoneWalk, PageParts DEF IInv, ZoneLinear, Booting, Zone, Pages

\* ... that the boot sequence runs in mapped memory ...
LEMMA BootMappedHolds ==
  ASSUME IInv
  PROVE  BootMapped
<1>1. SUFFICES ASSUME NEW v \in InUse
               PROVE  Walk(v) = v[2]
  BY DEF BootMapped
<1>2. v \in Pages /\ pc # "boot"
  BY <1>1 DEF InUse
<1>3. v[1] \in Dirs /\ v[2] \in Slots /\ v[2] \in Int
  BY <1>2, PageParts, Sizes DEF Slots
<1>4. Linear(0)[v[2]] = v[2]
  BY <1>3, Contents, Sizes
<1>5. CASE pc \in {"init_vmm", "switch"}
  <2>1. v[1] = 0 \/ v[1] = OffsetDir
    BY <1>1, <1>5 DEF InUse
  <2>2. cr3 = "tmp" /\ pgd_tmp[v[1]] \in {pt0, pt1}
    BY <2>1, <1>5 DEF IInv, Phases
  <2>3. table[pgd_tmp[v[1]]] = Linear(0)
    BY <2>2, <1>2 DEF IInv, Phases
  <2> QED BY <2>2, <2>3, <1>4, Places DEF Walk
<1>6. CASE pc \notin {"init_vmm", "switch"} /\ v[1] = OffsetDir
  BY <1>2, <1>3, <1>6, ZoneWalk, Sizes DEF IInv
<1>7. CASE pc \notin {"init_vmm", "switch"} /\ v[1] # OffsetDir
  <2>1. pc = "return" /\ v[1] = 0
    BY <1>1, <1>2, <1>7 DEF InUse
  <2>2. pgd_k[0] = pt0
    BY <2>1, Sizes DEF IInv, Phases, KernelDir, LowEntry, Dirs, InZone, ZoneRows
  <2>3. table[pt0] = Linear(0)
    BY <2>1 DEF IInv, Phases
  <2> QED BY <2>1, <2>2, <2>3, <1>4, WalkIsEntry, Places DEF IInv, Entry
<1> QED BY <1>5, <1>6, <1>7

\* ... that get_mapping gives what was mapped last ...
LEMMA MappingExactHolds ==
  ASSUME IInv
  PROVE  MappingExact
<1>1. SUFFICES ASSUME pc = "idle", ~exhausted, NEW v \in Pages \ Zone
               PROVE  /\ Walk(v) = IF v \in ClientPages THEN mapped[v] ELSE NoPage
                      /\ get_mapping(v) = Walk(v)
  BY DEF MappingExact
<1>2. v[1] \in Dirs /\ v[2] \in Slots /\ v = <<v[1], v[2]>> /\ ~InZone(v[1])
  BY PageParts
<1>3. pgd_k[v[1]] # Failed /\ Entry(v[1], v[2]) = Meant(v[1], v[2])
  BY <1>1, <1>2 DEF IInv, Exact, Early
<1>4. Walk(v) = Entry(v[1], v[2])
  BY <1>1, WalkIsEntry DEF IInv
<1> QED BY <1>2, <1>3, <1>4 DEF Meant, Entry, get_mapping, NoTable

\* ... that the processor remembers nothing else ...
LEMMA TlbCoherentHolds ==
  ASSUME IInv
  PROVE  TlbCoherent
BY DEF IInv, Remembered, TlbCoherent

\* ... and that nobody else has the frames of the tables.
LEMMA TablesPrivateHolds ==
  ASSUME IInv
  PROVE  TablesPrivate
<1>1. TypeOK
  BY ZenonT(30) DEF IInv, Typed, TypeOK, Dirs, Slots, Entries, Early, Calls, Booting
<1> QED BY <1>1 DEF IInv, Private, TablesPrivate, Dirs

----------------------------------------------------------------------------
(* The invariant is inductive                                              *)

\* The directories are empty and paging is off.
LEMMA InitIInv ==
  ASSUME Init
  PROVE  IInv
<1> USE DEF Init
<1>1. Typed
  <2>1. table \in [Tables -> [Slots -> Entries]]
    BY Contents
  <2>2. pgd_tmp \in [Dirs -> Tables \union {NULL}] /\ pgd_k \in [Dirs -> Tables \union {NULL}]
    BY TableSet DEF Dirs
  <2> QED BY <2>1, <2>2 DEF Typed, Pmm!Init, Early, Calls
<1>2. Phases
  BY DEF Phases, Early, Booting, Dirs
<1>3. Private
  BY Places DEF Private, Dirs
<1>4. Exact /\ Remembered
  BY DEF Exact, Remembered, Early, Booting
<1> QED BY <1>1, <1>2, <1>3, <1>4 DEF IInv

\* kernel_main_init fills the first directory and turns paging on.
LEMMA EnablePagingStep ==
  ASSUME IInv, EnablePaging
  PROVE  IInv'
<1> USE DEF IInv, EnablePaging
<1>1. Linear(0) \in [Slots -> Entries]
  BY Contents, Sizes
<1>2. Typed'
  BY <1>1, TableSet DEF Typed, Early, Calls, hist
<1>3. table'[pt0] = Linear(0) /\ table'[pt1] = Linear(0)
  BY Places, TableSet DEF Typed
<1>4. pgd_tmp'[0] = pt0 /\ pgd_tmp'[OffsetDir] = pt1
  BY Sizes DEF Typed
<1>5. Phases'
  BY <1>3, <1>4 DEF Phases, Early, Booting, hist
<1>6. Private' /\ Exact' /\ Remembered'
  BY DEF Private, Exact, Remembered, Early, Booting, hist
<1> QED BY <1>2, <1>5, <1>6

\* init_vmm fills the second directory.
LEMMA InitVmmStep ==
  ASSUME IInv, InitVmm
  PROVE  IInv'
<1> USE DEF IInv, InitVmm
<1>1. KernelDir \in [Dirs -> Tables \union {NULL}]
  BY TableSet DEF KernelDir, LowEntry, Dirs, ZoneRows
<1>2. \A i \in ZoneRows : table'[tables(i)] = Linear(i)
  BY TableSet DEF ZoneRows, tables
<1>3. table' \in [Tables -> [Slots -> Entries]]
  <2>1. \A t \in Tables : (\E i \in ZoneRows : t = tables(i)) => Linear(t[2]) \in [Slots -> Entries]
    BY Contents DEF tables
  <2> QED BY <2>1 DEF Typed, ZoneRows
<1>4. table'[pt0] = table[pt0] /\ table'[pt1] = table[pt1]
  BY Places, TableSet
<1>5. Typed'
  BY <1>1, <1>3 DEF Typed, Early, Calls, hist
<1>6. Phases'
  BY <1>2, <1>4 DEF Phases, Early, Booting, hist
<1>7. Private'
  BY Places DEF Private, KernelDir, LowEntry, Dirs
<1>8. Exact' /\ Remembered'
  BY DEF Exact, Remembered, Early, Booting
<1> QED BY <1>5, <1>6, <1>7, <1>8

\* init_vmm switches to it.
LEMMA SwitchFirstStep ==
  ASSUME IInv, Switch("switch", "return")
  PROVE  IInv'
<1> USE DEF IInv, Switch
<1>1. Typed'
  BY DEF Typed, Early, Calls, dirs, hist
<1>2. Phases'
  BY DEF Phases, Early, Booting, dirs, hist
<1>3. Private' /\ Exact' /\ Remembered'
  BY DEF Private, Exact, Remembered, Early, Booting, dirs
<1> QED BY <1>1, <1>2, <1>3

\* kernel_main takes the low entry away.
LEMMA ResetLowStep ==
  ASSUME IInv, ResetLow
  PROVE  IInv'
<1> USE DEF IInv, ResetLow
<1>1. \A d \in Dirs : pgd_k'[d] = IF InZone(d) THEN tables(d - OffsetDir) ELSE NULL
  BY Sizes DEF Phases, KernelDir, Typed, Dirs, InZone, ZoneRows
<1>2. Typed'
  BY DEF Typed, Early, Calls, hist
<1>3. Phases'
  BY <1>1 DEF Phases, Early, Booting, hist
<1>4. Private'
  BY <1>1, Places DEF Private
<1>5. Exact'
  <2>1. \A d \in Dirs, e \in Slots : Meant(d, e)' = NoPage
    BY DEF Meant, Phases, Booting, hist
  <2> QED BY <1>1, <2>1, Places, TableSet DEF Exact, Entry, Failed
<1>6. Remembered'
  BY DEF Remembered, Booting
<1> QED BY <1>2, <1>3, <1>4, <1>5, <1>6

\* kernel_main loads the directory again: the TLB is emptied.
LEMMA SwitchSecondStep ==
  ASSUME IInv, Switch("reset", "idle")
  PROVE  IInv'
<1> USE DEF IInv, Switch
<1>1. Typed'
  BY DEF Typed, Early, Calls, dirs, hist
<1>2. Phases'
  BY DEF Phases, Early, Booting, dirs, hist
<1>3. Private'
  BY DEF Private, dirs
<1>4. Exact'
  BY DEF Exact, Early, Entry, Meant, dirs, hist
<1>5. Remembered'
  BY DEF Remembered
<1> QED BY <1>1, <1>2, <1>3, <1>4, <1>5

\* Tables of the frame allocator are none of the boot sequence's: writing to
\* one leaves those as they are.
LEMMA FrameTableWritten ==
  ASSUME Typed, Phases, NEW t \in FrameTables, NEW c \in [Slots -> Entries],
         table' = [table EXCEPT ![t] = c]
  PROVE  /\ table' \in [Tables -> [Slots -> Entries]]
         /\ table'[t] = c /\ \A u \in Tables \ {t} : table'[u] = table[u]
         /\ table'[pt0] = table[pt0] /\ table'[pt1] = table[pt1]
         /\ \A i \in ZoneRows : table'[tables(i)] = table[tables(i)]
<1>1. t \in Tables /\ t \notin {pt0, pt1} /\ \A i : t # tables(i)
  BY TableSet, Places DEF FrameTables
<1>2. table' \in [Tables -> [Slots -> Entries]]
  BY <1>1 DEF Typed
<1>3. table'[t] = c /\ \A u \in Tables \ {t} : table'[u] = table[u]
  BY <1>1 DEF Typed
<1> QED BY <1>1, <1>2, <1>3, TableSet

\* map links a new table.
LEMMA MapTableStep ==
  ASSUME IInv, NEW v \in ClientPages, NEW p \in ClientFrames, MapTable(v, p)
  PROVE  IInv'
<1> USE DEF IInv
<1>1. PICK d \in Dirs : d = v[1] /\ ~InZone(d)
  BY PageParts
<1>2. PICK t \in FrameTables : /\ pgd_k' = [pgd_k EXCEPT ![d] = t]
                               /\ \/ /\ t = Failed /\ exhausted' /\ held' = held
                                  \/ \E f \in Memory : /\ t = Frame(f) /\ Pmm!Fresh({f})
                                                       /\ held' = held \union {{f}}
                                                       /\ (exhausted' <=> exhausted)
  <2>1. CASE \E f \in Memory : /\ physic_alloc(f) /\ UNCHANGED exhausted
                               /\ pgd_k' = [pgd_k EXCEPT ![v[1]] = Frame(f)]
    <3>1. PICK f \in Memory : /\ physic_alloc(f) /\ UNCHANGED exhausted
                              /\ pgd_k' = [pgd_k EXCEPT ![v[1]] = Frame(f)]
      BY <2>1
    <3>2. Pmm!Fresh({f}) /\ held' = held \union {{f}} /\ (exhausted' <=> exhausted)
      BY <3>1 DEF physic_alloc, Pmm!Alloc
    <3> QED BY <1>1, <3>1, <3>2, TableSet
  <2>2. CASE pgd_k' = [pgd_k EXCEPT ![v[1]] = Failed] /\ exhausted' = TRUE /\ UNCHANGED held
    BY <1>1, <2>2, TableSet
  <2> QED BY <2>1, <2>2 DEF MapTable
<1>3. /\ pc = "idle" /\ pc' = "clear" /\ arg' = <<v, p>> /\ NoTable(pgd_k[d])
      /\ UNCHANGED <<pgd_tmp, table, cr3, tlb, mapped, premature>> /\ (premature' <=> premature)
  BY <1>1 DEF MapTable
<1>4. /\ pgd_k' \in [Dirs -> Tables \union {NULL}] /\ pgd_k'[d] = t
      /\ \A c \in Dirs \ {d} : pgd_k'[c] = pgd_k[c]
  BY <1>1, <1>2, TableSet DEF Typed
<1>5. Typed'
  <2>1. arg' \in ClientPages \X (ClientFrames \union {NoPage})
    BY <1>3
  <2>3. exhausted' \in BOOLEAN
    BY DEF MapTable, Typed
  <2>2. held' \subseteq SUBSET Memory
    <3>1. held' = held \/ \E f \in Memory : held' = held \union {{f}}
      BY <1>2
    <3> QED BY <3>1 DEF Typed
  <2> QED BY <1>3, <1>4, <2>1, <2>2, <2>3 DEF Typed, Early, Calls
<1>6. Phases'
  BY <1>1, <1>3, <1>4 DEF Phases, Early, Booting
<1>7. Private'
  <2>1. \A c \in Dirs : \A f \in Memory : pgd_k[c] = Frame(f) => {f} \in held'
    BY <1>2 DEF Private
  <2>2. \A f \in Memory : t = Frame(f) => /\ {f} \in held'
                                          /\ \A c \in Dirs : pgd_k[c] # Frame(f)
    <3>1. ASSUME NEW f \in Memory, t = Frame(f)
          PROVE  {f} \in held' /\ Pmm!Fresh({f})
      BY <1>2, <3>1, TableSet, Places
    <3> QED BY <3>1 DEF Private, Pmm!Fresh
  <2> QED BY <1>4, <2>1, <2>2 DEF Private
<1>8. Exact'
  <2>1. SUFFICES ASSUME ~exhausted', NEW c \in Dirs, ~InZone(c)
                 PROVE  /\ pgd_k'[c] # Failed
                        /\ c = d => /\ pgd_k'[c] # NULL
                                    /\ \A e \in Slots : Meant(c, e)' = NoPage
                        /\ c # d => \A e \in Slots : Entry(c, e)' = Meant(c, e)'
    BY <1>1, <1>3 DEF Exact
  <2>2. ~exhausted /\ t # Failed
    BY <1>2, <2>1, TableSet
  <2>3. \A e \in Slots : Meant(c, e)' = Meant(c, e)
    BY <1>3 DEF Meant
  <2>4. /\ pgd_k[c] # Failed
        /\ \A e \in Slots : Entry(c, e) = Meant(c, e)
    BY <2>1, <2>2, <1>3 DEF Exact, Early
  <2>5. CASE c = d
    <3>1. pgd_k[d] = NULL
      BY <1>3, <2>4, <2>5 DEF NoTable
    <3>2. t # NULL
      BY Places DEF FrameTables
    <3> QED BY <1>4, <2>2, <2>3, <2>4, <2>5, <3>1, <3>2 DEF Entry
  <2>6. CASE c # d
    BY <1>3, <1>4, <2>3, <2>4, <2>6 DEF Entry
  <2> QED BY <2>5, <2>6
<1>9. Remembered'
  <2>1. SUFFICES ASSUME ~premature', ~exhausted', NEW x \in tlb
                 PROVE  Walk(x[1])' = x[2] /\ x[1][1] # d
    BY <1>1, <1>3 DEF Remembered
  <2>2. ~exhausted /\ ~premature
    BY <1>2, <1>3, <2>1
  <2>3. x[1] \in Pages /\ x[2] # NoPage /\ x[1][1] \in Dirs
    BY PageParts DEF Typed
  <2>4. Walk(x[1]) = x[2] /\ Walk(x[1]) = Entry(x[1][1], x[1][2])
    BY <1>3, <2>2, WalkIsEntry DEF Remembered, Booting
  <2>5. pgd_k[d] = NULL
    BY <1>1, <1>3, <2>2 DEF Exact, Early, NoTable
  <2>6. x[1][1] # d
    BY <2>3, <2>4, <2>5 DEF Entry
  <2>7. Walk(x[1])' = Entry(x[1][1], x[1][2])'
    BY <1>3, <1>6 DEF Phases, Walk, Entry
  <2> QED BY <1>3, <1>4, <2>3, <2>4, <2>6, <2>7 DEF Entry
<1> QED BY <1>5, <1>6, <1>7, <1>8, <1>9

\* The entry of the call in progress has a table of the frame allocator, which
\* no other entry has unless a map has failed.
LEMMA CallTable ==
  ASSUME IInv, NEW d \in Dirs, ~InZone(d), pc \notin Early, pgd_k[d] # NULL
  PROVE  /\ pgd_k[d] \in FrameTables
         /\ ~exhausted => \A c \in Dirs \ {d} : pgd_k[c] # pgd_k[d]
<1>1. pgd_k[d] \in FrameTables
  BY DEF IInv, Phases
<1>2. ASSUME ~exhausted, NEW c \in Dirs \ {d}
      PROVE  pgd_k[c] # pgd_k[d]
  <2>1. PICK f \in Memory : pgd_k[d] = Frame(f)
    BY <1>1, <1>2, TableSet DEF IInv, Exact
  <2> QED BY <2>1 DEF IInv, Private
<1> QED BY <1>1, <1>2

\* map clears it.
LEMMA MapClearStep ==
  ASSUME IInv, MapClear
  PROVE  IInv'
<1> USE DEF IInv
<1>1. PICK d \in Dirs : d = arg[1][1] /\ ~InZone(d)
  BY PageParts DEF MapClear, Typed, Calls
<1>2. /\ pc = "clear" /\ pc' = "entry" /\ table' = [table EXCEPT ![pgd_k[d]] = Cleared]
      /\ UNCHANGED <<pgd_tmp, pgd_k, cr3, tlb, held, arg, mapped, exhausted, premature>>
  BY <1>1 DEF MapClear, dirs, hist
<1>3. SUFFICES ASSUME pgd_k[d] # NULL
               PROVE  IInv'
  <2>1. CASE pgd_k[d] = NULL
    <3>1. table' = table /\ exhausted
      <4>1. NULL \notin Tables
        BY Places DEF Tables, FrameTables
      <4> QED BY <1>1, <1>2, <2>1, <4>1 DEF Typed, Exact, Early
    <3>2. Typed' /\ Phases' /\ Private' /\ Exact' /\ Remembered'
      BY <1>2, <3>1 DEF Typed, Phases, Private, Exact, Remembered, Early, Calls, Booting
    <3> QED BY <3>2
  <2> QED BY <1>3, <2>1
<1>4. /\ pgd_k[d] \in FrameTables
      /\ ~exhausted => \A c \in Dirs \ {d} : pgd_k[c] # pgd_k[d]
  BY <1>1, <1>2, <1>3, CallTable DEF Early
<1>5. /\ table' \in [Tables -> [Slots -> Entries]]
      /\ table'[pgd_k[d]] = Cleared /\ \A u \in Tables \ {pgd_k[d]} : table'[u] = table[u]
      /\ table'[pt0] = table[pt0] /\ table'[pt1] = table[pt1]
      /\ \A i \in ZoneRows : table'[tables(i)] = table[tables(i)]
  BY <1>2, <1>4, FrameTableWritten, Contents
<1>6. Typed'
  BY <1>2, <1>5 DEF Typed, Early, Calls
<1>7. Phases'
  BY <1>2, <1>5 DEF Phases, Early, Booting
<1>8. Private'
  BY <1>2 DEF Private
<1>9. ASSUME ~exhausted, NEW c \in Dirs, c # d, NEW e
      PROVE  Entry(c, e)' = Entry(c, e)
  <2>1. pgd_k[c] = NULL \/ pgd_k[c] \in Tables \ {pgd_k[d]}
    BY <1>4, <1>9 DEF Typed
  <2> QED BY <1>2, <1>5, <2>1 DEF Entry
<1>10. Exact'
  <2>1. SUFFICES ASSUME ~exhausted, NEW c \in Dirs, ~InZone(c)
                 PROVE  /\ pgd_k[c] # Failed
                        /\ c = d => /\ pgd_k[c] # NULL
                                    /\ \A e \in Slots : Meant(c, e)' = NoPage
                        /\ \A e \in Slots : Entry(c, e)' = Meant(c, e)'
    BY <1>1, <1>2 DEF Exact
  <2>2. \A e \in Slots : Meant(c, e)' = Meant(c, e)
    BY <1>2 DEF Meant
  <2>3. /\ pgd_k[c] # Failed
        /\ c = d => \A e \in Slots : Meant(c, e) = NoPage
        /\ c # d => \A e \in Slots : Entry(c, e) = Meant(c, e)
    BY <1>1, <1>2, <2>1 DEF Exact, Early
  <2>4. CASE c = d
    <3>1. \A e \in Slots : Entry(d, e)' = NoPage
      BY <1>2, <1>3, <1>5, Contents DEF Entry
    <3> QED BY <1>3, <2>2, <2>3, <2>4, <3>1
  <2>5. CASE c # d
    BY <1>9, <2>1, <2>2, <2>3, <2>5
  <2> QED BY <2>4, <2>5
<1>11. Remembered'
  <2>1. SUFFICES ASSUME ~premature, ~exhausted, NEW x \in tlb
                 PROVE  Walk(x[1])' = x[2]
    BY <1>2 DEF Remembered
  <2>2. x[1][1] # d /\ x[1][1] \in Dirs /\ Walk(x[1]) = x[2]
    BY <1>1, <1>2, <2>1, PageParts DEF Remembered, Booting, Typed
  <2>3. Walk(x[1]) = Entry(x[1][1], x[1][2]) /\ Walk(x[1])' = Entry(x[1][1], x[1][2])'
    BY <1>2, <1>7 DEF Phases, Walk, Entry
  <2> QED BY <1>9, <2>1, <2>2, <2>3
<1> QED BY <1>6, <1>7, <1>8, <1>10, <1>11

\* Writing one slot of a table of paging's own, with the page's invlpg to
\* come: map with and without a new table, and unmap.
LEMMA SetEntryStep ==
  ASSUME IInv, NEW v \in ClientPages, NEW p \in ClientFrames \union {NoPage}, SetEntry(v, p),
         \/ pc = "idle" /\ ~NoTable(pgd_k[v[1]])
         \/ pc = "entry" /\ v = arg[1]
  PROVE  IInv'
<1> USE DEF IInv
<1>1. PICK d \in Dirs, s \in Slots : d = v[1] /\ s = v[2] /\ v = <<d, s>> /\ ~InZone(d)
  BY PageParts
<1>2. /\ table' = [table EXCEPT ![pgd_k[d]] = [table[pgd_k[d]] EXCEPT ![s] = p]]
      /\ mapped' = [mapped EXCEPT ![v] = p] /\ pc' = "invlpg" /\ arg' = <<v, p>>
      /\ UNCHANGED <<pgd_tmp, pgd_k, cr3, tlb, held, exhausted, premature>>
  BY <1>1 DEF SetEntry, dirs
<1>3. SUFFICES ASSUME pgd_k[d] # NULL
               PROVE  IInv'
  <2>1. CASE pgd_k[d] = NULL
    <3>1. table' = table /\ exhausted
      <4>1. NULL \notin Tables
        BY Places DEF Tables, FrameTables
      <4>2. exhausted
        BY <1>1, <2>1 DEF Exact, Early, NoTable
      <4> QED BY <1>2, <2>1, <4>1, <4>2 DEF Typed
    <3>2. Typed'
      BY <1>2, <3>1 DEF Typed, Early, Calls
    <3>3. pc \in {"idle", "entry"}
      OBVIOUS
    <3>4. Phases' /\ Private' /\ Exact' /\ Remembered'
      BY <1>2, <3>1, <3>3 DEF Phases, Private, Exact, Remembered, Early, Calls, Booting
    <3> QED BY <3>2, <3>4
  <2> QED BY <1>3, <2>1
<1>0. pc \in {"idle", "entry"} /\ pc \notin Early
  BY DEF Early
<1>4. /\ pgd_k[d] \in FrameTables
      /\ ~exhausted => \A c \in Dirs \ {d} : pgd_k[c] # pgd_k[d]
  BY <1>0, <1>1, <1>3, CallTable
<1>5. [table[pgd_k[d]] EXCEPT ![s] = p] \in [Slots -> Entries]
  BY <1>4, TableSet DEF Typed, Entries
<1>6. /\ table' \in [Tables -> [Slots -> Entries]]
      /\ table'[pgd_k[d]] = [table[pgd_k[d]] EXCEPT ![s] = p]
      /\ \A u \in Tables \ {pgd_k[d]} : table'[u] = table[u]
      /\ table'[pt0] = table[pt0] /\ table'[pt1] = table[pt1]
      /\ \A i \in ZoneRows : table'[tables(i)] = table[tables(i)]
  BY <1>2, <1>4, <1>5, FrameTableWritten
<1>7. Typed'
  BY <1>2, <1>6 DEF Typed, Early, Calls
<1>8. Phases'
  BY <1>0, <1>2, <1>6 DEF Phases, Early, Booting
<1>9. Private'
  BY <1>2 DEF Private
<1>10. ASSUME ~exhausted, NEW c \in Dirs, NEW e \in Slots, <<c, e>> # v
       PROVE  Entry(c, e)' = Entry(c, e)
  <2>1. CASE c = d
    <3>1. e # s /\ table[pgd_k[d]] \in [Slots -> Entries]
      BY <1>1, <1>4, <1>10, <2>1, TableSet DEF Typed
    <3> QED BY <1>2, <1>6, <2>1, <3>1 DEF Entry
  <2>2. CASE c # d
    <3>1. pgd_k[c] = NULL \/ pgd_k[c] \in Tables \ {pgd_k[d]}
      BY <1>4, <1>10, <2>2 DEF Typed
    <3> QED BY <1>2, <1>6, <3>1 DEF Entry
  <2> QED BY <2>1, <2>2
<1>11. Entry(d, s)' = p /\ Meant(d, s)' = p
  <2>1. table[pgd_k[d]] \in [Slots -> Entries]
    BY <1>4, TableSet DEF Typed
  <2> QED BY <1>1, <1>2, <1>3, <1>6, <2>1 DEF Entry, Meant, Typed
<1>12. Exact'
  <2>1. SUFFICES ASSUME ~exhausted, NEW c \in Dirs, ~InZone(c)
                 PROVE  /\ pgd_k[c] # Failed
                        /\ \A e \in Slots : Entry(c, e)' = Meant(c, e)'
    BY <1>2 DEF Exact
  <2>2. pgd_k[c] # Failed /\ \A e \in Slots : Entry(c, e) = Meant(c, e)
    BY <1>0, <2>1 DEF Exact
  <2>3. \A e \in Slots : <<c, e>> # v => Meant(c, e)' = Meant(c, e)
    BY <1>2 DEF Meant, Typed
  <2> QED BY <1>1, <1>10, <1>11, <2>1, <2>2, <2>3
<1>13. Remembered'
  <2>1. SUFFICES ASSUME ~premature, ~exhausted, NEW x \in tlb, x[1] # v
                 PROVE  Walk(x[1])' = x[2]
    BY <1>2 DEF Remembered
  <2>2. /\ x[1][1] \in Dirs /\ x[1][2] \in Slots /\ x[1] = <<x[1][1], x[1][2]>>
        /\ Walk(x[1]) = x[2]
    BY <1>0, <2>1, PageParts DEF Remembered, Booting, Typed
  <2>3. Walk(x[1]) = Entry(x[1][1], x[1][2]) /\ Walk(x[1])' = Entry(x[1][1], x[1][2])'
    BY <1>0, <1>2, <1>8 DEF Phases, Walk, Entry
  <2> QED BY <1>10, <2>1, <2>2, <2>3
<1> QED BY <1>7, <1>8, <1>9, <1>12, <1>13

\* The processor forgets the page.
LEMMA InvlpgStep ==
  ASSUME IInv, Invlpg
  PROVE  IInv'
<1> USE DEF IInv
<1>1. /\ pc = "invlpg" /\ pc' = "idle" /\ tlb' = {x \in tlb : x[1] # arg[1]}
      /\ UNCHANGED <<pgd_tmp, pgd_k, table, cr3, held, mapped, exhausted, premature>>
  BY DEF Invlpg, Flushed, dirs, hist
<1>2. Typed'
  BY <1>1 DEF Typed, Early, Calls
<1>3. Phases' /\ Private'
  BY <1>1 DEF Phases, Private, Early, Booting
<1>4. Exact'
  BY <1>1 DEF Exact, Early, Entry, Meant
<1>5. Remembered'
  BY <1>1 DEF Remembered, Booting, Walk
<1> QED BY <1>2, <1>3, <1>4, <1>5

\* The processor looks a page up and remembers it.
LEMMA TlbFillStep ==
  ASSUME IInv, NEW v \in Pages, TlbFill(v)
  PROVE  IInv'
<1> USE DEF IInv
<1>1. /\ tlb' = tlb \union {<<v, Walk(v)>>} /\ Walk(v) # NoPage
      /\ premature' = (premature \/ (pc = "clear" /\ v[1] = arg[1][1]))
      /\ UNCHANGED <<pgd_tmp, pgd_k, table, cr3, held, pc, arg, mapped, exhausted>>
  BY DEF TlbFill, dirs
<1>2. Walk(v) \in Entries \ {NoPage}
  <2>1. v[1] \in Dirs /\ v[2] \in Slots
    BY PageParts
  <2>2. ASSUME NEW t \in Tables
        PROVE  table[t][v[2]] \in Entries
    BY <2>1 DEF Typed
  <2> QED BY <1>1, <2>1, <2>2 DEF Typed, Walk
<1>3. Typed'
  BY <1>1, <1>2 DEF Typed
<1>4. Phases' /\ Private' /\ Exact'
  BY <1>1 DEF Phases, Private, Exact, Booting, Entry, Meant
<1>5. Remembered'
  <2>1. Walk(v)' = Walk(v) /\ \A x \in tlb : Walk(x[1])' = Walk(x[1])
    BY <1>1 DEF Walk
  <2>2. <<v, Walk(v)>>[1] = v /\ <<v, Walk(v)>>[2] = Walk(v)
    OBVIOUS
  <2>3. ~premature' => ~premature /\ ~(pc = "clear" /\ v[1] = arg[1][1])
    BY <1>1
  <2> QED BY <1>1, <2>1, <2>2, <2>3 DEF Remembered, Booting
<1> QED BY <1>3, <1>4, <1>5

\* The processor forgets a page of its own accord.
LEMMA TlbEvictStep ==
  ASSUME IInv, NEW x \in tlb, TlbEvict(x)
  PROVE  IInv'
<1> USE DEF IInv, TlbEvict, dirs, hist
<1>1. Typed'
  BY DEF Typed
<1>2. Phases' /\ Private' /\ Exact'
  BY DEF Phases, Private, Exact, Booting, Entry, Meant
<1>3. Remembered'
  BY DEF Remembered, Booting, Walk
<1> QED BY <1>1, <1>2, <1>3

\* The frames others get are no tables.
LEMMA OtherAllocStep ==
  ASSUME IInv, NEW f \in Memory, OtherAlloc(f)
  PROVE  IInv'
<1> USE DEF IInv
<1>1. /\ pc = "idle" /\ held' = held \union {{f}} /\ Pmm!Fresh({f})
      /\ table' = [table EXCEPT ![Frame(f)] = Garbage]
      /\ UNCHANGED <<pgd_tmp, pgd_k, cr3, tlb, pc, arg, mapped, exhausted, premature>>
  BY DEF OtherAlloc, Pmm!Alloc, dirs, hist
<1>2. \A d \in Dirs : pgd_k[d] # Frame(f)
  BY <1>1 DEF Private, Pmm!Fresh
<1>3. /\ table' \in [Tables -> [Slots -> Entries]]
      /\ \A u \in Tables \ {Frame(f)} : table'[u] = table[u]
      /\ table'[pt0] = table[pt0] /\ table'[pt1] = table[pt1]
      /\ \A i \in ZoneRows : table'[tables(i)] = table[tables(i)]
  BY <1>1, TableSet, Contents, FrameTableWritten
<1>4. Typed'
  <2>1. held' \subseteq SUBSET Memory
    BY <1>1 DEF Typed
  <2> QED BY <1>1, <1>3, <2>1 DEF Typed
<1>5. Phases'
  BY <1>1, <1>3 DEF Phases, Booting
<1>6. Private'
  BY <1>1 DEF Private
<1>7. \A d \in Dirs, e \in Slots : Entry(d, e)' = Entry(d, e)
  BY <1>1, <1>2, <1>3 DEF Entry, Typed
<1>8. Exact'
  BY <1>1, <1>7 DEF Exact, Meant
<1>9. Remembered'
  <2>1. \A x \in tlb : Walk(x[1]) = Entry(x[1][1], x[1][2]) /\ Walk(x[1])' = Entry(x[1][1], x[1][2])'
    BY <1>1, <1>5 DEF Phases, Walk, Entry
  <2>2. \A x \in tlb : x[1][1] \in Dirs /\ x[1][2] \in Slots
    BY PageParts DEF Typed
  <2> QED BY <1>1, <1>7, <2>1, <2>2 DEF Remembered, Booting
<1> QED BY <1>4, <1>5, <1>6, <1>8, <1>9

\* Another client of the frame allocator frees a frame.
LEMMA OtherFreeStep ==
  ASSUME IInv, NEW f \in Memory, OtherFree(f)
  PROVE  IInv'
<1> USE DEF IInv
<1>1. /\ held' = held \ {{f}} /\ \A d \in Dirs : pgd_k[d] # Frame(f)
      /\ UNCHANGED <<pgd_tmp, pgd_k, table, cr3, tlb, pc, arg, mapped, exhausted, premature>>
  BY DEF OtherFree, Pmm!Free, IsTable, Dirs, dirs, hist
<1>2. Typed'
  BY <1>1 DEF Typed
<1>3. Phases' /\ Exact'
  BY <1>1 DEF Phases, Exact, Booting, Entry, Meant
<1>4. Private'
  BY <1>1 DEF Private
<1>5. Remembered'
  BY <1>1 DEF Remembered, Booting, Walk
<1> QED BY <1>2, <1>3, <1>4, <1>5

\* Every step keeps the invariant.
LEMMA NextIInv ==
  ASSUME IInv, [Next]_vars
  PROVE  IInv'
<1>1. CASE UNCHANGED vars
  BY <1>1 DEF vars, IInv, Typed, Phases, Private, Exact, Remembered, Booting, Entry, Meant, Walk
<1>2. CASE Boot
  BY <1>2, EnablePagingStep, InitVmmStep, SwitchFirstStep, ResetLowStep, SwitchSecondStep DEF Boot
<1>3. ASSUME NEW v \in ClientPages, Unmap(v)
      PROVE  IInv'
  BY <1>3, SetEntryStep DEF Unmap
<1>4. ASSUME NEW v \in ClientPages, NEW p \in ClientFrames, MapTable(v, p)
      PROVE  IInv'
  BY <1>4, MapTableStep
<1>5. ASSUME NEW v \in ClientPages, NEW p \in ClientFrames, MapPresent(v, p)
      PROVE  IInv'
  BY <1>5, SetEntryStep DEF MapPresent
<1>6. CASE MapEntry
  <2>1. pc = "entry" /\ arg[1] \in ClientPages /\ arg[2] \in ClientFrames \union {NoPage}
    BY <1>6 DEF MapEntry, IInv, Typed, Calls
  <2> QED BY <1>6, <2>1, SetEntryStep DEF MapEntry
<1>7. CASE MapClear \/ Invlpg
  BY <1>7, MapClearStep, InvlpgStep
<1>8. ASSUME NEW v \in Pages, TlbFill(v)
      PROVE  IInv'
  BY <1>8, TlbFillStep
<1>9. ASSUME NEW x \in tlb, TlbEvict(x)
      PROVE  IInv'
  BY <1>9, TlbEvictStep
<1>10. ASSUME NEW f \in Memory, OtherAlloc(f) \/ OtherFree(f)
       PROVE  IInv'
  BY <1>10, OtherAllocStep, OtherFreeStep
<1> QED BY <1>1, <1>2, <1>3, <1>4, <1>5, <1>6, <1>7, <1>8, <1>9, <1>10 DEF Next

\* The inductive invariant
LEMMA Invariant == Spec => []IInv
<1>1. Init => IInv
  BY InitIInv
<1>2. IInv /\ [Next]_vars => IInv'
  BY NextIInv
<1> QED BY <1>1, <1>2, PTL DEF Spec

\* Every step of the boot sequence, and of everything after it, runs in memory
\* that the directory in use maps to the frame it was linked for, for
\* directories, tables and zones of any size.
THEOREM BootStaysMapped == Spec => []BootMapped
BY Invariant, BootMappedHolds, PTL

\* After boot the linear zone shows all of memory, whatever clients map and
\* unmap and whether or not the frame allocator has frames left.
THEOREM ZoneStaysLinear == Spec => []ZoneLinear
BY Invariant, ZoneLinearHolds, PTL

\* map, unmap and get_mapping agree with the tables and with what clients asked
\* for, page by page, until a map finds no frame for its table.
THEOREM MappingsExact == Spec => []MappingExact
BY Invariant, MappingExactHolds, PTL

\* The TLB has no stale translation but that of the page whose invlpg is next,
\* for a TLB of any size that looks up any page at any time.
THEOREM TlbStaysCoherent == Spec => []TlbCoherent
BY Invariant, TlbCoherentHolds, PTL

\* No frame is a table of two directory entries, and none that is a table is
\* in other hands.
THEOREM TablesStayPrivate == Spec => []TablesPrivate
BY Invariant, TablesPrivateHolds, PTL
=============================================================================
