------------------------------- MODULE Region -------------------------------
(***************************************************************************)
(* The virtual layout of one user address space: the region list of        *)
(* kernel/core/mem/region.c and the mapping list that as_map and as_unmap  *)
(* of kernel/core/mem/as.c keep beside it.  Addresses and sizes are in     *)
(* pages.  Each call is one step: region_lock and map_lock protect the     *)
(* lists, and the process makes one call at a time.                        *)
(***************************************************************************)
EXTENDS Naturals, FiniteSets, SequencesExt

CONSTANTS
    USER_BEGIN, KERNEL_BEGIN,   \* the pages [USER_BEGIN, KERNEL_BEGIN) are the user's
    Pages,                      \* the sizes that are mapped
    Load,                       \* addresses of ELF segments and thread stacks
    Fixed,                      \* addresses a program may give to mmap
    MAX_LOST                    \* bound: as_map runs out of page tables that often

ASSUME RegionAssumption ==
    /\ USER_BEGIN \in Nat \ {0} /\ KERNEL_BEGIN \in Nat /\ USER_BEGIN < KERNEL_BEGIN
    /\ Pages \subseteq Nat \ {0} /\ MAX_LOST \in Nat
    /\ Load \subseteq USER_BEGIN .. KERNEL_BEGIN - 1
    /\ Fixed \subseteq USER_BEGIN .. KERNEL_BEGIN - 1

VARIABLES
    regions,   \* as->regions: [base, pages, mapped]
    mapping,   \* as->mapping: [virt, pages]
    lost,      \* regions reserved for a mapping that could not be entered
    fixed      \* the addresses this program gives to mmap: none, or Fixed

vars == <<regions, mapping, lost, fixed>>

end(r) == r.base + r.pages

RegionTypeOK ==
    /\ regions \in Seq([base : Nat, pages : Nat, mapped : {0, 1}])
    /\ mapping \subseteq [virt : Nat, pages : Nat]
    /\ lost \subseteq [virt : Nat, pages : Nat]
    /\ fixed \in {{}, Fixed}

(* as_initialize, region_initialize *)
Init ==
    /\ regions = <<[base |-> USER_BEGIN, pages |-> KERNEL_BEGIN - USER_BEGIN, mapped |-> 0]>>
    /\ mapping = {} /\ lost = {}
    /\ fixed \in {{}, Fixed}

-----------------------------------------------------------------------------
(* Mutant: what is left is measured from the start of the region. *)
SplitFromBase(regs, i, addr, n) ==
    LET r == regs[i]
        before == IF addr > r.base
                  THEN <<[base |-> r.base, pages |-> addr - r.base, mapped |-> 0]>> ELSE <<>>
        after == IF addr + n < end(r)
                 THEN <<[base |-> addr + n, pages |-> r.pages - n, mapped |-> 0]>> ELSE <<>>
    IN  SubSeq(regs, 1, i - 1) \o before \o <<[base |-> addr, pages |-> n, mapped |-> 1]>>
        \o after \o SubSeq(regs, i + 1, Len(regs))

(* region_split, after `mapped' has been set: region i becomes             *)
(* [addr, addr + n), what is left before and after it two free regions.    *)
region_split(regs, i, addr, n) ==
    LET r == regs[i]
        before == IF addr > r.base
                  THEN <<[base |-> r.base, pages |-> addr - r.base, mapped |-> 0]>> ELSE <<>>
        after == IF addr + n < end(r)
                 THEN <<[base |-> addr + n, pages |-> r.pages - ((addr - r.base) + n),
                         mapped |-> 0]>>
                 ELSE <<>>
    IN  SubSeq(regs, 1, i - 1) \o before \o <<[base |-> addr, pages |-> n, mapped |-> 1]>>
        \o after \o SubSeq(regs, i + 1, Len(regs))

(* The regions region_reserve accepts; it takes the first. *)
Candidates(addr, n) ==
    {i \in DOMAIN regions :
        /\ regions[i].mapped = 0
        /\ IF addr = 0 THEN regions[i].pages >= n
           ELSE addr >= regions[i].base /\ addr < end(regions[i])}

(* region_reserve finds no region, or one that is too small. *)
Refused(addr, n) ==
    \/ Candidates(addr, n) = {}
    \/ addr # 0 /\ addr + n > end(regions[Min(Candidates(addr, n))])

(* The address region_reserve returns, and the list it leaves. *)
region_reserve(addr, n) ==
    LET i == Min(Candidates(addr, n))
        a == IF addr = 0 THEN regions[i].base ELSE addr
    IN  [virt |-> a, regs |-> region_split(regions, i, a, n)]

(* region_merge: with the previous region if that starts regs[i].pages     *)
(* before, then with the next one.                                         *)
region_merge(regs, i) ==
    LET p == i > 1 /\ regs[i - 1].mapped = 0 /\ regs[i - 1].base + regs[i].pages = regs[i].base
        t == IF p
             THEN RemoveAt([regs EXCEPT ![i].base = regs[i - 1].base,
                                        ![i].pages = @ + regs[i - 1].pages], i - 1)
             ELSE regs
        k == IF p THEN i - 1 ELSE i
    IN  IF k < Len(t) /\ t[k + 1].mapped = 0 /\ end(t[k]) = t[k + 1].base
        THEN RemoveAt([t EXCEPT ![k].pages = @ + t[k + 1].pages], k + 1)
        ELSE t

(* region_release: of the first region that starts at addr. *)
region_release(regs, addr) ==
    LET I == {i \in DOMAIN regs : regs[i].base = addr}
    IN  IF I = {} THEN regs
        ELSE region_merge([regs EXCEPT ![Min(I)].mapped = 0], Min(I))

-----------------------------------------------------------------------------
(* as_map without an address: a region is located and mapped. *)
as_map(n) ==
    /\ ~Refused(0, n)
    /\ regions' = region_reserve(0, n).regs
    /\ mapping' = mapping \cup {[virt |-> region_reserve(0, n).virt, pages |-> n]}
    /\ UNCHANGED lost

(* Mutant: the region stays reserved. *)
NomemKeepsRegion(n) ==
    /\ ~Refused(0, n)
    /\ regions' = region_reserve(0, n).regs
    /\ UNCHANGED <<mapping, lost>>

(* The same when there is no physical memory: the region is released. *)
as_map_nomem(n) ==
    /\ ~Refused(0, n)
    /\ regions' = region_release(region_reserve(0, n).regs, region_reserve(0, n).virt)
    /\ UNCHANGED <<mapping, lost>>

(* The same when there is no page table: as_map forgets the mapping, the   *)
(* region stays reserved (the FIXME of as_map).                            *)
as_map_nopt(n) ==
    /\ ~Refused(0, n) /\ Cardinality(lost) < MAX_LOST
    /\ regions' = region_reserve(0, n).regs
    /\ lost' = lost \cup {[virt |-> region_reserve(0, n).virt, pages |-> n]}
    /\ UNCHANGED mapping

(* elf_load and i386_thread_create: the region is reserved, then mapped.   *)
(* (When the reservation fails elf_load maps anywhere, as as_map does, and *)
(* thread_create gives up.)                                                *)
load(a, n) ==
    /\ a + n <= KERNEL_BEGIN
    /\ ~Refused(a, n)
    /\ regions' = region_reserve(a, n).regs
    /\ mapping' = mapping \cup {[virt |-> a, pages |-> n]}
    /\ UNCHANGED lost

(* sys_mmap with an address: as_map reserves nothing.  A mapping around    *)
(* the address is replaced; a larger one ends in a panic.                  *)
as_map_fixed(a, n) ==
    LET old == {m \in mapping : m.virt <= a /\ a < m.virt + m.pages} IN
    /\ a + n <= KERNEL_BEGIN
    /\ \/ old = {} /\ mapping' = mapping \cup {[virt |-> a, pages |-> n]}
       \/ \E m \in old :
            /\ m.pages <= n
            /\ mapping' = (mapping \ {m}) \cup {[virt |-> a, pages |-> n]}
    /\ UNCHANGED <<regions, lost>>

(* The same without physical memory or page table: a mapping that was to   *)
(* be replaced has left the list already.                                  *)
as_map_fixed_nomem(a, n) ==
    /\ \E m \in mapping :
        /\ m.virt <= a /\ a < m.virt + m.pages
        /\ m.pages <= n
        /\ mapping' = mapping \ {m}
    /\ UNCHANGED <<regions, lost>>

(* as_unmap *)
as_unmap(m) ==
    /\ regions' = region_release(regions, m.virt)
    /\ mapping' = mapping \ {m}
    /\ UNCHANGED lost

Next ==
    /\ \/ \E n \in Pages :
            \/ as_map(n)
            \/ as_map_nomem(n) \/ as_map_nopt(n)
            \/ \E a \in Load : load(a, n)
            \/ \E a \in fixed : as_map_fixed(a, n) \/ as_map_fixed_nomem(a, n)
       \/ \E m \in mapping : as_unmap(m)
    /\ UNCHANGED fixed

Spec == Init /\ [][Next]_vars

-----------------------------------------------------------------------------
(* The regions tile the user's addresses, each of at least one page: no    *)
(* address is lost or in two regions, whatever is split and merged.        *)
RegionsTile ==
    /\ RegionTypeOK
    /\ regions # <<>>
    /\ regions[1].base = USER_BEGIN /\ end(regions[Len(regions)]) = KERNEL_BEGIN
    /\ \A i \in DOMAIN regions : regions[i].pages > 0
    /\ \A i \in 1 .. Len(regions) - 1 : regions[i + 1].base = end(regions[i])

(* The two lists agree: the mapped regions are exactly the mappings and    *)
(* what as_map lost for want of a page table, so that nothing is mapped    *)
(* over a mapping and no other failure loses addresses.  (A program that   *)
(* gives addresses to mmap gets mappings without a region.)                *)
LayoutAgrees == fixed = {} =>
    {[virt |-> regions[i].base, pages |-> regions[i].pages] :
        i \in {j \in DOMAIN regions : regions[j].mapped = 1}} = mapping \cup lost

(* Two mappings of the address space never share a page: as_map "will try  *)
(* to locate a region", one where nothing is mapped.                       *)
MappingsDisjoint ==
    \A m, o \in mapping :
        m # o => m.virt + m.pages <= o.virt \/ o.virt + o.pages <= m.virt

(* region_reserve refuses an address it was given ("Address was found but  *)
(* area is too small") only if some page of the area is mapped.            *)
TooSmall ==
    \A a \in Load, n \in Pages :
        a + n <= KERNEL_BEGIN /\ Candidates(a, n) # {} /\ Refused(a, n) =>
            \E i \in DOMAIN regions :
                regions[i].mapped = 1 /\ regions[i].base < a + n /\ a < end(regions[i])
=============================================================================
