---------------------------- MODULE AddressSpace ----------------------------
(***************************************************************************)
(* Processes that share physical memory copy-on-write: as_duplicate,       *)
(* as_map, as_unmap and as_destroy of kernel/core/mem/as.c, mmu_duplicate  *)
(* of kernel/arch/i386/mmu.c and the write fault of page_fault.c.  A page  *)
(* stands for one mapping; physical segments are abstract, Segment says    *)
(* how they are cut.  as_duplicate works in two parts: the mappings under  *)
(* map_lock, then the page table entries one at a time, with interrupts    *)
(* on; as_map enters the page table first and the mapping list later.      *)
(***************************************************************************)
EXTENDS Naturals, FiniteSets

CONSTANTS
    AS,         \* address spaces
    boot,       \* the one that exists at the start
    Page,       \* virtual pages
    Seg,        \* physical segments
    Threaded,   \* the address spaces of processes with a second thread
    None

VARIABLES
    live,      \* address spaces in use
    mapping,   \* as->mapping: mapping[a][p] = [phy, w] or None
    pte,       \* the page table: pte[a][p] = [phy, w] or None
    ref,       \* seg->ref_count
    cow,       \* SEGMENT_FLAGS_COW of seg->flags
    fork,      \* fork[a] = [child, todo] while mmu_duplicate runs, or None
    adding,    \* adding[a]: the page as_map has not listed yet, or None
    leaked,    \* segments allocated for a mapping that could not be entered
    killed     \* the write flags of the mappings whose faults ended in SEGV

vars == <<live, mapping, pte, ref, cow, fork, adding, leaked, killed>>

Entry == [phy : Seg, w : {0, 1}]

AddressSpaceTypeOK ==
    /\ live \subseteq AS /\ killed \subseteq {0, 1} /\ leaked \subseteq Seg
    /\ mapping \in [AS -> [Page -> Entry \cup {None}]]
    /\ pte \in [AS -> [Page -> Entry \cup {None}]]
    /\ ref \in [Seg -> Nat] /\ cow \in [Seg -> {0, 1}]
    /\ fork \in [AS -> [child : AS, todo : SUBSET Page] \cup {None}]
    /\ adding \in [AS -> [page : Page, entry : Entry] \cup {None}]

NoPage == [p \in Page |-> None]

Init ==
    /\ live = {boot}
    /\ mapping = [a \in AS |-> NoPage] /\ pte = [a \in AS |-> NoPage]
    /\ ref = [s \in Seg |-> 0] /\ cow = [s \in Seg |-> 0]
    /\ fork = [a \in AS |-> None] /\ adding = [a \in AS |-> None]
    /\ leaked = {} /\ killed = {}

(* The child of a fork does not run before the fork is over. *)
Child == {fork[a].child : a \in {b \in AS : fork[b] # None}}

(* A thread of a can make a call: its only one, or another one than the    *)
(* thread that is in the middle of as_duplicate or as_map.                 *)
Runs(a) ==
    /\ a \in live \ Child
    /\ a \in Threaded \/ (fork[a] = None /\ adding[a] = None)

-----------------------------------------------------------------------------
(* The page table, written through its mirror. *)
mmu_map(a, p, e) == pte' = [pte EXCEPT ![a][p] = e]

mmu_unmap(a, p) == pte' = [pte EXCEPT ![a][p] = None]

(* as_map, up to the page table: segment_alloc, glue map. *)
as_map(a, p, w) ==
    /\ Runs(a) /\ adding[a] = None
    /\ mapping[a][p] = None
    /\ \E s \in Seg :
        /\ ref[s] = 0
        /\ ref' = [ref EXCEPT ![s] = 1]
        /\ mmu_map(a, p, [phy |-> s, w |-> w])
        /\ adding' = [adding EXCEPT ![a] = [page |-> p, entry |-> [phy |-> s, w |-> w]]]
    /\ UNCHANGED <<live, mapping, cow, fork, leaked, killed>>

(* as_map, without memory for a page table: the segment keeps its          *)
(* reference (the FIXME of as_map), the process gets no mapping.           *)
as_map_fail(a, p) ==
    /\ Runs(a) /\ adding[a] = None
    /\ mapping[a][p] = None
    /\ \E s \in Seg :
        /\ ref[s] = 0
        /\ ref' = [ref EXCEPT ![s] = 1]
        /\ leaked' = leaked \cup {s}
    /\ UNCHANGED <<live, mapping, pte, cow, fork, adding, killed>>

(* as_map, the end: the mapping joins the list. *)
as_map_add(a) ==
    /\ a \in live /\ adding[a] # None
    /\ mapping' = [mapping EXCEPT ![a][adding[a].page] = adding[a].entry]
    /\ adding' = [adding EXCEPT ![a] = None]
    /\ UNCHANGED <<live, pte, ref, cow, fork, leaked, killed>>

(* as_unmap, of sys_munmap and of as_clean. *)
as_unmap(a, p) ==
    /\ Runs(a)
    /\ mapping[a][p] # None
    /\ ref' = [ref EXCEPT ![mapping[a][p].phy] = @ - 1]
    /\ mapping' = [mapping EXCEPT ![a][p] = None]
    /\ mmu_unmap(a, p)
    /\ UNCHANGED <<live, cow, fork, adding, leaked, killed>>

-----------------------------------------------------------------------------
Users(a, s) == Cardinality({p \in Page : mapping[a][p] # None /\ mapping[a][p].phy = s})

(* Mutant: the new mapping takes no reference. *)
DuplicateWithoutRef(a, b) ==
    /\ Runs(a) /\ fork[a] = None /\ b \notin live
    /\ live' = live \cup {b}
    /\ mapping' = [mapping EXCEPT ![b] = mapping[a]]
    /\ cow' = [s \in Seg |-> IF \E p \in Page : mapping[a][p] = [phy |-> s, w |-> 1]
                             THEN 1 ELSE cow[s]]
    /\ fork' = [fork EXCEPT ![a] = [child |-> b, todo |-> Page]]
    /\ UNCHANGED <<pte, ref, adding, leaked, killed>>

(* Mutant: the segments are not marked. *)
DuplicateUnmarked(a, b) ==
    /\ Runs(a) /\ fork[a] = None /\ b \notin live
    /\ live' = live \cup {b}
    /\ mapping' = [mapping EXCEPT ![b] = mapping[a]]
    /\ ref' = [s \in Seg |-> ref[s] + Users(a, s)]
    /\ fork' = [fork EXCEPT ![a] = [child |-> b, todo |-> Page]]
    /\ UNCHANGED <<pte, cow, adding, leaked, killed>>

(* as_duplicate, under map_lock: the child gets every mapping, a writable  *)
(* one marks its segment, and each segment one more reference.             *)
as_duplicate(a, b) ==
    /\ Runs(a) /\ fork[a] = None /\ b \notin live
    /\ live' = live \cup {b}
    /\ mapping' = [mapping EXCEPT ![b] = mapping[a]]
    /\ cow' = [s \in Seg |-> IF \E p \in Page : mapping[a][p] = [phy |-> s, w |-> 1]
                             THEN 1 ELSE cow[s]]
    /\ ref' = [s \in Seg |-> ref[s] + Users(a, s)]
    /\ fork' = [fork EXCEPT ![a] = [child |-> b, todo |-> Page]]
    /\ UNCHANGED <<pte, adding, leaked, killed>>

(* mmu_duplicate, one entry: the write flag is cleared, the child gets it. *)
duplicate_entry(a, p) ==
    LET b == fork[a].child
        e == IF pte[a][p] = None THEN None ELSE [pte[a][p] EXCEPT !.w = 0]
    IN  /\ pte' = [pte EXCEPT ![a][p] = e, ![b][p] = e]
        /\ fork' = [fork EXCEPT ![a].todo = @ \ {p}]
        /\ UNCHANGED <<live, mapping, ref, cow, adding, leaked, killed>>

(* mmu_duplicate ends. *)
duplicate_end(a) ==
    /\ fork[a] # None /\ fork[a].todo = {}
    /\ fork' = [fork EXCEPT ![a] = None]
    /\ UNCHANGED <<live, mapping, pte, ref, cow, adding, leaked, killed>>

(* as_destroy: every mapping gives its reference back. *)
Destroyed(a) ==
    /\ live' = live \ {a}
    /\ ref' = [s \in Seg |-> ref[s] - Users(a, s)]
    /\ mapping' = [mapping EXCEPT ![a] = NoPage]
    /\ pte' = [pte EXCEPT ![a] = NoPage]

(* mmu_duplicate runs out of memory: the cleanup destroys the child. *)
duplicate_fail(a) ==
    /\ fork[a] # None /\ fork[a].todo # {}
    /\ Destroyed(fork[a].child)
    /\ fork' = [fork EXCEPT ![a] = None]
    /\ UNCHANGED <<cow, adding, leaked, killed>>

(* process_destroy, when no call of the process is under way. *)
as_destroy(a) ==
    /\ a \in live \ Child /\ fork[a] = None /\ adding[a] = None
    /\ Destroyed(a)
    /\ UNCHANGED <<cow, fork, adding, leaked, killed>>

-----------------------------------------------------------------------------
(* Mutant: the segment is never copied. *)
CowInPlace(a, p) ==
    LET m == mapping[a][p] IN
    /\ cow' = [cow EXCEPT ![m.phy] = 0]
    /\ mmu_map(a, p, m)
    /\ UNCHANGED <<live, mapping, ref, fork, adding, leaked, killed>>

(* cow: the last user keeps the segment, another one gets a copy. (Without *)
(* a free segment the kernel panics.)                                      *)
cow_fault(a, p) ==
    LET m == mapping[a][p] IN
    \/ /\ ref[m.phy] = 1
       /\ cow' = [cow EXCEPT ![m.phy] = 0]
       /\ mmu_map(a, p, m)
       /\ UNCHANGED <<live, mapping, ref, fork, adding, leaked, killed>>
    \/ /\ ref[m.phy] # 1
       /\ \E s \in Seg :
            /\ ref[s] = 0
            /\ ref' = [ref EXCEPT ![s] = 1, ![m.phy] = @ - 1]
            /\ mapping' = [mapping EXCEPT ![a][p].phy = s]
            /\ mmu_map(a, p, [m EXCEPT !.phy = s])
       /\ UNCHANGED <<live, cow, fork, adding, leaked, killed>>

(* page_fault_handler, for a write to a mapped page: the copy, or the end  *)
(* of the process.                                                         *)
page_fault_handler(a, p) ==
    /\ Runs(a)
    /\ mapping[a][p] # None
    /\ pte[a][p] = None \/ pte[a][p].w = 0
    /\ \/ cow[mapping[a][p].phy] = 1 /\ cow_fault(a, p)
       \/ /\ cow[mapping[a][p].phy] = 0
          /\ killed' = killed \cup {mapping[a][p].w}
          /\ UNCHANGED <<live, mapping, pte, ref, cow, fork, adding, leaked>>

Next ==
    \E a \in AS :
        \/ \E p \in Page : \/ \E w \in {0, 1} : as_map(a, p, w)
                           \/ as_map_fail(a, p) \/ as_unmap(a, p) \/ page_fault_handler(a, p)
        \/ as_map_add(a)
        \/ \E b \in AS : as_duplicate(a, b)
        \/ fork[a] # None /\ \E p \in fork[a].todo : duplicate_entry(a, p)
        \/ duplicate_end(a) \/ duplicate_fail(a) \/ as_destroy(a)

Spec == Init /\ [][Next]_vars

-----------------------------------------------------------------------------
(* What one process can write no other process has: no page of one that    *)
(* its page table lets it write is a page of another's page table.         *)
Isolation ==
    \A a, b \in live : \A p, q \in Page :
        a # b /\ pte[a][p] # None /\ pte[a][p].w = 1 /\ pte[b][q] # None =>
            pte[a][p].phy # pte[b][q].phy

(* The reference count is the number of users, mappings and mappings being *)
(* added, and one for ever on a segment that as_map lost: a segment is not *)
(* recycled under a user, and comes back when the last one has gone,       *)
(* through forks, failed forks, faults and exits.                          *)
RefsCount ==
    /\ AddressSpaceTypeOK
    /\ \A s \in Seg \ leaked : ref[s] = Cardinality({<<a, p>> \in AS \X Page :
        \/ mapping[a][p] # None /\ mapping[a][p].phy = s
        \/ adding[a] # None /\ adding[a].page = p /\ adding[a].entry.phy = s})
    /\ \A s \in leaked : ref[s] = 1

(* A program that writes to memory it mapped for writing is never killed   *)
(* for it: either the entry lets it write or the segment is copy-on-write. *)
NeverKilled == 1 \notin killed

(* Only memory mapped for writing is copy-on-write, as the comment of      *)
(* as_duplicate says: a write to a read-only mapping ends the process.     *)
OnlyWritableCow ==
    \A a \in live : \A p \in Page :
        mapping[a][p] # None /\ cow[mapping[a][p].phy] = 1 => mapping[a][p].w = 1
=============================================================================
