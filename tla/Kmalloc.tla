------------------------------- MODULE Kmalloc -------------------------------
(***************************************************************************)
(* The kernel heap: kernel/core/mem/kmalloc.c.  The heap is one area cut   *)
(* into blocks, each a header of HDR bytes (struct kmalloc_blk) followed   *)
(* by `size' bytes; the list kmalloc_head is in address order.  Each call  *)
(* takes kmalloc_lock, so it is one step; krealloc is two, a kmalloc and   *)
(* the kfree of the old area, with other callers in between.               *)
(***************************************************************************)
EXTENDS Naturals, SequencesExt

CONSTANTS
    HDR,         \* sizeof (struct kmalloc_blk)
    HEAP_SIZE,   \* boot->heap_size - KSTACK_SIZE, header included
    Size         \* the sizes that are asked for

ASSUME KmallocAssumption ==
    /\ HDR \in Nat \ {0}
    /\ HEAP_SIZE \in Nat /\ HEAP_SIZE > HDR
    /\ Size \subseteq Nat

VARIABLES
    blocks,   \* kmalloc_head: [at, size, free], `at' is the header's address
    held,     \* held[a]: the size asked for by the owner of the area at a
    moving,   \* the areas krealloc has copied and not freed yet
    panicked  \* 1 after kernel_panic("kmalloc no more memory")

vars == <<blocks, held, moving, panicked>>

Block == [at : Nat, size : Nat, free : {0, 1}]

ptr(b) == b.at + HDR

end(b) == b.at + HDR + b.size

KmallocTypeOK ==
    /\ blocks \in Seq(Block)
    /\ DOMAIN held \subseteq Nat
    /\ \A a \in DOMAIN held : held[a] \in Size
    /\ moving \subseteq DOMAIN held
    /\ panicked \in {0, 1}

kmalloc_initialize ==
    /\ blocks = <<[at |-> 0, size |-> HEAP_SIZE - HDR, free |-> 1]>>
    /\ held = [a \in {} |-> 0]
    /\ moving = {}
    /\ panicked = 0

-----------------------------------------------------------------------------
(* The blocks kmalloc(n) would accept; it takes the first. *)
Fits(n) == {i \in DOMAIN blocks : blocks[i].size >= n /\ blocks[i].free = 1}

(* kmalloc_split: the list after block i has been given out for n bytes. *)
kmalloc_split(i, n) ==
    LET b == blocks[i] IN
    IF b.size > n + HDR
    THEN InsertAt([blocks EXCEPT ![i] = [b EXCEPT !.free = 0, !.size = n]], i + 1,
                  [at |-> b.at + HDR + n, size |-> b.size - n - HDR, free |-> 1])
    ELSE [blocks EXCEPT ![i].free = 0]

Give(i, n) ==
    /\ blocks' = kmalloc_split(i, n)
    /\ held' = [a \in DOMAIN held \cup {ptr(blocks[i])} |->
            IF a = ptr(blocks[i]) THEN n ELSE held[a]]

(* The first block that fits, or a panic. *)
First(i, n) == i \in Fits(n) /\ \A j \in Fits(n) : i <= j

kmalloc(n) ==
    /\ \E i \in DOMAIN blocks : First(i, n) /\ Give(i, n)
    /\ UNCHANGED <<moving, panicked>>

kmalloc_panic(n) ==
    /\ Fits(n) = {}
    /\ panicked' = 1
    /\ UNCHANGED <<blocks, held, moving>>

-----------------------------------------------------------------------------
(* Block i + 1 of the list s joins block i. *)
Join(s, i) ==
    RemoveAt([s EXCEPT ![i].size = @ + s[i + 1].size + HDR], i + 1)

Joins(s, i) ==
    /\ i \in DOMAIN s /\ i + 1 \in DOMAIN s
    /\ s[i + 1].at = end(s[i])

(* Mutant: only the next block is looked at. *)
MergeNextOnly(s, i) ==
    IF Joins(s, i) /\ s[i + 1].free = 1 THEN Join(s, i) ELSE s

(* kmerge: with the next block, then with the previous one. *)
kmerge(s, i) ==
    LET t == IF Joins(s, i) /\ s[i + 1].free = 1 THEN Join(s, i) ELSE s
    IN  IF i > 1 /\ Joins(t, i - 1) /\ t[i - 1].free = 1 THEN Join(t, i - 1) ELSE t

(* kfree: the owner of the area gives it back. *)
Release(a) ==
    /\ \E i \in DOMAIN blocks :
        /\ ptr(blocks[i]) = a
        /\ blocks' = kmerge([blocks EXCEPT ![i].free = 1], i)
    /\ held' = [x \in DOMAIN held \ {a} |-> held[x]]

kfree(a) ==
    /\ a \in DOMAIN held \ moving
    /\ Release(a)
    /\ UNCHANGED <<moving, panicked>>

(* krealloc: the new area, then the end of the old one. *)
krealloc(a, n) ==
    /\ a \in DOMAIN held \ moving
    /\ \E i \in DOMAIN blocks : First(i, n) /\ Give(i, n)
    /\ moving' = moving \cup {a}
    /\ UNCHANGED panicked

krealloc_free(a) ==
    /\ a \in moving
    /\ Release(a)
    /\ moving' = moving \ {a}
    /\ UNCHANGED panicked

Next ==
    /\ panicked = 0
    /\ \/ \E n \in Size : kmalloc(n) \/ kmalloc_panic(n)
       \/ \E a \in DOMAIN held :
            kfree(a) \/ krealloc_free(a) \/ \E n \in Size : krealloc(a, n)

Spec == kmalloc_initialize /\ [][Next]_vars

-----------------------------------------------------------------------------
(* The blocks tile the heap: the first starts it, each starts where the    *)
(* one before it ends, the last ends it, and none reaches a later one.     *)
Tiles(s) ==
    /\ s # <<>>
    /\ s[1].at = 0
    /\ \A i \in 1 .. Len(s) - 1 : s[i + 1].at = end(s[i])
    /\ \A i, j \in DOMAIN s : i < j => end(s[i]) <= s[j].at
    /\ end(s[Len(s)]) = HEAP_SIZE

(* The blocks in use. *)
InUse(s) == {s[i] : i \in {j \in DOMAIN s : s[j].free = 0}}

(* What is held is what is not free: each area handed out is a block that  *)
(* is in use and as large as was asked for, and each block in use is held  *)
(* by somebody (none leaks).                                               *)
HeldInUse ==
    /\ \A a \in DOMAIN held : \E b \in InUse(blocks) : ptr(b) = a /\ held[a] <= b.size
    /\ \A b \in InUse(blocks) : ptr(b) \in DOMAIN held

(* kmerge leaves no two free neighbours: once everything has been freed    *)
(* the heap is one block again, so memory is not lost to fragmentation.    *)
NoFreeNeighbours(s) ==
    \A i \in 1 .. Len(s) - 1 : s[i].free = 0 \/ s[i + 1].free = 0

(* The heap after any sequence of kmalloc, kfree and krealloc: no byte is  *)
(* lost, no two blocks overlap, the areas handed out are the blocks in     *)
(* use, and free neighbours have been merged.                              *)
HeapInv == KmallocTypeOK /\ Tiles(blocks) /\ HeldInUse /\ NoFreeNeighbours(blocks)

(* Two areas handed out never share a byte. *)
AreasDisjoint ==
    \A a, b \in DOMAIN held : a < b => a + held[a] <= b
=============================================================================
