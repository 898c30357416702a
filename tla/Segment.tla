------------------------------- MODULE Segment -------------------------------
(***************************************************************************)
(* Physical memory: kernel/core/mem/segment.c.  The bootloader gives one   *)
(* area of RAM; segment_head cuts it, in address order, into segments      *)
(* with a reference count, 0 when free.  Addresses and sizes are in pages. *)
(* Each operation holds segment_lock, so it is one step.                   *)
(***************************************************************************)
EXTENDS Naturals, SequencesExt

CONSTANTS
    LOW, HIGH,     \* boot->segs[0]: the first page and the one after the last
    Reserved,      \* the segment_reserve calls of segment_initialize: <<addr, pages>>
    Pages,         \* the sizes that are allocated
    Phys,          \* the addresses drivers map with mmap_physical
    MAX_REF        \* bound on the references to one segment

ASSUME SegmentAssumption ==
    /\ LOW \in Nat /\ HIGH \in Nat /\ LOW < HIGH
    /\ Reserved \in Seq(Nat \X Nat)
    /\ Pages \subseteq Nat /\ Phys \subseteq Nat

VARIABLES
    segments,   \* segment_head: [base, pages, ref]
    owners      \* owners[b]: how many users have to give back the segment at b

vars == <<segments, owners>>

Segment == [base : Nat, pages : Nat, ref : Nat]

end(s) == s.base + s.pages

SegmentTypeOK ==
    /\ segments \in Seq(Segment)
    /\ DOMAIN owners \subseteq Nat
    /\ \A b \in DOMAIN owners : owners[b] \in Nat \ {0}

-----------------------------------------------------------------------------
(* Mutant: what is left is added even when nothing is left. *)
SplitEmptyRest(segs, i, addr, n) ==
    LET s == segs[i] IN
    SubSeq(segs, 1, i - 1) \o <<[base |-> addr, pages |-> n, ref |-> 1],
        [base |-> addr + n, pages |-> s.pages - ((addr - s.base) + n), ref |-> 0]>>
    \o SubSeq(segs, i + 1, Len(segs))

(* segment_split: pages [addr, addr + n) of segment i become referenced,   *)
(* what is left before and after them becomes two free segments.           *)
segment_split(segs, i, addr, n) ==
    LET s == segs[i]
        before == IF addr > s.base
                  THEN <<[base |-> s.base, pages |-> addr - s.base, ref |-> 0]>> ELSE <<>>
        after == IF addr + n < end(s)
                 THEN <<[base |-> addr + n, pages |-> s.pages - ((addr - s.base) + n),
                         ref |-> 0]>>
                 ELSE <<>>
    IN  SubSeq(segs, 1, i - 1) \o before \o <<[base |-> addr, pages |-> n, ref |-> 1]>>
        \o after \o SubSeq(segs, i + 1, Len(segs))

(* segment_reserve: the list afterwards (unchanged when it returns 0). The *)
(* address just past the end of a segment counts as inside it.             *)
segment_reserve(segs, addr, n) ==
    LET I == {i \in DOMAIN segs :
                segs[i].ref = 0 /\ addr >= segs[i].base /\ addr <= end(segs[i])}
    IN  IF n = 0 \/ I = {} THEN segs
        ELSE IF addr + n > end(segs[Min(I)]) THEN segs
        ELSE segment_split(segs, Min(I), addr, n)

(* segment_initialize, with the segment_add of the boot area. *)
segment_initialize ==
    LET Step(segs, r) == segment_reserve(segs, r[1], r[2])
        boot == <<[base |-> LOW, pages |-> HIGH - LOW, ref |-> 0]>>
    IN  /\ segments = FoldLeft(Step, boot, Reserved)
        /\ owners = [b \in {} |-> 0]

-----------------------------------------------------------------------------
Owe(b) ==
    owners' = [x \in DOMAIN owners \cup {b} |->
                IF x \notin DOMAIN owners THEN 1
                ELSE IF x = b THEN owners[x] + 1 ELSE owners[x]]

Return(b) ==
    owners' = [x \in {y \in DOMAIN owners : y # b \/ owners[y] > 1} |->
                IF x = b THEN owners[x] - 1 ELSE owners[x]]

(* segment_alloc and segment_alloc_address: first fit. *)
segment_alloc(n) ==
    LET I == {i \in DOMAIN segments : segments[i].ref = 0 /\ segments[i].pages >= n}
    IN  /\ n > 0 /\ I # {}
        /\ segments' = segment_split(segments, Min(I), segments[Min(I)].base, n)
        /\ Owe(segments[Min(I)].base)

(* The sharing of a segment by as_duplicate. *)
Share(i) ==
    /\ segments[i].base \in DOMAIN owners
    /\ segments[i].ref \in 1 .. MAX_REF - 1
    /\ segments' = [segments EXCEPT ![i].ref = @ + 1]
    /\ Owe(segments[i].base)

(* sys_mmap_physical: setup_mapping locates the segment and takes no       *)
(* reference, but the unmapping will give one back.  One driver maps the   *)
(* address at a time, and only memory that is referenced.                  *)
segment_locate(a) ==
    \E i \in DOMAIN segments :
        /\ segments[i].base <= a /\ end(segments[i]) > a
        /\ segments[i].ref > 0
        /\ segments[i].base \notin DOMAIN owners
        /\ UNCHANGED segments
        /\ Owe(segments[i].base)

(* segment_merge: with the previous segment, then with the next. *)
segment_merge(segs, i) ==
    LET p == i > 1 /\ segs[i - 1].ref = 0 /\ end(segs[i - 1]) = segs[i].base
        t == IF p
             THEN RemoveAt([segs EXCEPT ![i].base = segs[i - 1].base,
                                        ![i].pages = @ + segs[i - 1].pages], i - 1)
             ELSE segs
        k == IF p THEN i - 1 ELSE i
    IN  IF k < Len(t) /\ t[k + 1].ref = 0 /\ end(t[k]) = t[k + 1].base
        THEN RemoveAt([t EXCEPT ![k].pages = @ + t[k + 1].pages], k + 1)
        ELSE t

(* Mutant: the last reference is assumed. *)
ReleaseShared(i) ==
    /\ segments[i].base \in DOMAIN owners
    /\ Return(segments[i].base)
    /\ segments' = segment_merge([segments EXCEPT ![i].ref = 0], i)

(* segment_release, and segment_free, of a segment somebody has to give    *)
(* back: nothing happens if it is free already.                            *)
segment_release(i) ==
    /\ segments[i].base \in DOMAIN owners
    /\ Return(segments[i].base)
    /\ LET segs == [segments EXCEPT ![i].ref = @ - 1] IN
       segments' = IF segments[i].ref = 0 THEN segments
                   ELSE IF segs[i].ref = 0 THEN segment_merge(segs, i) ELSE segs

Next ==
    \/ \E n \in Pages : segment_alloc(n)
    \/ \E i \in DOMAIN segments : Share(i) \/ segment_release(i)
    \/ \E a \in Phys : segment_locate(a)

Spec == segment_initialize /\ [][Next]_vars

-----------------------------------------------------------------------------
(* The segments always tile the boot area, each of at least one page: no   *)
(* page is lost or in two segments, whatever is split and merged; and no   *)
(* two neighbours are free, so free memory is never needlessly in pieces.  *)
SegmentsTile ==
    /\ SegmentTypeOK
    /\ segments # <<>>
    /\ segments[1].base = LOW /\ end(segments[Len(segments)]) = HIGH
    /\ \A i \in DOMAIN segments : segments[i].pages > 0
    /\ \A i \in 1 .. Len(segments) - 1 :
        /\ segments[i + 1].base = end(segments[i])
        /\ segments[i].ref > 0 \/ segments[i + 1].ref > 0

ReservedBase == {Reserved[k][1] : k \in DOMAIN Reserved}

(* The reference count of a segment is the number of its users, the kernel *)
(* counting for one on what it reserved: a segment is neither recycled     *)
(* under one of them nor kept when the last has gone.  What drivers map by *)
(* its address is not counted.                                             *)
RefsExact ==
    /\ \A i \in DOMAIN segments : segments[i].base \notin Phys =>
        segments[i].ref =
            (IF segments[i].base \in DOMAIN owners THEN owners[segments[i].base] ELSE 0)
            + (IF segments[i].base \in ReservedBase THEN 1 ELSE 0)
    /\ \A b \in DOMAIN owners : \E i \in DOMAIN segments : segments[i].base = b

(* The memory reserved at boot, "Reserve initial kernel memory", is never  *)
(* free again.                                                             *)
ReservedStays ==
    \A b \in ReservedBase : \A i \in DOMAIN segments :
        segments[i].base <= b /\ b < end(segments[i]) => segments[i].ref > 0
=============================================================================
