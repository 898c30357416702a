--------------------------- MODULE Kmalloc_proofs ---------------------------
(***************************************************************************)
(* The heap invariant of Kmalloc, for every heap size, header size and     *)
(* set of request sizes.  Each lemma follows one operation on the list of  *)
(* blocks: cutting a block, marking it free, joining two.                  *)
(***************************************************************************)
EXTENDS Kmalloc, SeqLemmas

(* What InsertAt does to the list, position by position. *)
LEMMA InsertAtFacts ==
    ASSUME NEW S, NEW s \in Seq(S), NEW i \in 1 .. Len(s) + 1, NEW e \in S
    PROVE  /\ InsertAt(s, i, e) \in Seq(S)
           /\ Len(InsertAt(s, i, e)) = Len(s) + 1
           /\ InsertAt(s, i, e)[i] = e
           /\ \A j \in 1 .. Len(s) + 1 : j < i => InsertAt(s, i, e)[j] = s[j]
           /\ \A j \in 1 .. Len(s) + 1 : j > i => InsertAt(s, i, e)[j] = s[j - 1]
<1> DEFINE a == SubSeq(s, 1, i - 1)
           b == SubSeq(s, i, Len(s))
           c == a \o <<e>>
<1>0. Len(s) \in Nat /\ DOMAIN s = 1 .. Len(s) /\ i \in Nat /\ i >= 1
    OBVIOUS
<1>1. a \in Seq(S) /\ Len(a) = i - 1 /\ \A j \in 1 .. i - 1 : a[j] = s[j]
    BY <1>0
<1>2. b \in Seq(S) /\ Len(b) = Len(s) - i + 1
      /\ \A j \in 1 .. Len(s) - i + 1 : b[j] = s[j + i - 1]
    BY <1>0
<1>3. InsertAt(s, i, e) = c \o b
    BY DEF InsertAt
<1> HIDE DEF a, b
<1>4. c \in Seq(S) /\ Len(c) = i /\ c[i] = e /\ \A j \in 1 .. i - 1 : c[j] = s[j]
    BY <1>0, <1>1, SMTT(30)
<1> HIDE DEF c
<1>c. /\ c \o b \in Seq(S)
      /\ Len(c \o b) = Len(c) + Len(b)
      /\ \A j \in 1 .. Len(c) + Len(b) : (c \o b)[j] = IF j <= Len(c) THEN c[j] ELSE b[j - Len(c)]
    BY <1>2, <1>4, ConcatProperties
<1>5. /\ InsertAt(s, i, e) \in Seq(S)
      /\ Len(InsertAt(s, i, e)) = Len(c) + Len(b)
      /\ \A j \in 1 .. Len(c) + Len(b) :
            InsertAt(s, i, e)[j] = IF j <= Len(c) THEN c[j] ELSE b[j - Len(c)]
    BY <1>3, <1>c
<1>6. Len(InsertAt(s, i, e)) = Len(s) + 1
    BY <1>0, <1>2, <1>4, <1>5
<1>7. InsertAt(s, i, e)[i] = e
    BY <1>0, <1>2, <1>4, <1>5
<1>8. ASSUME NEW j \in 1 .. Len(s) + 1, j < i PROVE InsertAt(s, i, e)[j] = s[j]
    BY <1>0, <1>2, <1>4, <1>5, <1>8
<1>9. ASSUME NEW j \in 1 .. Len(s) + 1, j > i PROVE InsertAt(s, i, e)[j] = s[j - 1]
  <2>1. j \in 1 .. Len(c) + Len(b) /\ ~(j <= Len(c)) /\ Len(c) = i
        /\ j - i \in 1 .. Len(s) - i + 1 /\ (j - i) + i - 1 = j - 1
      BY <1>0, <1>2, <1>4, <1>9
  <2>2. InsertAt(s, i, e)[j] = b[j - i]
      BY <1>5, <2>1
  <2>3. b[j - i] = s[(j - i) + i - 1]
      BY <1>2, <2>1
  <2> QED BY <2>1, <2>2, <2>3
<1> QED BY <1>5, <1>6, <1>7, <1>8, <1>9

(* On a tiled heap a position is known by its address. *)
LEMMA AtInjective ==
    ASSUME NEW s \in Seq(Block), Tiles(s), NEW i \in DOMAIN s, NEW j \in DOMAIN s,
           s[i].at = s[j].at
    PROVE  i = j
<1>1. /\ i \in Nat /\ j \in Nat /\ s[i] \in Block /\ s[j] \in Block
      /\ HDR \in Nat /\ HDR > 0
    BY KmallocAssumption
<1>2. end(s[i]) > s[i].at /\ end(s[j]) > s[j].at
    BY <1>1 DEF end, Block
<1>3. /\ i < j => end(s[i]) <= s[j].at
      /\ j < i => end(s[j]) <= s[i].at
    BY DEF Tiles
<1>4. end(s[i]) \in Nat /\ end(s[j]) \in Nat /\ s[i].at \in Nat /\ s[j].at \in Nat
    BY <1>1, SMTT(30) DEF end, Block
<1> QED BY <1>1, <1>2, <1>3, <1>4

(* Joining two neighbours that are both free keeps the tiling and the      *)
(* blocks in use.                                                          *)
LEMMA JoinFacts ==
    ASSUME NEW s \in Seq(Block), Tiles(s), NEW i \in DOMAIN s, i + 1 \in DOMAIN s,
           s[i].free = 1, s[i + 1].free = 1
    PROVE  /\ Join(s, i) \in Seq(Block)
           /\ Len(Join(s, i)) = Len(s) - 1
           /\ Join(s, i)[i].free = 1
           /\ \A j \in 1 .. Len(s) - 1 :
                j # i => Join(s, i)[j] = IF j < i THEN s[j] ELSE s[j + 1]
           /\ Tiles(Join(s, i))
           /\ InUse(Join(s, i)) = InUse(s)
<1> DEFINE z == s[i].size + s[i + 1].size + HDR
           b == [s[i] EXCEPT !.size = z]
           r == [s EXCEPT ![i] = b]
           t == RemoveAt(r, i + 1)
<1>0. /\ Len(s) \in Nat /\ DOMAIN s = 1 .. Len(s) /\ i \in Nat /\ i >= 1 /\ i + 1 <= Len(s)
      /\ HDR \in Nat /\ HDR > 0 /\ HEAP_SIZE \in Nat
    BY KmallocAssumption
<1>1. /\ s[i] \in Block /\ s[i].at \in Nat /\ s[i].size \in Nat
      /\ s[i + 1] \in Block /\ s[i + 1].at \in Nat /\ s[i + 1].size \in Nat
  <2>1. s[i] \in Block /\ s[i + 1] \in Block
      OBVIOUS
  <2> QED BY <2>1 DEF Block
<1>3. Join(s, i) = t
    BY <1>0 DEF Join
<1>z. z \in Nat
    BY <1>0, <1>1
<1>e. z = s[i].size + s[i + 1].size + HDR
    OBVIOUS
<1> HIDE DEF z
<1>2. b \in Block /\ b.at = s[i].at /\ b.free = 1 /\ b.size = z
    BY <1>1, <1>z DEF Block
<1>4. end(b) = end(s[i + 1]) /\ s[i + 1].at = end(s[i])
  <2>1. s[i + 1].at = end(s[i])
      BY <1>0 DEF Tiles
  <2>2. end(b) = s[i].at + HDR + z
      BY <1>2 DEF end
  <2>3. end(s[i + 1]) = (s[i].at + HDR + s[i].size) + HDR + s[i + 1].size
      BY <2>1 DEF end
  <2>4. \A a, x, y, h \in Nat : a + h + (x + y + h) = (a + h + x) + h + y
      OBVIOUS
  <2>5. s[i].at + HDR + z = (s[i].at + HDR + s[i].size) + HDR + s[i + 1].size
      BY <1>0, <1>1, <1>e, <2>4, SMTT(30)
  <2> QED BY <2>1, <2>2, <2>3, <2>5
<1> HIDE DEF b
<1>5. r \in Seq(Block) /\ Len(r) = Len(s) /\ DOMAIN r = 1 .. Len(s)
      /\ r[i] = b /\ \A j \in 1 .. Len(s) : j # i => r[j] = s[j]
    BY <1>0, <1>2
<1> HIDE DEF r
<1>6. i + 1 \in DOMAIN r
    BY <1>0, <1>5
<1>7. t \in Seq(Block) /\ Len(t) = Len(s) - 1
      /\ \A j \in 1 .. Len(s) - 1 : t[j] = IF j < i + 1 THEN r[j] ELSE r[j + 1]
  <2>0. r \in Seq(Block) /\ Len(r) = Len(s)
      BY <1>5
  <2>1. t \in Seq(Block) /\ Len(t) = Len(r) - 1
        /\ \A j \in 1 .. Len(r) - 1 : t[j] = IF j < i + 1 THEN r[j] ELSE r[j + 1]
      BY <1>6, <2>0, RemoveAtFacts, Zenon
  <2> HIDE DEF t
  <2> QED BY <2>0, <2>1
<1> HIDE DEF t
<1>8. /\ t[i] = b
      /\ \A j \in 1 .. Len(s) - 1 : j # i => t[j] = IF j < i THEN s[j] ELSE s[j + 1]
  <2>1. t[i] = b
      BY <1>0, <1>5, <1>7
  <2>2. ASSUME NEW j \in 1 .. Len(s) - 1, j < i PROVE t[j] = s[j]
      BY <1>0, <1>5, <1>7, <2>2
  <2>3. ASSUME NEW j \in 1 .. Len(s) - 1, j > i PROVE t[j] = s[j + 1]
    <3>1. t[j] = r[j + 1]
        BY <1>0, <1>7, <2>3
    <3>2. j + 1 \in 1 .. Len(s) /\ j + 1 # i
        BY <1>0, <2>3
    <3> QED BY <1>5, <3>1, <3>2
  <2> QED BY <1>0, <2>1, <2>2, <2>3
<1>9. DOMAIN t = 1 .. Len(s) - 1
    BY <1>7
<1>10. \A j \in 1 .. Len(s) : s[j] \in Block /\ end(s[j]) \in Nat /\ s[j].at \in Nat /\ s[j].at <= end(s[j])
  <2>1. ASSUME NEW j \in 1 .. Len(s) PROVE s[j] \in Block
      BY <1>0
  <2>2. ASSUME NEW j \in 1 .. Len(s) PROVE s[j].at \in Nat /\ s[j].size \in Nat
      BY <2>1 DEF Block
  <2> QED BY <1>0, <2>1, <2>2 DEF end
<1>11. Tiles(t)
  <2>1. t # <<>> /\ t[1].at = 0
    <3>1. s[1].at = 0
        BY DEF Tiles
    <3>2. CASE i = 1
        BY <1>0, <1>2, <1>7, <1>8, <3>1, <3>2
    <3>3. CASE i # 1
        BY <1>0, <1>7, <1>8, <3>1, <3>3
    <3> QED BY <3>2, <3>3
  <2>2. ASSUME NEW j \in 1 .. Len(t) - 1
        PROVE  t[j + 1].at = end(t[j])
    <3>0. \A k \in 1 .. Len(s) - 1 : s[k + 1].at = end(s[k])
        BY DEF Tiles
    <3>1. CASE j + 1 < i
      <4>1. t[j] = s[j] /\ t[j + 1] = s[j + 1] /\ j \in 1 .. Len(s) - 1
          BY <1>0, <1>7, <1>8, <3>1, SMTT(30)
      <4> QED BY <3>0, <4>1
    <3>2. CASE j + 1 = i
        BY <1>0, <1>2, <1>7, <1>8, <3>0, <3>2
    <3>3. CASE j = i
        BY <1>0, <1>4, <1>7, <1>8, <3>0, <3>3
    <3>4. CASE j > i
      <4>1. j \in 1 .. Len(s) - 1 /\ j + 1 \in 1 .. Len(s) - 1
            /\ j # i /\ j + 1 # i /\ ~(j < i) /\ ~(j + 1 < i)
          BY <1>0, <1>7, <3>4
      <4>2. t[j] = s[j + 1] /\ t[j + 1] = s[(j + 1) + 1]
          BY <1>8, <4>1
      <4> QED BY <3>0, <4>1, <4>2
    <3> QED BY <1>0, <3>1, <3>2, <3>3, <3>4
  <2>3. ASSUME NEW j \in DOMAIN t, NEW k \in DOMAIN t, j < k
        PROVE  end(t[j]) <= t[k].at
    <3>0. \A x, y \in DOMAIN s : x < y => end(s[x]) <= s[y].at
        BY DEF Tiles
    <3>1. CASE k < i
        BY <1>0, <1>8, <1>9, <2>3, <3>0, <3>1
    <3>2. CASE k = i
        BY <1>0, <1>2, <1>8, <1>9, <2>3, <3>0, <3>2, SMTT(30)
    <3>3. CASE k > i /\ j < i
      <4>1. t[j] = s[j] /\ t[k] = s[k + 1] /\ k + 1 \in DOMAIN s /\ j \in DOMAIN s /\ j < k + 1
          BY <1>0, <1>8, <1>9, <3>3
      <4> QED BY <3>0, <4>1
    <3>4. CASE k > i /\ j = i
      <4>1. t[j] = b /\ t[k] = s[k + 1] /\ k + 1 \in DOMAIN s /\ i + 1 < k + 1
          BY <1>0, <1>8, <1>9, <3>4
      <4> QED BY <1>4, <3>0, <4>1
    <3>5. CASE k > i /\ j > i
      <4>1. t[j] = s[j + 1] /\ t[k] = s[k + 1] /\ k + 1 \in DOMAIN s /\ j + 1 \in DOMAIN s
            /\ j + 1 < k + 1
          BY <1>0, <1>8, <1>9, <2>3, <3>5
      <4> QED BY <3>0, <4>1
    <3> QED BY <1>0, <1>9, <3>1, <3>2, <3>3, <3>4, <3>5
  <2>4. end(t[Len(t)]) = HEAP_SIZE
    <3>0. end(s[Len(s)]) = HEAP_SIZE
        BY DEF Tiles
    <3>1. CASE i = Len(t)
      <4>1. t[Len(t)] = b
          BY <1>8, <3>1
      <4>2. i + 1 = Len(s)
          BY <1>0, <1>7, <3>1
      <4> QED BY <1>4, <3>0, <4>1, <4>2
    <3>2. CASE i # Len(t)
        BY <1>0, <1>7, <1>8, <3>0, <3>2
    <3> QED BY <3>1, <3>2
  <2> QED BY <2>1, <2>2, <2>3, <2>4 DEF Tiles
<1>12. InUse(t) = InUse(s)
  <2>1. ASSUME NEW j \in DOMAIN t, t[j].free = 0
        PROVE  \E k \in DOMAIN s : s[k] = t[j] /\ s[k].free = 0
    <3>1. j # i
        BY <1>2, <1>8, <2>1
    <3>2. CASE j < i
        BY <1>0, <1>8, <1>9, <2>1, <3>1, <3>2
    <3>3. CASE ~(j < i)
      <4>1. t[j] = s[j + 1] /\ j + 1 \in DOMAIN s
          BY <1>0, <1>8, <1>9, <3>1, <3>3
      <4> QED BY <2>1, <4>1
    <3> QED BY <3>2, <3>3
  <2>2. ASSUME NEW k \in DOMAIN s, s[k].free = 0
        PROVE  \E j \in DOMAIN t : t[j] = s[k] /\ t[j].free = 0
    <3>1. k # i /\ k # i + 1
        BY <2>2
    <3>2. CASE k < i
        BY <1>0, <1>8, <1>9, <2>2, <3>1, <3>2
    <3>3. CASE ~(k < i)
      <4>1. t[k - 1] = s[(k - 1) + 1] /\ k - 1 \in DOMAIN t /\ (k - 1) + 1 = k
          BY <1>0, <1>8, <1>9, <3>1, <3>3
      <4> QED BY <2>2, <4>1
    <3> QED BY <3>2, <3>3
  <2> QED BY <2>1, <2>2 DEF InUse
<1> QED BY <1>2, <1>3, <1>7, <1>8, <1>11, <1>12

(* Writing only the flag of block i keeps the tiling. *)
LEMMA FlagFacts ==
    ASSUME NEW s \in Seq(Block), Tiles(s), NEW i \in DOMAIN s, NEW f \in {0, 1}
    PROVE  /\ [s EXCEPT ![i].free = f] \in Seq(Block)
           /\ Len([s EXCEPT ![i].free = f]) = Len(s)
           /\ DOMAIN [s EXCEPT ![i].free = f] = 1 .. Len(s)
           /\ [s EXCEPT ![i].free = f][i].free = f
           /\ [s EXCEPT ![i].free = f][i].at = s[i].at
           /\ [s EXCEPT ![i].free = f][i].size = s[i].size
           /\ \A j \in DOMAIN s : j # i => [s EXCEPT ![i].free = f][j] = s[j]
           /\ Tiles([s EXCEPT ![i].free = f])
<1> DEFINE b == [s[i] EXCEPT !.free = f]
           t == [s EXCEPT ![i] = b]
<1>0. Len(s) \in Nat /\ DOMAIN s = 1 .. Len(s) /\ i \in Nat /\ s[i] \in Block
    OBVIOUS
<1>1. b \in Block /\ b.at = s[i].at /\ b.size = s[i].size /\ b.free = f
    BY <1>0 DEF Block
<1>2. [s EXCEPT ![i].free = f] = t
    OBVIOUS
<1> HIDE DEF b
<1>3. t \in Seq(Block) /\ Len(t) = Len(s) /\ DOMAIN t = 1 .. Len(s)
      /\ t[i] = b /\ \A j \in DOMAIN s : j # i => t[j] = s[j]
    BY <1>0, <1>1
<1> HIDE DEF t
<1>4. \A j \in DOMAIN s : t[j].at = s[j].at /\ t[j].size = s[j].size
    BY <1>1, <1>3
<1>5. \A j \in DOMAIN s : end(t[j]) = end(s[j])
    BY <1>4 DEF end
<1>6. Tiles(t)
  <2>1. t # <<>> /\ t[1].at = 0
      BY <1>0, <1>3, <1>4 DEF Tiles
  <2>2. ASSUME NEW j \in 1 .. Len(t) - 1 PROVE t[j + 1].at = end(t[j])
    <3>1. j \in DOMAIN s /\ j + 1 \in DOMAIN s /\ s[j + 1].at = end(s[j])
        BY <1>0, <1>3 DEF Tiles
    <3> QED BY <1>4, <1>5, <3>1
  <2>3. ASSUME NEW j \in DOMAIN t, NEW k \in DOMAIN t, j < k PROVE end(t[j]) <= t[k].at
    <3>1. j \in DOMAIN s /\ k \in DOMAIN s /\ end(s[j]) <= s[k].at
        BY <1>0, <1>3, <2>3 DEF Tiles
    <3> QED BY <1>4, <1>5, <3>1
  <2>4. end(t[Len(t)]) = HEAP_SIZE
    <3>1. Len(s) \in DOMAIN s
        BY <1>0 DEF Tiles
    <3> QED BY <1>3, <1>5, <3>1 DEF Tiles
  <2> QED BY <2>1, <2>2, <2>3, <2>4 DEF Tiles
<1> QED BY <1>1, <1>2, <1>3, <1>6

(* A block that becomes free is no longer among the blocks in use, and     *)
(* every other one still is.                                               *)
LEMMA FreeUse ==
    ASSUME NEW s \in Seq(Block), Tiles(s), NEW i \in DOMAIN s
    PROVE  InUse([s EXCEPT ![i].free = 1]) = InUse(s) \ {s[i]}
<1> DEFINE t == [s EXCEPT ![i].free = 1]
<1>1. /\ DOMAIN t = DOMAIN s /\ t[i].free = 1
      /\ \A j \in DOMAIN s : j # i => t[j] = s[j]
    BY FlagFacts
<1> HIDE DEF t
<1>2. ASSUME NEW j \in DOMAIN s, j # i PROVE s[j] # s[i]
    BY <1>2, AtInjective
<1> SUFFICES InUse(t) = InUse(s) \ {s[i]}
    BY DEF t
<1>3. ASSUME NEW b \in InUse(t) PROVE b \in InUse(s) \ {s[i]}
    BY <1>1, <1>2 DEF InUse
<1>4. ASSUME NEW b \in InUse(s) \ {s[i]} PROVE b \in InUse(t)
    BY <1>1, <1>2 DEF InUse
<1> QED BY <1>3, <1>4

(* The list s with block i replaced by the blocks b and c. *)
Cut(s, i, b, c) == InsertAt([s EXCEPT ![i] = b], i + 1, c)

(* Cutting block i in two, the first part in use and the second free,      *)
(* keeps the tiling.                                                       *)
LEMMA CutFacts ==
    ASSUME NEW s \in Seq(Block), Tiles(s), NEW i \in DOMAIN s, s[i].free = 1,
           NEW b \in Block, NEW c \in Block, b.at = s[i].at, b.free = 0,
           c.at = end(b), end(c) = end(s[i]), c.free = 1
    PROVE  /\ Cut(s, i, b, c) \in Seq(Block)
           /\ Tiles(Cut(s, i, b, c))
           /\ InUse(Cut(s, i, b, c)) = InUse(s) \cup {b}
           /\ NoFreeNeighbours(s) => NoFreeNeighbours(Cut(s, i, b, c))
<1> DEFINE r == [s EXCEPT ![i] = b]
           t == Cut(s, i, b, c)
<1>t. t = InsertAt(r, i + 1, c)
    BY DEF Cut
<1> HIDE DEF t
<1>0. /\ Len(s) \in Nat /\ DOMAIN s = 1 .. Len(s) /\ i \in Nat /\ i >= 1 /\ i <= Len(s)
      /\ HDR \in Nat /\ HDR > 0 /\ HEAP_SIZE \in Nat
    BY KmallocAssumption
<1>1. r \in Seq(Block) /\ Len(r) = Len(s)
      /\ r[i] = b /\ \A j \in 1 .. Len(s) : j # i => r[j] = s[j]
    BY <1>0
<1> HIDE DEF r
<1>2. i + 1 \in 1 .. Len(r) + 1
    BY <1>0, <1>1
<1>3. /\ t \in Seq(Block) /\ Len(t) = Len(r) + 1 /\ t[i + 1] = c
      /\ \A j \in 1 .. Len(r) + 1 : j < i + 1 => t[j] = r[j]
      /\ \A j \in 1 .. Len(r) + 1 : j > i + 1 => t[j] = r[j - 1]
  <2> DEFINE k == i + 1
  <2>1. k \in 1 .. Len(r) + 1 /\ r \in Seq(Block) /\ c \in Block
      BY <1>1, <1>2
  <2> HIDE DEF k
  <2>2. InsertAt(r, k, c) \in Seq(Block)
      BY <2>1, InsertAtFacts
  <2>3. Len(InsertAt(r, k, c)) = Len(r) + 1 /\ InsertAt(r, k, c)[k] = c
      BY <2>1, InsertAtFacts
  <2>4. \A j \in 1 .. Len(r) + 1 : j < k => InsertAt(r, k, c)[j] = r[j]
      BY <2>1, InsertAtFacts
  <2>5. \A j \in 1 .. Len(r) + 1 : j > k => InsertAt(r, k, c)[j] = r[j - 1]
      BY <2>1, InsertAtFacts
  <2> QED BY <1>t, <2>2, <2>3, <2>4, <2>5 DEF k
<1>4. t[i] = b /\ t[i + 1] = c /\ Len(t) = Len(s) + 1
    BY <1>0, <1>1, <1>3
<1>5. ASSUME NEW j \in 1 .. Len(s) + 1, j < i PROVE t[j] = s[j] /\ j \in DOMAIN s
    BY <1>0, <1>1, <1>3, <1>5
<1>6. ASSUME NEW j \in 1 .. Len(s) + 1, j > i + 1 PROVE t[j] = s[j - 1] /\ j - 1 \in DOMAIN s
  <2>1. j - 1 \in 1 .. Len(s) /\ j - 1 # i
      BY <1>0, <1>6
  <2>2. t[j] = r[j - 1]
      BY <1>0, <1>1, <1>3, <1>6
  <2> QED BY <1>0, <1>1, <2>1, <2>2
<1>7. DOMAIN t = 1 .. Len(s) + 1
    BY <1>0, <1>4
<1>8. \A x \in Block : end(x) \in Nat /\ x.at \in Nat /\ x.at < end(x)
  <2> SUFFICES ASSUME NEW x \in Block
               PROVE  end(x) \in Nat /\ x.at \in Nat /\ x.at < end(x)
      OBVIOUS
  <2>1. x.at \in Nat /\ x.size \in Nat
      BY DEF Block
  <2>2. end(x) = x.at + HDR + x.size
      BY DEF end
  <2> QED BY <1>0, <2>1, <2>2
<1>9. Tiles(t)
  <2>0. /\ \A k \in 1 .. Len(s) - 1 : s[k + 1].at = end(s[k])
        /\ \A x, y \in DOMAIN s : x < y => end(s[x]) <= s[y].at
        /\ s[1].at = 0 /\ end(s[Len(s)]) = HEAP_SIZE
      BY DEF Tiles
  <2>1. t # <<>> /\ t[1].at = 0
    <3>1. CASE i = 1
        BY <1>0, <1>4, <2>0, <3>1
    <3>2. CASE i # 1
        BY <1>0, <1>4, <1>5, <2>0, <3>2
    <3> QED BY <3>1, <3>2
  <2>2. ASSUME NEW j \in 1 .. Len(t) - 1
        PROVE  t[j + 1].at = end(t[j])
    <3>1. CASE j + 1 < i
      <4>1. t[j] = s[j] /\ t[j + 1] = s[j + 1] /\ j \in 1 .. Len(s) - 1
          BY <1>0, <1>4, <1>5, <3>1
      <4> QED BY <2>0, <4>1
    <3>2. CASE j + 1 = i
      <4>1. t[j] = s[j] /\ t[j + 1] = b /\ j \in 1 .. Len(s) - 1
          BY <1>0, <1>4, <1>5, <3>2
      <4> QED BY <2>0, <3>2, <4>1
    <3>3. CASE j = i
        BY <1>4, <3>3
    <3>4. CASE j = i + 1
      <4>1. j + 1 \in 1 .. Len(s) + 1 /\ j + 1 > i + 1 /\ (j + 1) - 1 = i + 1 /\ i \in 1 .. Len(s) - 1
          BY <1>0, <1>4, <3>4
      <4>2. t[j] = c /\ t[j + 1] = s[i + 1]
          BY <1>4, <1>6, <3>4, <4>1
      <4> QED BY <2>0, <4>1, <4>2
    <3>5. CASE j > i + 1
      <4>1. /\ j \in 1 .. Len(s) + 1 /\ j + 1 \in 1 .. Len(s) + 1 /\ j + 1 > i + 1
            /\ (j + 1) - 1 = (j - 1) + 1 /\ j - 1 \in 1 .. Len(s) - 1
          BY <1>0, <1>4, <3>5
      <4>2. t[j] = s[j - 1] /\ t[j + 1] = s[(j - 1) + 1]
          BY <1>6, <3>5, <4>1
      <4> QED BY <2>0, <4>1, <4>2
    <3> QED BY <1>0, <3>1, <3>2, <3>3, <3>4, <3>5
  <2>3. ASSUME NEW j \in DOMAIN t, NEW k \in DOMAIN t, j < k
        PROVE  end(t[j]) <= t[k].at
    <3>0. end(b) <= end(s[i]) /\ s[i].at <= c.at
        BY <1>8
    <3>d. /\ \A x \in DOMAIN s : s[x] \in Block
          /\ j \in Nat /\ k \in Nat
        BY <1>7
    <3>1. CASE k < i
      <4>1. t[j] = s[j] /\ t[k] = s[k] /\ j \in DOMAIN s /\ k \in DOMAIN s
          BY <1>5, <1>7, <2>3, <3>d, <3>1, <1>0
      <4> QED BY <2>0, <2>3, <4>1
    <3>2. CASE k = i
      <4>1. t[j] = s[j] /\ t[k] = b /\ j \in DOMAIN s
          BY <1>4, <1>5, <1>7, <2>3, <3>2
      <4> QED BY <2>0, <2>3, <3>2, <4>1
    <3>3. CASE k = i + 1
      <4>1. CASE j = i
          BY <1>4, <1>8, <3>3, <4>1
      <4>2. CASE j < i
        <5>1. t[j] = s[j] /\ j \in DOMAIN s /\ t[k] = c
            BY <1>4, <1>5, <1>7, <3>3, <4>2
        <5>2. end(s[j]) <= s[i].at
            BY <2>0, <4>2, <5>1
        <5> QED BY <1>8, <3>0, <3>d, <5>1, <5>2
      <4> QED BY <1>0, <2>3, <3>d, <3>3, <4>1, <4>2
    <3>4. CASE k > i + 1
      <4>0. t[k] = s[k - 1] /\ k - 1 \in DOMAIN s
          BY <1>6, <1>7, <3>4
      <4>1. CASE j < i
        <5>1. t[j] = s[j] /\ j \in DOMAIN s /\ j < k - 1
            BY <1>0, <1>5, <1>7, <3>d, <3>4, <4>1
        <5> QED BY <2>0, <4>0, <5>1
      <4>2. CASE j = i
        <5>1. i < k - 1 /\ end(s[i]) <= s[k - 1].at
            BY <1>0, <2>0, <3>d, <3>4, <4>0
        <5> QED BY <1>4, <1>8, <3>0, <3>d, <4>0, <4>2, <5>1
      <4>3. CASE j = i + 1
        <5>1. i < k - 1 /\ end(s[i]) <= s[k - 1].at
            BY <1>0, <2>0, <3>d, <3>4, <4>0
        <5> QED BY <1>4, <4>0, <4>3, <5>1
      <4>4. CASE j > i + 1
        <5>1. t[j] = s[j - 1] /\ j - 1 \in DOMAIN s /\ j - 1 < k - 1
            BY <1>6, <1>7, <2>3, <3>d, <4>4
        <5> QED BY <2>0, <4>0, <5>1
      <4> QED BY <1>0, <3>d, <4>1, <4>2, <4>3, <4>4
    <3> QED BY <1>0, <3>d, <3>1, <3>2, <3>3, <3>4
  <2>4. end(t[Len(t)]) = HEAP_SIZE
    <3>1. CASE i = Len(s)
        BY <1>4, <2>0, <3>1
    <3>2. CASE i # Len(s)
      <4>1. Len(t) \in 1 .. Len(s) + 1 /\ Len(t) > i + 1 /\ Len(t) - 1 = Len(s)
          BY <1>0, <1>4, <3>2
      <4>2. t[Len(t)] = s[Len(s)]
          BY <1>6, <4>1
      <4> QED BY <2>0, <4>2
    <3> QED BY <3>1, <3>2
  <2> QED BY <2>1, <2>2, <2>3, <2>4 DEF Tiles
<1>10. InUse(t) = InUse(s) \cup {b}
  <2>1. ASSUME NEW j \in DOMAIN t, t[j].free = 0
        PROVE  t[j] = b \/ \E k \in DOMAIN s : s[k] = t[j] /\ s[k].free = 0
    <3>1. j # i + 1
        BY <1>4, <2>1
    <3>2. CASE j = i
        BY <1>4, <3>2
    <3>3. CASE j < i
        BY <1>5, <1>7, <2>1, <3>3
    <3>4. CASE j > i + 1
      <4>1. t[j] = s[j - 1] /\ j - 1 \in DOMAIN s
          BY <1>6, <1>7, <3>4
      <4> QED BY <2>1, <4>1
    <3> QED BY <1>0, <1>7, <3>1, <3>2, <3>3, <3>4
  <2>2. ASSUME NEW k \in DOMAIN s, s[k].free = 0
        PROVE  \E j \in DOMAIN t : t[j] = s[k] /\ t[j].free = 0
    <3>1. k # i
        BY <2>2
    <3>2. CASE k < i
        BY <1>0, <1>5, <1>7, <2>2, <3>2
    <3>3. CASE k > i
      <4>1. k + 1 \in 1 .. Len(s) + 1 /\ k + 1 > i + 1 /\ (k + 1) - 1 = k
          BY <1>0, <3>3
      <4>2. t[k + 1] = s[k]
          BY <1>6, <4>1
      <4> QED BY <1>7, <2>2, <4>1, <4>2
    <3> QED BY <1>0, <3>1, <3>2, <3>3
  <2>3. i \in DOMAIN t /\ t[i] = b /\ t[i].free = 0
      BY <1>0, <1>4, <1>7
  <2>4. ASSUME NEW x \in InUse(t) PROVE x \in InUse(s) \cup {b}
      BY <2>1 DEF InUse
  <2>5. ASSUME NEW x \in InUse(s) \cup {b} PROVE x \in InUse(t)
      BY <2>2, <2>3 DEF InUse
  <2> QED BY <2>4, <2>5
<1>11. ASSUME NoFreeNeighbours(s) PROVE NoFreeNeighbours(t)
  <2>0. \A k \in 1 .. Len(s) - 1 : s[k].free = 0 \/ s[k + 1].free = 0
      BY <1>11 DEF NoFreeNeighbours
  <2>1. ASSUME NEW j \in 1 .. Len(t) - 1
        PROVE  t[j].free = 0 \/ t[j + 1].free = 0
    <3>1. CASE j + 1 < i
      <4>1. t[j] = s[j] /\ t[j + 1] = s[j + 1] /\ j \in 1 .. Len(s) - 1
          BY <1>0, <1>4, <1>5, <3>1
      <4> QED BY <2>0, <4>1
    <3>2. CASE j + 1 = i \/ j = i
        BY <1>4, <3>2
    <3>4. CASE j = i + 1
      <4>1. j + 1 \in 1 .. Len(s) + 1 /\ j + 1 > i + 1 /\ (j + 1) - 1 = i + 1 /\ i \in 1 .. Len(s) - 1
          BY <1>0, <1>4, <3>4
      <4>2. t[j + 1] = s[i + 1]
          BY <1>6, <4>1
      <4>3. s[i + 1].free = 0
          BY <2>0, <4>1
      <4> QED BY <4>2, <4>3
    <3>5. CASE j > i + 1
      <4>1. /\ j \in 1 .. Len(s) + 1 /\ j + 1 \in 1 .. Len(s) + 1 /\ j + 1 > i + 1
            /\ (j + 1) - 1 = (j - 1) + 1 /\ j - 1 \in 1 .. Len(s) - 1
          BY <1>0, <1>4, <3>5
      <4>2. t[j] = s[j - 1] /\ t[j + 1] = s[(j - 1) + 1]
          BY <1>6, <3>5, <4>1
      <4> QED BY <2>0, <4>1, <4>2
    <3> QED BY <1>0, <3>1, <3>2, <3>4, <3>5
  <2> QED BY <2>1 DEF NoFreeNeighbours
<1> QED BY <1>3, <1>9, <1>10, <1>11 DEF t

(* kmalloc_split: the block given out is in use and large enough, and the  *)
(* heap is still sound.                                                    *)
LEMMA SplitFacts ==
    ASSUME blocks \in Seq(Block), Tiles(blocks), NoFreeNeighbours(blocks),
           NEW n \in Nat, NEW i \in DOMAIN blocks,
           blocks[i].free = 1, blocks[i].size >= n
    PROVE  /\ kmalloc_split(i, n) \in Seq(Block)
           /\ Tiles(kmalloc_split(i, n))
           /\ NoFreeNeighbours(kmalloc_split(i, n))
           /\ \E b \in Block : /\ b.at = blocks[i].at
                               /\ b.size >= n
                               /\ InUse(kmalloc_split(i, n)) = InUse(blocks) \cup {b}
<1>0. blocks[i] \in Block /\ HDR \in Nat
    BY KmallocAssumption
<1>1. blocks[i].at \in Nat /\ blocks[i].size \in Nat
    BY <1>0 DEF Block
<1>2. CASE blocks[i].size > n + HDR
  <2> DEFINE m == blocks[i].size - n - HDR
             b == [blocks[i] EXCEPT !.free = 0, !.size = n]
             c == [at |-> blocks[i].at + HDR + n, size |-> m, free |-> 1]
  <2>1. m \in Nat /\ n + HDR + m = blocks[i].size /\ blocks[i].at + HDR + n \in Nat
      BY <1>0, <1>1, <1>2
  <2>2. kmalloc_split(i, n) = InsertAt([blocks EXCEPT ![i] = b], i + 1, c)
      BY <1>2 DEF kmalloc_split
  <2> HIDE DEF m
  <2>3. b \in Block /\ b.at = blocks[i].at /\ b.free = 0 /\ b.size = n
      BY <1>0, <1>1 DEF Block
  <2>4. c \in Block /\ c.at = blocks[i].at + HDR + n /\ c.free = 1 /\ c.size = m
      BY <2>1 DEF Block
  <2> HIDE DEF b, c
  <2>5. end(b) = blocks[i].at + HDR + n
      BY <2>3 DEF end
  <2>6. end(c) = (blocks[i].at + HDR + n) + HDR + m
      BY <2>4 DEF end
  <2>7. (blocks[i].at + HDR + n) + HDR + m = blocks[i].at + HDR + blocks[i].size
      BY <1>0, <1>1, <2>1, SMTT(30)
  <2>8. c.at = end(b) /\ end(c) = end(blocks[i])
      BY <2>4, <2>5, <2>6, <2>7 DEF end
  <2> DEFINE t == Cut(blocks, i, b, c)
  <2>10. kmalloc_split(i, n) = t
      BY <2>2 DEF t, Cut
  <2> HIDE DEF t
  <2>9. t \in Seq(Block) /\ Tiles(t) /\ InUse(t) = InUse(blocks) \cup {b} /\ NoFreeNeighbours(t)
      BY <2>3, <2>4, <2>8, CutFacts DEF t
  <2>11. b.size >= n
      BY <2>3
  <2> QED BY <2>3, <2>9, <2>10, <2>11
<1>3. CASE ~(blocks[i].size > n + HDR)
  <2> DEFINE t == [blocks EXCEPT ![i].free = 0]
  <2>1. kmalloc_split(i, n) = t
      BY <1>3 DEF kmalloc_split
  <2>2. /\ t \in Seq(Block) /\ Tiles(t) /\ Len(t) = Len(blocks)
        /\ DOMAIN t = 1 .. Len(blocks) /\ t[i].free = 0
        /\ t[i].at = blocks[i].at /\ t[i].size = blocks[i].size
        /\ \A j \in DOMAIN blocks : j # i => t[j] = blocks[j]
      BY FlagFacts
  <2> HIDE DEF t
  <2>3. t[i] \in Block /\ t[i].size >= n /\ DOMAIN t = DOMAIN blocks /\ Len(blocks) \in Nat
      BY <2>2
  <2>4. InUse(t) = InUse(blocks) \cup {t[i]}
    <3>1. ASSUME NEW x \in InUse(t) PROVE x \in InUse(blocks) \cup {t[i]}
        BY <2>2, <2>3 DEF InUse
    <3>2. ASSUME NEW x \in InUse(blocks) \cup {t[i]} PROVE x \in InUse(t)
        BY <2>2, <2>3 DEF InUse
    <3> QED BY <3>1, <3>2
  <2>5. NoFreeNeighbours(t)
    <3>1. ASSUME NEW j \in 1 .. Len(blocks) - 1 PROVE t[j].free = 0 \/ t[j + 1].free = 0
      <4>1. j \in DOMAIN blocks /\ j + 1 \in DOMAIN blocks
          BY <2>2, <2>3
      <4>2. blocks[j].free = 0 \/ blocks[j + 1].free = 0
          BY DEF NoFreeNeighbours
      <4> QED BY <2>2, <4>1, <4>2
    <3> QED BY <2>2, <3>1 DEF NoFreeNeighbours
  <2> QED BY <2>1, <2>2, <2>3, <2>4, <2>5
<1> QED BY <1>2, <1>3

(* kmerge around a block that has just become free: if that block is the   *)
(* only one with a free neighbour, afterwards there is none.               *)
LEMMA MergeFacts ==
    ASSUME NEW s \in Seq(Block), Tiles(s), NEW i \in DOMAIN s, s[i].free = 1,
           \A j \in 1 .. Len(s) - 1 : j # i /\ j + 1 # i => s[j].free = 0 \/ s[j + 1].free = 0
    PROVE  /\ kmerge(s, i) \in Seq(Block)
           /\ Tiles(kmerge(s, i))
           /\ InUse(kmerge(s, i)) = InUse(s)
           /\ NoFreeNeighbours(kmerge(s, i))
<1> DEFINE t == IF Joins(s, i) /\ s[i + 1].free = 1 THEN Join(s, i) ELSE s
           u == IF i > 1 /\ Joins(t, i - 1) /\ t[i - 1].free = 1 THEN Join(t, i - 1) ELSE t
<1>0. /\ Len(s) \in Nat /\ DOMAIN s = 1 .. Len(s) /\ i \in Nat /\ i >= 1
      /\ \A j \in DOMAIN s : s[j] \in Block /\ s[j].free \in {0, 1}
  <2>1. \A j \in DOMAIN s : s[j] \in Block
      OBVIOUS
  <2> QED BY <2>1 DEF Block
<1>1. kmerge(s, i) = u
    BY DEF kmerge
<1>2. /\ t \in Seq(Block) /\ Tiles(t) /\ InUse(t) = InUse(s)
      /\ i \in DOMAIN t /\ t[i].free = 1
      /\ \A j \in 1 .. Len(t) - 1 : j + 1 # i => t[j].free = 0 \/ t[j + 1].free = 0
  <2>1. CASE Joins(s, i) /\ s[i + 1].free = 1
    <3> DEFINE v == Join(s, i)
    <3>0. i \in DOMAIN s /\ i + 1 \in DOMAIN s
        BY <2>1 DEF Joins
    <3>1. /\ v \in Seq(Block) /\ Len(v) = Len(s) - 1 /\ v[i].free = 1
          /\ \A j \in 1 .. Len(s) - 1 : j # i => v[j] = IF j < i THEN s[j] ELSE s[j + 1]
          /\ Tiles(v) /\ InUse(v) = InUse(s)
        BY <2>1, <3>0, JoinFacts
    <3>2. t = v
        BY <2>1
    <3> HIDE DEF v, t
    <3>3. i \in DOMAIN v
        BY <1>0, <3>0, <3>1
    <3>4. ASSUME NEW j \in 1 .. Len(v) - 1, j + 1 # i PROVE v[j].free = 0 \/ v[j + 1].free = 0
      <4>1. CASE j + 1 < i
        <5>1. j \in 1 .. Len(s) - 1 /\ j + 1 \in 1 .. Len(s) - 1 /\ j < i /\ j # i /\ j + 1 # i
            BY <1>0, <3>0, <3>1, <4>1
        <5>2. v[j] = s[j] /\ v[j + 1] = s[j + 1]
            BY <3>1, <4>1, <5>1
        <5> QED BY <3>4, <5>1, <5>2
      <4>2. CASE j >= i
        <5>1. /\ j + 1 \in 1 .. Len(s) - 1 /\ j + 1 # i /\ (j + 1) + 1 # i /\ ~(j + 1 < i)
            BY <1>0, <3>1, <4>2
        <5>2. v[j + 1] = s[(j + 1) + 1] /\ (s[j + 1].free = 0 \/ s[(j + 1) + 1].free = 0)
            BY <3>1, <5>1
        <5>3. CASE j = i
          <6>1. s[j + 1].free = 1
              BY <2>1, <5>3
          <6> QED BY <5>2, <6>1
        <5>4. CASE j # i
          <6>1. v[j] = s[j + 1]
              BY <1>0, <3>1, <4>2, <5>4
          <6> QED BY <5>2, <6>1
        <5> QED BY <5>3, <5>4
      <4> QED BY <1>0, <3>1, <3>4, <4>1, <4>2
    <3> QED BY <3>1, <3>2, <3>3, <3>4
  <2>2. CASE ~(Joins(s, i) /\ s[i + 1].free = 1)
    <3>1. t = s
        BY <2>2
    <3>2. ASSUME NEW j \in 1 .. Len(s) - 1, j + 1 # i PROVE s[j].free = 0 \/ s[j + 1].free = 0
      <4>1. CASE j = i
        <5>1. i + 1 \in DOMAIN s /\ s[i + 1].at = end(s[i])
            BY <1>0, <4>1 DEF Tiles
        <5>2. s[i + 1].free # 1
            BY <2>2, <5>1 DEF Joins
        <5> QED BY <1>0, <4>1, <5>1, <5>2
      <4> QED BY <3>2, <4>1
    <3> QED BY <3>1, <3>2
  <2> QED BY <2>1, <2>2
<1> HIDE DEF t
<1>3. u \in Seq(Block) /\ Tiles(u) /\ InUse(u) = InUse(s) /\ NoFreeNeighbours(u)
  <2>0. /\ Len(t) \in Nat /\ DOMAIN t = 1 .. Len(t)
        /\ \A j \in DOMAIN t : t[j] \in Block /\ t[j].free \in {0, 1}
    <3>1. \A j \in DOMAIN t : t[j] \in Block
        BY <1>2
    <3> QED BY <1>2, <3>1 DEF Block
  <2>1. CASE i > 1 /\ Joins(t, i - 1) /\ t[i - 1].free = 1
    <3> DEFINE h == i - 1
               v == Join(t, h)
    <3>0. h \in DOMAIN t /\ h + 1 = i /\ h \in Nat /\ t[h].free = 1
        BY <1>0, <2>1 DEF Joins
    <3>1. u = v
        BY <2>1
    <3> HIDE DEF h, u
    <3>2. /\ v \in Seq(Block) /\ Len(v) = Len(t) - 1 /\ v[h].free = 1
          /\ \A j \in 1 .. Len(t) - 1 : j # h => v[j] = IF j < h THEN t[j] ELSE t[j + 1]
          /\ Tiles(v) /\ InUse(v) = InUse(t)
        BY <1>2, <3>0, JoinFacts
    <3> HIDE DEF v
    <3>3. ASSUME NEW j \in 1 .. Len(v) - 1 PROVE v[j].free = 0 \/ v[j + 1].free = 0
      <4>1. CASE j + 1 < h
        <5>1. /\ j \in 1 .. Len(t) - 1 /\ j + 1 \in 1 .. Len(t) - 1 /\ j < h /\ j # h
              /\ j + 1 # h /\ j + 1 # i
            BY <2>0, <3>0, <3>2, <4>1
        <5>2. v[j] = t[j] /\ v[j + 1] = t[j + 1]
            BY <3>2, <4>1, <5>1
        <5> QED BY <1>2, <5>1, <5>2
      <4>2. CASE j + 1 = h
        <5>1. v[j] = t[j] /\ j \in 1 .. Len(t) - 1 /\ j + 1 # i
            BY <1>2, <2>0, <3>0, <3>2, <4>2
        <5>2. t[j].free = 0 \/ t[h].free = 0
            BY <1>2, <4>2, <5>1
        <5> QED BY <3>0, <5>1, <5>2
      <4>3. CASE j >= h
        <5>1. /\ j + 1 \in 1 .. Len(t) - 1 /\ j + 1 # h /\ (j + 1) + 1 # i /\ ~(j + 1 < h)
            BY <2>0, <3>0, <3>2, <4>3
        <5>2. v[j + 1] = t[(j + 1) + 1] /\ (t[j + 1].free = 0 \/ t[(j + 1) + 1].free = 0)
            BY <1>2, <3>2, <5>1
        <5>3. CASE j = h
          <6>1. t[j + 1].free = 1
              BY <1>2, <3>0, <5>3
          <6> QED BY <5>2, <6>1
        <5>4. CASE j # h
          <6>1. v[j] = t[j + 1]
              BY <2>0, <3>0, <3>2, <4>3, <5>4
          <6> QED BY <5>2, <6>1
        <5> QED BY <5>3, <5>4
      <4> QED BY <2>0, <3>0, <3>2, <4>1, <4>2, <4>3
    <3> QED BY <1>2, <3>1, <3>2, <3>3 DEF NoFreeNeighbours
  <2>2. CASE ~(i > 1 /\ Joins(t, i - 1) /\ t[i - 1].free = 1)
    <3>1. u = t
        BY <2>2
    <3>2. ASSUME NEW j \in 1 .. Len(t) - 1 PROVE t[j].free = 0 \/ t[j + 1].free = 0
      <4>1. CASE j + 1 = i
        <5>1. i > 1 /\ i - 1 = j /\ j \in DOMAIN t /\ j + 1 \in DOMAIN t
            BY <1>0, <2>0, <4>1
        <5>2. t[j + 1].at = end(t[j])
            BY <1>2 DEF Tiles
        <5>3. t[j].free # 1
            BY <2>2, <5>1, <5>2 DEF Joins
        <5> QED BY <2>0, <5>1, <5>3
      <4> QED BY <1>2, <4>1
    <3> QED BY <1>2, <3>1, <3>2 DEF NoFreeNeighbours
  <2> QED BY <2>1, <2>2
<1> QED BY <1>1, <1>3

(* Giving out a block, in kmalloc and in krealloc: its area was held by    *)
(* nobody, and the heap stays sound.                                       *)
LEMMA GiveKeeps ==
    ASSUME HeapInv, NEW n \in Size, NEW i \in DOMAIN blocks, First(i, n), Give(i, n)
    PROVE  /\ blocks' \in Seq(Block) /\ Tiles(blocks') /\ NoFreeNeighbours(blocks')
           /\ HeldInUse'
           /\ DOMAIN held \subseteq DOMAIN held' /\ DOMAIN held' \subseteq Nat
           /\ \A a \in DOMAIN held' : held'[a] \in Size
<1> DEFINE p == ptr(blocks[i])
<1>1. blocks[i].free = 1 /\ blocks[i].size >= n /\ n \in Nat /\ blocks \in Seq(Block)
    BY KmallocAssumption DEF First, Fits, HeapInv, KmallocTypeOK
<1>2. /\ blocks' \in Seq(Block) /\ Tiles(blocks') /\ NoFreeNeighbours(blocks')
      /\ \E b \in Block : /\ b.at = blocks[i].at
                          /\ b.size >= n
                          /\ InUse(blocks') = InUse(blocks) \cup {b}
    BY <1>1, SplitFacts DEF HeapInv, Give
<1>3. PICK b \in Block : b.at = blocks[i].at /\ b.size >= n
                          /\ InUse(blocks') = InUse(blocks) \cup {b}
    BY <1>2
<1>4. ptr(b) = p
    BY <1>3 DEF ptr
<1>5. held' = [a \in DOMAIN held \cup {p} |-> IF a = p THEN n ELSE held[a]]
    BY DEF Give
<1>6. p \in Nat
  <2>1. blocks[i] \in Block /\ HDR \in Nat
      BY <1>1, KmallocAssumption
  <2>2. blocks[i].at \in Nat
      BY <2>1 DEF Block
  <2> QED BY <2>1, <2>2 DEF ptr
<1>7. \A c \in InUse(blocks) : ptr(c) # p
  <2> SUFFICES ASSUME NEW j \in DOMAIN blocks, blocks[j].free = 0, ptr(blocks[j]) = p
               PROVE  FALSE
      BY DEF InUse
  <2>1. blocks[j] \in Block /\ blocks[i] \in Block /\ HDR \in Nat
      BY <1>1, KmallocAssumption
  <2>2. blocks[j].at \in Nat /\ blocks[i].at \in Nat
      BY <2>1 DEF Block
  <2>3. blocks[j].at + HDR = blocks[i].at + HDR
      BY DEF ptr
  <2>a. \A x, y, h \in Nat : x + h = y + h => x = y
      OBVIOUS
  <2>4. blocks[j].at = blocks[i].at
      BY <2>1, <2>2, <2>3, <2>a
  <2>5. j = i
      BY <1>1, <2>4, AtInjective DEF HeapInv
  <2> QED BY <1>1, <2>5
<1> HIDE DEF p
<1>8. /\ \A a \in DOMAIN held : \E c \in InUse(blocks) : ptr(c) = a /\ held[a] <= c.size
      /\ \A c \in InUse(blocks) : ptr(c) \in DOMAIN held
      /\ DOMAIN held \subseteq Nat /\ \A a \in DOMAIN held : held[a] \in Size
    BY DEF HeapInv, HeldInUse, KmallocTypeOK
<1>9. ASSUME NEW a \in DOMAIN held'
      PROVE  \E c \in InUse(blocks') : ptr(c) = a /\ held'[a] <= c.size
  <2>1. CASE a = p
    <3>1. held'[a] = n /\ n <= b.size
        BY <1>1, <1>3, <1>5, <2>1 DEF Block
    <3> QED BY <1>3, <1>4, <2>1, <3>1
  <2>2. CASE a # p
    <3>1. a \in DOMAIN held /\ held'[a] = held[a]
        BY <1>5, <2>2
    <3> QED BY <1>3, <1>8, <3>1
  <2> QED BY <2>1, <2>2
<1>10. ASSUME NEW c \in InUse(blocks') PROVE ptr(c) \in DOMAIN held'
    BY <1>3, <1>4, <1>5, <1>8
<1>11. HeldInUse'
    BY <1>9, <1>10 DEF HeldInUse
<1>12. DOMAIN held \subseteq DOMAIN held' /\ DOMAIN held' \subseteq Nat
    BY <1>5, <1>6, <1>8
<1>13. \A a \in DOMAIN held' : held'[a] \in Size
    BY <1>5, <1>8
<1> QED BY <1>2, <1>11, <1>12, <1>13

(* Taking an area back, in kfree and in krealloc: only that area           *)
(* disappears, and the heap stays sound.                                   *)
LEMMA ReleaseKeeps ==
    ASSUME HeapInv, NEW a \in DOMAIN held, Release(a)
    PROVE  /\ blocks' \in Seq(Block) /\ Tiles(blocks') /\ NoFreeNeighbours(blocks')
           /\ HeldInUse'
           /\ DOMAIN held' = DOMAIN held \ {a}
           /\ \A x \in DOMAIN held' : held'[x] \in Size
<1>1. PICK i \in DOMAIN blocks : /\ ptr(blocks[i]) = a
                                 /\ blocks' = kmerge([blocks EXCEPT ![i].free = 1], i)
    BY DEF Release
<1> DEFINE s == [blocks EXCEPT ![i].free = 1]
<1>2. blocks \in Seq(Block) /\ Tiles(blocks) /\ NoFreeNeighbours(blocks)
      /\ Len(blocks) \in Nat /\ DOMAIN blocks = 1 .. Len(blocks)
    BY DEF HeapInv, KmallocTypeOK
<1>3. /\ s \in Seq(Block) /\ Tiles(s) /\ Len(s) = Len(blocks) /\ DOMAIN s = 1 .. Len(blocks)
      /\ s[i].free = 1
      /\ \A j \in DOMAIN blocks : j # i => s[j] = blocks[j]
    BY <1>2, FlagFacts
<1>4. InUse(s) = InUse(blocks) \ {blocks[i]}
    BY <1>2, FreeUse
<1>5. blocks' = kmerge(s, i)
    BY <1>1
<1> HIDE DEF s
<1>6. ASSUME NEW j \in 1 .. Len(s) - 1, j # i, j + 1 # i
      PROVE  s[j].free = 0 \/ s[j + 1].free = 0
  <2>1. j \in DOMAIN blocks /\ j + 1 \in DOMAIN blocks
      BY <1>2, <1>3
  <2>2. blocks[j].free = 0 \/ blocks[j + 1].free = 0
      BY <1>2, <1>3 DEF NoFreeNeighbours
  <2> QED BY <1>3, <1>6, <2>1, <2>2
<1>7. i \in DOMAIN s
    BY <1>2, <1>3
<1>8. /\ blocks' \in Seq(Block) /\ Tiles(blocks') /\ NoFreeNeighbours(blocks')
      /\ InUse(blocks') = InUse(blocks) \ {blocks[i]}
    BY <1>3, <1>4, <1>5, <1>6, <1>7, MergeFacts
<1>9. held' = [x \in DOMAIN held \ {a} |-> held[x]]
    BY DEF Release
<1>10. /\ \A x \in DOMAIN held : \E c \in InUse(blocks) : ptr(c) = x /\ held[x] <= c.size
       /\ \A c \in InUse(blocks) : ptr(c) \in DOMAIN held
       /\ \A x \in DOMAIN held : held[x] \in Size
    BY DEF HeapInv, HeldInUse, KmallocTypeOK
<1>11. \A c \in InUse(blocks) : ptr(c) = a => c = blocks[i]
  <2> SUFFICES ASSUME NEW j \in DOMAIN blocks, ptr(blocks[j]) = a
               PROVE  blocks[j] = blocks[i]
      BY DEF InUse
  <2>1. blocks[j] \in Block /\ blocks[i] \in Block /\ HDR \in Nat
      BY <1>2, KmallocAssumption
  <2>2. blocks[j].at \in Nat /\ blocks[i].at \in Nat
      BY <2>1 DEF Block
  <2>3. blocks[j].at + HDR = blocks[i].at + HDR
      BY <1>1 DEF ptr
  <2>4. blocks[j].at = blocks[i].at
      BY <2>1, <2>2, <2>3
  <2> QED BY <1>2, <2>4, AtInjective
<1>12. ASSUME NEW x \in DOMAIN held'
       PROVE  \E c \in InUse(blocks') : ptr(c) = x /\ held'[x] <= c.size
  <2>1. x \in DOMAIN held /\ x # a /\ held'[x] = held[x]
      BY <1>9
  <2>2. PICK c \in InUse(blocks) : ptr(c) = x /\ held[x] <= c.size
      BY <1>10, <2>1
  <2>3. c # blocks[i]
      BY <1>1, <2>1, <2>2
  <2> QED BY <1>8, <2>1, <2>2, <2>3
<1>13. ASSUME NEW c \in InUse(blocks') PROVE ptr(c) \in DOMAIN held'
    BY <1>8, <1>9, <1>10, <1>11
<1>14. HeldInUse'
    BY <1>12, <1>13 DEF HeldInUse
<1>15. DOMAIN held' = DOMAIN held \ {a} /\ \A x \in DOMAIN held' : held'[x] \in Size
    BY <1>9, <1>10
<1> QED BY <1>8, <1>14, <1>15

(* The heap invariant holds after any number of kmalloc, kfree and         *)
(* krealloc: the blocks always tile the heap, the areas handed out are     *)
(* exactly the blocks in use, and kmerge leaves no free neighbours.        *)
THEOREM HeapAlwaysSound == Spec => []HeapInv
<1>1. kmalloc_initialize => HeapInv
  <2> SUFFICES ASSUME kmalloc_initialize PROVE HeapInv
      OBVIOUS
  <2> DEFINE m == HEAP_SIZE - HDR
             b == [at |-> 0, size |-> m, free |-> 1]
  <2>1. m \in Nat /\ 0 + HDR + m = HEAP_SIZE
      BY KmallocAssumption
  <2>2. blocks = <<b>> /\ DOMAIN held = {} /\ moving = {} /\ panicked = 0
      BY DEF kmalloc_initialize
  <2> HIDE DEF m
  <2>3. b \in Block /\ b.at = 0 /\ b.free = 1 /\ end(b) = HEAP_SIZE
      BY <2>1 DEF Block, end
  <2> HIDE DEF b
  <2>4. blocks \in Seq(Block) /\ Len(blocks) = 1 /\ DOMAIN blocks = {1} /\ blocks[1] = b
      BY <2>2, <2>3
  <2>5. Tiles(blocks)
    <3>0. blocks # <<>>
        BY <2>2
    <3>1. blocks[1].at = 0 /\ end(blocks[Len(blocks)]) = HEAP_SIZE
        BY <2>3, <2>4
    <3>2. \A i \in 1 .. Len(blocks) - 1 : blocks[i + 1].at = end(blocks[i])
        BY <2>4
    <3>3. \A i, j \in DOMAIN blocks : i < j => end(blocks[i]) <= blocks[j].at
        BY <2>4
    <3> QED BY <3>0, <3>1, <3>2, <3>3 DEF Tiles
  <2>6. InUse(blocks) = {}
      BY <2>3, <2>4 DEF InUse
  <2>7. HeldInUse
      BY <2>2, <2>6 DEF HeldInUse
  <2>8. NoFreeNeighbours(blocks)
      BY <2>4 DEF NoFreeNeighbours
  <2>9. KmallocTypeOK
      BY <2>2, <2>4 DEF KmallocTypeOK
  <2> QED BY <2>5, <2>7, <2>8, <2>9 DEF HeapInv
<1>2. HeapInv /\ [Next]_vars => HeapInv'
  <2> SUFFICES ASSUME HeapInv, [Next]_vars PROVE HeapInv'
      OBVIOUS
  <2>0. moving \subseteq DOMAIN held /\ panicked \in {0, 1}
      BY DEF HeapInv, KmallocTypeOK
  <2>1. ASSUME NEW n \in Size, kmalloc(n) PROVE HeapInv'
    <3>1. PICK i \in DOMAIN blocks : First(i, n) /\ Give(i, n)
        BY <2>1 DEF kmalloc
    <3>2. /\ blocks' \in Seq(Block) /\ Tiles(blocks') /\ NoFreeNeighbours(blocks')
          /\ HeldInUse'
          /\ DOMAIN held \subseteq DOMAIN held' /\ DOMAIN held' \subseteq Nat
          /\ \A a \in DOMAIN held' : held'[a] \in Size
        BY <3>1, GiveKeeps
    <3>3. moving' \subseteq DOMAIN held' /\ panicked' \in {0, 1}
        BY <2>0, <2>1, <3>2 DEF kmalloc
    <3> QED BY <3>2, <3>3 DEF HeapInv, KmallocTypeOK
  <2>2. ASSUME NEW n \in Size, kmalloc_panic(n) PROVE HeapInv'
      BY <2>2 DEF kmalloc_panic, HeapInv, KmallocTypeOK, HeldInUse
  <2>3. ASSUME NEW a \in DOMAIN held, kfree(a) PROVE HeapInv'
    <3>1. /\ blocks' \in Seq(Block) /\ Tiles(blocks') /\ NoFreeNeighbours(blocks')
          /\ HeldInUse' /\ DOMAIN held' = DOMAIN held \ {a}
          /\ \A x \in DOMAIN held' : held'[x] \in Size
        BY <2>3, ReleaseKeeps DEF kfree
    <3>2. moving' \subseteq DOMAIN held' /\ panicked' \in {0, 1} /\ DOMAIN held' \subseteq Nat
        BY <2>0, <2>3, <3>1 DEF kfree, HeapInv, KmallocTypeOK
    <3> QED BY <3>1, <3>2 DEF HeapInv, KmallocTypeOK
  <2>4. ASSUME NEW a \in DOMAIN held, NEW n \in Size, krealloc(a, n) PROVE HeapInv'
    <3>1. PICK i \in DOMAIN blocks : First(i, n) /\ Give(i, n)
        BY <2>4 DEF krealloc
    <3>2. /\ blocks' \in Seq(Block) /\ Tiles(blocks') /\ NoFreeNeighbours(blocks')
          /\ HeldInUse'
          /\ DOMAIN held \subseteq DOMAIN held' /\ DOMAIN held' \subseteq Nat
          /\ \A x \in DOMAIN held' : held'[x] \in Size
        BY <3>1, GiveKeeps
    <3>3. moving' \subseteq DOMAIN held' /\ panicked' \in {0, 1}
        BY <2>0, <2>4, <3>2 DEF krealloc
    <3> QED BY <3>2, <3>3 DEF HeapInv, KmallocTypeOK
  <2>5. ASSUME NEW a \in DOMAIN held, krealloc_free(a) PROVE HeapInv'
    <3>1. /\ blocks' \in Seq(Block) /\ Tiles(blocks') /\ NoFreeNeighbours(blocks')
          /\ HeldInUse' /\ DOMAIN held' = DOMAIN held \ {a}
          /\ \A x \in DOMAIN held' : held'[x] \in Size
        BY <2>5, ReleaseKeeps DEF krealloc_free
    <3>2. moving' \subseteq DOMAIN held' /\ panicked' \in {0, 1} /\ DOMAIN held' \subseteq Nat
        BY <2>0, <2>5, <3>1 DEF krealloc_free, HeapInv, KmallocTypeOK
    <3> QED BY <3>1, <3>2 DEF HeapInv, KmallocTypeOK
  <2>6. CASE UNCHANGED vars
      BY <2>6 DEF vars, HeapInv, KmallocTypeOK, HeldInUse
  <2> QED BY <2>1, <2>2, <2>3, <2>4, <2>5, <2>6 DEF Next
<1> QED BY <1>1, <1>2, PTL DEF Spec

(* No two areas that kmalloc or krealloc has handed out ever share a byte. *)
THEOREM AreasAlwaysDisjoint == Spec => []AreasDisjoint
<1>1. HeapInv => AreasDisjoint
  <2> SUFFICES ASSUME HeapInv, NEW a \in DOMAIN held, NEW b \in DOMAIN held, a < b
               PROVE  a + held[a] <= b
      BY DEF AreasDisjoint
  <2>0. /\ blocks \in Seq(Block) /\ Len(blocks) \in Nat /\ DOMAIN blocks = 1 .. Len(blocks)
        /\ HDR \in Nat /\ HDR > 0
      BY KmallocAssumption DEF HeapInv, KmallocTypeOK
  <2>1. PICK i \in DOMAIN blocks : ptr(blocks[i]) = a /\ held[a] <= blocks[i].size
      BY DEF HeapInv, HeldInUse, InUse
  <2>2. PICK j \in DOMAIN blocks : ptr(blocks[j]) = b
      BY DEF HeapInv, HeldInUse, InUse
  <2>3. blocks[i] \in Block /\ blocks[j] \in Block
      BY <2>0
  <2>4. /\ blocks[i].at \in Nat /\ blocks[i].size \in Nat
        /\ blocks[j].at \in Nat /\ blocks[j].size \in Nat
      BY <2>3 DEF Block
  <2>5. held[a] \in Nat
      BY KmallocAssumption DEF HeapInv, KmallocTypeOK
  <2>6. a = blocks[i].at + HDR /\ b = blocks[j].at + HDR
      BY <2>1, <2>2 DEF ptr
  <2>7. i # j
      BY <2>0, <2>4, <2>6
  <2>8. /\ i < j => blocks[i].at + HDR + blocks[i].size <= blocks[j].at
        /\ j < i => blocks[j].at + HDR + blocks[j].size <= blocks[i].at
      BY DEF HeapInv, Tiles, end
  <2>9. ~(j < i)
      BY <2>0, <2>4, <2>6, <2>8
  <2>10. blocks[i].at + HDR + blocks[i].size <= blocks[j].at
      BY <2>0, <2>7, <2>8, <2>9
  <2>11. \A x, y, h, n, m \in Nat : n <= m /\ x + h + m <= y => (x + h) + n <= y + h
      OBVIOUS
  <2> QED BY <2>0, <2>1, <2>4, <2>5, <2>6, <2>10, <2>11, SMTT(30)
<1> QED BY <1>1, HeapAlwaysSound, PTL
=============================================================================
