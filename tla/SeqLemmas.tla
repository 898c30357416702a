------------------------------ MODULE SeqLemmas ------------------------------
(***************************************************************************)
(* Facts about the sequences the models use for the kernel's lists: what   *)
(* klist_add_back, klist_del and a rotation do to the set of elements and  *)
(* to the absence of duplicates.                                           *)
(***************************************************************************)
EXTENDS Naturals, SequencesExt, SequenceTheorems, TLAPS

(* Appending an element, klist_add_back: it becomes one more element, and  *)
(* a list without duplicates stays so if the element was not on it.        *)
LEMMA AppendFacts ==
    ASSUME NEW S, NEW s \in Seq(S), NEW e \in S
    PROVE  /\ Append(s, e) \in Seq(S)
           /\ Range(Append(s, e)) = Range(s) \cup {e}
           /\ IsInjective(s) /\ e \notin Range(s) => IsInjective(Append(s, e))
<1>1. Append(s, e) \in Seq(S) /\ Len(Append(s, e)) = Len(s) + 1
      /\ DOMAIN Append(s, e) = 1 .. Len(s) + 1 /\ DOMAIN s = 1 .. Len(s)
      /\ Len(s) \in Nat
    OBVIOUS
<1>2. \A i \in 1 .. Len(s) + 1 :
        Append(s, e)[i] = IF i <= Len(s) THEN s[i] ELSE e
    OBVIOUS
<1>3. Range(Append(s, e)) = Range(s) \cup {e}
    BY <1>1, <1>2 DEF Range
<1>4. ASSUME IsInjective(s), e \notin Range(s) PROVE IsInjective(Append(s, e))
    BY <1>1, <1>2, <1>4 DEF Range, IsInjective
<1> QED BY <1>1, <1>3, <1>4

(* Removing the element at position i, klist_del: the others keep their    *)
(* order, and on a list without duplicates only that element disappears.   *)
LEMMA RemoveAtFacts ==
    ASSUME NEW S, NEW s \in Seq(S), NEW i \in DOMAIN s
    PROVE  /\ RemoveAt(s, i) \in Seq(S)
           /\ Len(RemoveAt(s, i)) = Len(s) - 1
           /\ \A j \in 1 .. Len(s) - 1 :
                RemoveAt(s, i)[j] = IF j < i THEN s[j] ELSE s[j + 1]
           /\ IsInjective(s) => /\ IsInjective(RemoveAt(s, i))
                                /\ Range(RemoveAt(s, i)) = Range(s) \ {s[i]}
<1> DEFINE a == SubSeq(s, 1, i - 1)
           b == SubSeq(s, i + 1, Len(s))
<1>0. Len(s) \in Nat /\ DOMAIN s = 1 .. Len(s) /\ i \in 1 .. Len(s)
    OBVIOUS
<1>1. a \in Seq(S) /\ Len(a) = i - 1 /\ \A j \in 1 .. i - 1 : a[j] = s[j]
    BY <1>0
<1>2. b \in Seq(S) /\ Len(b) = Len(s) - i
      /\ \A j \in 1 .. Len(s) - i : b[j] = s[j + i]
    BY <1>0
<1>3. RemoveAt(s, i) = a \o b
    BY DEF RemoveAt
<1> HIDE DEF a, b
<1>c. /\ RemoveAt(s, i) \in Seq(S)
      /\ Len(RemoveAt(s, i)) = Len(a) + Len(b)
      /\ \A j \in 1 .. Len(a) + Len(b) :
            RemoveAt(s, i)[j] = IF j <= Len(a) THEN a[j] ELSE b[j - Len(a)]
    BY <1>1, <1>2, <1>3, ConcatProperties
<1>4. RemoveAt(s, i) \in Seq(S) /\ Len(RemoveAt(s, i)) = Len(s) - 1
    BY <1>0, <1>1, <1>2, <1>c
<1>5. ASSUME NEW j \in 1 .. Len(s) - 1
      PROVE  RemoveAt(s, i)[j] = IF j < i THEN s[j] ELSE s[j + 1]
  <2>1. CASE j < i
      BY <1>0, <1>1, <1>2, <1>c, <2>1
  <2>2. CASE ~(j < i)
    <3>1. /\ j \in 1 .. Len(a) + Len(b) /\ ~(j <= Len(a))
          /\ j - Len(a) \in 1 .. Len(s) - i /\ (j - Len(a)) + i = j + 1
        BY <1>0, <1>1, <1>2, <2>2
    <3>2. RemoveAt(s, i)[j] = b[j - Len(a)]
        BY <1>c, <3>1
    <3>3. b[j - Len(a)] = s[(j - Len(a)) + i]
        BY <1>2, <3>1
    <3> QED BY <2>2, <3>1, <3>2, <3>3
  <2> QED BY <2>1, <2>2
<1>6. DOMAIN RemoveAt(s, i) = 1 .. Len(s) - 1
    BY <1>4, <1>0
<1>7. ASSUME IsInjective(s) PROVE IsInjective(RemoveAt(s, i))
  <2> DEFINE h(j) == IF j < i THEN j ELSE j + 1
  <2>1. ASSUME NEW j \in 1 .. Len(s) - 1, NEW k \in 1 .. Len(s) - 1,
               RemoveAt(s, i)[j] = RemoveAt(s, i)[k]
        PROVE  j = k
    <3>1. h(j) \in DOMAIN s /\ h(k) \in DOMAIN s /\ (h(j) = h(k) => j = k)
        BY <1>0
    <3>2. RemoveAt(s, i)[j] = s[h(j)] /\ RemoveAt(s, i)[k] = s[h(k)]
        BY <1>5
    <3> HIDE DEF h
    <3> QED BY <1>7, <2>1, <3>1, <3>2 DEF IsInjective
  <2> QED BY <1>6, <2>1 DEF IsInjective
<1>8. ASSUME IsInjective(s) PROVE Range(RemoveAt(s, i)) = Range(s) \ {s[i]}
  <2>1. ASSUME NEW j \in 1 .. Len(s) - 1
        PROVE  RemoveAt(s, i)[j] \in Range(s) \ {s[i]}
      BY <1>0, <1>5, <1>8 DEF Range, IsInjective
  <2>2. ASSUME NEW k \in 1 .. Len(s), k # i
        PROVE  \E j \in 1 .. Len(s) - 1 : RemoveAt(s, i)[j] = s[k]
    <3>1. CASE k < i BY <1>0, <1>5, <3>1
    <3>2. CASE k > i
      <4>1. k - 1 \in 1 .. Len(s) - 1 /\ ~(k - 1 < i) /\ (k - 1) + 1 = k
          BY <1>0, <3>2
      <4>2. RemoveAt(s, i)[k - 1] = s[k]
          BY <4>1, <1>5
      <4> QED BY <4>1, <4>2
    <3> QED BY <1>0, <2>2, <3>1, <3>2
  <2>3. Range(RemoveAt(s, i)) = {RemoveAt(s, i)[j] : j \in 1 .. Len(s) - 1}
      BY <1>6 DEF Range
  <2>4. Range(s) = {s[k] : k \in 1 .. Len(s)}
      BY <1>0 DEF Range
  <2>5. ASSUME NEW x \in Range(s) \ {s[i]} PROVE x \in Range(RemoveAt(s, i))
      BY <2>2, <2>3, <2>4, <2>5
  <2> QED BY <2>1, <2>3, <2>5
<1> QED BY <1>4, <1>5, <1>7, <1>8

(* Taking the head off, klist_first_elem and klist_del. *)
LEMMA TailFacts ==
    ASSUME NEW S, NEW s \in Seq(S), s # <<>>
    PROVE  /\ Head(s) \in S /\ Head(s) \in Range(s) /\ Tail(s) \in Seq(S)
           /\ Len(Tail(s)) = Len(s) - 1
           /\ IsInjective(s) => /\ IsInjective(Tail(s))
                                /\ Range(Tail(s)) = Range(s) \ {Head(s)}
<1>1. Len(s) \in Nat /\ DOMAIN s = 1 .. Len(s) /\ Len(s) > 0 /\ Head(s) = s[1]
    OBVIOUS
<1>2. Tail(s) \in Seq(S) /\ Len(Tail(s)) = Len(s) - 1
      /\ DOMAIN Tail(s) = 1 .. Len(s) - 1
    BY <1>1
<1>3. \A j \in 1 .. Len(s) - 1 : Tail(s)[j] = s[j + 1]
    BY <1>1
<1>4. Head(s) \in S /\ Head(s) \in Range(s)
    BY <1>1 DEF Range
<1>5. ASSUME IsInjective(s) PROVE IsInjective(Tail(s))
    BY <1>1, <1>2, <1>3, <1>5 DEF IsInjective
<1>6. ASSUME IsInjective(s) PROVE Range(Tail(s)) = Range(s) \ {Head(s)}
  <2>1. ASSUME NEW j \in 1 .. Len(s) - 1
        PROVE  Tail(s)[j] \in Range(s) \ {Head(s)}
      BY <1>1, <1>3, <1>6 DEF Range, IsInjective
  <2>2. ASSUME NEW k \in 1 .. Len(s), k # 1
        PROVE  \E j \in 1 .. Len(s) - 1 : Tail(s)[j] = s[k]
    <3>1. k - 1 \in 1 .. Len(s) - 1 /\ (k - 1) + 1 = k
        BY <1>1, <2>2
    <3> QED BY <3>1, <1>3
  <2>3. Range(Tail(s)) = {Tail(s)[j] : j \in 1 .. Len(s) - 1}
      BY <1>2 DEF Range
  <2>4. Range(s) = {s[k] : k \in 1 .. Len(s)}
      BY <1>1 DEF Range
  <2>5. ASSUME NEW x \in Range(s) \ {Head(s)} PROVE x \in Range(Tail(s))
      BY <1>1, <2>2, <2>3, <2>4, <2>5
  <2> QED BY <2>1, <2>3, <2>5
<1> QED BY <1>2, <1>4, <1>5, <1>6

(* Moving the head to the back, what scheduler_elect does to the run list: *)
(* the same elements, still without duplicates.                            *)
LEMMA RotateFacts ==
    ASSUME NEW S, NEW s \in Seq(S), s # <<>>, IsInjective(s)
    PROVE  /\ Append(Tail(s), Head(s)) \in Seq(S)
           /\ Len(Append(Tail(s), Head(s))) = Len(s)
           /\ Range(Append(Tail(s), Head(s))) = Range(s)
           /\ IsInjective(Append(Tail(s), Head(s)))
<1>1. /\ Head(s) \in S /\ Head(s) \in Range(s) /\ Tail(s) \in Seq(S)
      /\ Len(Tail(s)) = Len(s) - 1
      /\ IsInjective(Tail(s)) /\ Range(Tail(s)) = Range(s) \ {Head(s)}
    BY TailFacts
<1>2. Len(s) \in Nat
    OBVIOUS
<1>3. /\ Append(Tail(s), Head(s)) \in Seq(S)
      /\ Range(Append(Tail(s), Head(s))) = Range(Tail(s)) \cup {Head(s)}
      /\ IsInjective(Append(Tail(s), Head(s)))
  <2> DEFINE u == Tail(s)
             h == Head(s)
  <2>1. u \in Seq(S) /\ h \in S /\ h \notin Range(u) /\ IsInjective(u)
      BY <1>1
  <2> HIDE DEF u, h
  <2>2. /\ Append(u, h) \in Seq(S) /\ Range(Append(u, h)) = Range(u) \cup {h}
        /\ IsInjective(Append(u, h))
      BY <2>1, AppendFacts
  <2> QED BY <2>2 DEF u, h
<1>4. Len(Append(Tail(s), Head(s))) = Len(s)
    BY <1>1, <1>2
<1> QED BY <1>1, <1>3, <1>4
=============================================================================
