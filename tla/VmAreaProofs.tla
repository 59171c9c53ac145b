---------------------------- MODULE VmAreaProofs ----------------------------
(***************************************************************************)
(* Proofs about VmArea, for a region of any size and any lengths and       *)
(* addresses: between any two passes of the loops of munmap and mprotect   *)
(* the list of areas is sorted, disjoint and coalesced, the cursor stands  *)
(* on the area it should, and the count of areas is the length of the list.*)
(* The second half of the module shows what the list says of an address    *)
(* (Holds), what each edit changes of that, and so that mmap serves its    *)
(* request and that VmArea implements AddrSpace.                           *)
(***************************************************************************)
EXTENDS VmArea, SequenceTheorems, TLAPS

Flags == Prots \cup {PROT_NONE}

Rec == [vm_start : Int, vm_end : Int, access_flags : Flags]

\* An area lies in the region, is not empty and ends on a page boundary.
\* Where it starts, a hint may have decided.
AreaOK(a) ==
  /\ MMAP_AREA_START <= a.vm_start
  /\ a.vm_start < a.vm_end
  /\ a.vm_end <= MMAP_AREA_END
  /\ a.vm_end % PAGE = 0

\* SortedDisjoint for any two areas, and not only for neighbours: the
\* induction that connects the two is done once, step by step, by the program.
Sorted(list) ==
  /\ list \in Seq(Rec)
  /\ \A i \in 1..Len(list) : AreaOK(list[i])
  /\ \A i, j \in 1..Len(list) : i < j => list[i].vm_end <= list[j].vm_start

Apart(list) == \A i \in 1..(Len(list) - 1) : ~Mergeable(list[i], list[i + 1])

\* The cursor c of a loop over list: on an area, and either on a page
\* boundary or on the first address of the area.
CursorOK(list, c) ==
  /\ c.vm \in 1..Len(list)
  /\ list[c.vm].vm_start <= c.caddr
  /\ c.caddr < list[c.vm].vm_end
  /\ c.caddr < c.end
  /\ c.end % PAGE = 0
  /\ c.caddr % PAGE = 0 \/ c.caddr = list[c.vm].vm_start

Inv ==
  /\ Sorted(vm_area)
  /\ Apart(vm_area)
  /\ call \in Calls
  /\ call # Idle => CursorOK(vm_area, call)
  /\ num_vm_area = Len(vm_area)
  /\ ret \in Int
  /\ asked \in [length : Nat, prot : Flags]
  /\ halted \in {"no", "null prev_vma"}

-----------------------------------------------------------------------------
(* Sequences.                                                              *)

LEMMA InsertFacts ==
  ASSUME NEW S, NEW s \in Seq(S), NEW i \in 0..Len(s), NEW a \in S,
         NEW t, t = InsertAt(s, i + 1, a)
  PROVE  /\ t \in Seq(S)
         /\ Len(t) = Len(s) + 1
         /\ \A k \in 1..(Len(s) + 1) :
              t[k] = IF k <= i THEN s[k] ELSE IF k = i + 1 THEN a ELSE s[k - 1]
<1> DEFINE n == Len(s)
           m == i + 1
           low == SubSeq(s, 1, i)
           high == SubSeq(s, m, n)
           mid == <<a>>
<1>1. n \in Nat /\ i \in Nat /\ i <= n /\ m = i + 1 /\ m \in Int /\ n \in Int
  BY LenProperties
<1>2. (\A k \in 1..i : s[k] \in S) /\ (\A k \in m..n : s[k] \in S)
  BY <1>1, ElementOfSeq
<1>3. mid \in Seq(S) /\ Len(mid) = 1 /\ mid[1] = a
  OBVIOUS
<1>4. t = low \o mid \o high
  <2>1. m - 1 = i
    BY <1>1
  <2> QED BY <2>1 DEF InsertAt
<1> HIDE DEF n, m, mid
<1>5. /\ low \in Seq(S)
      /\ Len(low) = i
      /\ \A k \in 1..i : low[k] = s[k]
  BY <1>1, <1>2, SubSeqProperties
<1>6. /\ high \in Seq(S)
      /\ Len(high) = n - i
      /\ \A k \in 1..(n - i) : high[k] = s[i + k]
  <2>1. /\ high \in Seq(S)
        /\ Len(high) = IF m <= n THEN n - m + 1 ELSE 0
        /\ \A k \in 1..(n - m + 1) : high[k] = s[m + k - 1]
    BY <1>1, <1>2, SubSeqProperties
  <2> HIDE DEF high
  <2>2. Len(high) = n - i
    BY <1>1, <2>1
  <2>3. ASSUME NEW k \in 1..(n - i) PROVE high[k] = s[i + k]
    <3>1. k \in 1..(n - m + 1) /\ m + k - 1 = i + k
      BY <1>1
    <3>2. high[k] = s[m + k - 1]
      BY <2>1, <3>1
    <3> QED BY <3>1, <3>2
  <2> QED BY <2>1, <2>2, <2>3
<1> HIDE DEF low, high
<1> DEFINE u == low \o mid
<1>7. /\ u \in Seq(S) /\ Len(u) = i + 1
      /\ \A k \in 1..(i + 1) : u[k] = IF k <= i THEN low[k] ELSE mid[k - i]
  <2> HIDE DEF u
  <2>1. /\ u \in Seq(S) /\ Len(u) = Len(low) + Len(mid)
        /\ \A k \in 1..(Len(low) + Len(mid)) :
             u[k] = IF k <= Len(low) THEN low[k] ELSE mid[k - Len(low)]
    BY <1>3, <1>5, ConcatProperties DEF u
  <2> QED BY <1>3, <1>5, <2>1
<1> HIDE DEF u
<1>8. /\ t \in Seq(S) /\ Len(t) = n + 1
      /\ \A k \in 1..(n + 1) : t[k] = IF k <= i + 1 THEN u[k] ELSE high[k - (i + 1)]
  <2>1. t = u \o high
    BY <1>4 DEF u
  <2>2. /\ t \in Seq(S) /\ Len(t) = Len(u) + Len(high)
        /\ \A k \in 1..(Len(u) + Len(high)) :
             t[k] = IF k <= Len(u) THEN u[k] ELSE high[k - Len(u)]
    <3>1. u \in Seq(S) /\ high \in Seq(S)
      BY <1>6, <1>7
    <3>2. /\ u \o high \in Seq(S) /\ Len(u \o high) = Len(u) + Len(high)
          /\ \A k \in 1..(Len(u) + Len(high)) :
               (u \o high)[k] = IF k <= Len(u) THEN u[k] ELSE high[k - Len(u)]
      BY <3>1, ConcatProperties, Zenon
    <3> QED BY <2>1, <3>2, Zenon
  <2>3. Len(u) + Len(high) = n + 1
    BY <1>1, <1>6, <1>7
  <2> QED BY <1>7, <2>2, <2>3
<1>9. ASSUME NEW k \in 1..(n + 1)
      PROVE  t[k] = IF k <= i THEN s[k] ELSE IF k = i + 1 THEN a ELSE s[k - 1]
  <2>1. CASE k <= i
    BY <1>1, <1>5, <1>7, <1>8, <2>1
  <2>2. CASE k = i + 1
    <3>1. k - i = 1 /\ ~(k <= i)
      BY <1>1, <2>2
    <3> QED BY <1>1, <1>3, <1>7, <1>8, <2>2, <3>1
  <2>3. CASE k > i + 1
    <3>1. k - (i + 1) \in 1..(n - i) /\ i + (k - (i + 1)) = k - 1
      BY <1>1, <2>3
    <3>2. high[k - (i + 1)] = s[k - 1]
      BY <1>6, <3>1
    <3> QED BY <1>1, <1>8, <2>3, <3>2
  <2> QED BY <1>1, <2>1, <2>2, <2>3
<1> QED BY <1>8, <1>9 DEF n

LEMMA RemoveFacts ==
  ASSUME NEW S, NEW s \in Seq(S), NEW i \in 1..Len(s),
         NEW t, t = RemoveAt(s, i)
  PROVE  /\ t \in Seq(S)
         /\ Len(t) = Len(s) - 1
         /\ \A k \in 1..(Len(s) - 1) : t[k] = IF k < i THEN s[k] ELSE s[k + 1]
<1> DEFINE n == Len(s)
           l == i - 1
           m == i + 1
           low == SubSeq(s, 1, l)
           high == SubSeq(s, m, n)
<1>1. n \in Nat /\ i \in Nat /\ 1 <= i /\ i <= n /\ m = i + 1 /\ l = i - 1
      /\ l \in Int /\ m \in Int /\ n \in Int
  BY LenProperties
<1>2. (\A k \in 1..l : s[k] \in S) /\ (\A k \in m..n : s[k] \in S)
  BY <1>1, ElementOfSeq
<1>3. t = low \o high
  BY DEF RemoveAt
<1> HIDE DEF n, l, m
<1>4. /\ low \in Seq(S)
      /\ Len(low) = l
      /\ \A k \in 1..l : low[k] = s[k]
  <2>1. /\ low \in Seq(S)
        /\ Len(low) = IF 1 <= l THEN l - 1 + 1 ELSE 0
        /\ \A k \in 1..(l - 1 + 1) : low[k] = s[1 + k - 1]
    BY <1>1, <1>2, SubSeqProperties
  <2> HIDE DEF low
  <2> QED BY <1>1, <2>1
<1>5. /\ high \in Seq(S)
      /\ Len(high) = n - i
      /\ \A k \in 1..(n - i) : high[k] = s[i + k]
  <2>1. /\ high \in Seq(S)
        /\ Len(high) = IF m <= n THEN n - m + 1 ELSE 0
        /\ \A k \in 1..(n - m + 1) : high[k] = s[m + k - 1]
    BY <1>1, <1>2, SubSeqProperties
  <2> HIDE DEF high
  <2>2. Len(high) = n - i
    BY <1>1, <2>1
  <2>3. ASSUME NEW k \in 1..(n - i) PROVE high[k] = s[i + k]
    <3>1. k \in 1..(n - m + 1) /\ m + k - 1 = i + k
      BY <1>1
    <3>2. high[k] = s[m + k - 1]
      BY <2>1, <3>1
    <3> QED BY <3>1, <3>2
  <2> QED BY <2>1, <2>2, <2>3
<1> HIDE DEF low, high
<1>6. /\ t \in Seq(S) /\ Len(t) = n - 1
      /\ \A k \in 1..(n - 1) : t[k] = IF k <= l THEN low[k] ELSE high[k - l]
  <2>1. /\ t \in Seq(S) /\ Len(t) = Len(low) + Len(high)
        /\ \A k \in 1..(Len(low) + Len(high)) :
             t[k] = IF k <= Len(low) THEN low[k] ELSE high[k - Len(low)]
    BY <1>3, <1>4, <1>5, ConcatProperties
  <2>2. Len(low) + Len(high) = n - 1
    BY <1>1, <1>4, <1>5
  <2> QED BY <1>4, <2>1, <2>2
<1>7. ASSUME NEW k \in 1..(n - 1)
      PROVE  t[k] = IF k < i THEN s[k] ELSE s[k + 1]
  <2>1. CASE k < i
    BY <1>1, <1>4, <1>6, <2>1
  <2>2. CASE ~(k < i)
    <3>1. k - l \in 1..(n - i) /\ i + (k - l) = k + 1 /\ ~(k <= l)
      BY <1>1, <2>2
    <3>2. high[k - l] = s[k + 1]
      BY <1>5, <3>1
    <3> QED BY <1>1, <1>6, <2>2, <3>1, <3>2
  <2> QED BY <2>1, <2>2
<1> QED BY <1>6, <1>7 DEF n

-----------------------------------------------------------------------------
(* Edits of a sorted list.                                                 *)

\* The room around area i: from the end of the area below it to the start
\* of the area above it.
Floor(list, i) == IF i > 1 THEN list[i - 1].vm_end ELSE MMAP_AREA_START

\* What being sorted says of every area and every pair of them.
LEMMA SortedFacts ==
  ASSUME NEW list, Sorted(list)
  PROVE  /\ list \in Seq(Rec)
         /\ Len(list) \in Nat
         /\ \A k \in 1..Len(list) :
              /\ list[k] \in Rec /\ AreaOK(list[k])
              /\ list[k].vm_start \in Int /\ list[k].vm_end \in Int
              /\ list[k].vm_start < list[k].vm_end
         /\ \A j, k \in 1..Len(list) : j < k => list[j].vm_end <= list[k].vm_start
<1>1. list \in Seq(Rec) /\ Len(list) \in Nat
  BY LenProperties DEF Sorted
<1>2. ASSUME NEW k \in 1..Len(list)
      PROVE  /\ list[k] \in Rec /\ AreaOK(list[k])
             /\ list[k].vm_start \in Int /\ list[k].vm_end \in Int
             /\ list[k].vm_start < list[k].vm_end
  <2>1. list[k] \in Rec
    BY <1>1, ElementOfSeq
  <2>2. AreaOK(list[k])
    BY DEF Sorted
  <2> QED BY <2>1, <2>2 DEF Rec, AreaOK
<1> QED BY <1>1, <1>2 DEF Sorted

\* Area i is replaced by one that stays in the room around it.
LEMMA ReplaceFacts ==
  ASSUME NEW list, Sorted(list), NEW i \in 1..Len(list),
         NEW a \in Rec, AreaOK(a),
         Floor(list, i) <= a.vm_start, a.vm_end <= GapEnd(list, i),
         NEW new, new = [list EXCEPT ![i] = a]
  PROVE  /\ Sorted(new)
         /\ Len(new) = Len(list)
         /\ \A k \in 1..Len(list) : new[k] = IF k = i THEN a ELSE list[k]
<1>1. /\ list \in Seq(Rec)
      /\ \A k \in 1..Len(list) : AreaOK(list[k])
      /\ \A j, k \in 1..Len(list) : j < k => list[j].vm_end <= list[k].vm_start
      /\ Len(list) \in Nat
  BY SortedFacts
<1>2. /\ new \in Seq(Rec)
      /\ Len(new) = Len(list)
      /\ \A k \in 1..Len(list) : new[k] = IF k = i THEN a ELSE list[k]
  BY <1>1, ExceptSeq
<1>3. \A k \in 1..Len(list) :
        list[k].vm_start \in Int /\ list[k].vm_end \in Int /\ list[k].vm_start < list[k].vm_end
  BY SortedFacts
<1>4. a.vm_start \in Int /\ a.vm_end \in Int
  BY DEF Rec
<1>5. ASSUME NEW j \in 1..Len(list), NEW k \in 1..Len(list), j < k
      PROVE  new[j].vm_end <= new[k].vm_start
  <2>1. CASE j = i
    <3>1. a.vm_end <= list[i + 1].vm_start /\ i + 1 \in 1..Len(list)
      BY <1>1, <1>5, <2>1 DEF GapEnd
    <3>2. list[i + 1].vm_start <= list[k].vm_start
      <4>1. CASE k = i + 1
        BY <1>3, <3>1, <4>1
      <4>2. CASE i + 1 < k
        <5>1. list[i + 1].vm_end <= list[k].vm_start
          BY <1>1, <3>1, <4>2
        <5>2. /\ list[i + 1].vm_start \in Int /\ list[i + 1].vm_end \in Int
              /\ list[k].vm_start \in Int /\ list[i + 1].vm_start < list[i + 1].vm_end
          BY <1>3, <3>1
        <5> QED BY <5>1, <5>2
      <4> QED BY <1>1, <1>5, <2>1, <4>1, <4>2
    <3> QED BY <1>2, <1>3, <1>4, <1>5, <2>1, <3>1, <3>2
  <2>2. CASE k = i
    <3>1. list[i - 1].vm_end <= a.vm_start /\ i - 1 \in 1..Len(list)
      BY <1>1, <1>5, <2>2 DEF Floor
    <3>2. list[j].vm_end <= list[i - 1].vm_end
      <4>1. CASE j = i - 1
        BY <1>3, <3>1, <4>1
      <4>2. CASE j < i - 1
        BY <1>1, <1>3, <3>1, <4>2
      <4> QED BY <1>1, <1>5, <2>2, <4>1, <4>2
    <3> QED BY <1>2, <1>3, <1>4, <1>5, <2>2, <3>1, <3>2
  <2>3. CASE j # i /\ k # i
    BY <1>1, <1>2, <1>5, <2>3
  <2> QED BY <2>1, <2>2, <2>3
<1>6. \A k \in 1..Len(list) : AreaOK(new[k])
  BY <1>1, <1>2
<1> QED BY <1>2, <1>5, <1>6 DEF Sorted

\* The same, behind a name: an EXCEPT in sight makes the provers slow.
Put(list, i, a) == [list EXCEPT ![i] = a]

LEMMA PutFacts ==
  ASSUME NEW list, Sorted(list), NEW i \in 1..Len(list),
         NEW a \in Rec, AreaOK(a),
         Floor(list, i) <= a.vm_start, a.vm_end <= GapEnd(list, i),
         NEW new, new = Put(list, i, a)
  PROVE  /\ Sorted(new)
         /\ Len(new) = Len(list)
         /\ \A k \in 1..Len(list) : new[k] = IF k = i THEN a ELSE list[k]
<1> DEFINE put == [list EXCEPT ![i] = a]
<1>1. /\ Sorted(put)
      /\ Len(put) = Len(list)
      /\ \A k \in 1..Len(list) : put[k] = IF k = i THEN a ELSE list[k]
  BY ReplaceFacts
<1>2. new = put
  BY DEF Put
<1> HIDE DEF put
<1> QED BY <1>1, <1>2

\* An area is put into the gap above area i.
LEMMA InsertSorted ==
  ASSUME NEW list, Sorted(list), NEW i \in 1..Len(list),
         NEW a \in Rec, AreaOK(a),
         list[i].vm_end <= a.vm_start, a.vm_end <= GapEnd(list, i),
         NEW new, new = InsertAt(list, i + 1, a)
  PROVE  /\ Sorted(new)
         /\ Len(new) = Len(list) + 1
         /\ \A k \in 1..(Len(list) + 1) :
              new[k] = IF k <= i THEN list[k] ELSE IF k = i + 1 THEN a ELSE list[k - 1]
<1>1. /\ list \in Seq(Rec)
      /\ \A k \in 1..Len(list) : AreaOK(list[k])
      /\ \A j, k \in 1..Len(list) : j < k => list[j].vm_end <= list[k].vm_start
      /\ Len(list) \in Nat
  BY SortedFacts
<1>2. /\ new \in Seq(Rec)
      /\ Len(new) = Len(list) + 1
      /\ \A k \in 1..(Len(list) + 1) :
           new[k] = IF k <= i THEN list[k] ELSE IF k = i + 1 THEN a ELSE list[k - 1]
  <2>1. i \in 0..Len(list) /\ list \in Seq(Rec)
    BY <1>1
  <2> QED BY <2>1, InsertFacts
<1>3. \A k \in 1..Len(list) :
        list[k].vm_start \in Int /\ list[k].vm_end \in Int /\ list[k].vm_start < list[k].vm_end
  BY SortedFacts
<1>4. a.vm_start \in Int /\ a.vm_end \in Int /\ a.vm_start < a.vm_end
  BY DEF Rec, AreaOK
<1>5. \A k \in 1..Len(list) : k <= i => list[k].vm_end <= a.vm_start
  <2>1. ASSUME NEW k \in 1..Len(list), k < i PROVE list[k].vm_end <= a.vm_start
    <3>1. list[k].vm_end <= list[i].vm_start
      BY <1>1, <2>1
    <3>2. /\ list[k].vm_end \in Int /\ list[i].vm_start \in Int /\ list[i].vm_end \in Int
          /\ list[i].vm_start < list[i].vm_end
      BY <1>3
    <3> QED BY <1>4, <3>1, <3>2
  <2> QED BY <1>1, <2>1
<1>6. \A k \in 1..Len(list) : k > i => a.vm_end <= list[k].vm_start
  <2>1. ASSUME NEW k \in 1..Len(list), k > i PROVE a.vm_end <= list[k].vm_start
    <3>1. i + 1 \in 1..Len(list) /\ a.vm_end <= list[i + 1].vm_start
      BY <1>1, <2>1 DEF GapEnd
    <3>2. CASE k = i + 1
      BY <3>1, <3>2
    <3>3. CASE i + 1 < k
      BY <1>1, <1>3, <1>4, <3>1, <3>3
    <3> QED BY <1>1, <2>1, <3>2, <3>3
  <2> QED BY <2>1
<1>7. ASSUME NEW j \in 1..(Len(list) + 1), NEW k \in 1..(Len(list) + 1), j < k
      PROVE  new[j].vm_end <= new[k].vm_start
  <2>1. CASE k <= i
    <3>1. j \in 1..Len(list) /\ k \in 1..Len(list) /\ j <= i
      BY <1>1, <1>7, <2>1
    <3>2. new[j] = list[j] /\ new[k] = list[k]
      BY <1>2, <2>1, <3>1
    <3> QED BY <1>1, <1>7, <3>1, <3>2
  <2>2. CASE k = i + 1
    BY <1>1, <1>2, <1>5, <1>7, <2>2
  <2>3. CASE k > i + 1 /\ j <= i
    <3>1. /\ j \in 1..Len(list) /\ k - 1 \in 1..Len(list) /\ j < k - 1
          /\ ~(k <= i) /\ k # i + 1
      BY <1>1, <1>7, <2>3
    <3>2. new[j] = list[j] /\ new[k] = list[k - 1]
      BY <1>2, <2>3, <3>1
    <3> QED BY <1>1, <3>1, <3>2
  <2>4. CASE k > i + 1 /\ j = i + 1
    BY <1>1, <1>2, <1>6, <1>7, <2>4
  <2>5. CASE k > i + 1 /\ j > i + 1
    <3>1. /\ j - 1 \in 1..Len(list) /\ k - 1 \in 1..Len(list) /\ j - 1 < k - 1
          /\ ~(k <= i) /\ k # i + 1 /\ ~(j <= i) /\ j # i + 1
      BY <1>1, <1>7, <2>5
    <3>2. new[j] = list[j - 1] /\ new[k] = list[k - 1]
      BY <1>2, <3>1
    <3> QED BY <1>1, <3>1, <3>2
  <2> QED BY <1>1, <2>1, <2>2, <2>3, <2>4, <2>5
<1>8. ASSUME NEW k \in 1..(Len(list) + 1) PROVE AreaOK(new[k])
  <2>1. CASE k <= i
    BY <1>1, <1>2, <2>1
  <2>2. CASE k = i + 1
    BY <1>1, <1>2, <2>2
  <2>3. CASE k > i + 1
    <3>1. k - 1 \in 1..Len(list) /\ new[k] = list[k - 1]
      BY <1>1, <1>2, <2>3
    <3> QED BY <1>1, <3>1
  <2> QED BY <1>1, <2>1, <2>2, <2>3
<1> QED BY <1>2, <1>7, <1>8 DEF Sorted

\* An area goes.
LEMMA RemoveSorted ==
  ASSUME NEW list, Sorted(list), NEW i \in 1..Len(list),
         NEW new, new = RemoveAt(list, i)
  PROVE  /\ Sorted(new)
         /\ Len(new) = Len(list) - 1
         /\ \A k \in 1..(Len(list) - 1) : new[k] = IF k < i THEN list[k] ELSE list[k + 1]
<1>1. /\ list \in Seq(Rec)
      /\ \A k \in 1..Len(list) : AreaOK(list[k])
      /\ \A j, k \in 1..Len(list) : j < k => list[j].vm_end <= list[k].vm_start
      /\ Len(list) \in Nat
  BY SortedFacts
<1>2. /\ new \in Seq(Rec)
      /\ Len(new) = Len(list) - 1
      /\ \A k \in 1..(Len(list) - 1) : new[k] = IF k < i THEN list[k] ELSE list[k + 1]
  <2>1. list \in Seq(Rec)
    BY <1>1
  <2> QED BY <2>1, RemoveFacts
<1>3. ASSUME NEW j \in 1..(Len(list) - 1), NEW k \in 1..(Len(list) - 1), j < k
      PROVE  new[j].vm_end <= new[k].vm_start
  <2>1. j \in 1..Len(list) /\ k \in 1..Len(list) /\ j + 1 \in 1..Len(list) /\ k + 1 \in 1..Len(list) /\ j < k + 1 /\ j + 1 < k + 1
    BY <1>1, <1>3
  <2>2. CASE k < i
    BY <1>1, <1>2, <1>3, <2>1, <2>2
  <2>3. CASE ~(k < i) /\ j < i
    BY <1>1, <1>2, <1>3, <2>1, <2>3
  <2>4. CASE ~(k < i) /\ ~(j < i)
    BY <1>1, <1>2, <1>3, <2>1, <2>4
  <2> QED BY <1>1, <1>3, <2>2, <2>3, <2>4
<1>4. ASSUME NEW k \in 1..(Len(list) - 1) PROVE AreaOK(new[k])
  <2>1. k \in 1..Len(list) /\ k + 1 \in 1..Len(list)
    BY <1>1
  <2> QED BY <1>1, <1>2, <2>1
<1> QED BY <1>2, <1>3, <1>4 DEF Sorted

\* Area i takes over area i + 1: the two become one.
LEMMA AbsorbFacts ==
  ASSUME NEW list, Sorted(list), NEW i \in 1..(Len(list) - 1),
         Mergeable(list[i], list[i + 1]),
         NEW new, new = Absorb(list, i)
  PROVE  /\ Sorted(new)
         /\ Len(new) = Len(list) - 1
         /\ \A k \in 1..(Len(list) - 1) :
              new[k] = IF k < i THEN list[k]
                       ELSE IF k = i THEN [list[i] EXCEPT !.vm_end = list[i + 1].vm_end]
                       ELSE list[k + 1]
<1> DEFINE a == [list[i] EXCEPT !.vm_end = list[i + 1].vm_end]
           grown == [list EXCEPT ![i] = a]
           left == RemoveAt(list, i + 1)
           same == [left EXCEPT ![i] = a]
<1>1. /\ list \in Seq(Rec) /\ Len(list) \in Nat
      /\ i \in 1..Len(list) /\ i + 1 \in 1..Len(list)
      /\ list[i] \in Rec /\ AreaOK(list[i])
      /\ list[i + 1] \in Rec /\ AreaOK(list[i + 1])
  BY SortedFacts
<1>2. /\ a \in Rec /\ a.vm_start = list[i].vm_start /\ a.vm_end = list[i + 1].vm_end
      /\ a.access_flags = list[i].access_flags
  BY <1>1 DEF Rec
<1>3. AreaOK(a)
  BY <1>1, <1>2, SMTT(30) DEF AreaOK, Mergeable, Rec
<1>4. new = RemoveAt(grown, i + 1)
  BY DEF Absorb
<1> HIDE DEF a
<1>5. /\ grown \in Seq(Rec) /\ Len(grown) = Len(list)
      /\ \A k \in 1..Len(list) : grown[k] = IF k = i THEN a ELSE list[k]
  BY <1>1, <1>2, ExceptSeq
<1> HIDE DEF grown
<1>6. /\ new \in Seq(Rec) /\ Len(new) = Len(list) - 1
      /\ \A k \in 1..(Len(list) - 1) : new[k] = IF k < i + 1 THEN grown[k] ELSE grown[k + 1]
  <2>1. i + 1 \in 1..Len(grown)
    BY <1>1, <1>5
  <2>2. /\ new \in Seq(Rec) /\ Len(new) = Len(grown) - 1
        /\ \A k \in 1..(Len(grown) - 1) : new[k] = IF k < i + 1 THEN grown[k] ELSE grown[k + 1]
    BY <1>4, <1>5, <2>1, RemoveFacts
  <2> QED BY <1>5, <2>2
<1>7. /\ Sorted(left) /\ Len(left) = Len(list) - 1
      /\ \A k \in 1..(Len(list) - 1) : left[k] = IF k < i + 1 THEN list[k] ELSE list[k + 1]
  BY <1>1, RemoveSorted
<1> HIDE DEF left
<1>8. Floor(left, i) <= a.vm_start
  <2>1. CASE i > 1
    <3>1. i - 1 \in 1..(Len(list) - 1) /\ i - 1 < i + 1 /\ i - 1 \in 1..Len(list) /\ i - 1 < i
      BY <1>1, <2>1
    <3>2. left[i - 1] = list[i - 1]
      BY <1>7, <3>1
    <3>3. list[i - 1].vm_end <= list[i].vm_start
      BY <1>1, <3>1, SortedFacts
    <3> QED BY <1>2, <2>1, <3>2, <3>3 DEF Floor
  <2>2. CASE ~(i > 1)
    BY <1>2, <1>3, <2>2 DEF Floor, AreaOK
  <2> QED BY <2>1, <2>2
<1>8a. a.vm_end <= GapEnd(left, i)
  <2>1. CASE i < Len(list) - 1
    <3>1. i + 1 \in 1..(Len(list) - 1) /\ i + 2 \in 1..Len(list) /\ i + 1 < i + 2
          /\ (i + 1) + 1 = i + 2 /\ ~(i + 1 < i + 1)
      BY <1>1, <2>1
    <3>2. left[i + 1] = list[i + 2]
      BY <1>7, <3>1
    <3>3. list[i + 1].vm_end <= list[i + 2].vm_start
      BY <1>1, <3>1, SortedFacts
    <3>4. i < Len(left)
      BY <1>7, <2>1
    <3> QED BY <1>2, <3>2, <3>3, <3>4 DEF GapEnd
  <2>2. CASE ~(i < Len(list) - 1)
    <3>1. ~(i < Len(left))
      BY <1>7, <2>2
    <3> QED BY <1>3, <3>1 DEF GapEnd, AreaOK
  <2> QED BY <2>1, <2>2
<1>9. /\ Sorted(same)
      /\ Len(same) = Len(left)
      /\ \A k \in 1..Len(left) : same[k] = IF k = i THEN a ELSE left[k]
  <2>1. i \in 1..Len(left)
    BY <1>7
  <2> QED BY <1>2, <1>3, <1>7, <1>8, <1>8a, <2>1, ReplaceFacts
<1> HIDE DEF same
<1>10. ASSUME NEW k \in 1..(Len(list) - 1)
       PROVE  /\ new[k] = IF k < i THEN list[k] ELSE IF k = i THEN a ELSE list[k + 1]
              /\ new[k] = same[k]
  <2>1. k \in 1..Len(list) /\ k + 1 \in 1..Len(list)
    BY <1>1
  <2>2. CASE k < i + 1
    BY <1>1, <1>5, <1>6, <1>7, <1>9, <2>1, <2>2
  <2>3. CASE ~(k < i + 1)
    <3>1. k # i /\ ~(k < i) /\ k + 1 # i /\ k + 1 \in 1..Len(list)
      BY <1>1, <2>3
    <3>2. new[k] = list[k + 1]
      BY <1>5, <1>6, <2>3, <3>1
    <3>3. same[k] = list[k + 1]
      BY <1>7, <1>9, <2>3, <3>1
    <3> QED BY <3>1, <3>2, <3>3
  <2> QED BY <2>2, <2>3
<1>12. new = same
  <2>1. same \in Seq(Rec)
    BY <1>9, SortedFacts
  <2> QED BY <1>6, <1>7, <1>9, <1>10, <2>1, SeqEqual
<1> QED BY <1>6, <1>9, <1>10, <1>12 DEF a

-----------------------------------------------------------------------------
(* Pages.                                                                  *)

LEMMA EndFacts ==
  ASSUME NEW addr \in Int, NEW length \in Int
  PROVE  /\ EndAddr(addr, length) \in Int
         /\ EndAddr(addr, length) % PAGE = 0
BY DEF EndAddr, PageOf, NumPages, PAGE

\* A request that fits, page by page, ends inside the gap.
LEMMA FitFacts ==
  ASSUME NEW addr \in Int, NEW length \in Int, length > 0, NEW top \in Int,
         PageOf(top) - PageOf(addr) >= NumPages(length)
  PROVE  addr < EndAddr(addr, length) /\ EndAddr(addr, length) <= top
<1>1. NumPages(length) \in Int /\ NumPages(length) >= 1
  BY DEF NumPages, PAGE
<1>2. PageOf(top) * PAGE <= top /\ addr < (PageOf(addr) + 1) * PAGE
  BY DEF PageOf, PAGE
<1>3. PageOf(addr) \in Int /\ PageOf(top) \in Int
  BY DEF PageOf, PAGE
<1> QED BY <1>1, <1>2, <1>3 DEF EndAddr, PAGE

-----------------------------------------------------------------------------
(* Which areas can merge after an edit.                                    *)

\* After area i is replaced, only its two sides are new.
LEMMA ReplacePairs ==
  ASSUME NEW list, Sorted(list), NEW i \in 1..Len(list), NEW a,
         NEW new, Len(new) = Len(list),
         \A k \in 1..Len(list) : new[k] = IF k = i THEN a ELSE list[k]
  PROVE  \A k \in 1..(Len(list) - 1) : Mergeable(new[k], new[k + 1]) =>
           \/ k = i - 1 /\ i > 1 /\ Mergeable(list[i - 1], a)
           \/ k = i /\ i < Len(list) /\ Mergeable(a, list[i + 1])
           \/ k # i - 1 /\ k # i /\ Mergeable(list[k], list[k + 1])
<1>1. Len(list) \in Nat
  BY SortedFacts
<1>2. ASSUME NEW k \in 1..(Len(list) - 1), Mergeable(new[k], new[k + 1])
      PROVE  \/ k = i - 1 /\ i > 1 /\ Mergeable(list[i - 1], a)
             \/ k = i /\ i < Len(list) /\ Mergeable(a, list[i + 1])
             \/ k # i - 1 /\ k # i /\ Mergeable(list[k], list[k + 1])
  <2>1. k \in 1..Len(list) /\ k + 1 \in 1..Len(list)
    BY <1>1
  <2>2. CASE k = i
    <3>1. new[k] = a /\ new[k + 1] = list[i + 1] /\ i < Len(list)
      BY <1>1, <2>1, <2>2
    <3> QED BY <1>2, <2>2, <3>1
  <2>3. CASE k + 1 = i
    <3>1. new[k] = list[i - 1] /\ new[k + 1] = a /\ i > 1 /\ k = i - 1
      BY <1>1, <2>1, <2>3
    <3> QED BY <1>2, <3>1
  <2>4. CASE k # i /\ k + 1 # i
    <3>1. new[k] = list[k] /\ new[k + 1] = list[k + 1] /\ k # i - 1
      BY <2>1, <2>4
    <3> QED BY <1>2, <2>4, <3>1
  <2> QED BY <2>2, <2>3, <2>4
<1> QED BY <1>2

LEMMA ReplaceApart ==
  ASSUME NEW list, Sorted(list), Apart(list), NEW i \in 1..Len(list), NEW a,
         i > 1 => ~Mergeable(list[i - 1], a),
         i < Len(list) => ~Mergeable(a, list[i + 1]),
         NEW new, Len(new) = Len(list),
         \A k \in 1..Len(list) : new[k] = IF k = i THEN a ELSE list[k]
  PROVE  Apart(new)
BY ReplacePairs DEF Apart

\* After an area is put in above area i, again only its two sides are new.
LEMMA InsertPairs ==
  ASSUME NEW list, Sorted(list), NEW i \in 1..Len(list), NEW a,
         NEW new, Len(new) = Len(list) + 1,
         \A k \in 1..(Len(list) + 1) :
           new[k] = IF k <= i THEN list[k] ELSE IF k = i + 1 THEN a ELSE list[k - 1]
  PROVE  \A k \in 1..Len(list) : Mergeable(new[k], new[k + 1]) =>
           \/ k = i /\ Mergeable(list[i], a)
           \/ k = i + 1 /\ i < Len(list) /\ Mergeable(a, list[i + 1])
           \/ k < i /\ Mergeable(list[k], list[k + 1])
           \/ k > i + 1 /\ Mergeable(list[k - 1], list[k])
<1>1. Len(list) \in Nat
  BY SortedFacts
<1>2. ASSUME NEW k \in 1..Len(list), Mergeable(new[k], new[k + 1])
      PROVE  \/ k = i /\ Mergeable(list[i], a)
             \/ k = i + 1 /\ i < Len(list) /\ Mergeable(a, list[i + 1])
             \/ k < i /\ Mergeable(list[k], list[k + 1])
             \/ k > i + 1 /\ Mergeable(list[k - 1], list[k])
  <2>1. k \in 1..(Len(list) + 1) /\ k + 1 \in 1..(Len(list) + 1)
    BY <1>1
  <2>2. CASE k = i
    <3>1. new[k] = list[i] /\ new[k + 1] = a
      BY <1>1, <2>1, <2>2
    <3> QED BY <1>2, <2>2, <3>1
  <2>3. CASE k = i + 1
    <3>1. new[k] = a /\ new[k + 1] = list[i + 1] /\ i < Len(list)
      BY <1>1, <2>1, <2>3
    <3> QED BY <1>2, <2>3, <3>1
  <2>4. CASE k < i
    <3>1. new[k] = list[k] /\ new[k + 1] = list[k + 1]
      BY <1>1, <2>1, <2>4
    <3> QED BY <1>2, <2>4, <3>1
  <2>5. CASE k > i + 1
    <3>1. new[k] = list[k - 1] /\ new[k + 1] = list[k]
      BY <1>1, <2>1, <2>5
    <3> QED BY <1>2, <2>5, <3>1
  <2> QED BY <1>1, <2>2, <2>3, <2>4, <2>5
<1> QED BY <1>2

LEMMA InsertApart ==
  ASSUME NEW list, Sorted(list), Apart(list), NEW i \in 1..Len(list), NEW a,
         ~Mergeable(list[i], a),
         i < Len(list) => ~Mergeable(a, list[i + 1]),
         NEW new, Len(new) = Len(list) + 1,
         \A k \in 1..(Len(list) + 1) :
           new[k] = IF k <= i THEN list[k] ELSE IF k = i + 1 THEN a ELSE list[k - 1]
  PROVE  Apart(new)
<1>1. Len(list) \in Nat
  BY SortedFacts
<1>2. ASSUME NEW k \in 1..Len(list) PROVE ~Mergeable(new[k], new[k + 1])
  <2>1. k < i => k \in 1..(Len(list) - 1)
    BY <1>1
  <2>2. k > i + 1 => k - 1 \in 1..(Len(list) - 1) /\ (k - 1) + 1 = k
    BY <1>1
  <2>3. \A j \in 1..(Len(list) - 1) : ~Mergeable(list[j], list[j + 1])
    BY DEF Apart
  <2>4. k > i + 1 => ~Mergeable(list[k - 1], list[k])
    BY <2>2, <2>3
  <2>5. \/ ~Mergeable(new[k], new[k + 1])
        \/ k = i /\ Mergeable(list[i], a)
        \/ k = i + 1 /\ i < Len(list) /\ Mergeable(a, list[i + 1])
        \/ k < i /\ Mergeable(list[k], list[k + 1])
        \/ k > i + 1 /\ Mergeable(list[k - 1], list[k])
    BY InsertPairs
  <2> QED BY <2>1, <2>3, <2>4, <2>5
<1> QED BY <1>1, <1>2 DEF Apart

\* After area i has taken over area i + 1, every pair that can merge could
\* merge before: the joined area has the start of one, the end of the other
\* and the protection of both.
LEMMA AbsorbApart ==
  ASSUME NEW list, Sorted(list), NEW i \in 1..(Len(list) - 1),
         Mergeable(list[i], list[i + 1]),
         NEW new, new = Absorb(list, i)
  PROVE  \A k \in 1..(Len(list) - 2) :
           Mergeable(new[k], new[k + 1]) <=>
             IF k < i THEN Mergeable(list[k], list[k + 1])
                      ELSE Mergeable(list[k + 1], list[k + 2])
<1> DEFINE a == [list[i] EXCEPT !.vm_end = list[i + 1].vm_end]
<1>1. /\ Len(list) \in Nat /\ list[i] \in Rec /\ i + 1 \in 1..Len(list)
  BY SortedFacts
<1>2. /\ a.vm_start = list[i].vm_start /\ a.vm_end = list[i + 1].vm_end
      /\ a.access_flags = list[i].access_flags
      /\ a.access_flags = list[i + 1].access_flags
  BY <1>1 DEF Rec, Mergeable
<1>3. \A k \in 1..(Len(list) - 1) :
        new[k] = IF k < i THEN list[k] ELSE IF k = i THEN a ELSE list[k + 1]
  BY AbsorbFacts
<1> HIDE DEF a
<1>4. ASSUME NEW k \in 1..(Len(list) - 2)
      PROVE  Mergeable(new[k], new[k + 1]) <=>
               IF k < i THEN Mergeable(list[k], list[k + 1])
                        ELSE Mergeable(list[k + 1], list[k + 2])
  <2>1. k \in 1..(Len(list) - 1) /\ k + 1 \in 1..(Len(list) - 1) /\ (k + 1) + 1 = k + 2
    BY <1>1
  <2>2. CASE k + 1 < i
    <3>1. new[k] = list[k] /\ new[k + 1] = list[k + 1] /\ k < i
      BY <1>3, <2>1, <2>2
    <3> QED BY <3>1
  <2>3. CASE k + 1 = i
    <3>0. k < i /\ ~(k + 1 < i) /\ k \in Int
      BY <1>1, <2>3
    <3>1. new[k] = list[k] /\ new[k + 1] = a
      BY <1>3, <2>1, <2>3, <3>0
    <3> QED BY <1>2, <2>3, <3>0, <3>1 DEF Mergeable
  <2>4. CASE k = i
    <3>1. new[k] = a /\ new[k + 1] = list[k + 2] /\ ~(k < i)
      BY <1>3, <2>1, <2>4
    <3> QED BY <1>2, <2>4, <3>1 DEF Mergeable
  <2>5. CASE k > i
    <3>1. new[k] = list[k + 1] /\ new[k + 1] = list[k + 2] /\ ~(k < i)
      BY <1>3, <2>1, <2>5
    <3> QED BY <3>1
  <2> QED BY <2>1, <2>2, <2>3, <2>4, <2>5
<1> QED BY <1>4

\* try_merge_vms on a list that is apart everywhere but at the sides of area
\* i the caller names: the list is apart again, and has lost what was freed.
LEMMA MergeFacts ==
  ASSUME NEW list, Sorted(list), NEW i \in 1..Len(list),
         NEW checkPrev \in BOOLEAN, NEW checkNext \in BOOLEAN,
         \A k \in 1..(Len(list) - 1) :
           \/ ~Mergeable(list[k], list[k + 1])
           \/ k = i - 1 /\ checkPrev
           \/ k = i /\ checkNext,
         NEW m, m = TryMerge(list, i, checkPrev, checkNext)
  PROVE  /\ Sorted(m.list) /\ Apart(m.list)
         /\ m.vm \in 1..Len(m.list)
         /\ m.freed \in Nat /\ Len(m.list) = Len(list) - m.freed
<1> DEFINE below == checkPrev /\ i > 1 /\ Mergeable(list[i - 1], list[i])
           l1 == IF below THEN Absorb(list, i - 1) ELSE list
           j == IF below THEN i - 1 ELSE i
           above == checkNext /\ j < Len(l1) /\ Mergeable(l1[j], l1[j + 1])
           l2 == IF above THEN Absorb(l1, j) ELSE l1
<1>1. /\ m.list = l2 /\ m.vm = j
      /\ m.freed = (IF below THEN 1 ELSE 0) + (IF above THEN 1 ELSE 0)
  BY DEF TryMerge
<1>2. Len(list) \in Nat
  BY SortedFacts
<1> HIDE DEF l2
<1>3. /\ Sorted(l1)
      /\ Len(l1) = Len(list) - (IF below THEN 1 ELSE 0)
      /\ j \in 1..Len(l1)
      /\ \A k \in 1..(Len(l1) - 1) : ~Mergeable(l1[k], l1[k + 1]) \/ (k = j /\ checkNext)
  <2>1. CASE below
    <3>1. i - 1 \in 1..(Len(list) - 1) /\ Mergeable(list[i - 1], list[(i - 1) + 1])
      BY <1>2, <2>1
    <3>2. l1 = Absorb(list, i - 1) /\ j = i - 1
      BY <2>1
    <3> HIDE DEF l1, j
    <3>3. Sorted(l1) /\ Len(l1) = Len(list) - 1
      BY <3>1, <3>2, AbsorbFacts
    <3>4. ASSUME NEW k \in 1..(Len(l1) - 1)
          PROVE  ~Mergeable(l1[k], l1[k + 1]) \/ (k = j /\ checkNext)
      <4>1. Mergeable(l1[k], l1[k + 1]) <=>
              IF k < i - 1 THEN Mergeable(list[k], list[k + 1])
                           ELSE Mergeable(list[k + 1], list[k + 2])
        <5>1. k \in 1..(Len(list) - 2)
          BY <1>2, <3>3
        <5> QED BY <3>1, <3>2, <5>1, AbsorbApart
      <4>2. CASE k < i - 1
        <5>1. k \in 1..(Len(list) - 1) /\ k # i - 1 /\ k # i
          BY <1>2, <3>3, <4>2
        <5> QED BY <4>1, <4>2, <5>1
      <4>3. CASE ~(k < i - 1)
        <5>1. k + 1 \in 1..(Len(list) - 1) /\ k + 1 # i - 1 /\ (k + 1) + 1 = k + 2
              /\ (k + 1 = i <=> k = j)
          BY <1>2, <3>2, <3>3, <4>3
        <5> QED BY <4>1, <4>3, <5>1
      <4> QED BY <4>2, <4>3
    <3>5. j \in 1..Len(l1)
      BY <1>2, <3>1, <3>2, <3>3
    <3> QED BY <2>1, <3>3, <3>4, <3>5
  <2>2. CASE ~below
    <3>1. l1 = list /\ j = i
      BY <2>2
    <3>2. ASSUME NEW k \in 1..(Len(list) - 1)
          PROVE  ~Mergeable(list[k], list[k + 1]) \/ (k = i /\ checkNext)
      <4>1. CASE k = i - 1
        <5>1. i > 1 /\ k + 1 = i
          BY <4>1
        <5> QED BY <2>2, <4>1, <5>1
      <4> QED BY <4>1
    <3> HIDE DEF l1, j
    <3> QED BY <1>2, <2>2, <3>1, <3>2
  <2> QED BY <2>1, <2>2
<1> HIDE DEF l1, j, below
<1>4. Len(l1) \in Nat
  BY <1>3, SortedFacts
<1>5. CASE above
  <2>1. j \in 1..(Len(l1) - 1) /\ Mergeable(l1[j], l1[j + 1]) /\ l2 = Absorb(l1, j)
    BY <1>3, <1>4, <1>5 DEF l2
  <2>2. Sorted(l2) /\ Len(l2) = Len(l1) - 1
    BY <1>3, <2>1, AbsorbFacts
  <2>3. ASSUME NEW k \in 1..(Len(l2) - 1) PROVE ~Mergeable(l2[k], l2[k + 1])
    <3>1. k \in 1..(Len(l1) - 2) /\ k \in 1..(Len(l1) - 1) /\ k + 1 \in 1..(Len(l1) - 1)
          /\ (k + 1) + 1 = k + 2
      BY <1>4, <2>2
    <3>2. Mergeable(l2[k], l2[k + 1]) <=>
            IF k < j THEN Mergeable(l1[k], l1[k + 1]) ELSE Mergeable(l1[k + 1], l1[k + 2])
      BY <1>3, <2>1, <3>1, AbsorbApart
    <3>3. CASE k < j
      <4>1. k # j
        BY <1>3, <3>1, <3>3
      <4> QED BY <1>3, <3>1, <3>2, <3>3, <4>1
    <3>4. CASE ~(k < j)
      <4>1. k + 1 # j
        BY <1>3, <2>1, <3>1, <3>4
      <4> QED BY <1>3, <3>1, <3>2, <3>4, <4>1
    <3> QED BY <3>3, <3>4
  <2>4. j \in 1..Len(l2)
    BY <1>4, <2>1, <2>2
  <2> HIDE DEF above
  <2> QED BY <1>1, <1>2, <1>3, <1>5, <2>2, <2>3, <2>4 DEF Apart
<1>6. CASE ~above
  <2>1. l2 = l1
    BY <1>6 DEF l2
  <2>2. ASSUME NEW k \in 1..(Len(l1) - 1) PROVE ~Mergeable(l1[k], l1[k + 1])
    <3>1. k = j => k < Len(l1)
      BY <1>3, <1>4
    <3> QED BY <1>3, <1>6, <3>1
  <2> HIDE DEF above
  <2> QED BY <1>1, <1>2, <1>3, <1>6, <2>1, <2>2 DEF Apart
<1> QED BY <1>5, <1>6

-----------------------------------------------------------------------------
(* The edits of mmap.                                                      *)

EditOK(list, e) ==
  /\ Sorted(e.list) /\ Apart(e.list)
  /\ Len(e.list) = Len(list) + e.count
  /\ e.addr \in Int /\ e.count \in Int

LEMMA GapFacts ==
  ASSUME NEW list, Sorted(list), NEW i \in 1..Len(list)
  PROVE  /\ MMAP_AREA_END \in Int /\ MMAP_AREA_END % PAGE = 0
         /\ GapEnd(list, i) \in Int
         /\ list[i].vm_end <= GapEnd(list, i) /\ GapEnd(list, i) <= MMAP_AREA_END
         /\ Floor(list, i) <= list[i].vm_start
<1>1. AREA_PAGES \in Nat /\ MMAP_AREA_END = 2 + 2 * AREA_PAGES
  BY AreaAssumption DEF MMAP_AREA_END, MMAP_AREA_START, PAGE
<1>2. MMAP_AREA_END \in Int /\ MMAP_AREA_END % PAGE = 0
  BY <1>1 DEF PAGE
<1>3. list[i] \in Rec /\ AreaOK(list[i]) /\ Len(list) \in Nat
  BY SortedFacts
<1>4. /\ GapEnd(list, i) \in Int
      /\ list[i].vm_end <= GapEnd(list, i) /\ GapEnd(list, i) <= MMAP_AREA_END
  <2>1. CASE i < Len(list)
    <3>1. i + 1 \in 1..Len(list) /\ i < i + 1
      BY <1>3, <2>1
    <3>2. list[i + 1] \in Rec /\ AreaOK(list[i + 1]) /\ list[i].vm_end <= list[i + 1].vm_start
      BY <3>1, SortedFacts
    <3> QED BY <1>2, <2>1, <3>2 DEF GapEnd, Rec, AreaOK
  <2>2. CASE ~(i < Len(list))
    BY <1>2, <1>3, <2>2 DEF GapEnd, AreaOK
  <2> QED BY <2>1, <2>2
<1>6. Floor(list, i) <= list[i].vm_start
  <2>1. CASE i > 1
    <3>1. i - 1 \in 1..Len(list) /\ i - 1 < i
      BY <1>3, <2>1
    <3>2. list[i - 1].vm_end <= list[i].vm_start
      BY <3>1, SortedFacts
    <3> QED BY <2>1, <3>2 DEF Floor
  <2>2. CASE ~(i > 1)
    BY <1>3, <2>2 DEF Floor, AreaOK
  <2> QED BY <2>1, <2>2
<1> QED BY <1>2, <1>4, <1>6

\* What being apart says of the two sides of an area.
LEMMA ApartFacts ==
  ASSUME NEW list, Sorted(list), Apart(list), NEW i \in 1..Len(list)
  PROVE  /\ i > 1 => i - 1 \in 1..Len(list) /\ ~Mergeable(list[i - 1], list[i])
                     /\ list[i - 1].vm_end <= list[i].vm_start
         /\ i < Len(list) => i + 1 \in 1..Len(list) /\ ~Mergeable(list[i], list[i + 1])
                             /\ list[i].vm_end <= list[i + 1].vm_start
<1>1. Len(list) \in Nat
  BY SortedFacts
<1>2. ASSUME i > 1
      PROVE  i - 1 \in 1..Len(list) /\ ~Mergeable(list[i - 1], list[i])
             /\ list[i - 1].vm_end <= list[i].vm_start
  <2>1. i - 1 \in 1..(Len(list) - 1) /\ (i - 1) + 1 = i /\ i - 1 \in 1..Len(list) /\ i - 1 < i
    BY <1>1, <1>2
  <2>2. ~Mergeable(list[i - 1], list[(i - 1) + 1])
    BY <2>1 DEF Apart
  <2> QED BY <2>1, <2>2, SortedFacts
<1>3. ASSUME i < Len(list)
      PROVE  i + 1 \in 1..Len(list) /\ ~Mergeable(list[i], list[i + 1])
             /\ list[i].vm_end <= list[i + 1].vm_start
  <2>1. i \in 1..(Len(list) - 1) /\ i + 1 \in 1..Len(list) /\ i < i + 1
    BY <1>1, <1>3
  <2> QED BY <2>1, SortedFacts DEF Apart
<1> QED BY <1>2, <1>3

LEMMA ExtendFacts ==
  ASSUME NEW list, Sorted(list), Apart(list), NEW i \in 1..Len(list),
         NEW hi \in Int, list[i].vm_end < hi, hi <= GapEnd(list, i), hi % PAGE = 0
  PROVE  EditOK(list, Extend(list, i, hi))
<1> DEFINE a == [list[i] EXCEPT !.vm_end = hi]
           grown == [list EXCEPT ![i] = a]
           closes == i < Len(list) /\ Mergeable(grown[i], grown[i + 1])
           e == Extend(list, i, hi)
<1>1. list[i] \in Rec /\ AreaOK(list[i]) /\ Len(list) \in Nat
  BY SortedFacts
<1>2. /\ MMAP_AREA_END \in Int /\ GapEnd(list, i) \in Int
      /\ GapEnd(list, i) <= MMAP_AREA_END /\ Floor(list, i) <= list[i].vm_start
  BY GapFacts
<1>3. /\ a \in Rec /\ a.vm_start = list[i].vm_start /\ a.vm_end = hi
      /\ a.access_flags = list[i].access_flags
  BY <1>1 DEF Rec
<1>4. AreaOK(a)
  BY <1>1, <1>2, <1>3 DEF AreaOK, Rec
<1>5. /\ e.list = IF closes THEN Absorb(grown, i) ELSE grown
      /\ e.addr = list[i].vm_end
      /\ e.count = IF closes THEN -1 ELSE 0
  BY DEF Extend
<1> HIDE DEF a, e
<1>6. /\ Sorted(grown) /\ Len(grown) = Len(list)
      /\ \A k \in 1..Len(list) : grown[k] = IF k = i THEN a ELSE list[k]
  BY <1>2, <1>3, <1>4, ReplaceFacts
<1> HIDE DEF grown
<1>7. e.addr \in Int
  BY <1>1, <1>5 DEF Rec
<1>8. i > 1 => ~Mergeable(list[i - 1], a)
  <2>1. i > 1 => ~Mergeable(list[i - 1], list[i])
    BY ApartFacts
  <2> QED BY <1>3, <2>1 DEF Mergeable
<1>9. CASE closes
  <2>1. i \in 1..(Len(grown) - 1) /\ i + 1 \in 1..Len(list)
    BY <1>1, <1>6, <1>9
  <2>2. /\ Sorted(e.list) /\ Len(e.list) = Len(list) - 1 /\ e.count = -1
    <3>1. e.list = Absorb(grown, i) /\ e.count = -1
      BY <1>5, <1>9
    <3>2. Mergeable(grown[i], grown[i + 1])
      BY <1>9
    <3>3. Sorted(grown) /\ i \in 1..(Len(grown) - 1)
      BY <1>6, <2>1
    <3> DEFINE new == Absorb(grown, i)
    <3>4. Sorted(new) /\ Len(new) = Len(grown) - 1
      BY <3>2, <3>3, AbsorbFacts
    <3> HIDE DEF new
    <3> QED BY <1>6, <3>1, <3>4 DEF new
  <2>3. ASSUME NEW k \in 1..(Len(grown) - 2) PROVE ~Mergeable(e.list[k], e.list[k + 1])
    <3>1. Mergeable(e.list[k], e.list[k + 1]) <=>
            IF k < i THEN Mergeable(grown[k], grown[k + 1])
                     ELSE Mergeable(grown[k + 1], grown[k + 2])
      BY <1>5, <1>6, <1>9, <2>1, AbsorbApart
    <3>2. CASE k < i
      <4>1. k \in 1..Len(list) /\ k + 1 \in 1..Len(list) /\ k # i /\ k \in 1..(Len(list) - 1)
            /\ (k + 1 = i => k = i - 1 /\ i > 1)
        BY <1>1, <1>6, <3>2
      <4>2. ~Mergeable(list[k], list[k + 1])
        BY <4>1 DEF Apart
      <4> QED BY <1>6, <1>8, <3>1, <3>2, <4>1, <4>2
    <3>3. CASE ~(k < i)
      <4>1. /\ k + 1 \in 1..Len(list) /\ k + 2 \in 1..Len(list)
            /\ k + 1 # i /\ k + 2 # i /\ k + 1 \in 1..(Len(list) - 1) /\ (k + 1) + 1 = k + 2
        BY <1>1, <1>6, <3>3
      <4>2. ~Mergeable(list[k + 1], list[(k + 1) + 1])
        BY <4>1 DEF Apart
      <4> QED BY <1>6, <3>1, <3>3, <4>1, <4>2
    <3> QED BY <3>2, <3>3
  <2>4. Apart(e.list)
    BY <1>1, <1>6, <2>2, <2>3 DEF Apart
  <2> HIDE DEF closes
  <2> QED BY <1>1, <1>7, <2>2, <2>4 DEF EditOK, e
<1>10. CASE ~closes
  <2>1. i < Len(list) => ~Mergeable(a, list[i + 1])
    <3>1. i < Len(list) => i + 1 \in 1..Len(list) /\ i + 1 # i
      BY <1>1
    <3> QED BY <1>6, <1>10, <3>1
  <2>2. Apart(grown)
    BY <1>6, <1>8, <2>1, ReplaceApart
  <2> HIDE DEF closes
  <2> QED BY <1>1, <1>5, <1>6, <1>7, <1>10, <2>2 DEF EditOK, e
<1> QED BY <1>9, <1>10

LEMMA LowerFacts ==
  ASSUME NEW list, Sorted(list), Apart(list), NEW i \in 1..Len(list), i < Len(list),
         NEW lo \in Int, list[i].vm_end <= lo, lo <= list[i + 1].vm_start,
         list[i].vm_end = lo => list[i].access_flags # list[i + 1].access_flags
  PROVE  EditOK(list, Lower(list, i, lo))
<1> DEFINE j == i + 1
           a == [list[j] EXCEPT !.vm_start = lo]
           new == [list EXCEPT ![j] = a]
           e == Lower(list, i, lo)
<1>1. /\ list[i] \in Rec /\ AreaOK(list[i]) /\ Len(list) \in Nat
      /\ j \in 1..Len(list) /\ list[j] \in Rec /\ AreaOK(list[j]) /\ j - 1 = i /\ j > 1
  BY SortedFacts
<1>2. list[j].vm_end <= GapEnd(list, j)
  BY <1>1, GapFacts
<1>3. /\ a \in Rec /\ a.vm_start = lo /\ a.vm_end = list[j].vm_end
      /\ a.access_flags = list[j].access_flags
  BY <1>1 DEF Rec
<1>4. AreaOK(a)
  BY <1>1, <1>3 DEF AreaOK, Rec, MMAP_AREA_START, PAGE
<1>5. e.list = new /\ e.addr = lo /\ e.count = 0
  BY DEF Lower
<1>6. lo <= list[j].vm_start /\ (list[i].vm_end = lo => list[i].access_flags # list[j].access_flags)
  OBVIOUS
<1>7. Floor(list, j) <= a.vm_start
  BY <1>1, <1>3 DEF Floor
<1>8. j < Len(list) => ~Mergeable(list[j], list[j + 1])
  BY <1>1, ApartFacts
<1> HIDE DEF a, e, j
<1>9. /\ Sorted(new) /\ Len(new) = Len(list)
      /\ \A k \in 1..Len(list) : new[k] = IF k = j THEN a ELSE list[k]
  BY <1>1, <1>2, <1>3, <1>4, <1>7, ReplaceFacts
<1> HIDE DEF new
<1>10. ~Mergeable(list[j - 1], a)
  BY <1>1, <1>3, <1>6 DEF Mergeable
<1>11. j < Len(list) => ~Mergeable(a, list[j + 1])
  BY <1>3, <1>8 DEF Mergeable
<1>12. Apart(new)
  BY <1>1, <1>9, <1>10, <1>11, ReplaceApart
<1> QED BY <1>1, <1>5, <1>9, <1>12 DEF EditOK, e

LEMMA CreateFacts ==
  ASSUME NEW list, Sorted(list), Apart(list), NEW i \in 1..Len(list),
         NEW lo \in Int, NEW hi \in Int, NEW prot \in Flags,
         list[i].vm_end <= lo, lo < hi, hi <= GapEnd(list, i), hi % PAGE = 0,
         ~Mergeable(list[i], Area(lo, hi, prot)),
         i < Len(list) => ~Mergeable(Area(lo, hi, prot), list[i + 1])
  PROVE  EditOK(list, Create(list, i, lo, hi, prot))
<1> DEFINE a == Area(lo, hi, prot)
           new == InsertAt(list, i + 1, a)
           e == Create(list, i, lo, hi, prot)
<1>1. list[i] \in Rec /\ AreaOK(list[i]) /\ Len(list) \in Nat
  BY SortedFacts
<1>2. MMAP_AREA_END \in Int /\ GapEnd(list, i) \in Int /\ GapEnd(list, i) <= MMAP_AREA_END
  BY GapFacts
<1>3. a \in Rec /\ a.vm_start = lo /\ a.vm_end = hi
  BY DEF Area, Rec
<1>4. AreaOK(a)
  BY <1>1, <1>2, <1>3 DEF AreaOK, Rec, MMAP_AREA_START, PAGE
<1>5. e.list = new /\ e.addr = lo /\ e.count = 1
  BY DEF Create
<1>6. ~Mergeable(list[i], a) /\ (i < Len(list) => ~Mergeable(a, list[i + 1]))
  OBVIOUS
<1> HIDE DEF a, e
<1>7. /\ Sorted(new) /\ Len(new) = Len(list) + 1
      /\ \A k \in 1..(Len(list) + 1) :
           new[k] = IF k <= i THEN list[k] ELSE IF k = i + 1 THEN a ELSE list[k - 1]
  BY <1>3, <1>4, InsertSorted, SMTT(30)
<1> HIDE DEF new
<1>8. Apart(new)
  BY <1>6, <1>7, InsertApart
<1> QED BY <1>1, <1>5, <1>7, <1>8 DEF EditOK, e

\* map_vm_area, in a gap the request fits in.
LEMMA MapVmAreaFacts ==
  ASSUME NEW list, Sorted(list), Apart(list), NEW i \in 1..Len(list),
         NEW length \in Int, length > 0, NEW prot \in Flags, Fits(list, i, length)
  PROVE  EditOK(list, MapVmArea(list, i, length, prot))
<1> DEFINE lo == list[i].vm_end
           hi == EndAddr(lo, length)
<1>1. /\ list[i] \in Rec /\ lo \in Int /\ Len(list) \in Nat
      /\ GapEnd(list, i) \in Int /\ lo <= GapEnd(list, i)
  BY SortedFacts, GapFacts
<1>2. hi \in Int /\ hi % PAGE = 0
  BY <1>1, EndFacts
<1>3. lo < hi /\ hi <= GapEnd(list, i)
  <2>1. PageOf(GapEnd(list, i)) - PageOf(lo) >= NumPages(length)
    BY DEF Fits
  <2> QED BY <1>1, <2>1, FitFacts
<1>4. CASE list[i].access_flags = prot
  <2>1. EditOK(list, Extend(list, i, hi))
    BY <1>2, <1>3, ExtendFacts
  <2> QED BY <1>4, <2>1 DEF MapVmArea
<1>5. CASE list[i].access_flags # prot /\ i < Len(list) /\ list[i + 1].access_flags = prot
  <2>1. lo <= list[i + 1].vm_start
    BY <1>1, <1>5 DEF GapEnd
  <2>2. EditOK(list, Lower(list, i, lo))
    BY <1>1, <1>5, <2>1, LowerFacts
  <2> QED BY <1>5, <2>2 DEF MapVmArea
<1>6. CASE list[i].access_flags # prot /\ ~(i < Len(list) /\ list[i + 1].access_flags = prot)
  <2>1. /\ ~Mergeable(list[i], Area(lo, hi, prot))
        /\ i < Len(list) => ~Mergeable(Area(lo, hi, prot), list[i + 1])
    BY <1>6 DEF Mergeable, Area
  <2> HIDE DEF hi
  <2>2. lo <= lo
    BY <1>1
  <2>3. EditOK(list, Create(list, i, lo, hi, prot))
    BY <1>1, <1>2, <1>3, <2>1, <2>2, CreateFacts
  <2> QED BY <1>6, <2>3 DEF MapVmArea, hi
<1> QED BY <1>4, <1>5, <1>6

\* The hint, in the gap that holds it, if the request fits above it.
LEMMA MapAtHintFacts ==
  ASSUME NEW list, Sorted(list), Apart(list), NEW addr \in Int,
         NEW length \in Int, length > 0, NEW prot \in Flags,
         NEW i \in HintGap(list, addr, length)
  PROVE  EditOK(list, MapAtHint(list, i, addr, length, prot))
<1> DEFINE hi == EndAddr(addr, length)
<1>1. /\ i \in 1..Len(list) /\ list[i].vm_end <= addr
      /\ PageOf(GapEnd(list, i)) - PageOf(addr) >= NumPages(length)
  BY DEF HintGap
<1>2. /\ list[i] \in Rec /\ list[i].vm_end \in Int /\ Len(list) \in Nat
      /\ GapEnd(list, i) \in Int
  BY <1>1, SortedFacts, GapFacts
<1>3. hi \in Int /\ hi % PAGE = 0
  BY EndFacts
<1>4. addr < hi /\ hi <= GapEnd(list, i)
  BY <1>1, <1>2, FitFacts
<1> DEFINE joins == list[i].vm_end = addr /\ list[i].access_flags = prot
           meets == i < Len(list) /\ Mergeable(Area(addr, hi, prot), list[i + 1])
<1>5. CASE joins
  <2>1. EditOK(list, Extend(list, i, hi))
    BY <1>1, <1>3, <1>4, <1>5, ExtendFacts
  <2> QED BY <1>5, <2>1 DEF MapAtHint
<1>6. CASE ~joins /\ meets
  <2>1. /\ i < Len(list) /\ hi = list[i + 1].vm_start /\ list[i + 1].access_flags = prot
    BY <1>6 DEF Mergeable, Area
  <2>2. addr <= list[i + 1].vm_start
    BY <1>3, <1>4, <2>1
  <2>3. list[i].vm_end = addr => list[i].access_flags # list[i + 1].access_flags
    BY <1>6, <2>1
  <2>4. EditOK(list, Lower(list, i, addr))
    BY <1>1, <2>1, <2>2, <2>3, LowerFacts
  <2> QED BY <1>6, <2>4 DEF MapAtHint
<1>7. CASE ~joins /\ ~meets
  <2>1. ~Mergeable(list[i], Area(addr, hi, prot))
    BY <1>7 DEF Mergeable, Area
  <2>2. i < Len(list) => ~Mergeable(Area(addr, hi, prot), list[i + 1])
    BY <1>7
  <2> HIDE DEF hi
  <2>3. EditOK(list, Create(list, i, addr, hi, prot))
    BY <1>1, <1>3, <1>4, <2>1, <2>2, CreateFacts
  <2> QED BY <1>7, <2>3 DEF MapAtHint, hi
<1> QED BY <1>5, <1>6, <1>7

LEMMA MapEditsFacts ==
  ASSUME NEW list, Sorted(list), Apart(list), NEW addr \in Int,
         NEW length \in Int, length > 0, NEW prot \in Flags, NEW flags,
         NEW e \in MapEdits(list, addr, length, prot, flags)
  PROVE  EditOK(list, e)
<1>1. \/ \E i \in HintGap(list, addr, length) : e = MapAtHint(list, i, addr, length, prot)
      \/ \E i \in FirstFit(list, length) : e = MapVmArea(list, i, length, prot)
  BY Zenon DEF MapEdits
<1>2. CASE \E i \in HintGap(list, addr, length) : e = MapAtHint(list, i, addr, length, prot)
  BY <1>2, MapAtHintFacts
<1>3. CASE \E i \in FirstFit(list, length) : e = MapVmArea(list, i, length, prot)
  <2>1. PICK i \in FirstFit(list, length) : e = MapVmArea(list, i, length, prot)
    BY <1>3
  <2>2. i \in 1..Len(list) /\ Fits(list, i, length)
    BY DEF FirstFit
  <2> QED BY <2>1, <2>2, MapVmAreaFacts
<1> QED BY <1>1, <1>2, <1>3

\* The list head vm_area_map puts in place is a list of its own.
LEMMA HeadFacts ==
  ASSUME NEW list, Sorted(list), Apart(list)
  PROVE  /\ Sorted(WithHead(list)) /\ Apart(WithHead(list))
         /\ Len(WithHead(list)) \in Nat
<1>1. CASE list # <<>>
  BY <1>1, SortedFacts DEF WithHead
<1>2. CASE list = <<>>
  <2>1. Head1.vm_start = 2 /\ Head1.vm_end = 4 /\ Head1 \in Rec
    BY DEF Head1, Area, EndAddr, PageOf, NumPages, PAGE, MMAP_AREA_START, Rec, Flags
  <2>2. AreaOK(Head1)
    BY <2>1, AreaAssumption DEF AreaOK, MMAP_AREA_START, MMAP_AREA_END, PAGE
  <2> DEFINE new == <<Head1>>
  <2>3. new \in Seq(Rec) /\ Len(new) = 1 /\ new[1] = Head1
    BY <2>1
  <2> HIDE DEF new
  <2>4. Sorted(new) /\ Apart(new)
    BY <2>2, <2>3 DEF Sorted, Apart
  <2> QED BY <1>2, <2>3, <2>4 DEF WithHead, new
<1> QED BY <1>1, <1>2

-----------------------------------------------------------------------------
(* The loops of munmap and mprotect.                                       *)

\* An address is in one area at most.
LEMMA InUnique ==
  ASSUME NEW list, Sorted(list), NEW c \in Int,
         NEW j \in 1..Len(list), NEW k \in 1..Len(list), In(c, list[j]), In(c, list[k])
  PROVE  j = k
<1>1. ASSUME NEW a \in 1..Len(list), NEW b \in 1..Len(list), a < b,
             In(c, list[a]), In(c, list[b])
      PROVE  FALSE
  <2>1. /\ list[a].vm_end <= list[b].vm_start
        /\ list[a].vm_end \in Int /\ list[b].vm_start \in Int
    BY <1>1, SortedFacts
  <2> QED BY <1>1, <2>1 DEF In
<1>2. j \in Int /\ k \in Int
  BY SortedFacts
<1> QED BY <1>1, <1>2

LEMMA LookupFacts ==
  ASSUME NEW list, NEW i, NEW c, LookupVma(list, i, c) # NULL
  PROVE  /\ LookupVma(list, i, c) \in i..Len(list)
         /\ In(c, list[LookupVma(list, i, c)])
BY DEF LookupVma

\* The first address of an area leads to that area.
LEMMA LookupStart ==
  ASSUME NEW list, Sorted(list), NEW vm \in 1..Len(list)
  PROVE  LookupVma(list, vm, list[vm].vm_start) = vm
<1> DEFINE c == list[vm].vm_start
           r == LookupVma(list, vm, c)
<1>1. /\ c \in Int /\ c < list[vm].vm_end /\ list[vm].vm_end \in Int /\ Len(list) \in Nat
  BY SortedFacts
<1>2. In(c, list[vm]) /\ vm \in vm..Len(list)
  BY <1>1 DEF In
<1>3. r \in vm..Len(list) /\ In(c, list[r])
  <2>1. \E j \in vm..Len(list) : In(c, list[j])
    BY <1>2
  <2> QED BY <2>1 DEF LookupVma
<1>4. r \in 1..Len(list)
  BY <1>1, <1>3
<1> HIDE DEF r, c
<1> QED BY <1>1, <1>2, <1>3, <1>4, InUnique DEF c, r

\* The area after area i.
LEMMA NextFacts ==
  ASSUME NEW list, Sorted(list), NEW i \in 1..Len(list)
  PROVE  /\ NextOf(list, i) = NULL \/ NextOf(list, i) \in 1..Len(list)
         /\ NextOf(list, i) # NULL =>
              NextOf(list, i) = i + 1 /\ i < Len(list) /\ list[i].vm_end <= list[i + 1].vm_start
<1>1. Len(list) \in Nat
  BY SortedFacts
<1>2. CASE i < Len(list)
  <2>1. i + 1 \in 1..Len(list) /\ i < i + 1
    BY <1>1, <1>2
  <2>2. list[i].vm_end <= list[i + 1].vm_start
    BY <2>1, SortedFacts
  <2> QED BY <1>2, <2>1, <2>2 DEF NextOf
<1>3. CASE ~(i < Len(list))
  BY <1>3 DEF NextOf
<1> QED BY <1>2, <1>3

\* What a call in progress is made of.
LEMMA CallFacts ==
  ASSUME call \in Calls, call # Idle
  PROVE  /\ call.op \in {"munmap", "mprotect"} /\ call.caddr \in Int /\ call.end \in Int
         /\ call.prot \in Flags /\ call.vm \in Nat
BY DEF Calls, Flags

\* However a loop goes on, it stands on an area, at its first address or at
\* a page boundary inside it.
LEMMA LoopFacts ==
  ASSUME NEW list, NEW op \in {"munmap", "mprotect"}, NEW vm, NEW c \in Int,
         NEW end \in Int, NEW prot \in Flags, LoopOrReturn(op, vm, c, end, prot),
         end % PAGE = 0, ret \in Int, Len(list) \in Nat,
         vm # NULL /\ c < end =>
           /\ vm \in 1..Len(list) /\ list[vm].vm_start <= c /\ c < list[vm].vm_end
           /\ c % PAGE = 0 \/ c = list[vm].vm_start
  PROVE  /\ call' \in Calls /\ ret' \in Int
         /\ call' # Idle => CursorOK(list, call')
<1>1. CASE vm # NULL /\ c < end
  <2> DEFINE new == [op |-> op, vm |-> vm, caddr |-> c, end |-> end, prot |-> prot]
  <2>1. call' = new /\ ret' = ret
    BY <1>1 DEF LoopOrReturn
  <2>2. vm \in Nat
    BY <1>1
  <2>3. new \in Calls
    BY <2>2 DEF Calls, Flags
  <2>4. new.vm = vm /\ new.caddr = c /\ new.end = end
    OBVIOUS
  <2> HIDE DEF new
  <2>5. CursorOK(list, new)
    BY <1>1, <2>4 DEF CursorOK
  <2> QED BY <2>1, <2>3, <2>5
<1>2. CASE ~(vm # NULL /\ c < end)
  BY <1>2 DEF LoopOrReturn, Calls
<1> QED BY <1>1, <1>2

LEMMA ContinueFacts ==
  ASSUME NEW list, Sorted(list), call \in Calls, call # Idle, call.end % PAGE = 0, ret \in Int,
         NEW vm, vm = NULL \/ vm \in 1..Len(list), NEW caddr \in Int,
         vm # NULL /\ caddr < call.end => caddr <= list[vm].vm_start,
         Continue(list, vm, caddr)
  PROVE  /\ call' \in Calls /\ ret' \in Int
         /\ call' # Idle => CursorOK(list, call')
<1> DEFINE c == IF vm # NULL
                THEN (IF caddr < list[vm].vm_start THEN list[vm].vm_start ELSE caddr)
                ELSE caddr
           next == IF call.op = "mprotect" /\ vm # NULL THEN LookupVma(list, vm, c) ELSE vm
<1>1. /\ call.op \in {"munmap", "mprotect"} /\ call.caddr \in Int /\ call.end \in Int
      /\ call.prot \in Flags
  BY CallFacts
<1>2. LoopOrReturn(call.op, next, c, call.end, call.prot)
  BY DEF Continue
<1>3. ASSUME vm # NULL
      PROVE  /\ vm \in 1..Len(list) /\ list[vm].vm_start \in Int
             /\ list[vm].vm_start < list[vm].vm_end
             /\ LookupVma(list, vm, list[vm].vm_start) = vm
  <2>1. vm \in 1..Len(list)
    BY <1>3
  <2> QED BY <2>1, SortedFacts, LookupStart
<1>4. c \in Int
  BY <1>3
<1>5. ASSUME next # NULL, c < call.end
      PROVE  /\ next = vm /\ vm \in 1..Len(list) /\ c = list[vm].vm_start
             /\ list[vm].vm_start < list[vm].vm_end /\ list[vm].vm_start \in Int
  <2>1. vm # NULL
    BY <1>5
  <2>2. c = list[vm].vm_start
    BY <1>1, <1>3, <1>5, <2>1
  <2>3. next = vm
    BY <1>3, <2>1, <2>2
  <2> QED BY <1>3, <2>1, <2>2, <2>3
<1>6. Len(list) \in Nat
  BY SortedFacts
<1> HIDE DEF c, next
<1>7. next # NULL /\ c < call.end =>
        /\ next \in 1..Len(list) /\ list[next].vm_start <= c /\ c < list[next].vm_end
        /\ c % PAGE = 0 \/ c = list[next].vm_start
  BY <1>4, <1>5
<1> QED BY <1>1, <1>2, <1>4, <1>6, <1>7, LoopFacts

\* A call enters its loop at the address it was given, or at the second area.
LEMMA EntryFacts ==
  ASSUME Sorted(vm_area), NEW op \in {"munmap", "mprotect"}, NEW addr \in Int,
         addr % PAGE = 0, NEW end \in Int, end % PAGE = 0, NEW prot \in Flags, ret \in Int,
         NEW c, c = SkipHead(vm_area, addr),
         LoopOrReturn(op, LookupVma(vm_area, 1, c), c, end, prot)
  PROVE  /\ call' \in Calls /\ ret' \in Int
         /\ call' # Idle => CursorOK(vm_area, call')
<1> DEFINE vm == LookupVma(vm_area, 1, c)
<1>1. Len(vm_area) \in Nat
  BY SortedFacts
<1>2. \/ c = addr
      \/ 2 \in 1..Len(vm_area) /\ c = vm_area[2].vm_start
  BY <1>1 DEF SkipHead
<1>3. c \in Int
  BY <1>2, SortedFacts
<1>4. ASSUME vm # NULL
      PROVE  /\ vm \in 1..Len(vm_area) /\ vm_area[vm].vm_start <= c /\ c < vm_area[vm].vm_end
             /\ c % PAGE = 0 \/ c = vm_area[vm].vm_start
  <2>1. vm \in 1..Len(vm_area) /\ In(c, vm_area[vm])
    BY <1>4, LookupFacts
  <2>2. CASE c = addr
    BY <2>1, <2>2 DEF In
  <2>3. CASE 2 \in 1..Len(vm_area) /\ c = vm_area[2].vm_start
    <3>1. In(c, vm_area[2])
      BY <1>3, <2>3, SortedFacts DEF In
    <3>2. vm = 2
      BY <1>3, <2>1, <2>3, <3>1, InUnique
    <3> QED BY <2>1, <2>3, <3>2 DEF In
  <2> QED BY <1>2, <2>2, <2>3
<1> HIDE DEF vm
<1>5. LoopOrReturn(op, vm, c, end, prot)
  BY DEF vm
<1> QED BY <1>1, <1>3, <1>4, <1>5, LoopFacts

\* The area under the cursor.
LEMMA CursorFacts ==
  ASSUME Inv, call # Idle
  PROVE  /\ Sorted(vm_area) /\ Apart(vm_area) /\ Len(vm_area) \in Nat
         /\ call.vm \in 1..Len(vm_area)
         /\ Vm \in Rec /\ AreaOK(Vm)
         /\ Vm.vm_start \in Int /\ Vm.vm_end \in Int /\ Vm.access_flags \in Flags
         /\ call.caddr \in Int /\ call.end \in Int /\ call.prot \in Flags
         /\ Vm.vm_start <= call.caddr /\ call.caddr < Vm.vm_end /\ call.caddr < call.end
         /\ call.end % PAGE = 0
         /\ call.caddr % PAGE = 0 \/ call.caddr = Vm.vm_start
         /\ Floor(vm_area, call.vm) <= Vm.vm_start /\ Vm.vm_end <= GapEnd(vm_area, call.vm)
         /\ GapEnd(vm_area, call.vm) \in Int
         /\ call.vm > 1 => call.vm - 1 \in 1..Len(vm_area)
                           /\ ~Mergeable(vm_area[call.vm - 1], Vm)
                           /\ vm_area[call.vm - 1].vm_end <= Vm.vm_start
         /\ call.vm < Len(vm_area) => call.vm + 1 \in 1..Len(vm_area)
                                      /\ ~Mergeable(Vm, vm_area[call.vm + 1])
                                      /\ Vm.vm_end <= vm_area[call.vm + 1].vm_start
<1>1. /\ Sorted(vm_area) /\ Apart(vm_area) /\ CursorOK(vm_area, call) /\ call \in Calls
  BY DEF Inv
<1>2. call.vm \in 1..Len(vm_area)
  BY <1>1 DEF CursorOK
<1>3. /\ Vm \in Rec /\ AreaOK(Vm) /\ Len(vm_area) \in Nat
  BY <1>1, <1>2, SortedFacts DEF Vm
<1>4. call.caddr \in Int /\ call.end \in Int /\ call.prot \in Flags
  BY <1>1, CallFacts
<1>5. /\ Vm.vm_start <= call.caddr /\ call.caddr < Vm.vm_end /\ call.caddr < call.end
      /\ call.end % PAGE = 0
      /\ call.caddr % PAGE = 0 \/ call.caddr = Vm.vm_start
  BY <1>1 DEF CursorOK, Vm
<1>6. /\ Floor(vm_area, call.vm) <= Vm.vm_start /\ Vm.vm_end <= GapEnd(vm_area, call.vm)
      /\ GapEnd(vm_area, call.vm) \in Int
  BY <1>1, <1>2, GapFacts DEF Vm
<1>7. /\ call.vm > 1 => call.vm - 1 \in 1..Len(vm_area)
                           /\ ~Mergeable(vm_area[call.vm - 1], Vm)
                           /\ vm_area[call.vm - 1].vm_end <= Vm.vm_start
      /\ call.vm < Len(vm_area) => call.vm + 1 \in 1..Len(vm_area)
                                      /\ ~Mergeable(Vm, vm_area[call.vm + 1])
                                      /\ Vm.vm_end <= vm_area[call.vm + 1].vm_start
  BY <1>1, <1>2, ApartFacts DEF Vm
<1>8. Vm.vm_start \in Int /\ Vm.vm_end \in Int /\ Vm.access_flags \in Flags
  BY <1>3 DEF Rec
<1> QED BY <1>1, <1>2, <1>3, <1>4, <1>5, <1>6, <1>7, <1>8

\* A pass through a loop leaves the invariant when it edits the list well
\* and goes on well.
LEMMA PassFacts ==
  ASSUME Inv, NEW list, Sorted(list), Apart(list), call # Idle,
         NEW count \in Int, Len(list) = Len(vm_area) + count, Edit(list, count),
         NEW vm, vm = NULL \/ vm \in 1..Len(list), NEW caddr \in Int,
         vm # NULL /\ caddr < call.end => caddr <= list[vm].vm_start,
         Continue(list, vm, caddr)
  PROVE  Inv'
<1>1. call \in Calls /\ call.end % PAGE = 0 /\ ret \in Int
  BY DEF Inv, CursorOK
<1>2. call' \in Calls /\ ret' \in Int /\ (call' # Idle => CursorOK(list, call'))
  BY <1>1, ContinueFacts
<1>3. vm_area' = list /\ num_vm_area' = num_vm_area + count /\ asked' = asked /\ halted' = halted
  BY DEF Edit
<1>4. num_vm_area' = Len(vm_area')
  BY <1>3 DEF Inv
<1> QED BY <1>2, <1>3, <1>4 DEF Inv

LEMMA UnmapWholeStep ==
  ASSUME Inv, UnmapWhole
  PROVE  Inv'
<1>0. call.op = "munmap" /\ Idle.op = "idle"
  BY DEF UnmapWhole, Idle
<1>1. call # Idle
  BY <1>0
<1>2. CASE call.vm = 1
  BY <1>2 DEF UnmapWhole, Inv
<1>3. CASE call.vm # 1
  <2> DEFINE list == RemoveAt(vm_area, call.vm)
             n == Len(vm_area)
             below == call.vm - 1
             vm == NextOf(list, below)
  <2>1. Edit(list, -1) /\ Continue(list, vm, Vm.vm_end)
    BY <1>3 DEF UnmapWhole
  <2>2. /\ Sorted(vm_area) /\ Apart(vm_area) /\ n \in Nat /\ call.vm \in 1..n
        /\ Vm.vm_end \in Int /\ Vm.vm_start < Vm.vm_end /\ Vm.vm_start \in Int
        /\ call.vm < n => Vm.vm_end <= vm_area[call.vm + 1].vm_start
        /\ vm_area[below].vm_end <= Vm.vm_start
        /\ below \in 1..n /\ below < n
    BY <1>1, <1>3, CursorFacts DEF AreaOK
  <2> HIDE DEF list, vm
  <2>3. /\ Sorted(list) /\ Len(list) = n - 1
        /\ \A k \in 1..(n - 1) : list[k] = IF k < call.vm THEN vm_area[k] ELSE vm_area[k + 1]
    <3>1. Sorted(vm_area) /\ call.vm \in 1..Len(vm_area) /\ list = RemoveAt(vm_area, call.vm)
      BY <2>2 DEF list
    <3> QED BY <3>1, RemoveSorted
  <2>4. ASSUME NEW k \in 1..(Len(list) - 1) PROVE ~Mergeable(list[k], list[k + 1])
    <3>1. k \in 1..(n - 1) /\ k + 1 \in 1..(n - 1) /\ (k + 1) + 1 = k + 2
      BY <2>2, <2>3
    <3>2. CASE k + 1 < call.vm
      <4>1. list[k] = vm_area[k] /\ list[k + 1] = vm_area[k + 1]
        BY <2>2, <2>3, <3>1, <3>2
      <4> QED BY <2>2, <3>1, <4>1 DEF Apart
    <3>3. CASE k + 1 = call.vm
      <4>1. list[k] = vm_area[below] /\ list[k + 1] = vm_area[call.vm + 1] /\ call.vm < n
        BY <2>2, <2>3, <3>1, <3>3
      <4>2. vm_area[below].vm_end \in Int /\ vm_area[call.vm + 1].vm_start \in Int
        <5>1. call.vm + 1 \in 1..n
          BY <2>2, <4>1
        <5> QED BY <2>2, <5>1, SortedFacts
      <4>3. vm_area[below].vm_end < vm_area[call.vm + 1].vm_start
        <5>1. /\ vm_area[below].vm_end <= Vm.vm_start /\ Vm.vm_start < Vm.vm_end
              /\ Vm.vm_end <= vm_area[call.vm + 1].vm_start
              /\ Vm.vm_start \in Int /\ Vm.vm_end \in Int
          BY <2>2, <4>1
        <5> QED BY <4>2, <5>1
      <4> QED BY <4>1, <4>2, <4>3 DEF Mergeable
    <3>4. CASE k >= call.vm
      <4>1. list[k] = vm_area[k + 1] /\ list[k + 1] = vm_area[(k + 1) + 1] /\ k + 1 \in 1..(n - 1)
        BY <2>2, <2>3, <3>1, <3>4
      <4> QED BY <2>2, <4>1 DEF Apart
    <3> QED BY <2>2, <3>1, <3>2, <3>3, <3>4
  <2>5. Apart(list)
    BY <2>4 DEF Apart
  <2>6. vm = NULL \/ vm \in 1..Len(list)
    <3>1. below \in 1..Len(list)
      BY <2>2, <2>3
    <3> QED BY <2>3, <3>1, NextFacts DEF vm
  <2>7. vm # NULL => Vm.vm_end <= list[vm].vm_start
    <3>1. ASSUME vm # NULL
          PROVE  vm = call.vm /\ call.vm \in 1..(n - 1) /\ call.vm < n
      <4>1. below < Len(list) /\ vm = below + 1
        BY <3>1 DEF vm, NextOf
      <4> QED BY <2>2, <2>3, <4>1
    <3>2. ASSUME vm # NULL PROVE list[vm] = vm_area[call.vm + 1]
      BY <2>2, <2>3, <3>1, <3>2
    <3> QED BY <2>2, <3>1, <3>2
  <2>8. Len(list) = Len(vm_area) + (-1) /\ Vm.vm_end \in Int /\ Sorted(list)
    BY <2>2, <2>3
  <2>9. vm # NULL /\ Vm.vm_end < call.end => Vm.vm_end <= list[vm].vm_start
    BY <2>7
  <2> DEFINE caddr == Vm.vm_end
             count == -1
  <2>10. /\ count \in Int /\ Edit(list, count) /\ Len(list) = Len(vm_area) + count
         /\ caddr \in Int /\ Continue(list, vm, caddr)
         /\ vm # NULL /\ caddr < call.end => caddr <= list[vm].vm_start
    BY <2>1, <2>8, <2>9
  <2> HIDE DEF caddr, count
  <2> QED BY <1>1, <2>5, <2>6, <2>8, <2>10, PassFacts
<1> QED BY <1>2, <1>3

\* List i goes on above its area i like vm_area above the cursor.
SameAbove(list, i) ==
  /\ i < Len(list) <=> call.vm < Len(vm_area)
  /\ i < Len(list) => list[i + 1] = vm_area[call.vm + 1]

\* The area under the cursor keeps only lo..hi of its addresses, with the
\* protection prot.
LEMMA CutFacts ==
  ASSUME Inv, call # Idle, NEW lo \in Int, NEW hi \in Int, NEW prot \in Flags,
         Vm.vm_start <= lo, lo < hi, hi <= Vm.vm_end, hi % PAGE = 0,
         NEW new, new = Put(vm_area, call.vm, Area(lo, hi, prot))
  PROVE  /\ Sorted(new) /\ Len(new) = Len(vm_area)
         /\ new[call.vm] = Area(lo, hi, prot)
         /\ SameAbove(new, call.vm)
         /\ \A k \in 1..(Len(new) - 1) :
              \/ ~Mergeable(new[k], new[k + 1])
              \/ k = call.vm - 1 /\ prot # Vm.access_flags
              \/ k = call.vm /\ prot # Vm.access_flags /\ hi = Vm.vm_end
<1> DEFINE a == Area(lo, hi, prot)
           i == call.vm
<1>1. a \in Rec /\ a.vm_start = lo /\ a.vm_end = hi /\ a.access_flags = prot
  BY DEF Area, Rec
<1>2. /\ Sorted(vm_area) /\ Len(vm_area) \in Nat /\ i \in 1..Len(vm_area)
      /\ Vm.vm_start \in Int /\ Vm.vm_end \in Int /\ AreaOK(Vm) /\ GapEnd(vm_area, i) \in Int
      /\ Floor(vm_area, i) <= Vm.vm_start /\ Vm.vm_end <= GapEnd(vm_area, i)
  BY CursorFacts
<1>3. /\ i > 1 => ~Mergeable(vm_area[i - 1], Vm) /\ vm_area[i - 1].vm_end <= Vm.vm_start
                  /\ vm_area[i - 1].vm_end \in Int
      /\ i < Len(vm_area) => ~Mergeable(Vm, vm_area[i + 1]) /\ Vm.vm_end <= vm_area[i + 1].vm_start
                             /\ vm_area[i + 1].vm_start \in Int
  <2>1. /\ i > 1 => i - 1 \in 1..Len(vm_area)
        /\ i < Len(vm_area) => i + 1 \in 1..Len(vm_area)
    BY <1>2
  <2> QED BY <1>2, <2>1, CursorFacts, SortedFacts
<1>4. AreaOK(a)
  <2>1. MMAP_AREA_START \in Int /\ MMAP_AREA_END \in Int
    BY AreaAssumption DEF MMAP_AREA_START, MMAP_AREA_END, PAGE
  <2> QED BY <1>1, <1>2, <2>1 DEF AreaOK
<1>5. Floor(vm_area, i) <= a.vm_start /\ a.vm_end <= GapEnd(vm_area, i)
  <2>1. Floor(vm_area, i) \in Int
    BY <1>3 DEF Floor, MMAP_AREA_START, PAGE
  <2>2. Floor(vm_area, i) <= lo /\ hi <= GapEnd(vm_area, i)
    BY <1>2, <2>1
  <2> HIDE DEF a
  <2> QED BY <1>1, <2>2
<1> HIDE DEF a
<1>6. new = Put(vm_area, i, a)
  BY DEF a
<1>7. /\ Sorted(new) /\ Len(new) = Len(vm_area)
      /\ \A k \in 1..Len(vm_area) : new[k] = IF k = i THEN a ELSE vm_area[k]
  <2>1. Sorted(vm_area) /\ i \in 1..Len(vm_area) /\ a \in Rec
    BY <1>1, <1>2
  <2>2. Floor(vm_area, i) <= a.vm_start /\ a.vm_end <= GapEnd(vm_area, i) /\ AreaOK(a)
    BY <1>4, <1>5
  <2> QED BY <1>6, <2>1, <2>2, PutFacts
<1>8. \A k \in 1..(Len(vm_area) - 1) : Mergeable(new[k], new[k + 1]) =>
        \/ k = i - 1 /\ i > 1 /\ Mergeable(vm_area[i - 1], a)
        \/ k = i /\ i < Len(vm_area) /\ Mergeable(a, vm_area[i + 1])
        \/ k # i - 1 /\ k # i /\ Mergeable(vm_area[k], vm_area[k + 1])
  <2>1. /\ Len(new) = Len(vm_area)
        /\ \A k \in 1..Len(vm_area) : new[k] = IF k = i THEN a ELSE vm_area[k]
    BY <1>7
  <2>2. Sorted(vm_area) /\ i \in 1..Len(vm_area)
    BY <1>2
  <2> QED BY <2>1, <2>2, ReplacePairs, SMTT(30)
<1>9. i > 1 /\ Mergeable(vm_area[i - 1], a) => prot # Vm.access_flags
  BY <1>1, <1>2, <1>3 DEF Mergeable
<1>10. i < Len(vm_area) /\ Mergeable(a, vm_area[i + 1]) => prot # Vm.access_flags /\ hi = Vm.vm_end
  BY <1>1, <1>2, <1>3 DEF Mergeable
<1>11. \A k \in 1..(Len(vm_area) - 1) : ~Mergeable(vm_area[k], vm_area[k + 1])
  BY DEF Inv, Apart
<1>12. SameAbove(new, i)
  <2>1. i < Len(vm_area) => i + 1 \in 1..Len(vm_area) /\ i + 1 # i
    BY <1>2
  <2> QED BY <1>7, <2>1 DEF SameAbove
<1>13. new[i] = a
  BY <1>2, <1>7
<1>14. \A k \in 1..(Len(new) - 1) :
         \/ ~Mergeable(new[k], new[k + 1])
         \/ k = i - 1 /\ prot # Vm.access_flags
         \/ k = i /\ prot # Vm.access_flags /\ hi = Vm.vm_end
  BY <1>7, <1>8, <1>9, <1>10, <1>11
<1> QED BY <1>7, <1>12, <1>13, <1>14 DEF a

\* A part of the area under the cursor becomes an area a of its own, put in
\* above area i of a list in which that part is free.
LEMMA PartFacts ==
  ASSUME Inv, call # Idle, NEW list, Sorted(list), NEW i \in 1..Len(list), SameAbove(list, i),
         NEW a \in Rec, list[i].vm_end <= a.vm_start, Vm.vm_start <= a.vm_start,
         a.vm_start < a.vm_end, a.vm_end <= Vm.vm_end, a.vm_end % PAGE = 0,
         NEW new, new = InsertAt(list, i + 1, a)
  PROVE  /\ Sorted(new) /\ Len(new) = Len(list) + 1 /\ i + 1 \in 1..Len(new)
         /\ new[i + 1] = a
         /\ SameAbove(new, i + 1)
         /\ \A k \in 1..(Len(new) - 1) : Mergeable(new[k], new[k + 1]) =>
              \/ k < i /\ Mergeable(list[k], list[k + 1])
              \/ k = i /\ Mergeable(list[i], a)
              \/ k = i + 1 /\ a.access_flags # Vm.access_flags /\ a.vm_end = Vm.vm_end
              \/ k > i + 1 /\ Mergeable(list[k - 1], list[k])
<1>1. a.vm_start \in Int /\ a.vm_end \in Int
  BY DEF Rec
<1>2. /\ Sorted(vm_area) /\ Len(vm_area) \in Nat /\ call.vm \in 1..Len(vm_area)
      /\ Vm.vm_start \in Int /\ Vm.vm_end \in Int /\ AreaOK(Vm)
      /\ GapEnd(vm_area, call.vm) \in Int /\ Vm.vm_end <= GapEnd(vm_area, call.vm)
      /\ Len(list) \in Nat
  BY CursorFacts, SortedFacts
<1>3. call.vm < Len(vm_area) =>
        /\ ~Mergeable(Vm, vm_area[call.vm + 1]) /\ Vm.vm_end <= vm_area[call.vm + 1].vm_start
        /\ vm_area[call.vm + 1].vm_start \in Int
  <2>1. call.vm < Len(vm_area) => call.vm + 1 \in 1..Len(vm_area)
    BY <1>2
  <2> QED BY <1>2, <2>1, CursorFacts, SortedFacts
<1>4. AreaOK(a)
  <2>1. MMAP_AREA_START \in Int /\ MMAP_AREA_END \in Int
    BY AreaAssumption DEF MMAP_AREA_START, MMAP_AREA_END, PAGE
  <2> QED BY <1>1, <1>2, <2>1 DEF AreaOK
<1>5. GapEnd(list, i) = GapEnd(vm_area, call.vm)
  BY DEF SameAbove, GapEnd
<1>6. a.vm_end <= GapEnd(list, i)
  BY <1>1, <1>2, <1>5
<1>8. /\ Sorted(new) /\ Len(new) = Len(list) + 1
      /\ \A k \in 1..(Len(list) + 1) :
           new[k] = IF k <= i THEN list[k] ELSE IF k = i + 1 THEN a ELSE list[k - 1]
  BY <1>4, <1>6, InsertSorted, SMTT(30)
<1>9. \A k \in 1..Len(list) : Mergeable(new[k], new[k + 1]) =>
        \/ k = i /\ Mergeable(list[i], a)
        \/ k = i + 1 /\ i < Len(list) /\ Mergeable(a, list[i + 1])
        \/ k < i /\ Mergeable(list[k], list[k + 1])
        \/ k > i + 1 /\ Mergeable(list[k - 1], list[k])
  <2>1. /\ Len(new) = Len(list) + 1
        /\ \A k \in 1..(Len(list) + 1) :
             new[k] = IF k <= i THEN list[k] ELSE IF k = i + 1 THEN a ELSE list[k - 1]
    BY <1>8
  <2> QED BY <2>1, InsertPairs
<1>10. i < Len(list) /\ Mergeable(a, list[i + 1]) => a.access_flags # Vm.access_flags /\ a.vm_end = Vm.vm_end
  BY <1>1, <1>2, <1>3 DEF Mergeable, SameAbove
<1>11. i + 1 \in 1..Len(new) /\ new[i + 1] = a
  BY <1>2, <1>8
<1>12. SameAbove(new, i + 1)
  <2>1. i + 1 < Len(new) <=> i < Len(list)
    BY <1>2, <1>8
  <2>2. i < Len(list) => new[i + 2] = list[i + 1] /\ (i + 1) + 1 = i + 2
    <3>1. i < Len(list) => i + 2 \in 1..(Len(list) + 1) /\ ~(i + 2 <= i) /\ i + 2 # i + 1
                           /\ (i + 2) - 1 = i + 1 /\ (i + 1) + 1 = i + 2
      BY <1>2
    <3> QED BY <1>8, <3>1
  <2> QED BY <2>1, <2>2 DEF SameAbove
<1>13. Len(new) - 1 = Len(list)
  BY <1>2, <1>8
<1> QED BY <1>8, <1>9, <1>10, <1>11, <1>12, <1>13

\* The edits of one field of the area under the cursor, as whole areas.
LEMMA FieldFacts ==
  ASSUME Vm \in Rec, NEW x
  PROVE  /\ [vm_area EXCEPT ![call.vm].vm_end = x] =
              Put(vm_area, call.vm, Area(Vm.vm_start, x, Vm.access_flags))
         /\ [vm_area EXCEPT ![call.vm].vm_start = x] =
              Put(vm_area, call.vm, Area(x, Vm.vm_end, Vm.access_flags))
         /\ [vm_area EXCEPT ![call.vm].access_flags = x] =
              Put(vm_area, call.vm, Area(Vm.vm_start, Vm.vm_end, x))
<1>1. /\ [Vm EXCEPT !.vm_end = x] = Area(Vm.vm_start, x, Vm.access_flags)
      /\ [Vm EXCEPT !.vm_start = x] = Area(x, Vm.vm_end, Vm.access_flags)
      /\ [Vm EXCEPT !.access_flags = x] = Area(Vm.vm_start, Vm.vm_end, x)
  BY DEF Rec, Area
<1>2. /\ [vm_area EXCEPT ![call.vm].vm_end = x] =
           Put(vm_area, call.vm, [Vm EXCEPT !.vm_end = x])
      /\ [vm_area EXCEPT ![call.vm].vm_start = x] =
           Put(vm_area, call.vm, [Vm EXCEPT !.vm_start = x])
      /\ [vm_area EXCEPT ![call.vm].access_flags = x] =
           Put(vm_area, call.vm, [Vm EXCEPT !.access_flags = x])
  BY DEF Put, Vm
<1> QED BY <1>1, <1>2

\* The loop goes on above area j, where nothing was edited.
LEMMA GoOnFacts ==
  ASSUME Inv, call # Idle, NEW list, Sorted(list), Apart(list), NEW j \in 1..Len(list),
         SameAbove(list, j), NEW count \in Int, Len(list) = Len(vm_area) + count,
         Edit(list, count), Continue(list, NextOf(list, j), Vm.vm_end)
  PROVE  Inv'
<1> DEFINE vm == NextOf(list, j)
           caddr == Vm.vm_end
<1>1. /\ caddr \in Int
      /\ call.vm < Len(vm_area) => caddr <= vm_area[call.vm + 1].vm_start
  BY CursorFacts
<1>2. vm = NULL \/ vm \in 1..Len(list)
  BY NextFacts
<1>3. vm # NULL => caddr <= list[vm].vm_start
  <2>1. vm # NULL => j < Len(list) /\ vm = j + 1
    BY NextFacts
  <2> QED BY <1>1, <2>1 DEF SameAbove
<1> HIDE DEF vm, caddr
<1>4. Continue(list, vm, caddr)
  BY DEF vm, caddr
<1> QED BY <1>1, <1>2, <1>3, <1>4, PassFacts

LEMMA UnmapHigherStep ==
  ASSUME Inv, UnmapHigher
  PROVE  Inv'
<1> DEFINE list == [vm_area EXCEPT ![call.vm].vm_end = call.caddr]
           prot == Vm.access_flags
<1>0. call.op = "munmap" /\ Idle.op = "idle"
  BY DEF UnmapHigher, Idle
<1>1. call # Idle
  BY <1>0
<1>2. /\ call.vm \in 1..Len(vm_area) /\ Vm \in Rec /\ prot \in Flags /\ Len(vm_area) \in Nat
      /\ Vm.vm_start \in Int /\ call.caddr \in Int /\ Vm.vm_start <= Vm.vm_start
      /\ call.caddr <= Vm.vm_end
  BY <1>1, CursorFacts
<1>3. Vm.vm_start < call.caddr /\ call.caddr % PAGE = 0
  <2>1. call.caddr > Vm.vm_start
    BY DEF UnmapHigher, Higher
  <2> QED BY <1>1, <1>2, <2>1, CursorFacts
<1>4. list = Put(vm_area, call.vm, Area(Vm.vm_start, call.caddr, prot))
  BY <1>2, FieldFacts
<1>5. Edit(list, 0) /\ Continue(list, NextOf(list, call.vm), Vm.vm_end)
  BY DEF UnmapHigher
<1> HIDE DEF list, prot
<1>6. /\ Sorted(list) /\ Len(list) = Len(vm_area) /\ SameAbove(list, call.vm)
      /\ \A k \in 1..(Len(list) - 1) :
           \/ ~Mergeable(list[k], list[k + 1])
           \/ k = call.vm - 1 /\ prot # Vm.access_flags
           \/ k = call.vm /\ prot # Vm.access_flags /\ call.caddr = Vm.vm_end
  BY <1>1, <1>2, <1>3, <1>4, CutFacts
<1>7. Apart(list)
  BY <1>6 DEF Apart, prot
<1>8. Len(list) = Len(vm_area) + 0 /\ call.vm \in 1..Len(list)
  BY <1>2, <1>6
<1> QED BY <1>1, <1>5, <1>6, <1>7, <1>8, GoOnFacts

LEMMA UnmapLowestStep ==
  ASSUME Inv, UnmapLowest
  PROVE  Inv'
<1> DEFINE list == [vm_area EXCEPT ![call.vm].vm_start = call.end]
           prot == Vm.access_flags
<1>0. call.op = "munmap" /\ Idle.op = "idle"
  BY DEF UnmapLowest, Idle
<1>1. call # Idle
  BY <1>0
<1>2. /\ call.vm \in 1..Len(vm_area) /\ Vm \in Rec /\ prot \in Flags /\ Len(vm_area) \in Nat
      /\ Vm.vm_start \in Int /\ Vm.vm_end \in Int /\ call.end \in Int /\ Vm.vm_end <= Vm.vm_end
      /\ Vm.vm_end % PAGE = 0 /\ Vm.vm_start <= call.end
  BY <1>1, CursorFacts DEF AreaOK
<1>3. call.end < Vm.vm_end
  BY DEF UnmapLowest, Lowest
<1>4. list = Put(vm_area, call.vm, Area(call.end, Vm.vm_end, prot))
  BY <1>2, FieldFacts
<1>5. Edit(list, 0) /\ Continue(list, NextOf(list, call.vm), Vm.vm_end)
  BY DEF UnmapLowest
<1> HIDE DEF list, prot
<1>6. /\ Sorted(list) /\ Len(list) = Len(vm_area) /\ SameAbove(list, call.vm)
      /\ \A k \in 1..(Len(list) - 1) :
           \/ ~Mergeable(list[k], list[k + 1])
           \/ k = call.vm - 1 /\ prot # Vm.access_flags
           \/ k = call.vm /\ prot # Vm.access_flags /\ Vm.vm_end = Vm.vm_end
  BY <1>1, <1>2, <1>3, <1>4, CutFacts
<1>7. Apart(list)
  BY <1>6 DEF Apart, prot
<1>8. Len(list) = Len(vm_area) + 0 /\ call.vm \in 1..Len(list)
  BY <1>2, <1>6
<1> QED BY <1>1, <1>5, <1>6, <1>7, <1>8, GoOnFacts

LEMMA UnmapMiddleStep ==
  ASSUME Inv, UnmapMiddle
  PROVE  Inv'
<1> DEFINE prot == Vm.access_flags
           lower == Area(Vm.vm_start, call.caddr, prot)
           upper == Area(call.end, Vm.vm_end, prot)
           cut == [vm_area EXCEPT ![call.vm].vm_end = call.caddr]
           list == InsertAt(cut, call.vm + 1, upper)
           j == call.vm + 1
<1>0. call.op = "munmap" /\ Idle.op = "idle"
  BY DEF UnmapMiddle, Idle
<1>1. call # Idle
  BY <1>0
<1>2. /\ call.vm \in 1..Len(vm_area) /\ Vm \in Rec /\ prot \in Flags /\ Len(vm_area) \in Nat
      /\ Vm.vm_start \in Int /\ Vm.vm_end \in Int /\ call.end \in Int /\ call.caddr \in Int
      /\ Vm.vm_start <= Vm.vm_start /\ Vm.vm_end <= Vm.vm_end /\ call.caddr <= Vm.vm_end
      /\ Vm.vm_end % PAGE = 0 /\ Vm.vm_start <= call.end /\ call.caddr < call.end
  BY <1>1, CursorFacts DEF AreaOK
<1>3. Vm.vm_start < call.caddr /\ call.caddr % PAGE = 0 /\ call.end < Vm.vm_end
  <2>1. call.caddr > Vm.vm_start /\ call.end < Vm.vm_end
    BY DEF UnmapMiddle, Middle
  <2> QED BY <1>1, <1>2, <2>1, CursorFacts
<1>4. cut = Put(vm_area, call.vm, lower)
  BY <1>2, FieldFacts
<1>5. Edit(list, 1) /\ Continue(list, NextOf(list, j), Vm.vm_end)
  BY DEF UnmapMiddle
<1>6. lower.vm_end = call.caddr /\ upper.vm_start = call.end
  BY DEF Area
<1> HIDE DEF cut, prot
<1>7. /\ Sorted(cut) /\ Len(cut) = Len(vm_area) /\ SameAbove(cut, call.vm)
      /\ cut[call.vm] = lower
      /\ \A k \in 1..(Len(cut) - 1) :
           \/ ~Mergeable(cut[k], cut[k + 1])
           \/ k = call.vm - 1 /\ prot # Vm.access_flags
           \/ k = call.vm /\ prot # Vm.access_flags /\ call.caddr = Vm.vm_end
  BY <1>1, <1>2, <1>3, <1>4, CutFacts
<1>8. \A k \in 1..(Len(cut) - 1) : ~Mergeable(cut[k], cut[k + 1])
  BY <1>7 DEF prot
<1>9. call.vm \in 1..Len(cut) /\ cut[call.vm].vm_end <= call.end
  BY <1>2, <1>6, <1>7
<1>10. /\ upper \in Rec /\ upper.vm_start = call.end /\ upper.vm_end = Vm.vm_end
       /\ upper.access_flags = prot
  BY <1>2 DEF upper, Area, Rec
<1>11. list = InsertAt(cut, call.vm + 1, upper)
  OBVIOUS
<1> HIDE DEF list, upper, lower
<1>12. /\ Sorted(list) /\ Len(list) = Len(cut) + 1 /\ call.vm + 1 \in 1..Len(list)
       /\ SameAbove(list, call.vm + 1)
       /\ \A k \in 1..(Len(list) - 1) : Mergeable(list[k], list[k + 1]) =>
            \/ k < call.vm /\ Mergeable(cut[k], cut[k + 1])
            \/ k = call.vm /\ Mergeable(cut[call.vm], upper)
            \/ k = call.vm + 1 /\ upper.access_flags # Vm.access_flags /\ upper.vm_end = Vm.vm_end
            \/ k > call.vm + 1 /\ Mergeable(cut[k - 1], cut[k])
  <2>1. Sorted(cut) /\ call.vm \in 1..Len(cut) /\ SameAbove(cut, call.vm)
    BY <1>7, <1>9
  <2>2. /\ cut[call.vm].vm_end <= upper.vm_start /\ Vm.vm_start <= upper.vm_start
        /\ upper.vm_start < upper.vm_end /\ upper.vm_end <= Vm.vm_end /\ upper.vm_end % PAGE = 0
    BY <1>2, <1>3, <1>9, <1>10
  <2> QED BY <1>1, <1>10, <1>11, <2>1, <2>2, PartFacts, SMTT(30)
<1>13. ~Mergeable(cut[call.vm], upper)
  BY <1>2, <1>6, <1>7 DEF Mergeable
<1>14. ASSUME NEW k \in 1..(Len(list) - 1) PROVE ~Mergeable(list[k], list[k + 1])
  <2>1. k < call.vm => k \in 1..(Len(cut) - 1)
    BY <1>2, <1>7
  <2>2. k > call.vm + 1 => k - 1 \in 1..(Len(cut) - 1) /\ (k - 1) + 1 = k
    BY <1>2, <1>7, <1>10, <1>12
  <2>3. k > call.vm + 1 => ~Mergeable(cut[k - 1], cut[k])
    BY <1>8, <2>2
  <2> QED BY <1>8, <1>10, <1>12, <1>13, <2>1, <2>3 DEF prot
<1>15. Apart(list) /\ Len(list) = Len(vm_area) + 1
  BY <1>7, <1>10, <1>12, <1>14 DEF Apart
<1> QED BY <1>1, <1>5, <1>10, <1>12, <1>15, GoOnFacts

\* The loop goes on above the area the merges left, or is over.
LEMMA MergedFacts ==
  ASSUME Inv, call # Idle, NEW m, Sorted(m.list), Apart(m.list), m.vm \in 1..Len(m.list),
         m.freed \in Nat, NEW created \in Nat,
         Len(m.list) = Len(vm_area) + created - m.freed,
         Edit(m.list, created - m.freed), NEW caddr \in Int,
         caddr = m.list[m.vm].vm_end \/ caddr > call.end,
         Continue(m.list, NextOf(m.list, m.vm), caddr)
  PROVE  Inv'
<1> DEFINE list == m.list
           vm == NextOf(m.list, m.vm)
           count == created - m.freed
<1>1. vm = NULL \/ vm \in 1..Len(list)
  BY NextFacts
<1>2. vm # NULL => m.list[m.vm].vm_end <= list[vm].vm_start
  BY NextFacts
<1>3. call.end \in Int
  BY CursorFacts
<1>4. vm # NULL /\ caddr < call.end => caddr <= list[vm].vm_start
  BY <1>2, <1>3
<1>5. Len(vm_area) \in Nat
  BY CursorFacts
<1>6. count \in Int /\ Len(list) = Len(vm_area) + count
  BY <1>5
<1>7. Edit(list, count) /\ Continue(list, vm, caddr) /\ Sorted(list) /\ Apart(list)
  OBVIOUS
<1> HIDE DEF list, vm, count
<1> QED BY <1>1, <1>4, <1>6, <1>7, PassFacts

LEMMA ProtectSameStep ==
  ASSUME Inv, ProtectSame
  PROVE  Inv'
<1> DEFINE m == TryMerge(vm_area, call.vm, TRUE, FALSE)
           caddr == m.list[m.vm].vm_end
<1>0. call.op = "mprotect" /\ Idle.op = "idle"
  BY DEF ProtectSame, Protecting, Idle
<1>1. call # Idle
  BY <1>0
<1>2. Edit(m.list, 0 - m.freed) /\ Continue(m.list, NextOf(m.list, m.vm), caddr)
  BY DEF ProtectSame, MergeAndContinue
<1>3. Sorted(vm_area) /\ call.vm \in 1..Len(vm_area) /\ Len(vm_area) \in Nat
  BY <1>1, CursorFacts
<1>4. \A k \in 1..(Len(vm_area) - 1) :
        \/ ~Mergeable(vm_area[k], vm_area[k + 1])
        \/ k = call.vm - 1 /\ TRUE
        \/ k = call.vm /\ FALSE
  BY DEF Inv, Apart
<1> HIDE DEF m
<1>5. /\ Sorted(m.list) /\ Apart(m.list) /\ m.vm \in 1..Len(m.list)
      /\ m.freed \in Nat /\ Len(m.list) = Len(vm_area) - m.freed
  BY <1>3, <1>4, MergeFacts DEF m
<1>6. caddr \in Int /\ Len(m.list) = Len(vm_area) + 0 - m.freed /\ 0 \in Nat
  BY <1>3, <1>5, SortedFacts
<1> QED BY <1>1, <1>2, <1>5, <1>6, MergedFacts

LEMMA ProtectWholeStep ==
  ASSUME Inv, ProtectWhole
  PROVE  Inv'
<1> DEFINE list == [vm_area EXCEPT ![call.vm].access_flags = call.prot]
           m == TryMerge(list, call.vm, TRUE, TRUE)
           caddr == m.list[m.vm].vm_end
<1>0. call.op = "mprotect" /\ Idle.op = "idle"
  BY DEF ProtectWhole, Protecting, Idle
<1>1. call # Idle
  BY <1>0
<1>2. Edit(m.list, 0 - m.freed) /\ Continue(m.list, NextOf(m.list, m.vm), caddr)
  BY DEF ProtectWhole, MergeAndContinue
<1>3. /\ call.vm \in 1..Len(vm_area) /\ Vm \in Rec /\ call.prot \in Flags /\ Len(vm_area) \in Nat
      /\ Vm.vm_start \in Int /\ Vm.vm_end \in Int /\ Vm.vm_start < Vm.vm_end
      /\ Vm.vm_start <= Vm.vm_start /\ Vm.vm_end <= Vm.vm_end /\ Vm.vm_end % PAGE = 0
  BY <1>1, CursorFacts DEF AreaOK
<1>4. list = Put(vm_area, call.vm, Area(Vm.vm_start, Vm.vm_end, call.prot))
  BY <1>3, FieldFacts
<1> HIDE DEF list
<1>5. /\ Sorted(list) /\ Len(list) = Len(vm_area)
      /\ \A k \in 1..(Len(list) - 1) :
           \/ ~Mergeable(list[k], list[k + 1])
           \/ k = call.vm - 1 /\ call.prot # Vm.access_flags
           \/ k = call.vm /\ call.prot # Vm.access_flags /\ Vm.vm_end = Vm.vm_end
  BY <1>1, <1>3, <1>4, CutFacts
<1>6. /\ call.vm \in 1..Len(list)
      /\ \A k \in 1..(Len(list) - 1) :
           \/ ~Mergeable(list[k], list[k + 1])
           \/ k = call.vm - 1 /\ TRUE
           \/ k = call.vm /\ TRUE
  BY <1>3, <1>5
<1> HIDE DEF m
<1>7. /\ Sorted(m.list) /\ Apart(m.list) /\ m.vm \in 1..Len(m.list)
      /\ m.freed \in Nat /\ Len(m.list) = Len(list) - m.freed
  BY <1>5, <1>6, MergeFacts DEF m
<1>8. caddr \in Int /\ Len(m.list) = Len(vm_area) + 0 - m.freed /\ 0 \in Nat
  BY <1>3, <1>5, <1>7, SortedFacts
<1> QED BY <1>1, <1>2, <1>7, <1>8, MergedFacts

LEMMA ProtectHigherStep ==
  ASSUME Inv, ProtectHigher
  PROVE  Inv'
<1> DEFINE flags == Vm.access_flags
           lower == Area(Vm.vm_start, call.caddr, flags)
           upper == Area(call.caddr, Vm.vm_end, call.prot)
           cut == [vm_area EXCEPT ![call.vm].vm_end = call.caddr]
           list == InsertAt(cut, call.vm + 1, upper)
           j == call.vm + 1
           m == TryMerge(list, j, FALSE, TRUE)
           caddr == m.list[m.vm].vm_end
<1>0. call.op = "mprotect" /\ Idle.op = "idle" /\ flags # call.prot
  BY DEF ProtectHigher, Protecting, Idle
<1>1. call # Idle
  BY <1>0
<1>2. Edit(m.list, 1 - m.freed) /\ Continue(m.list, NextOf(m.list, m.vm), caddr)
  BY DEF ProtectHigher, MergeAndContinue
<1>3. /\ call.vm \in 1..Len(vm_area) /\ Vm \in Rec /\ flags \in Flags /\ call.prot \in Flags
      /\ Vm.vm_start \in Int /\ Vm.vm_end \in Int /\ call.caddr \in Int /\ Len(vm_area) \in Nat
      /\ Vm.vm_start <= Vm.vm_start /\ Vm.vm_end <= Vm.vm_end /\ Vm.vm_end % PAGE = 0
      /\ Vm.vm_start <= call.caddr /\ call.caddr < Vm.vm_end /\ call.caddr <= Vm.vm_end
  BY <1>1, CursorFacts DEF AreaOK
<1>4. Vm.vm_start < call.caddr /\ call.caddr % PAGE = 0
  <2>1. call.caddr > Vm.vm_start
    BY DEF ProtectHigher, Higher
  <2> QED BY <1>1, <1>3, <2>1, CursorFacts
<1>5. cut = Put(vm_area, call.vm, lower)
  BY <1>3, FieldFacts
<1>6. lower.vm_end = call.caddr /\ lower.access_flags = flags /\ upper.access_flags = call.prot
  BY DEF Area
<1> HIDE DEF cut, flags
<1>7. /\ Sorted(cut) /\ Len(cut) = Len(vm_area) /\ SameAbove(cut, call.vm)
      /\ cut[call.vm] = lower
      /\ \A k \in 1..(Len(cut) - 1) :
           \/ ~Mergeable(cut[k], cut[k + 1])
           \/ k = call.vm - 1 /\ flags # Vm.access_flags
           \/ k = call.vm /\ flags # Vm.access_flags /\ call.caddr = Vm.vm_end
  BY <1>1, <1>3, <1>4, <1>5, CutFacts
<1>8. \A k \in 1..(Len(cut) - 1) : ~Mergeable(cut[k], cut[k + 1])
  BY <1>7 DEF flags
<1>9. call.vm \in 1..Len(cut) /\ cut[call.vm].vm_end <= call.caddr
  BY <1>3, <1>6, <1>7
<1>10. /\ upper \in Rec /\ upper.vm_start = call.caddr /\ upper.vm_end = Vm.vm_end
       /\ upper.access_flags = call.prot
  BY <1>3 DEF upper, Area, Rec
<1>11. list = InsertAt(cut, call.vm + 1, upper)
  OBVIOUS
<1> HIDE DEF list, upper, lower, m
<1>12. /\ Sorted(list) /\ Len(list) = Len(cut) + 1 /\ call.vm + 1 \in 1..Len(list)
       /\ SameAbove(list, call.vm + 1)
       /\ \A k \in 1..(Len(list) - 1) : Mergeable(list[k], list[k + 1]) =>
            \/ k < call.vm /\ Mergeable(cut[k], cut[k + 1])
            \/ k = call.vm /\ Mergeable(cut[call.vm], upper)
            \/ k = call.vm + 1 /\ upper.access_flags # Vm.access_flags /\ upper.vm_end = Vm.vm_end
            \/ k > call.vm + 1 /\ Mergeable(cut[k - 1], cut[k])
  <2>1. Sorted(cut) /\ call.vm \in 1..Len(cut) /\ SameAbove(cut, call.vm)
    BY <1>7, <1>9
  <2>2. /\ cut[call.vm].vm_end <= upper.vm_start /\ Vm.vm_start <= upper.vm_start
        /\ upper.vm_start < upper.vm_end /\ upper.vm_end <= Vm.vm_end /\ upper.vm_end % PAGE = 0
    BY <1>3, <1>4, <1>9, <1>10
  <2> QED BY <1>1, <1>10, <1>11, <2>1, <2>2, PartFacts, SMTT(30)
<1>13. ~Mergeable(cut[call.vm], upper)
  BY <1>0, <1>6, <1>7 DEF Mergeable
<1>14. ASSUME NEW k \in 1..(Len(list) - 1)
       PROVE  ~Mergeable(list[k], list[k + 1]) \/ (k = j - 1 /\ FALSE) \/ (k = j /\ TRUE)
  <2>1. k < call.vm => k \in 1..(Len(cut) - 1)
    BY <1>3, <1>7
  <2>2. k > call.vm + 1 => k - 1 \in 1..(Len(cut) - 1) /\ (k - 1) + 1 = k
    BY <1>3, <1>7, <1>10, <1>12
  <2>3. k > call.vm + 1 => ~Mergeable(cut[k - 1], cut[k])
    BY <1>8, <2>2
  <2> QED BY <1>8, <1>10, <1>12, <1>13, <2>1, <2>3
<1>14a. j \in 1..Len(list)
  BY <1>12
<1> HIDE DEF j
<1>15. /\ Sorted(m.list) /\ Apart(m.list) /\ m.vm \in 1..Len(m.list)
       /\ m.freed \in Nat /\ Len(m.list) = Len(list) - m.freed
  BY <1>12, <1>14, <1>14a, MergeFacts DEF m
<1>16. caddr \in Int
  BY <1>15, SortedFacts
<1>17. Len(m.list) = Len(vm_area) + 1 - m.freed /\ 1 \in Nat
  <2>1. /\ Len(m.list) = Len(list) - m.freed /\ Len(list) = Len(cut) + 1 /\ Len(cut) = Len(vm_area)
        /\ m.freed \in Nat
    BY <1>7, <1>10, <1>12, <1>15
  <2> QED BY <1>3, <2>1
<1> QED BY <1>1, <1>2, <1>15, <1>16, <1>17, MergedFacts

LEMMA ProtectLowestStep ==
  ASSUME Inv, ProtectLowest
  PROVE  Inv'
<1> DEFINE flags == Vm.access_flags
           lower == Area(Vm.vm_start, call.end, call.prot)
           upper == Area(call.end, Vm.vm_end, flags)
           cut == [vm_area EXCEPT ![call.vm] = lower]
           list == InsertAt(cut, call.vm + 1, upper)
           m == TryMerge(list, call.vm, TRUE, FALSE)
           caddr == Vm.vm_end
<1>0. call.op = "mprotect" /\ Idle.op = "idle" /\ flags # call.prot
  BY DEF ProtectLowest, Protecting, Idle
<1>1. call # Idle
  BY <1>0
<1>2. Edit(m.list, 1 - m.freed) /\ Continue(m.list, NextOf(m.list, m.vm), caddr)
  BY DEF ProtectLowest
<1>3. /\ call.vm \in 1..Len(vm_area) /\ Vm \in Rec /\ flags \in Flags /\ call.prot \in Flags
      /\ Vm.vm_start \in Int /\ Vm.vm_end \in Int /\ call.end \in Int /\ Len(vm_area) \in Nat
      /\ Vm.vm_start <= Vm.vm_start /\ Vm.vm_end <= Vm.vm_end /\ Vm.vm_end % PAGE = 0
      /\ call.end % PAGE = 0 /\ Vm.vm_start < call.end /\ Vm.vm_start <= call.end
      /\ call.caddr \in Int
  BY <1>1, CursorFacts DEF AreaOK
<1>4. call.end < Vm.vm_end /\ call.end <= Vm.vm_end
  <2>1. call.end < Vm.vm_end
    BY DEF ProtectLowest, Lowest
  <2> QED BY <1>3, <2>1
<1>5. cut = Put(vm_area, call.vm, lower)
  BY DEF Put
<1>6. lower.vm_end = call.end /\ lower.access_flags = call.prot /\ upper.access_flags = flags
  BY DEF Area
<1> HIDE DEF cut, flags
<1>7. /\ Sorted(cut) /\ Len(cut) = Len(vm_area) /\ SameAbove(cut, call.vm)
      /\ cut[call.vm] = lower
      /\ \A k \in 1..(Len(cut) - 1) :
           \/ ~Mergeable(cut[k], cut[k + 1])
           \/ k = call.vm - 1 /\ call.prot # Vm.access_flags
           \/ k = call.vm /\ call.prot # Vm.access_flags /\ call.end = Vm.vm_end
  BY <1>1, <1>3, <1>4, <1>5, CutFacts
<1>8. \A k \in 1..(Len(cut) - 1) : ~Mergeable(cut[k], cut[k + 1]) \/ k = call.vm - 1
  BY <1>3, <1>4, <1>7
<1>9. call.vm \in 1..Len(cut) /\ cut[call.vm].vm_end <= call.end
  BY <1>3, <1>6, <1>7
<1>10. /\ upper \in Rec /\ upper.vm_start = call.end /\ upper.vm_end = Vm.vm_end
       /\ upper.access_flags = flags
  BY <1>3 DEF upper, Area, Rec
<1>11. list = InsertAt(cut, call.vm + 1, upper)
  OBVIOUS
<1> HIDE DEF list, upper, lower, m
<1>12. /\ Sorted(list) /\ Len(list) = Len(cut) + 1 /\ call.vm + 1 \in 1..Len(list)
       /\ SameAbove(list, call.vm + 1)
       /\ \A k \in 1..(Len(list) - 1) : Mergeable(list[k], list[k + 1]) =>
            \/ k < call.vm /\ Mergeable(cut[k], cut[k + 1])
            \/ k = call.vm /\ Mergeable(cut[call.vm], upper)
            \/ k = call.vm + 1 /\ upper.access_flags # Vm.access_flags /\ upper.vm_end = Vm.vm_end
            \/ k > call.vm + 1 /\ Mergeable(cut[k - 1], cut[k])
  <2>1. Sorted(cut) /\ call.vm \in 1..Len(cut) /\ SameAbove(cut, call.vm)
    BY <1>7, <1>9
  <2>2. /\ cut[call.vm].vm_end <= upper.vm_start /\ Vm.vm_start <= upper.vm_start
        /\ upper.vm_start < upper.vm_end /\ upper.vm_end <= Vm.vm_end /\ upper.vm_end % PAGE = 0
    BY <1>3, <1>4, <1>9, <1>10
  <2> QED BY <1>1, <1>10, <1>11, <2>1, <2>2, PartFacts, SMTT(30)
<1>13. ~Mergeable(cut[call.vm], upper)
  BY <1>0, <1>6, <1>7 DEF Mergeable
<1>14. ASSUME NEW k \in 1..(Len(list) - 1)
       PROVE  \/ ~Mergeable(list[k], list[k + 1])
              \/ k = call.vm - 1 /\ TRUE
              \/ k = call.vm /\ FALSE
  <2>1. k < call.vm => k \in 1..(Len(cut) - 1)
    BY <1>3, <1>7
  <2>2. k > call.vm + 1 => k - 1 \in 1..(Len(cut) - 1) /\ (k - 1) + 1 = k /\ k - 1 # call.vm - 1
    BY <1>3, <1>7, <1>10, <1>12
  <2>3. k > call.vm + 1 => ~Mergeable(cut[k - 1], cut[k])
    BY <1>8, <2>2
  <2> QED BY <1>8, <1>10, <1>12, <1>13, <2>1, <2>3 DEF flags
<1>15. call.vm \in 1..Len(list)
  BY <1>3, <1>7, <1>10, <1>12
<1>16. /\ Sorted(m.list) /\ Apart(m.list) /\ m.vm \in 1..Len(m.list)
       /\ m.freed \in Nat /\ Len(m.list) = Len(list) - m.freed
  BY <1>10, <1>12, <1>14, <1>15, MergeFacts DEF m
<1>17. caddr \in Int /\ caddr > call.end
  BY <1>3, <1>4
<1>18. Len(m.list) = Len(vm_area) + 1 - m.freed /\ 1 \in Nat
  <2>1. /\ Len(m.list) = Len(list) - m.freed /\ Len(list) = Len(cut) + 1 /\ Len(cut) = Len(vm_area)
        /\ m.freed \in Nat
    BY <1>7, <1>10, <1>12, <1>16
  <2> QED BY <1>3, <2>1
<1> QED BY <1>1, <1>2, <1>16, <1>17, <1>18, MergedFacts

LEMMA ProtectMiddleStep ==
  ASSUME Inv, ProtectMiddle
  PROVE  Inv'
<1> DEFINE flags == Vm.access_flags
           lower == Area(Vm.vm_start, call.caddr, flags)
           middle == Area(call.caddr, call.end, call.prot)
           upper == Area(call.end, Vm.vm_end, flags)
           cut == [vm_area EXCEPT ![call.vm].vm_end = call.caddr]
           mid == InsertAt(cut, call.vm + 1, middle)
           list == InsertAt(mid, call.vm + 2, upper)
           i == call.vm
           j == i + 1
<1>1. call.op = "mprotect" /\ Idle.op = "idle" /\ flags # call.prot
  BY DEF ProtectMiddle, Protecting, Idle
<1>2. call # Idle
  BY <1>1
<1>3. Edit(list, 2) /\ Continue(list, NextOf(list, call.vm + 2), Vm.vm_end)
  BY DEF ProtectMiddle
<1>4. /\ call.vm \in 1..Len(vm_area) /\ Vm \in Rec /\ flags \in Flags /\ call.prot \in Flags
      /\ Vm.vm_start \in Int /\ Vm.vm_end \in Int /\ call.caddr \in Int /\ Len(vm_area) \in Nat
      /\ call.end \in Int /\ call.end % PAGE = 0 /\ call.caddr < call.end
      /\ Vm.vm_start <= Vm.vm_start /\ Vm.vm_end % PAGE = 0 /\ call.caddr <= Vm.vm_end
  BY <1>2, CursorFacts DEF AreaOK
<1>5. Vm.vm_start < call.caddr /\ call.caddr % PAGE = 0 /\ call.end < Vm.vm_end
  <2>1. call.caddr > Vm.vm_start /\ call.end < Vm.vm_end
    BY DEF ProtectMiddle, Middle
  <2> QED BY <1>2, <1>4, <2>1, CursorFacts
<1>6. cut = Put(vm_area, call.vm, lower)
  BY <1>4, FieldFacts
<1>7. lower.vm_end = call.caddr /\ lower.access_flags = flags
  BY DEF Area
<1>8. /\ middle \in Rec /\ middle.vm_start = call.caddr /\ middle.vm_end = call.end
      /\ middle.access_flags = call.prot
  BY <1>4 DEF Area, Rec
<1>9. /\ upper \in Rec /\ upper.vm_start = call.end /\ upper.vm_end = Vm.vm_end
      /\ upper.access_flags = flags
  BY <1>4 DEF Area, Rec
<1>10. mid = InsertAt(cut, i + 1, middle) /\ list = InsertAt(mid, j + 1, upper)
  <2>1. (call.vm + 1) + 1 = call.vm + 2
    BY <1>4
  <2> QED BY <2>1
<1> HIDE DEF cut, flags
<1>11. /\ Sorted(cut) /\ Len(cut) = Len(vm_area) /\ SameAbove(cut, call.vm)
       /\ cut[call.vm] = lower
       /\ \A k \in 1..(Len(cut) - 1) :
            \/ ~Mergeable(cut[k], cut[k + 1])
            \/ k = call.vm - 1 /\ flags # Vm.access_flags
            \/ k = call.vm /\ flags # Vm.access_flags /\ call.caddr = Vm.vm_end
  BY <1>2, <1>4, <1>5, <1>6, CutFacts
<1> HIDE DEF mid, list, lower, middle, upper
<1>12. /\ Sorted(mid) /\ Len(mid) = Len(cut) + 1 /\ j \in 1..Len(mid) /\ SameAbove(mid, j)
       /\ mid[j] = middle
       /\ \A k \in 1..(Len(mid) - 1) : Mergeable(mid[k], mid[k + 1]) =>
            \/ k < i /\ Mergeable(cut[k], cut[k + 1])
            \/ k = i /\ Mergeable(cut[i], middle)
            \/ k = i + 1 /\ middle.access_flags # Vm.access_flags /\ middle.vm_end = Vm.vm_end
            \/ k > i + 1 /\ Mergeable(cut[k - 1], cut[k])
  <2>1. Sorted(cut) /\ i \in 1..Len(cut) /\ SameAbove(cut, i) /\ cut[i] = lower
    BY <1>4, <1>11
  <2>2. /\ cut[i].vm_end <= middle.vm_start /\ Vm.vm_start <= middle.vm_start
        /\ middle.vm_start < middle.vm_end /\ middle.vm_end <= Vm.vm_end /\ middle.vm_end % PAGE = 0
    BY <1>4, <1>5, <1>7, <1>8, <2>1
  <2>3. mid = InsertAt(cut, i + 1, middle)
    BY <1>10
  <2> HIDE DEF i
  <2> QED BY <1>2, <1>8, <2>1, <2>2, <2>3, PartFacts, SMTT(30)
<1>13. ASSUME NEW k \in 1..(Len(mid) - 1) PROVE ~Mergeable(mid[k], mid[k + 1])
  <2>1. k < call.vm => k \in 1..(Len(cut) - 1)
    BY <1>4, <1>11
  <2>2. k > call.vm + 1 => k - 1 \in 1..(Len(cut) - 1) /\ (k - 1) + 1 = k
    BY <1>4, <1>11, <1>12
  <2>3. \A n \in 1..(Len(cut) - 1) : ~Mergeable(cut[n], cut[n + 1])
    BY <1>11 DEF flags
  <2>4. k > call.vm + 1 => ~Mergeable(cut[k - 1], cut[k])
    BY <2>2, <2>3
  <2>5. ~Mergeable(cut[i], middle)
    BY <1>1, <1>7, <1>8, <1>11 DEF Mergeable
  <2>6. middle.vm_end # Vm.vm_end
    BY <1>4, <1>5, <1>8
  <2> QED BY <1>12, <2>1, <2>3, <2>4, <2>5, <2>6
<1>14. /\ Sorted(list) /\ Len(list) = Len(mid) + 1 /\ j + 1 \in 1..Len(list)
       /\ SameAbove(list, j + 1)
       /\ \A k \in 1..(Len(list) - 1) : Mergeable(list[k], list[k + 1]) =>
            \/ k < j /\ Mergeable(mid[k], mid[k + 1])
            \/ k = j /\ Mergeable(mid[j], upper)
            \/ k = j + 1 /\ upper.access_flags # Vm.access_flags /\ upper.vm_end = Vm.vm_end
            \/ k > j + 1 /\ Mergeable(mid[k - 1], mid[k])
  <2>1. /\ mid[j].vm_end <= upper.vm_start /\ Vm.vm_start <= upper.vm_start
        /\ upper.vm_start < upper.vm_end /\ upper.vm_end <= Vm.vm_end /\ upper.vm_end % PAGE = 0
    BY <1>4, <1>5, <1>8, <1>9, <1>12
  <2>2. Sorted(mid) /\ j \in 1..Len(mid) /\ SameAbove(mid, j)
    BY <1>12
  <2>3. list = InsertAt(mid, j + 1, upper)
    BY <1>10
  <2> HIDE DEF j, i
  <2> QED BY <1>2, <1>9, <2>1, <2>2, <2>3, PartFacts, SMTT(30)
<1>15. ASSUME NEW k \in 1..(Len(list) - 1) PROVE ~Mergeable(list[k], list[k + 1])
  <2>1. k < j => k \in 1..(Len(mid) - 1)
    BY <1>4, <1>11, <1>12
  <2>2. k > j + 1 => k - 1 \in 1..(Len(mid) - 1) /\ (k - 1) + 1 = k
    BY <1>4, <1>11, <1>12, <1>14
  <2>3. k > j + 1 => ~Mergeable(mid[k - 1], mid[k])
    BY <1>13, <2>2
  <2>4. ~Mergeable(mid[j], upper)
    BY <1>1, <1>8, <1>9, <1>12 DEF Mergeable
  <2>5. upper.access_flags = Vm.access_flags
    BY <1>9 DEF flags
  <2> QED BY <1>13, <1>14, <2>1, <2>3, <2>4, <2>5
<1>16. Apart(list)
  BY <1>15 DEF Apart
<1>17. Len(list) = Len(vm_area) + 2 /\ call.vm + 2 \in 1..Len(list) /\ SameAbove(list, call.vm + 2)
  <2>1. j + 1 = call.vm + 2 /\ Len(list) = Len(mid) + 1 /\ Len(mid) = Len(cut) + 1 /\ Len(cut) = Len(vm_area)
    BY <1>4, <1>11, <1>12, <1>14
  <2>2. Len(list) = Len(vm_area) + 2
    BY <1>4, <2>1
  <2>3. call.vm + 2 \in 1..Len(list) /\ SameAbove(list, call.vm + 2)
    BY <1>14, <2>1
  <2> QED BY <2>2, <2>3
<1> QED BY <1>2, <1>3, <1>14, <1>16, <1>17, GoOnFacts

-----------------------------------------------------------------------------
(* Every step.                                                             *)

LEMMA InitInv == Init => Inv
<1>1. <<>> \in Seq(Rec) /\ Len(<<>>) = 0
  OBVIOUS
<1> SUFFICES ASSUME Init PROVE Inv
  OBVIOUS
<1>2. Sorted(vm_area) /\ Apart(vm_area)
  BY <1>1 DEF Init, Sorted, Apart
<1>3. asked \in [length : Nat, prot : Flags]
  BY DEF Init, Nothing, Request, Flags
<1> QED BY <1>1, <1>2, <1>3 DEF Init, Inv, Calls

\* Outside the loops only the list and the values handed out change.
LEMMA IdleFacts ==
  ASSUME Inv, call' = Idle, halted' = halted, NEW list, Sorted(list), Apart(list),
         vm_area' = list, num_vm_area' = Len(list), ret' \in Int,
         asked' \in [length : Nat, prot : Flags]
  PROVE  Inv'
<1>1. call' \in Calls
  BY DEF Calls
<1>2. halted' \in {"no", "null prev_vma"}
  BY DEF Inv
<1> QED BY <1>1, <1>2 DEF Inv

LEMMA MmapStep ==
  ASSUME Inv, NEW addr \in Addresses, NEW length \in Lengths, NEW prot \in Prots,
         NEW flags \in FlagSets, Mmap(addr, length, prot, flags)
  PROVE  Inv'
<1>1. /\ call = Idle /\ call' = call /\ halted' = halted
      /\ addr \in Int /\ length \in Int /\ prot \in Flags
      /\ Nothing \in [length : Nat, prot : Flags]
  BY AreaAssumption DEF Mmap, Flags, Nothing, Request
<1>2. CASE BadRequest(addr, length)
  <2>1. vm_area' = vm_area /\ num_vm_area' = num_vm_area /\ ret' = -1 /\ asked' = Nothing
    BY <1>2 DEF Mmap
  <2>2. Sorted(vm_area) /\ Apart(vm_area) /\ num_vm_area' = Len(vm_area)
    BY <2>1 DEF Inv
  <2> QED BY <1>1, <2>1, <2>2, IdleFacts
<1>3. CASE ~BadRequest(addr, length)
  <2> DEFINE list == WithHead(vm_area)
             heads == Len(list) - Len(vm_area)
             edits == MapEdits(list, addr, length, prot, flags)
  <2>1. \/ /\ vm_area' = list /\ num_vm_area' = num_vm_area + heads
           /\ ret' = -1 /\ asked' = Nothing
        \/ \E e \in edits : /\ vm_area' = e.list
                            /\ num_vm_area' = num_vm_area + heads + e.count
                            /\ ret' = e.addr /\ asked' = Request(length, prot)
    BY <1>3 DEF Mmap
  <2>2. /\ Sorted(list) /\ Apart(list) /\ Len(list) \in Nat
        /\ Len(vm_area) \in Nat /\ num_vm_area = Len(vm_area)
    BY HeadFacts, SortedFacts DEF Inv
  <2>3. length > 0
    BY <1>1, <1>3 DEF BadRequest
  <2> HIDE DEF list, edits
  <2>4. CASE /\ vm_area' = list /\ num_vm_area' = num_vm_area + heads
             /\ ret' = -1 /\ asked' = Nothing
    <3>1. num_vm_area' = Len(list)
      BY <2>2, <2>4
    <3> QED BY <1>1, <2>2, <2>4, <3>1, IdleFacts
  <2>5. ASSUME NEW e \in edits, vm_area' = e.list,
               num_vm_area' = num_vm_area + heads + e.count,
               ret' = e.addr, asked' = Request(length, prot)
        PROVE  Inv'
    <3>1. EditOK(list, e)
      BY <1>1, <2>2, <2>3, MapEditsFacts DEF edits
    <3>2. /\ Sorted(e.list) /\ Apart(e.list) /\ e.addr \in Int
          /\ Len(e.list) = Len(list) + e.count /\ e.count \in Int
      BY <3>1 DEF EditOK
    <3>3. Len(e.list) \in Nat
      BY <3>2, SortedFacts
    <3>4. num_vm_area' = Len(e.list)
      BY <2>2, <2>5, <3>2, <3>3
    <3>5. asked' \in [length : Nat, prot : Flags]
      BY <1>1, <2>3, <2>5 DEF Request
    <3> QED BY <1>1, <2>5, <3>2, <3>4, <3>5, IdleFacts
  <2> QED BY <2>1, <2>4, <2>5
<1> QED BY <1>2, <1>3

LEMMA MunmapStep ==
  ASSUME Inv, NEW addr \in Addresses, NEW length \in Lengths, Munmap(addr, length)
  PROVE  Inv'
<1>1. /\ call = Idle /\ asked' = Nothing /\ vm_area' = vm_area
      /\ num_vm_area' = num_vm_area /\ halted' = halted
      /\ addr \in Int /\ length \in Int /\ PROT_NONE \in Flags
      /\ Nothing \in [length : Nat, prot : Flags]
  BY AreaAssumption DEF Munmap, Flags, Nothing, Request
<1>2. CASE PageOf(addr) * PAGE # addr \/ vm_area = <<>>
  BY <1>1, <1>2 DEF Munmap, Inv
<1>3. CASE ~(PageOf(addr) * PAGE # addr \/ vm_area = <<>>)
  <2> DEFINE c == SkipHead(vm_area, addr)
             end == EndAddr(addr, length)
  <2>1. LoopOrReturn("munmap", LookupVma(vm_area, 1, c), c, end, PROT_NONE)
    BY <1>3 DEF Munmap
  <2>2. addr % PAGE = 0
    BY <1>1, <1>3 DEF PageOf, PAGE
  <2>3. end \in Int /\ end % PAGE = 0
    BY <1>1, EndFacts
  <2>4. Sorted(vm_area) /\ ret \in Int
    BY DEF Inv
  <2> HIDE DEF end
  <2>5. call' \in Calls /\ ret' \in Int /\ (call' # Idle => CursorOK(vm_area, call'))
    BY <1>1, <2>1, <2>2, <2>3, <2>4, EntryFacts
  <2> QED BY <1>1, <2>5 DEF Inv
<1> QED BY <1>2, <1>3

LEMMA MprotectStep ==
  ASSUME Inv, NEW addr \in Addresses, NEW length \in Lengths, NEW prot \in Prots,
         Mprotect(addr, length, prot)
  PROVE  Inv'
<1> DEFINE from == PageOf(addr) * PAGE
           c == SkipHead(vm_area, from)
           end == EndAddr(addr, length)
<1>1. /\ call = Idle /\ asked' = Nothing /\ vm_area' = vm_area
      /\ num_vm_area' = num_vm_area /\ halted' = halted
      /\ addr \in Int /\ length \in Int /\ prot \in Flags
      /\ Nothing \in [length : Nat, prot : Flags]
  BY AreaAssumption DEF Mprotect, Flags, Nothing, Request
<1>2. LoopOrReturn("mprotect", LookupVma(vm_area, 1, c), c, end, prot)
  BY DEF Mprotect
<1>3. from \in Int /\ from % PAGE = 0
  BY <1>1 DEF PageOf, PAGE
<1>4. end \in Int /\ end % PAGE = 0
  BY <1>1, EndFacts
<1>5. Sorted(vm_area) /\ ret \in Int
  BY DEF Inv
<1> HIDE DEF end, from
<1>6. call' \in Calls /\ ret' \in Int /\ (call' # Idle => CursorOK(vm_area, call'))
  BY <1>1, <1>2, <1>3, <1>4, <1>5, EntryFacts
<1> QED BY <1>1, <1>6 DEF Inv

LEMMA ExitStep ==
  ASSUME Inv, Exit
  PROVE  Inv'
<1>1. /\ call' = Idle /\ call = Idle /\ vm_area' = <<>> /\ num_vm_area' = num_vm_area - Len(vm_area)
      /\ ret' = 0 /\ asked' = Nothing /\ halted' = halted
  BY DEF Exit
<1>2. <<>> \in Seq(Rec) /\ Len(<<>>) = 0
  OBVIOUS
<1>3. Sorted(<<>>) /\ Apart(<<>>)
  BY <1>2 DEF Sorted, Apart
<1>4. Len(vm_area) \in Nat /\ num_vm_area = Len(vm_area)
  BY SortedFacts DEF Inv
<1>5. num_vm_area' = Len(<<>>)
  BY <1>1, <1>2, <1>4
<1>6. asked' \in [length : Nat, prot : Flags]
  BY <1>1 DEF Nothing, Request, Flags
<1> QED BY <1>1, <1>3, <1>5, <1>6, IdleFacts

LEMMA NextInv == Inv /\ [Next]_vars => Inv'
<1> SUFFICES ASSUME Inv, [Next]_vars PROVE Inv'
  OBVIOUS
<1>1. CASE UNCHANGED vars
  BY <1>1 DEF Inv, vars
<1>2. CASE LoopStep
  BY <1>2, UnmapWholeStep, UnmapHigherStep, UnmapLowestStep, UnmapMiddleStep,
     ProtectSameStep, ProtectWholeStep, ProtectHigherStep, ProtectLowestStep,
     ProtectMiddleStep DEF LoopStep
<1>3. CASE Exit
  BY <1>3, ExitStep
<1> QED BY <1>1, <1>2, <1>3, MmapStep, MunmapStep, MprotectStep DEF Next

\* Inv holds in every reachable state: every way vm_area_map, vm_area_unmap
\* and vm_area_mprotect edit the list keeps it.
THEOREM Invariance == Spec => []Inv
BY InitInv, NextInv, PTL DEF Spec

-----------------------------------------------------------------------------
(* What the invariant gives.                                               *)

\* The list stays sorted, disjoint and inside the region, through mmap,
\* munmap, mprotect and every pass of their loops.
THEOREM StaysSorted == Spec => []SortedDisjoint
<1>1. Inv => SortedDisjoint
  <2> SUFFICES ASSUME Inv PROVE SortedDisjoint
    OBVIOUS
  <2>1. Sorted(vm_area)
    BY DEF Inv
  <2>2. Len(vm_area) \in Nat
    BY <2>1, SortedFacts
  <2>3. ASSUME NEW i \in 1..(Len(vm_area) - 1)
        PROVE  vm_area[i].vm_end <= vm_area[i + 1].vm_start
    <3>1. i \in 1..Len(vm_area) /\ i + 1 \in 1..Len(vm_area) /\ i < i + 1
      BY <2>2
    <3> QED BY <2>1, <3>1, SortedFacts
  <2>4. ASSUME NEW i \in 1..Len(vm_area) PROVE AreaOK(vm_area[i])
    BY <2>1, SortedFacts
  <2> QED BY <2>3, <2>4 DEF SortedDisjoint, AreaOK
<1> QED BY <1>1, Invariance, PTL

\* Areas that touch differ in protection: try_merge_vms and the merges of
\* map_vm_area and look_up_hint_addr miss no pair.
THEOREM StaysCoalesced == Spec => []Coalesced
<1>1. Inv => Coalesced
  BY DEF Inv, Apart, Coalesced
<1> QED BY <1>1, Invariance, PTL

\* The assertions "mmap logic error" and "mprotect logic error" of the two
\* loops never fail.
THEOREM LoopsMeetTheirAreas == Spec => []NoLogicError
<1>1. Inv => NoLogicError
  <2> SUFFICES ASSUME Inv, call # Idle
               PROVE  /\ call.vm \in 1..Len(vm_area)
                      /\ call.caddr < Vm.vm_end
                      /\ Whole \/ Higher \/ Lowest \/ Middle
    BY DEF NoLogicError
  <2>1. /\ call.vm \in 1..Len(vm_area) /\ call.caddr < Vm.vm_end /\ Vm.vm_start <= call.caddr
        /\ Vm.vm_start \in Int /\ Vm.vm_end \in Int /\ call.caddr \in Int /\ call.end \in Int
    BY CursorFacts
  <2> QED BY <2>1 DEF Whole, Higher, Lowest, Middle
<1> QED BY <1>1, Invariance, PTL

\* The count pmap prints is the length of the list: every allocation and
\* every free of an area is counted once.
THEOREM CountsAreas == Spec => []CountExact
<1>1. Inv => CountExact
  BY DEF Inv, CountExact
<1> QED BY <1>1, Invariance, PTL

\* The variables keep their types, and areas start inside the region.
THEOREM TypeCorrect == Spec => []TypeOK
<1>1. Inv => TypeOK
  <2> SUFFICES ASSUME Inv PROVE TypeOK
    OBVIOUS
  <2>1. vm_area \in Seq(Rec) /\ Len(vm_area) \in Nat
    BY SortedFacts DEF Inv
  <2>2. ASSUME NEW i \in 1..Len(vm_area) PROVE vm_area[i] \in Areas
    <3>1. vm_area[i] \in Rec /\ AreaOK(vm_area[i])
      BY SortedFacts DEF Inv
    <3>2. MMAP_AREA_START \in Int /\ MMAP_AREA_END \in Int
      BY AreaAssumption DEF MMAP_AREA_START, MMAP_AREA_END, PAGE
    <3>3. vm_area[i].vm_start \in Addrs
      BY <3>1, <3>2 DEF AreaOK, Rec, Addrs
    <3> QED BY <3>1, <3>3 DEF Rec, Areas, Flags
  <2>3. vm_area \in [1..Len(vm_area) -> Areas]
    BY <2>1, <2>2, LenProperties
  <2>4. vm_area \in Seq(Areas)
    BY <2>1, <2>3, SeqDef
  <2>5. num_vm_area \in Int
    <3>1. num_vm_area = Len(vm_area)
      BY DEF Inv
    <3> QED BY <2>1, <3>1
  <2> QED BY <2>4, <2>5 DEF Inv, TypeOK, Flags
<1> QED BY <1>1, Invariance, PTL

-----------------------------------------------------------------------------
(* What a list says of an address.                                         *)

\* An area of the list holds address a and has protection p.
Holds(list, a, p) ==
  \E k \in 1..Len(list) : In(a, list[k]) /\ list[k].access_flags = p

\* ProtOf, of any list.
ProtIn(list) ==
  [a \in Addrs |->
     IF \E i \in 1..Len(list) : In(a, list[i])
     THEN list[CHOOSE i \in 1..Len(list) : In(a, list[i])].access_flags
     ELSE IF list = <<>> /\ a < MMAP_AREA_START + PAGE THEN PROT_NONE
     ELSE Unmapped]

\* An address has one protection, and only addresses of the region have one.
LEMMA HoldsFacts ==
  ASSUME NEW list, Sorted(list), NEW a \in Int, NEW p, Holds(list, a, p)
  PROVE  /\ p \in Flags /\ p # Unmapped /\ a \in Addrs
         /\ \A k \in 1..Len(list) : In(a, list[k]) => list[k].access_flags = p
         /\ \A q : Holds(list, a, q) => q = p
<1>1. PICK k \in 1..Len(list) : In(a, list[k]) /\ list[k].access_flags = p
  BY DEF Holds
<1>2. list[k] \in Rec /\ AreaOK(list[k]) /\ list[k].vm_start \in Int /\ list[k].vm_end \in Int
  BY SortedFacts
<1>3. p \in Flags /\ p # Unmapped
  BY <1>1, <1>2, ProtAssumption DEF Rec, Flags
<1>4. a \in Addrs
  <2>1. MMAP_AREA_START \in Int /\ MMAP_AREA_END \in Int
    BY AreaAssumption DEF MMAP_AREA_START, MMAP_AREA_END, PAGE
  <2> QED BY <1>1, <1>2, <2>1 DEF In, AreaOK, Addrs
<1>5. ASSUME NEW j \in 1..Len(list), In(a, list[j]) PROVE list[j].access_flags = p
  <2>1. j = k
    BY <1>1, <1>5, InUnique
  <2> QED BY <1>1, <2>1
<1>6. ASSUME NEW q, Holds(list, a, q) PROVE q = p
  <2>1. PICK j \in 1..Len(list) : In(a, list[j]) /\ list[j].access_flags = q
    BY <1>6 DEF Holds
  <2> QED BY <1>5, <2>1
<1> QED BY <1>3, <1>4, <1>5, <1>6

\* The addresses of the list head are those a process without a list keeps.
LEMMA HeadHolds ==
  ASSUME NEW a \in Addrs, NEW p
  PROVE  Holds(<<Head1>>, a, p) <=> a < MMAP_AREA_START + PAGE /\ p = PROT_NONE
<1>1. Head1.vm_start = 2 /\ Head1.vm_end = 4 /\ Head1.access_flags = PROT_NONE
  BY DEF Head1, Area, EndAddr, PageOf, NumPages, PAGE, MMAP_AREA_START
<1>2. MMAP_AREA_START = 2 /\ MMAP_AREA_START + PAGE = 4 /\ a \in Int /\ 2 <= a
  BY AreaAssumption DEF Addrs, MMAP_AREA_START, MMAP_AREA_END, PAGE
<1> DEFINE l == <<Head1>>
<1>3. Len(l) = 1 /\ l[1] = Head1
  OBVIOUS
<1> HIDE DEF l
<1>4. Holds(l, a, p) <=> In(a, Head1) /\ Head1.access_flags = p
  <2>1. \A k \in 1..Len(l) : k = 1
    BY <1>3
  <2>2. 1 \in 1..Len(l)
    BY <1>3
  <2> QED BY <1>3, <2>1, <2>2 DEF Holds
<1> QED BY <1>1, <1>2, <1>4 DEF In, l

\* ProtOf says what the list with its head holds.
LEMMA ProtIs ==
  ASSUME NEW list, Sorted(list), NEW a \in Addrs, NEW v
  PROVE  ProtIn(list)[a] = v <=>
           IF v = Unmapped THEN \A p : ~Holds(WithHead(list), a, p)
           ELSE Holds(WithHead(list), a, v)
<1>0. a \in Int
  BY AreaAssumption DEF Addrs, MMAP_AREA_START, MMAP_AREA_END, PAGE
<1>1. CASE list = <<>>
  <2>1. Len(list) = 0 /\ WithHead(list) = <<Head1>>
    BY <1>1 DEF WithHead
  <2>2. ProtIn(list)[a] = IF a < MMAP_AREA_START + PAGE THEN PROT_NONE ELSE Unmapped
    <3>1. ~(\E i \in 1..Len(list) : In(a, list[i]))
      BY <2>1
    <3> QED BY <1>1, <3>1 DEF ProtIn
  <2>3. \A p : Holds(WithHead(list), a, p) <=> a < MMAP_AREA_START + PAGE /\ p = PROT_NONE
    BY <2>1, HeadHolds
  <2>4. PROT_NONE # Unmapped
    BY ProtAssumption
  <2> QED BY <2>2, <2>3, <2>4
<1>2. CASE list # <<>>
  <2>1. WithHead(list) = list
    BY <1>2 DEF WithHead
  <2>2. CASE \E i \in 1..Len(list) : In(a, list[i])
    <3> DEFINE i == CHOOSE k \in 1..Len(list) : In(a, list[k])
               p == list[i].access_flags
    <3>1. i \in 1..Len(list) /\ In(a, list[i])
      BY <2>2
    <3>2. ProtIn(list)[a] = p
      BY <2>2 DEF ProtIn
    <3> HIDE DEF i
    <3>3. Holds(list, a, p)
      BY <3>1 DEF Holds
    <3> HIDE DEF p
    <3>4. p # Unmapped /\ \A q : Holds(list, a, q) => q = p
      BY <1>0, <3>3, HoldsFacts
    <3> QED BY <2>1, <3>2, <3>3, <3>4
  <2>3. CASE ~(\E i \in 1..Len(list) : In(a, list[i]))
    <3>1. ProtIn(list)[a] = Unmapped
      BY <1>2, <2>3 DEF ProtIn
    <3>2. \A p : ~Holds(list, a, p)
      BY <2>3 DEF Holds
    <3> QED BY <2>1, <3>1, <3>2
  <2> QED BY <2>2, <2>3
<1> QED BY <1>1, <1>2

-----------------------------------------------------------------------------
(* What the edits of a list change of that.                                *)

IsPut(new, list, i, a) ==
  /\ Len(new) = Len(list)
  /\ \A k \in 1..Len(list) : new[k] = IF k = i THEN a ELSE list[k]

LEMMA PutHolds ==
  ASSUME NEW list, Sorted(list), NEW i \in 1..Len(list), NEW a,
         NEW new, IsPut(new, list, i, a), NEW x \in Int, NEW p
  PROVE  Holds(new, x, p) <=>
           \/ In(x, a) /\ p = a.access_flags
           \/ Holds(list, x, p) /\ ~In(x, list[i])
<1>0. /\ Len(new) = Len(list)
      /\ \A k \in 1..Len(list) : new[k] = IF k = i THEN a ELSE list[k]
  BY DEF IsPut
<1>1. ASSUME Holds(new, x, p)
      PROVE  \/ In(x, a) /\ p = a.access_flags
             \/ Holds(list, x, p) /\ ~In(x, list[i])
  <2>1. PICK k \in 1..Len(new) : In(x, new[k]) /\ new[k].access_flags = p
    BY <1>1 DEF Holds
  <2>2. CASE k = i
    BY <1>0, <2>1, <2>2
  <2>3. CASE k # i
    <3>1. k \in 1..Len(list) /\ new[k] = list[k]
      BY <1>0, <2>3
    <3>2. Holds(list, x, p)
      BY <2>1, <3>1 DEF Holds
    <3>3. ~In(x, list[i])
      BY <2>1, <2>3, <3>1, InUnique
    <3> QED BY <3>2, <3>3
  <2> QED BY <2>2, <2>3
<1>2. ASSUME In(x, a), p = a.access_flags PROVE Holds(new, x, p)
  <2>1. i \in 1..Len(new) /\ new[i] = a
    BY <1>0
  <2> QED BY <1>2, <2>1 DEF Holds
<1>3. ASSUME Holds(list, x, p), ~In(x, list[i]) PROVE Holds(new, x, p)
  <2>1. PICK k \in 1..Len(list) : In(x, list[k]) /\ list[k].access_flags = p
    BY <1>3 DEF Holds
  <2>2. k # i /\ k \in 1..Len(new)
    BY <1>0, <1>3, <2>1
  <2>3. new[k] = list[k]
    BY <1>0, <2>2
  <2> QED BY <2>1, <2>2, <2>3 DEF Holds
<1> QED BY <1>1, <1>2, <1>3

LEMMA InsertHolds ==
  ASSUME NEW list, Sorted(list), NEW i \in 1..Len(list), NEW a,
         NEW new, Len(new) = Len(list) + 1,
         \A k \in 1..(Len(list) + 1) :
           new[k] = IF k <= i THEN list[k] ELSE IF k = i + 1 THEN a ELSE list[k - 1],
         NEW x \in Int, NEW p
  PROVE  Holds(new, x, p) <=>
           \/ In(x, a) /\ p = a.access_flags
           \/ Holds(list, x, p)
<1>0. Len(list) \in Nat
  BY SortedFacts
<1>1. ASSUME Holds(new, x, p)
      PROVE  (In(x, a) /\ p = a.access_flags) \/ Holds(list, x, p)
  <2>1. PICK k \in 1..Len(new) : In(x, new[k]) /\ new[k].access_flags = p
    BY <1>1 DEF Holds
  <2>2. CASE k <= i
    <3>1. k \in 1..Len(list) /\ new[k] = list[k]
      BY <1>0, <2>2
    <3> QED BY <2>1, <3>1 DEF Holds
  <2>3. CASE k = i + 1
    <3>1. new[k] = a
      BY <1>0, <2>3
    <3> QED BY <2>1, <3>1
  <2>4. CASE k > i + 1
    <3>1. k - 1 \in 1..Len(list) /\ new[k] = list[k - 1]
      BY <1>0, <2>4
    <3> QED BY <2>1, <3>1 DEF Holds
  <2> QED BY <1>0, <2>2, <2>3, <2>4
<1>2. ASSUME In(x, a), p = a.access_flags PROVE Holds(new, x, p)
  <2>1. i + 1 \in 1..Len(new) /\ new[i + 1] = a
    BY <1>0
  <2> QED BY <1>2, <2>1 DEF Holds
<1>3. ASSUME Holds(list, x, p) PROVE Holds(new, x, p)
  <2>1. PICK k \in 1..Len(list) : In(x, list[k]) /\ list[k].access_flags = p
    BY <1>3 DEF Holds
  <2>2. CASE k <= i
    <3>1. k \in 1..Len(new) /\ new[k] = list[k]
      BY <1>0, <2>2
    <3> QED BY <2>1, <3>1 DEF Holds
  <2>3. CASE ~(k <= i)
    <3> DEFINE j == k + 1
    <3>1. j \in 1..Len(new) /\ j - 1 = k /\ ~(j <= i) /\ j # i + 1
      BY <1>0, <2>3
    <3> HIDE DEF j
    <3>2. new[j] = list[k]
      BY <3>1
    <3> QED BY <2>1, <3>1, <3>2 DEF Holds
  <2> QED BY <2>2, <2>3
<1> QED BY <1>1, <1>2, <1>3

LEMMA RemoveHolds ==
  ASSUME NEW list, Sorted(list), NEW i \in 1..Len(list),
         NEW new, new = RemoveAt(list, i), NEW x \in Int, NEW p
  PROVE  Holds(new, x, p) <=> Holds(list, x, p) /\ ~In(x, list[i])
<1>0. Len(list) \in Nat
  BY SortedFacts
<1>1. /\ Len(new) = Len(list) - 1
      /\ \A k \in 1..(Len(list) - 1) : new[k] = IF k < i THEN list[k] ELSE list[k + 1]
  BY RemoveSorted
<1>2. ASSUME Holds(new, x, p) PROVE Holds(list, x, p) /\ ~In(x, list[i])
  <2>1. PICK k \in 1..Len(new) : In(x, new[k]) /\ new[k].access_flags = p
    BY <1>2 DEF Holds
  <2> DEFINE j == IF k < i THEN k ELSE k + 1
  <2>2. j \in 1..Len(list) /\ j # i /\ k \in 1..(Len(list) - 1)
    BY <1>0, <1>1
  <2>3. new[k] = list[j]
    BY <1>1, <2>2
  <2> HIDE DEF j
  <2>4. ~In(x, list[i])
    BY <2>1, <2>2, <2>3, InUnique
  <2> QED BY <2>1, <2>2, <2>3, <2>4 DEF Holds
<1>3. ASSUME Holds(list, x, p), ~In(x, list[i]) PROVE Holds(new, x, p)
  <2>1. PICK k \in 1..Len(list) : In(x, list[k]) /\ list[k].access_flags = p
    BY <1>3 DEF Holds
  <2>2. k # i
    BY <1>3, <2>1
  <2> DEFINE j == IF k < i THEN k ELSE k - 1
  <2>3. /\ j \in 1..Len(new) /\ j \in 1..(Len(list) - 1)
        /\ (IF j < i THEN j ELSE j + 1) = k
    BY <1>0, <1>1, <2>2
  <2> HIDE DEF j
  <2>4. new[j] = list[k]
    <3>1. new[j] = IF j < i THEN list[j] ELSE list[j + 1]
      BY <1>1, <2>3
    <3> QED BY <2>3, <3>1
  <2> QED BY <2>1, <2>3, <2>4 DEF Holds
<1> QED BY <1>2, <1>3

\* Merging changes nothing of what a list says.
LEMMA AbsorbHolds ==
  ASSUME NEW list, Sorted(list), NEW i \in 1..(Len(list) - 1),
         Mergeable(list[i], list[i + 1]),
         NEW new, new = Absorb(list, i), NEW x \in Int, NEW p
  PROVE  Holds(new, x, p) <=> Holds(list, x, p)
<1>0. Len(list) \in Nat
  BY SortedFacts
<1> DEFINE a == [list[i] EXCEPT !.vm_end = list[i + 1].vm_end]
           n == i + 1
<1>1. /\ Len(new) = Len(list) - 1
      /\ \A k \in 1..(Len(list) - 1) :
           new[k] = IF k < i THEN list[k] ELSE IF k = i THEN a ELSE list[k + 1]
  BY AbsorbFacts
<1>2. /\ n \in 1..Len(list) /\ i \in 1..Len(list) /\ list[i] \in Rec
      /\ list[i].vm_start \in Int /\ list[i].vm_end \in Int
      /\ list[i].vm_start < list[i].vm_end
      /\ list[n].vm_start \in Int /\ list[n].vm_end \in Int
      /\ list[n].vm_start < list[n].vm_end
      /\ list[n].vm_start = list[i].vm_end /\ list[n].access_flags = list[i].access_flags
  <2>1. i \in 1..Len(list) /\ n \in 1..Len(list)
    BY <1>0
  <2> QED BY <2>1, SortedFacts DEF Mergeable
<1>3. a.vm_start = list[i].vm_start /\ a.vm_end = list[n].vm_end
      /\ a.access_flags = list[i].access_flags
  BY <1>2 DEF Rec
<1> HIDE DEF a
<1>4. In(x, a) <=> In(x, list[i]) \/ In(x, list[n])
  BY <1>2, <1>3 DEF In
<1>5. ASSUME Holds(new, x, p) PROVE Holds(list, x, p)
  <2>1. PICK k \in 1..Len(new) : In(x, new[k]) /\ new[k].access_flags = p
    BY <1>5 DEF Holds
  <2>2. k \in 1..(Len(list) - 1) /\ k \in 1..Len(list) /\ k + 1 \in 1..Len(list)
    BY <1>0, <1>1
  <2>3. CASE k < i
    BY <1>1, <2>1, <2>2, <2>3 DEF Holds
  <2>4. CASE k = i
    <3>1. new[k] = a
      BY <1>1, <2>2, <2>4
    <3> QED BY <1>2, <1>3, <1>4, <2>1, <3>1 DEF Holds
  <2>5. CASE k > i
    BY <1>1, <2>1, <2>2, <2>5 DEF Holds
  <2> QED BY <2>2, <2>3, <2>4, <2>5
<1>6. ASSUME Holds(list, x, p) PROVE Holds(new, x, p)
  <2>1. PICK k \in 1..Len(list) : In(x, list[k]) /\ list[k].access_flags = p
    BY <1>6 DEF Holds
  <2>2. CASE k < i
    <3>1. k \in 1..Len(new) /\ new[k] = list[k]
      BY <1>0, <1>1, <2>2
    <3> QED BY <2>1, <3>1 DEF Holds
  <2>3. CASE k = i \/ k = n
    <3>1. i \in 1..Len(new) /\ new[i] = a
      BY <1>0, <1>1
    <3>2. In(x, a) /\ a.access_flags = p
      BY <1>2, <1>3, <1>4, <2>1, <2>3
    <3> QED BY <3>1, <3>2 DEF Holds
  <2>4. CASE k > n
    <3> DEFINE j == k - 1
    <3>1. j \in 1..(Len(list) - 1) /\ j + 1 = k /\ ~(j < i) /\ j # i
      BY <1>0, <2>4
    <3> HIDE DEF j
    <3>2. new[j] = list[k] /\ j \in 1..Len(new)
      BY <1>1, <3>1
    <3> QED BY <2>1, <3>2 DEF Holds
  <2> QED BY <2>2, <2>3, <2>4
<1> QED BY <1>5, <1>6

\* try_merge_vms changes nothing of what a list says, and the area it leaves
\* the loop on is the one it was given, or a larger one around it.
LEMMA MergeHolds ==
  ASSUME NEW list, Sorted(list), NEW i \in 1..Len(list),
         NEW checkPrev \in BOOLEAN, NEW checkNext \in BOOLEAN,
         NEW m, m = TryMerge(list, i, checkPrev, checkNext)
  PROVE  /\ Sorted(m.list) /\ m.vm \in 1..Len(m.list)
         /\ \A x \in Int : \A p : Holds(m.list, x, p) <=> Holds(list, x, p)
         /\ m.list[m.vm].vm_start <= list[i].vm_start
         /\ list[i].vm_end <= m.list[m.vm].vm_end
         /\ m.list[m.vm].access_flags = list[i].access_flags
<1> DEFINE below == checkPrev /\ i > 1 /\ Mergeable(list[i - 1], list[i])
           l1 == IF below THEN Absorb(list, i - 1) ELSE list
           j == IF below THEN i - 1 ELSE i
           above == checkNext /\ j < Len(l1) /\ Mergeable(l1[j], l1[j + 1])
           l2 == IF above THEN Absorb(l1, j) ELSE l1
<1>1. m.list = l2 /\ m.vm = j
  BY DEF TryMerge
<1>2. /\ Len(list) \in Nat /\ list[i] \in Rec
      /\ list[i].vm_start \in Int /\ list[i].vm_end \in Int
  BY SortedFacts
<1> HIDE DEF l2
<1>3. /\ Sorted(l1) /\ j \in 1..Len(l1)
      /\ \A x \in Int : \A p : Holds(l1, x, p) <=> Holds(list, x, p)
      /\ l1[j].vm_start <= list[i].vm_start /\ list[i].vm_end = l1[j].vm_end
      /\ l1[j].access_flags = list[i].access_flags
  <2>1. CASE below
    <3> DEFINE k == i - 1
    <3>1. /\ k \in 1..(Len(list) - 1) /\ k + 1 = i /\ Mergeable(list[k], list[k + 1])
          /\ k \in 1..Len(list)
      BY <1>2, <2>1
    <3>2. l1 = Absorb(list, k) /\ j = k
      BY <2>1
    <3>3. /\ list[k] \in Rec /\ list[k].vm_start \in Int /\ list[k].vm_end \in Int
          /\ list[k].vm_start < list[k].vm_end
      BY <3>1, SortedFacts
    <3> HIDE DEF l1, j, k
    <3> DEFINE new == Absorb(list, k)
    <3>4. /\ Sorted(new) /\ Len(new) = Len(list) - 1
          /\ \A n \in 1..(Len(list) - 1) :
               new[n] = IF n < k THEN list[n]
                        ELSE IF n = k THEN [list[k] EXCEPT !.vm_end = list[k + 1].vm_end]
                        ELSE list[n + 1]
      BY <3>1, AbsorbFacts
    <3>5. \A x \in Int : \A p : Holds(new, x, p) <=> Holds(list, x, p)
      BY <3>1, AbsorbHolds
    <3> HIDE DEF new
    <3>6. new[k] = [list[k] EXCEPT !.vm_end = list[k + 1].vm_end] /\ k \in 1..Len(new)
      BY <1>2, <3>1, <3>4
    <3>7. /\ new[k].vm_start = list[k].vm_start /\ new[k].vm_end = list[i].vm_end
          /\ new[k].access_flags = list[k].access_flags
      BY <3>1, <3>3, <3>6 DEF Rec
    <3>8. list[k].vm_end = list[i].vm_start /\ list[k].access_flags = list[i].access_flags
      BY <3>1 DEF Mergeable
    <3>9. new[k].vm_start <= list[i].vm_start
      BY <1>2, <3>3, <3>7, <3>8
    <3> QED BY <3>2, <3>4, <3>5, <3>6, <3>7, <3>8, <3>9 DEF new
  <2>2. CASE ~below
    <3>1. l1 = list /\ j = i
      BY <2>2
    <3> HIDE DEF l1, j
    <3> QED BY <1>2, <3>1
  <2> QED BY <2>1, <2>2
<1> HIDE DEF l1, j, below
<1>4. Len(l1) \in Nat /\ l1[j] \in Rec /\ l1[j].vm_start \in Int /\ l1[j].vm_end \in Int
  BY <1>3, SortedFacts
<1>5. CASE above
  <2>1. j \in 1..(Len(l1) - 1) /\ Mergeable(l1[j], l1[j + 1]) /\ l2 = Absorb(l1, j)
    BY <1>3, <1>4, <1>5 DEF l2
  <2> DEFINE n == j + 1
  <2>2. /\ l1[n].vm_start \in Int /\ l1[n].vm_end \in Int
        /\ l1[n].vm_start < l1[n].vm_end
    <3>1. n \in 1..Len(l1)
      BY <1>4, <2>1
    <3> HIDE DEF n
    <3> QED BY <1>3, <3>1, SortedFacts
  <2> HIDE DEF above
  <2>3. Sorted(l2) /\ Len(l2) = Len(l1) - 1 /\ \A k \in 1..(Len(l1) - 1) :
          l2[k] = IF k < j THEN l1[k]
                  ELSE IF k = j THEN [l1[j] EXCEPT !.vm_end = l1[j + 1].vm_end]
                  ELSE l1[k + 1]
    <3> DEFINE new == Absorb(l1, j)
    <3>1. \A k \in 1..(Len(l1) - 1) :
            new[k] = IF k < j THEN l1[k]
                     ELSE IF k = j THEN [l1[j] EXCEPT !.vm_end = l1[j + 1].vm_end]
                     ELSE l1[k + 1]
      <4>1. Sorted(l1) /\ j \in 1..(Len(l1) - 1) /\ Mergeable(l1[j], l1[j + 1])
        BY <1>3, <2>1
      <4> QED BY <4>1, AbsorbFacts
    <3>1a. Sorted(new) /\ Len(new) = Len(l1) - 1
      <4>1. Sorted(l1) /\ j \in 1..(Len(l1) - 1) /\ Mergeable(l1[j], l1[j + 1])
        BY <1>3, <2>1
      <4> QED BY <4>1, AbsorbFacts
    <3> HIDE DEF new
    <3>2. l2 = new
      BY <2>1 DEF new
    <3> QED BY <3>1, <3>1a, <3>2
  <2>4. \A x \in Int : \A p : Holds(l2, x, p) <=> Holds(l1, x, p)
    BY <1>3, <2>1, AbsorbHolds
  <2>5. l2[j] = [l1[j] EXCEPT !.vm_end = l1[n].vm_end]
    BY <1>3, <2>1, <2>3
  <2>6. /\ l2[j].vm_start = l1[j].vm_start /\ l2[j].vm_end = l1[n].vm_end
        /\ l2[j].access_flags = l1[j].access_flags
    BY <1>4, <2>5 DEF Rec
  <2>7. l1[j].vm_end = l1[n].vm_start
    BY <2>1 DEF Mergeable
  <2> HIDE DEF n
  <2>8. list[i].vm_end <= l2[j].vm_end
    BY <1>2, <1>3, <2>2, <2>6, <2>7
  <2>9. j \in 1..Len(l2)
    BY <1>4, <2>1, <2>3
  <2> QED BY <1>1, <1>3, <2>3, <2>4, <2>6, <2>8, <2>9
<1>6. CASE ~above
  <2>1. l2 = l1
    BY <1>6 DEF l2
  <2> HIDE DEF above
  <2>2. list[i].vm_end <= l1[j].vm_end
    BY <1>2, <1>3
  <2> QED BY <1>1, <1>3, <2>1, <2>2
<1> QED BY <1>5, <1>6

-----------------------------------------------------------------------------
(* One pass through a loop is one sweep of the address space.              *)

\* From list old to list new, the addresses from lo to e - 1 take the target
\* value t, and no others change.
Treats(old, new, t, lo, e) ==
  \A a \in Int : \A p :
    Holds(new, a, p) <=> IF lo <= a /\ a < e THEN p = t /\ t # Unmapped
                         ELSE Holds(old, a, p)

\* Every address from lo to e - 1 is mapped; every mapped address from e to
\* c - 1 has the value t.
AllMapped(list, lo, e) == \A a \in Int : lo <= a /\ a < e => \E p : Holds(list, a, p)

OnlyTarget(list, t, e, c) ==
  \A a \in Int : e <= a /\ a < c => \A p : Holds(list, a, p) => p = t

\* ProtOf has the value t for every address from lo to c - 1 that was mapped.
Swept(old, new, t, lo, c) ==
  ProtIn(new) = [a \in Addrs |-> IF ProtIn(old)[a] # Unmapped /\ lo <= a /\ a < c
                                 THEN t ELSE ProtIn(old)[a]]

\* In terms of ProtOf, and up to an address c in front of which nothing is
\* left to change.
LEMMA SweepFunction ==
  ASSUME NEW old, Sorted(old), old # <<>>, NEW new, Sorted(new), new # <<>>,
         NEW t, NEW lo \in Int, NEW e \in Int, NEW c \in Int, e <= c,
         Treats(old, new, t, lo, e),
         AllMapped(old, lo, e), OnlyTarget(new, t, e, c)
  PROVE  Swept(old, new, t, lo, c)
<1> DEFINE Then(a) == IF ProtIn(old)[a] # Unmapped /\ lo <= a /\ a < c
                      THEN t ELSE ProtIn(old)[a]
<1>0. WithHead(old) = old /\ WithHead(new) = new
  BY DEF WithHead
<1>1. ASSUME NEW a \in Addrs PROVE ProtIn(new)[a] = Then(a)
  <2> DEFINE v == ProtIn(old)[a]
             w == Then(a)
  <2>0. a \in Int
    BY AreaAssumption DEF Addrs, MMAP_AREA_START, MMAP_AREA_END, PAGE
  <2>1. IF v = Unmapped THEN \A p : ~Holds(old, a, p) ELSE Holds(old, a, v)
    BY <1>0, ProtIs
  <2>2. w = IF v # Unmapped /\ lo <= a /\ a < c THEN t ELSE v
    OBVIOUS
  <2>3. \A p : Holds(new, a, p) <=> IF lo <= a /\ a < e THEN p = t /\ t # Unmapped
                                    ELSE Holds(old, a, p)
    BY <2>0 DEF Treats
  <2>4. lo <= a /\ a < e => \E p : Holds(old, a, p)
    BY <2>0 DEF AllMapped
  <2>5. e <= a /\ a < c => \A p : Holds(new, a, p) => p = t
    BY <2>0 DEF OnlyTarget
  <2> HIDE DEF v, w
  <2>6. IF w = Unmapped THEN \A p : ~Holds(new, a, p) ELSE Holds(new, a, w)
    <3>1. CASE lo <= a /\ a < e
      BY <2>0, <2>1, <2>2, <2>3, <2>4, <3>1
    <3>2. CASE lo <= a /\ e <= a /\ a < c
      <4>1. ~(lo <= a /\ a < e)
        BY <2>0, <3>2
      <4>2. \A p : Holds(new, a, p) <=> Holds(old, a, p)
        BY <2>3, <4>1
      <4>3. CASE v = Unmapped
        BY <2>1, <2>2, <4>2, <4>3
      <4>4. CASE v # Unmapped
        BY <2>1, <2>2, <2>5, <3>2, <4>2, <4>4
      <4> QED BY <4>3, <4>4
    <3>3. CASE ~(lo <= a /\ a < c)
      <4>1. ~(lo <= a /\ a < e)
        BY <2>0, <3>3
      <4>2. w = v
        BY <2>2, <3>3
      <4> QED BY <2>1, <2>3, <4>1, <4>2
    <3> QED BY <2>0, <3>1, <3>2, <3>3
  <2>7. ProtIn(new)[a] = w
    BY <1>0, <2>6, ProtIs
  <2> QED BY <2>7 DEF w
<1>2. ProtIn(new) = [a \in Addrs |-> ProtIn(new)[a]]
  BY DEF ProtIn
<1> HIDE DEF Then
<1>3. ProtIn(new) = [a \in Addrs |-> Then(a)]
  BY <1>1, <1>2
<1> QED BY <1>3 DEF Then, Swept

\* Nothing is mapped between an area and the next one.
LEMMA AboveFree ==
  ASSUME NEW list, Sorted(list), NEW j \in 1..Len(list), NEW a \in Int,
         list[j].vm_end <= a, j < Len(list) => a < list[j + 1].vm_start,
         NEW p
  PROVE  ~Holds(list, a, p)
<1> SUFFICES ASSUME Holds(list, a, p) PROVE FALSE
  OBVIOUS
<1>0. Len(list) \in Nat
  BY SortedFacts
<1>1. PICK k \in 1..Len(list) : In(a, list[k])
  BY DEF Holds
<1>2. list[k].vm_start \in Int /\ list[k].vm_end \in Int /\ list[k].vm_start <= a /\ a < list[k].vm_end
  BY <1>1, SortedFacts DEF In
<1>3. list[j].vm_start \in Int /\ list[j].vm_end \in Int /\ list[j].vm_start < list[j].vm_end
  BY SortedFacts
<1>4. CASE k < j
  <2>1. list[k].vm_end <= list[j].vm_start
    BY <1>4, SortedFacts
  <2> QED BY <1>2, <1>3, <2>1
<1>5. CASE k = j
  BY <1>2, <1>3, <1>5
<1>6. CASE k > j
  <2> DEFINE n == j + 1
  <2>1. n \in 1..Len(list) /\ j < Len(list)
    BY <1>0, <1>6
  <2>2. a < list[n].vm_start /\ list[n].vm_start \in Int /\ list[n].vm_end \in Int
        /\ list[n].vm_start < list[n].vm_end
    BY <2>1, SortedFacts
  <2>3. k = n \/ n < k
    BY <1>6
  <2> HIDE DEF n
  <2>4. CASE n < k
    <3>1. list[n].vm_end <= list[k].vm_start
      BY <2>1, <2>4, SortedFacts
    <3> QED BY <1>2, <2>2, <3>1
  <2> QED BY <1>2, <2>2, <2>3, <2>4
<1> QED BY <1>4, <1>5, <1>6

\* What the call in progress gives, how far it goes, and how far in this pass.
Target == IF call.op = "munmap" THEN Unmapped ELSE call.prot
Top == IF call.end < MMAP_AREA_END THEN call.end ELSE MMAP_AREA_END
PassEnd == IF call.end < Vm.vm_end THEN call.end ELSE Vm.vm_end

\* The two ways a pass can end: on the next area, or with the call.
LEMMA PassEnds ==
  ASSUME NEW list, Sorted(list), call \in Calls, call # Idle, NEW j \in 1..Len(list),
         NEW caddr \in Int,
         caddr < call.end /\ j < Len(list) => caddr <= list[j + 1].vm_start,
         Continue(list, NextOf(list, j), caddr)
  PROVE  \/ /\ j < Len(list) /\ caddr < call.end /\ list[j + 1].vm_start < call.end
            /\ call' = [op |-> call.op, vm |-> j + 1, caddr |-> list[j + 1].vm_start,
                        end |-> call.end, prot |-> call.prot]
            /\ ret' = ret
         \/ /\ call' = Idle /\ ret' = 0
            /\ caddr >= call.end \/ (j < Len(list) => call.end <= list[j + 1].vm_start)
<1> DEFINE n == j + 1
           start == list[n].vm_start
           vm == NextOf(list, j)
           c == IF vm # NULL
                THEN (IF caddr < list[vm].vm_start THEN list[vm].vm_start ELSE caddr)
                ELSE caddr
           next == IF call.op = "mprotect" /\ vm # NULL THEN LookupVma(list, vm, c) ELSE vm
<1>0. call.end \in Int /\ Len(list) \in Nat
  BY CallFacts, SortedFacts
<1>1. LoopOrReturn(call.op, next, c, call.end, call.prot)
  BY DEF Continue
<1>2. CASE j < Len(list)
  <2>1. n \in 1..Len(list) /\ n # NULL /\ vm = n
    BY <1>0, <1>2 DEF NULL, NextOf
  <2>2. start \in Int /\ LookupVma(list, n, start) = n
    BY <2>1, SortedFacts, LookupStart
  <2>3. c = IF caddr < start THEN start ELSE caddr
    BY <2>1
  <2>4. caddr < call.end => caddr <= start
    BY <1>2
  <2> HIDE DEF c, start, vm, n
  <2>5. c \in Int
    BY <2>2, <2>3
  <2>6. c < call.end => c = start /\ next = n /\ caddr < call.end
    <3>1. c < call.end => c = start /\ caddr < call.end
      BY <1>0, <2>2, <2>3, <2>4
    <3> QED BY <2>1, <2>2, <3>1
  <2> HIDE DEF next
  <2>7. CASE c < call.end
    <3>1. next # NULL /\ next = n /\ c = start /\ caddr < call.end
      BY <2>1, <2>6, <2>7
    <3>2. /\ call' = [op |-> call.op, vm |-> n, caddr |-> start,
                      end |-> call.end, prot |-> call.prot]
          /\ ret' = ret
      BY <1>1, <2>7, <3>1 DEF LoopOrReturn
    <3> QED BY <1>2, <2>7, <3>1, <3>2 DEF n, start
  <2>8. CASE ~(c < call.end)
    <3>1. call' = Idle /\ ret' = 0
      BY <1>1, <2>8 DEF LoopOrReturn
    <3>2. caddr >= call.end \/ call.end <= start
      BY <1>0, <2>2, <2>3, <2>8
    <3> QED BY <3>1, <3>2 DEF n, start
  <2> QED BY <2>7, <2>8
<1>3. CASE ~(j < Len(list))
  <2>1. vm = NULL
    BY <1>3 DEF NextOf
  <2>2. next = NULL
    BY <2>1
  <2> HIDE DEF next, c
  <2>3. call' = Idle /\ ret' = 0
    BY <1>1, <2>2 DEF LoopOrReturn
  <2> QED BY <1>3, <2>3
<1> QED BY <1>2, <1>3

\* The bounds of the pass.
LEMMA BoundFacts ==
  ASSUME Inv, call # Idle
  PROVE  /\ call.caddr \in Addrs /\ call.caddr \in Int /\ PassEnd \in Int /\ Top \in Int
         /\ call.caddr < PassEnd /\ PassEnd <= Top /\ PassEnd <= call.end
         /\ PassEnd <= Vm.vm_end /\ Top <= call.end /\ Top \in AS!Limits
         /\ \A a \in Int : Vm.vm_start <= a /\ a < Vm.vm_end =>
              \A p : Holds(vm_area, a, p) <=> p = Vm.access_flags
         /\ vm_area # <<>>
<1>1. /\ Sorted(vm_area) /\ call.vm \in 1..Len(vm_area) /\ AreaOK(Vm)
      /\ Vm.vm_start \in Int /\ Vm.vm_end \in Int /\ call.caddr \in Int /\ call.end \in Int
      /\ Vm.vm_start <= call.caddr /\ call.caddr < Vm.vm_end /\ call.caddr < call.end
  BY CursorFacts
<1>2. /\ MMAP_AREA_START \in Int /\ MMAP_AREA_END \in Int
      /\ MMAP_AREA_START <= Vm.vm_start /\ Vm.vm_end <= MMAP_AREA_END
  BY <1>1, AreaAssumption DEF AreaOK, MMAP_AREA_START, MMAP_AREA_END, PAGE
<1>3. /\ call.caddr \in Addrs /\ PassEnd \in Int /\ Top \in Int
      /\ call.caddr < PassEnd /\ PassEnd <= Top /\ PassEnd <= call.end
      /\ PassEnd <= Vm.vm_end /\ Top <= call.end
  BY <1>1, <1>2 DEF Addrs, PassEnd, Top
<1>4. Top \in AS!Limits
  <2>1. Top - 1 \in Addrs /\ Top = (Top - 1) + 1
    BY <1>1, <1>2, <1>3 DEF Addrs, Top
  <2> QED BY <2>1 DEF AS!Limits
<1>5. ASSUME NEW a \in Int, Vm.vm_start <= a, a < Vm.vm_end, NEW p
      PROVE  Holds(vm_area, a, p) <=> p = Vm.access_flags
  <2>1. In(a, vm_area[call.vm])
    BY <1>5 DEF In, Vm
  <2>2. Holds(vm_area, a, Vm.access_flags)
    BY <1>1, <2>1 DEF Holds, Vm
  <2> QED BY <1>1, <2>2, HoldsFacts
<1>6. vm_area # <<>>
  BY <1>1
<1> QED BY <1>1, <1>3, <1>4, <1>5, <1>6

LEMMA SweepRefines ==
  ASSUME Inv, call # Idle, NEW list, Sorted(list), vm_area' = list,
         NEW j \in 1..Len(list), NEW caddr \in Int,
         Treats(vm_area, list, Target, call.caddr, PassEnd),
         PassEnd <= caddr,
         caddr < call.end =>
           /\ list[j].vm_end <= caddr
           /\ j < Len(list) => caddr <= list[j + 1].vm_start,
         \A a \in Int : PassEnd <= a /\ a < caddr /\ a < call.end =>
           \A p : Holds(list, a, p) => p = Target,
         Continue(list, NextOf(list, j), caddr)
  PROVE  \E c \in AS!Limits : AS!Sweep(c)
<1>1. /\ call \in Calls /\ Sorted(vm_area) /\ vm_area # <<>> /\ call.end \in Int
      /\ call.op \in {"munmap", "mprotect"}
  BY BoundFacts, CallFacts DEF Inv
<1>2. /\ call.caddr \in Int /\ PassEnd \in Int /\ Top \in Int
      /\ call.caddr < PassEnd /\ PassEnd <= Top /\ PassEnd <= call.end
      /\ PassEnd <= Vm.vm_end /\ Top <= call.end /\ Top \in AS!Limits
  BY BoundFacts
<1>3. list # <<>> /\ Len(list) \in Nat
  BY SortedFacts
<1>4. AllMapped(vm_area, call.caddr, PassEnd)
  <2> SUFFICES ASSUME NEW a \in Int, call.caddr <= a, a < PassEnd
               PROVE  Holds(vm_area, a, Vm.access_flags)
    BY DEF AllMapped
  <2>1. /\ Vm.vm_start \in Int /\ Vm.vm_end \in Int /\ Vm.vm_start <= call.caddr
    BY CursorFacts
  <2>2. Vm.vm_start <= a /\ a < Vm.vm_end
    BY <1>2, <2>1
  <2> QED BY <2>2, BoundFacts
<1>5. /\ Busy # AS!Idle /\ Busy.op = "sweep" /\ Busy.target = Target
      /\ Busy.lo = call.caddr /\ Busy.hi = Top
      /\ Busy = [op |-> "sweep", target |-> Target, lo |-> call.caddr, hi |-> Top]
  <2>1. Busy = [op |-> "sweep", target |-> Target, lo |-> call.caddr, hi |-> Top]
    BY DEF Busy, Target, Top
  <2>2. AS!Idle.op = "idle"
    BY DEF AS!Idle
  <2> HIDE DEF Busy
  <2> QED BY <2>1, <2>2
<1>6. ProtOf = ProtIn(vm_area) /\ ProtOf' = ProtIn(list)
  BY DEF ProtOf, ProtIn
<1>7. ASSUME NEW c \in Int, PassEnd <= c, c <= Top, OnlyTarget(list, Target, PassEnd, c)
      PROVE  /\ Busy.lo < c /\ c <= Busy.hi
             /\ ProtOf' = [a \in Addrs |-> IF ProtOf[a] # Unmapped /\ Busy.lo <= a /\ a < c
                                           THEN Busy.target ELSE ProtOf[a]]
  <2>1. call.caddr < c
    BY <1>2, <1>7
  <2>2. Swept(vm_area, list, Target, call.caddr, c)
    BY <1>1, <1>2, <1>3, <1>4, <1>7, SweepFunction
  <2> QED BY <1>5, <1>6, <1>7, <2>1, <2>2 DEF Swept
<1>8. CASE /\ j < Len(list) /\ caddr < call.end /\ list[j + 1].vm_start < call.end
           /\ call' = [op |-> call.op, vm |-> j + 1, caddr |-> list[j + 1].vm_start,
                       end |-> call.end, prot |-> call.prot]
           /\ ret' = ret
  <2> DEFINE n == j + 1
             c == list[n].vm_start
  <2>1. /\ n \in 1..Len(list) /\ c \in Int /\ list[n].vm_end \in Int /\ c < list[n].vm_end
        /\ AreaOK(list[n])
    <3>1. n \in 1..Len(list)
      BY <1>3, <1>8
    <3> QED BY <3>1, SortedFacts
  <2>2. /\ MMAP_AREA_START \in Int /\ MMAP_AREA_END \in Int
        /\ MMAP_AREA_START <= c /\ list[n].vm_end <= MMAP_AREA_END
    BY <2>1, AreaAssumption DEF AreaOK, MMAP_AREA_START, MMAP_AREA_END, PAGE
  <2>3. list[j].vm_end <= caddr /\ caddr <= c /\ c < call.end
    BY <1>8
  <2>4. call' = [op |-> call.op, vm |-> n, caddr |-> c, end |-> call.end, prot |-> call.prot]
    BY <1>8
  <2>5. c \in Addrs
    BY <2>1, <2>2 DEF Addrs
  <2>6. Holds(list, c, list[n].access_flags)
    BY <2>1 DEF Holds, In
  <2>7. OnlyTarget(list, Target, PassEnd, c)
    <3> SUFFICES ASSUME NEW a \in Int, PassEnd <= a, a < c, NEW p, Holds(list, a, p)
                 PROVE  p = Target
      BY DEF OnlyTarget
    <3>1. CASE a < caddr
      <4>1. a < call.end
        BY <1>1, <1>8, <3>1
      <4> QED BY <3>1, <4>1
    <3>2. CASE ~(a < caddr)
      <4>1. list[j].vm_end <= a
        <5>1. list[j].vm_end \in Int
          BY SortedFacts
        <5> QED BY <2>3, <3>2, <5>1
      <4>2. a < list[j + 1].vm_start
        OBVIOUS
      <4> QED BY <4>1, <4>2, AboveFree
    <3> QED BY <3>1, <3>2
  <2> HIDE DEF c, n
  <2>8. PassEnd <= c /\ c < Top
    BY <1>1, <1>2, <2>1, <2>2, <2>3 DEF Top
  <2>9. /\ Busy.lo < c /\ c <= Busy.hi
        /\ ProtOf' = [a \in Addrs |-> IF ProtOf[a] # Unmapped /\ Busy.lo <= a /\ a < c
                                      THEN Busy.target ELSE ProtOf[a]]
    BY <1>2, <1>7, <2>1, <2>7, <2>8
  <2>10. ProtOf'[c] # Unmapped
    <3>1. Holds(WithHead(list), c, list[n].access_flags) /\ list[n].access_flags # Unmapped
      BY <1>3, <2>1, <2>6, HoldsFacts DEF WithHead
    <3>2. ProtIn(list)[c] = list[n].access_flags
      BY <2>5, <3>1, ProtIs
    <3> QED BY <1>6, <3>1, <3>2
  <2>11. Busy' = [Busy EXCEPT !.lo = c]
    <3>1. call'.op = call.op /\ call'.caddr = c /\ call'.end = call.end /\ call'.prot = call.prot
      BY <2>4
    <3>2. call' # Idle
      BY <1>1, <3>1 DEF Idle
    <3>3. Busy' = [op |-> "sweep",
                   target |-> IF call'.op = "munmap" THEN Unmapped ELSE call'.prot,
                   lo |-> call'.caddr,
                   hi |-> IF call'.end < MMAP_AREA_END THEN call'.end ELSE MMAP_AREA_END]
      BY <3>2 DEF Busy
    <3>4. Busy' = [op |-> "sweep", target |-> Target, lo |-> c, hi |-> Top]
      BY <3>1, <3>3 DEF Target, Top
    <3> HIDE DEF Busy
    <3> QED BY <1>5, <3>4
  <2>12. c \in AS!Limits
    <3>1. c - 1 \in Addrs /\ c = (c - 1) + 1
      <4>1. call.caddr \in Addrs
        BY BoundFacts
      <4> QED BY <1>2, <2>1, <2>2, <2>8, <4>1 DEF Addrs
    <3> QED BY <3>1 DEF AS!Limits
  <2> HIDE DEF Busy, ProtOf
  <2>13. c < Busy.hi
    BY <1>5, <2>8
  <2>14. AS!Sweep(c)
    BY <1>5, <1>8, <2>9, <2>10, <2>11, <2>13 DEF AS!Sweep
  <2> QED BY <2>12, <2>14
<1>9. CASE /\ call' = Idle /\ ret' = 0
           /\ caddr >= call.end \/ (j < Len(list) => call.end <= list[j + 1].vm_start)
  <2>1. OnlyTarget(list, Target, PassEnd, Top)
    <3> SUFFICES ASSUME NEW a \in Int, PassEnd <= a, a < Top, NEW p, Holds(list, a, p)
                 PROVE  p = Target
      BY DEF OnlyTarget
    <3>1. a < call.end
      BY <1>1, <1>2
    <3>2. CASE a < caddr
      BY <3>1, <3>2
    <3>3. CASE ~(a < caddr)
      <4>1. caddr < call.end
        BY <1>1, <3>1, <3>3
      <4>2. list[j].vm_end <= a
        <5>1. list[j].vm_end \in Int
          BY SortedFacts
        <5> QED BY <3>3, <4>1, <5>1
      <4>3. j < Len(list) => a < list[j + 1].vm_start
        <5> SUFFICES ASSUME j < Len(list) PROVE a < list[j + 1].vm_start
          OBVIOUS
        <5>1. j + 1 \in 1..Len(list)
          BY <1>3
        <5>2. list[j + 1].vm_start \in Int
          BY <5>1, SortedFacts
        <5>3. call.end <= list[j + 1].vm_start
          BY <1>1, <1>9, <4>1
        <5> QED BY <1>1, <3>1, <5>2, <5>3
      <4> QED BY <4>2, <4>3, AboveFree
    <3> QED BY <3>2, <3>3
  <2>2. /\ Busy.lo < Top /\ Top <= Busy.hi
        /\ ProtOf' = [a \in Addrs |-> IF ProtOf[a] # Unmapped /\ Busy.lo <= a /\ a < Top
                                      THEN Busy.target ELSE ProtOf[a]]
    BY <1>2, <1>7, <2>1
  <2>3. Busy' = AS!Idle
    BY <1>9 DEF Busy, AS!Idle, Idle
  <2>4. \A a \in Top..(Busy.hi - 1) : ProtOf'[a] = Unmapped
    BY <1>2, <1>5
  <2> HIDE DEF Busy, ProtOf
  <2>5. AS!Sweep(Top)
    BY <1>5, <1>9, <2>2, <2>3, <2>4 DEF AS!Sweep
  <2> QED BY <1>2, <2>5
<1> QED BY <1>1, <1>8, <1>9, PassEnds

\* It is enough to say what happens to the area under the cursor.
LEMMA TreatsArea ==
  ASSUME Inv, call # Idle, NEW list,
         \A a \in Int : \A p :
           IF Vm.vm_start <= a /\ a < Vm.vm_end
           THEN Holds(list, a, p) <=> IF call.caddr <= a /\ a < PassEnd
                                      THEN p = Target /\ Target # Unmapped
                                      ELSE p = Vm.access_flags
           ELSE Holds(list, a, p) <=> Holds(vm_area, a, p)
  PROVE  Treats(vm_area, list, Target, call.caddr, PassEnd)
<1>1. /\ call.caddr \in Int /\ PassEnd \in Int /\ Vm.vm_start \in Int /\ Vm.vm_end \in Int
      /\ Vm.vm_start <= call.caddr /\ PassEnd <= Vm.vm_end
      /\ \A a \in Int : Vm.vm_start <= a /\ a < Vm.vm_end =>
           \A p : Holds(vm_area, a, p) <=> p = Vm.access_flags
  BY CursorFacts, BoundFacts
<1> SUFFICES ASSUME NEW a \in Int, NEW p
             PROVE  Holds(list, a, p) <=> IF call.caddr <= a /\ a < PassEnd
                                          THEN p = Target /\ Target # Unmapped
                                          ELSE Holds(vm_area, a, p)
  BY DEF Treats
<1>2. CASE Vm.vm_start <= a /\ a < Vm.vm_end
  BY <1>1, <1>2
<1>3. CASE ~(Vm.vm_start <= a /\ a < Vm.vm_end)
  BY <1>1, <1>3
<1> QED BY <1>2, <1>3

\* The area under the cursor keeps only lo..hi-1.
LEMMA CutHolds ==
  ASSUME Inv, call # Idle, NEW lo \in Int, NEW hi \in Int, NEW prot \in Flags,
         Vm.vm_start <= lo, lo < hi, hi <= Vm.vm_end, hi % PAGE = 0,
         NEW new, new = Put(vm_area, call.vm, Area(lo, hi, prot)), NEW a \in Int, NEW p
  PROVE  Holds(new, a, p) <=>
           IF Vm.vm_start <= a /\ a < Vm.vm_end THEN lo <= a /\ a < hi /\ p = prot
           ELSE Holds(vm_area, a, p)
<1> DEFINE i == call.vm
           area == Area(lo, hi, prot)
<1>1. /\ Sorted(vm_area) /\ i \in 1..Len(vm_area) /\ AreaOK(Vm)
      /\ Vm.vm_start \in Int /\ Vm.vm_end \in Int
      /\ Floor(vm_area, i) <= Vm.vm_start /\ Vm.vm_end <= GapEnd(vm_area, i)
      /\ GapEnd(vm_area, i) \in Int
  BY CursorFacts
<1>2. /\ area \in Rec /\ area.vm_start = lo /\ area.vm_end = hi /\ area.access_flags = prot
  BY DEF Area, Rec
<1>3. AreaOK(area)
  <2>1. MMAP_AREA_START \in Int /\ MMAP_AREA_END \in Int
    BY AreaAssumption DEF MMAP_AREA_START, MMAP_AREA_END, PAGE
  <2> QED BY <1>1, <1>2, <2>1 DEF AreaOK
<1>4. Floor(vm_area, i) <= area.vm_start /\ area.vm_end <= GapEnd(vm_area, i)
  <2>1. Floor(vm_area, i) \in Int
    BY <1>1, SortedFacts DEF Floor, MMAP_AREA_START, PAGE
  <2> QED BY <1>1, <1>2, <2>1
<1>5. new = Put(vm_area, i, area) /\ Vm = vm_area[i]
  BY DEF Vm
<1> HIDE DEF area, i
<1>6. IsPut(new, vm_area, i, area)
  <2>1. /\ Len(new) = Len(vm_area)
        /\ \A k \in 1..Len(vm_area) : new[k] = IF k = i THEN area ELSE vm_area[k]
    BY <1>1, <1>2, <1>3, <1>4, <1>5, PutFacts
  <2> QED BY <2>1 DEF IsPut
<1>7. Holds(new, a, p) <=>
        \/ In(a, area) /\ p = area.access_flags
        \/ Holds(vm_area, a, p) /\ ~In(a, Vm)
  <2>1. Holds(new, a, p) <=>
          \/ In(a, area) /\ p = area.access_flags
          \/ Holds(vm_area, a, p) /\ ~In(a, vm_area[i])
    BY <1>1, <1>6, PutHolds
  <2> QED BY <1>5, <2>1
<1> QED BY <1>1, <1>2, <1>7 DEF In

\* A part b of the area under the cursor becomes an area of its own, above
\* area i.
IsPart(new, list, i, b) ==
  /\ Sorted(list) /\ i \in 1..Len(list) /\ SameAbove(list, i) /\ b \in Rec
  /\ list[i].vm_end <= b.vm_start /\ Vm.vm_start <= b.vm_start
  /\ b.vm_start < b.vm_end /\ b.vm_end <= Vm.vm_end /\ b.vm_end % PAGE = 0
  /\ new = InsertAt(list, i + 1, b)

LEMMA PartHolds ==
  ASSUME Inv, call # Idle, NEW list, NEW i, NEW b, NEW new, IsPart(new, list, i, b),
         NEW a \in Int, NEW p
  PROVE  Holds(new, a, p) <=>
           \/ b.vm_start <= a /\ a < b.vm_end /\ p = b.access_flags
           \/ Holds(list, a, p)
<1>0. /\ Sorted(list) /\ i \in 1..Len(list) /\ SameAbove(list, i) /\ b \in Rec
      /\ list[i].vm_end <= b.vm_start /\ Vm.vm_start <= b.vm_start
      /\ b.vm_start < b.vm_end /\ b.vm_end <= Vm.vm_end /\ b.vm_end % PAGE = 0
      /\ new = InsertAt(list, i + 1, b)
  BY DEF IsPart
<1>1. /\ AreaOK(Vm) /\ Vm.vm_start \in Int /\ Vm.vm_end \in Int
      /\ call.vm < Len(vm_area) => Vm.vm_end <= vm_area[call.vm + 1].vm_start
  BY CursorFacts
<1>2. b.vm_start \in Int /\ b.vm_end \in Int
  BY <1>0 DEF Rec
<1>3. MMAP_AREA_START \in Int /\ MMAP_AREA_END \in Int
  BY AreaAssumption DEF MMAP_AREA_START, MMAP_AREA_END, PAGE
<1>4. AreaOK(b)
  BY <1>0, <1>1, <1>2, <1>3 DEF AreaOK
<1>5. b.vm_end <= GapEnd(list, i)
  <2>1. CASE i < Len(list)
    <3>1. list[i + 1].vm_start \in Int
      <4>1. i + 1 \in 1..Len(list)
        BY <1>0, <2>1, SortedFacts
      <4> QED BY <1>0, <4>1, SortedFacts
    <3>2. Vm.vm_end <= list[i + 1].vm_start
      BY <1>0, <1>1, <2>1 DEF SameAbove
    <3> QED BY <1>0, <1>1, <1>2, <2>1, <3>1, <3>2 DEF GapEnd
  <2>2. CASE ~(i < Len(list))
    BY <1>4, <2>2 DEF GapEnd, AreaOK
  <2> QED BY <2>1, <2>2
<1>6. /\ Len(new) = Len(list) + 1
      /\ \A k \in 1..(Len(list) + 1) :
           new[k] = IF k <= i THEN list[k] ELSE IF k = i + 1 THEN b ELSE list[k - 1]
  BY <1>0, <1>4, <1>5, InsertSorted, SMTT(30)
<1>7. Holds(new, a, p) <=> (In(a, b) /\ p = b.access_flags) \/ Holds(list, a, p)
  BY <1>0, <1>6, InsertHolds
<1> QED BY <1>7 DEF In

\* A loop that goes on above the area under the cursor sweeps.
LEMMA GoOnSweeps ==
  ASSUME Inv, call # Idle, NEW list, Sorted(list), vm_area' = list,
         NEW j \in 1..Len(list), list[j].vm_end <= Vm.vm_end,
         j < Len(list) => Vm.vm_end <= list[j + 1].vm_start,
         Treats(vm_area, list, Target, call.caddr, PassEnd),
         Continue(list, NextOf(list, j), Vm.vm_end)
  PROVE  \E c \in AS!Limits : AS!Sweep(c)
<1> DEFINE caddr == Vm.vm_end
<1>1. caddr \in Int /\ call.end \in Int
  BY CursorFacts
<1>2. PassEnd <= caddr
  BY BoundFacts
<1>3. \A a \in Int : PassEnd <= a /\ a < caddr /\ a < call.end =>
        \A p : Holds(list, a, p) => p = Target
  BY <1>1 DEF PassEnd
<1>4. caddr < call.end =>
        list[j].vm_end <= caddr /\ (j < Len(list) => caddr <= list[j + 1].vm_start)
  OBVIOUS
<1>5. Continue(list, NextOf(list, j), caddr)
  OBVIOUS
<1> HIDE DEF caddr
<1> QED BY <1>1, <1>2, <1>3, <1>4, <1>5, SweepRefines

\* So does one that goes on above the area the merges left: what they joined
\* to it has the target value already.
LEMMA MergedSweeps ==
  ASSUME Inv, call # Idle, call.op = "mprotect", NEW m, Sorted(m.list), vm_area' = m.list,
         m.vm \in 1..Len(m.list), m.list[m.vm].vm_start <= Vm.vm_end,
         Vm.vm_end <= m.list[m.vm].vm_end, m.list[m.vm].access_flags = call.prot,
         Treats(vm_area, m.list, Target, call.caddr, PassEnd),
         Continue(m.list, NextOf(m.list, m.vm), m.list[m.vm].vm_end)
  PROVE  \E c \in AS!Limits : AS!Sweep(c)
<1> DEFINE list == m.list
           j == m.vm
           caddr == list[j].vm_end
<1>1. caddr \in Int /\ call.end \in Int /\ PassEnd \in Int /\ Vm.vm_end \in Int
      /\ list[j].vm_start \in Int
  BY CursorFacts, BoundFacts, SortedFacts
<1>2. PassEnd <= caddr
  <2>1. PassEnd <= Vm.vm_end
    BY BoundFacts
  <2> QED BY <1>1, <2>1
<1>3. j < Len(list) => caddr <= list[j + 1].vm_start
  <2>1. j < Len(list) => j + 1 \in 1..Len(list)
    BY SortedFacts
  <2> QED BY <2>1, SortedFacts
<1>4. Target = call.prot
  BY DEF Target
<1>5. ASSUME NEW a \in Int, PassEnd <= a, a < caddr, a < call.end, NEW p, Holds(list, a, p)
      PROVE  p = Target
  <2>1. Vm.vm_end <= a
    BY <1>1, <1>5 DEF PassEnd
  <2>2. In(a, list[j])
    BY <1>1, <1>5, <2>1 DEF In
  <2>3. list[j].access_flags = p
    BY <1>5, <2>2, HoldsFacts
  <2> QED BY <1>4, <2>3
<1>6. /\ Sorted(list) /\ vm_area' = list /\ j \in 1..Len(list) /\ caddr <= caddr
      /\ Treats(vm_area, list, Target, call.caddr, PassEnd)
      /\ Continue(list, NextOf(list, j), caddr)
  BY <1>1
<1>7. caddr < call.end =>
        list[j].vm_end <= caddr /\ (j < Len(list) => caddr <= list[j + 1].vm_start)
  BY <1>3, <1>6
<1>8. \A a \in Int : PassEnd <= a /\ a < caddr /\ a < call.end =>
        \A p : Holds(list, a, p) => p = Target
  BY <1>5
<1> HIDE DEF list, j, caddr
<1> QED BY <1>1, <1>2, <1>6, <1>7, <1>8, SweepRefines

Sweeps == \E c \in AS!Limits : AS!Sweep(c)

LEMMA UnmapWholeSweeps ==
  ASSUME Inv, UnmapWhole, call.vm # 1
  PROVE  Sweeps
<1> DEFINE list == RemoveAt(vm_area, call.vm)
           n == Len(vm_area)
           j == call.vm - 1
<1>0. call.op = "munmap" /\ Idle.op = "idle" /\ Whole
  BY DEF UnmapWhole, Idle
<1>1. call # Idle
  BY <1>0
<1>2. vm_area' = list /\ Continue(list, NextOf(list, j), Vm.vm_end)
  BY DEF UnmapWhole, Edit
<1>3. /\ Sorted(vm_area) /\ n \in Nat /\ call.vm \in 1..n
      /\ Vm.vm_end \in Int /\ Vm.vm_start < Vm.vm_end /\ Vm.vm_start \in Int
      /\ call.vm < n => Vm.vm_end <= vm_area[call.vm + 1].vm_start
      /\ j \in 1..n /\ vm_area[j].vm_end <= Vm.vm_start /\ vm_area[j].vm_end \in Int
      /\ call.caddr \in Int /\ call.end \in Int
  <2>1. /\ Sorted(vm_area) /\ n \in Nat /\ call.vm \in 1..n
        /\ Vm.vm_end \in Int /\ Vm.vm_start < Vm.vm_end /\ Vm.vm_start \in Int
        /\ call.vm < n => Vm.vm_end <= vm_area[call.vm + 1].vm_start
        /\ vm_area[j].vm_end <= Vm.vm_start /\ j \in 1..n
        /\ call.caddr \in Int /\ call.end \in Int
    BY <1>1, CursorFacts DEF AreaOK
  <2> QED BY <2>1, SortedFacts
<1> HIDE DEF list
<1>4. /\ Sorted(list) /\ Len(list) = n - 1
      /\ \A k \in 1..(n - 1) : list[k] = IF k < call.vm THEN vm_area[k] ELSE vm_area[k + 1]
  BY <1>3, RemoveSorted DEF list
<1>5. /\ j \in 1..Len(list) /\ list[j] = vm_area[j]
      /\ j < Len(list) => call.vm < n /\ list[j + 1] = vm_area[call.vm + 1]
  BY <1>3, <1>4
<1>6. list[j].vm_end <= Vm.vm_end
  BY <1>3, <1>5
<1>7. Treats(vm_area, list, Target, call.caddr, PassEnd)
  <2>1. ASSUME NEW a \in Int, NEW p
        PROVE  Holds(list, a, p) <=> Holds(vm_area, a, p) /\ ~In(a, Vm)
    BY <1>3, RemoveHolds DEF list, Vm
  <2>2. /\ Target = Unmapped /\ PassEnd = Vm.vm_end /\ call.caddr = Vm.vm_start
    BY <1>0, <1>3 DEF Target, PassEnd, Whole
  <2>3. \A a \in Int : \A p :
          IF Vm.vm_start <= a /\ a < Vm.vm_end
          THEN Holds(list, a, p) <=> IF call.caddr <= a /\ a < PassEnd
                                     THEN p = Target /\ Target # Unmapped
                                     ELSE p = Vm.access_flags
          ELSE Holds(list, a, p) <=> Holds(vm_area, a, p)
    BY <2>1, <2>2 DEF In
  <2> QED BY <1>1, <2>3, TreatsArea
<1>8. j < Len(list) => Vm.vm_end <= list[j + 1].vm_start
  BY <1>3, <1>5
<1> HIDE DEF j
<1> QED BY <1>1, <1>2, <1>4, <1>5, <1>6, <1>7, <1>8, GoOnSweeps DEF Sweeps

LEMMA UnmapHigherSweeps ==
  ASSUME Inv, UnmapHigher
  PROVE  Sweeps
<1> DEFINE list == [vm_area EXCEPT ![call.vm].vm_end = call.caddr]
           prot == Vm.access_flags
           lo == Vm.vm_start
           hi == call.caddr
           j == call.vm
<1>0. call.op = "munmap" /\ Idle.op = "idle" /\ Higher
  BY DEF UnmapHigher, Idle
<1>1. call # Idle
  BY <1>0
<1>2. /\ call.vm \in 1..Len(vm_area) /\ Vm \in Rec /\ prot \in Flags /\ Len(vm_area) \in Nat
      /\ lo \in Int /\ hi \in Int /\ Vm.vm_end \in Int /\ call.end \in Int
      /\ Vm.vm_start <= lo /\ hi <= Vm.vm_end /\ call.caddr < Vm.vm_end
      /\ call.vm < Len(vm_area) => Vm.vm_end <= vm_area[call.vm + 1].vm_start
  BY <1>1, CursorFacts
<1>3. lo < hi /\ hi % PAGE = 0 /\ call.end >= Vm.vm_end
  <2>1. call.caddr > Vm.vm_start /\ call.end >= Vm.vm_end
    BY <1>0 DEF Higher
  <2> QED BY <1>1, <1>2, <2>1, CursorFacts
<1>4. list = Put(vm_area, call.vm, Area(lo, hi, prot))
  BY <1>2, FieldFacts
<1>5. vm_area' = list /\ Continue(list, NextOf(list, j), Vm.vm_end)
  BY DEF UnmapHigher, Edit
<1>6. PassEnd = Vm.vm_end /\ Target = Unmapped
  BY <1>0, <1>2, <1>3 DEF PassEnd, Target
<1> HIDE DEF list, prot, lo, hi
<1>7. /\ Sorted(list) /\ Len(list) = Len(vm_area) /\ SameAbove(list, call.vm)
      /\ list[call.vm] = Area(lo, hi, prot)
  BY <1>1, <1>2, <1>3, <1>4, CutFacts
<1>8. \A a \in Int : \A p :
        Holds(list, a, p) <=>
          IF Vm.vm_start <= a /\ a < Vm.vm_end THEN lo <= a /\ a < hi /\ p = prot
          ELSE Holds(vm_area, a, p)
  BY <1>1, <1>2, <1>3, <1>4, CutHolds
<1>9. Treats(vm_area, list, Target, call.caddr, PassEnd)
  <2>1. ASSUME NEW a \in Int, NEW p
        PROVE  IF Vm.vm_start <= a /\ a < Vm.vm_end
               THEN Holds(list, a, p) <=> IF call.caddr <= a /\ a < PassEnd
                                          THEN p = Target /\ Target # Unmapped
                                          ELSE p = Vm.access_flags
               ELSE Holds(list, a, p) <=> Holds(vm_area, a, p)
    BY <1>2, <1>6, <1>8 DEF lo, hi, prot
  <2> QED BY <1>1, <2>1, TreatsArea
<1>10. /\ j \in 1..Len(list) /\ list[j].vm_end <= Vm.vm_end
       /\ j < Len(list) => Vm.vm_end <= list[j + 1].vm_start
  BY <1>2, <1>7 DEF Area, SameAbove
<1> HIDE DEF j
<1> QED BY <1>1, <1>5, <1>7, <1>9, <1>10, GoOnSweeps DEF Sweeps

LEMMA UnmapLowestSweeps ==
  ASSUME Inv, UnmapLowest
  PROVE  Sweeps
<1> DEFINE list == [vm_area EXCEPT ![call.vm].vm_start = call.end]
           prot == Vm.access_flags
           lo == call.end
           hi == Vm.vm_end
           j == call.vm
<1>0. call.op = "munmap" /\ Idle.op = "idle" /\ Lowest
  BY DEF UnmapLowest, Idle
<1>1. call # Idle
  BY <1>0
<1>2. /\ call.vm \in 1..Len(vm_area) /\ Vm \in Rec /\ prot \in Flags /\ Len(vm_area) \in Nat
      /\ lo \in Int /\ hi \in Int /\ Vm.vm_start \in Int /\ call.caddr \in Int
      /\ Vm.vm_start <= lo /\ hi <= Vm.vm_end /\ hi % PAGE = 0
      /\ call.vm < Len(vm_area) => Vm.vm_end <= vm_area[call.vm + 1].vm_start
  BY <1>1, CursorFacts DEF AreaOK
<1>3. lo < hi /\ call.caddr = Vm.vm_start
  BY <1>0 DEF Lowest
<1>4. list = Put(vm_area, call.vm, Area(lo, hi, prot))
  BY <1>2, FieldFacts
<1>5. vm_area' = list /\ Continue(list, NextOf(list, j), Vm.vm_end)
  BY DEF UnmapLowest, Edit
<1>6. PassEnd = call.end /\ Target = Unmapped
  BY <1>0, <1>3 DEF PassEnd, Target
<1> HIDE DEF list, prot, lo, hi
<1>7. /\ Sorted(list) /\ Len(list) = Len(vm_area) /\ SameAbove(list, call.vm)
      /\ list[call.vm] = Area(lo, hi, prot)
  BY <1>1, <1>2, <1>3, <1>4, CutFacts
<1>8. \A a \in Int : \A p :
        Holds(list, a, p) <=>
          IF Vm.vm_start <= a /\ a < Vm.vm_end THEN lo <= a /\ a < hi /\ p = prot
          ELSE Holds(vm_area, a, p)
  BY <1>1, <1>2, <1>3, <1>4, CutHolds
<1>9. Treats(vm_area, list, Target, call.caddr, PassEnd)
  <2>1. ASSUME NEW a \in Int, NEW p
        PROVE  IF Vm.vm_start <= a /\ a < Vm.vm_end
               THEN Holds(list, a, p) <=> IF call.caddr <= a /\ a < PassEnd
                                          THEN p = Target /\ Target # Unmapped
                                          ELSE p = Vm.access_flags
               ELSE Holds(list, a, p) <=> Holds(vm_area, a, p)
    BY <1>2, <1>3, <1>6, <1>8 DEF lo, hi, prot
  <2> QED BY <1>1, <2>1, TreatsArea
<1>10. /\ j \in 1..Len(list) /\ list[j].vm_end <= Vm.vm_end
       /\ j < Len(list) => Vm.vm_end <= list[j + 1].vm_start
  BY <1>2, <1>7 DEF Area, SameAbove
<1> HIDE DEF j
<1> QED BY <1>1, <1>5, <1>7, <1>9, <1>10, GoOnSweeps DEF Sweeps

\* The area under the cursor is cut at lo, and its addresses hi..top-1 become
\* an area of their own; the two have the protections lower and upper.
Parted(lo, hi, top, lower, upper) ==
  InsertAt(Put(vm_area, call.vm, Area(Vm.vm_start, lo, lower)),
           call.vm + 1, Area(hi, top, upper))

IsParted(list, lo, hi, top, lower, upper) ==
  /\ lo \in Int /\ hi \in Int /\ top \in Int /\ lower \in Flags /\ upper \in Flags
  /\ Vm.vm_start < lo /\ lo <= hi /\ hi < top /\ top <= Vm.vm_end
  /\ lo % PAGE = 0 /\ top % PAGE = 0
  /\ list = Parted(lo, hi, top, lower, upper)

LEMMA PartedFacts ==
  ASSUME Inv, call # Idle, NEW list, NEW lo, NEW hi, NEW top, NEW lower, NEW upper,
         IsParted(list, lo, hi, top, lower, upper)
  PROVE  /\ Sorted(list) /\ Len(list) = Len(vm_area) + 1 /\ call.vm + 1 \in 1..Len(list)
         /\ list[call.vm + 1] = Area(hi, top, upper)
         /\ SameAbove(list, call.vm + 1)
         /\ \A a \in Int : \A p :
              Holds(list, a, p) <=>
                IF Vm.vm_start <= a /\ a < Vm.vm_end
                THEN (a < lo /\ p = lower) \/ (hi <= a /\ a < top /\ p = upper)
                ELSE Holds(vm_area, a, p)
<1> DEFINE cut == Put(vm_area, call.vm, Area(Vm.vm_start, lo, lower))
           start == Vm.vm_start
           b == Area(hi, top, upper)
           i == call.vm
<1>0. /\ lo \in Int /\ hi \in Int /\ top \in Int /\ lower \in Flags /\ upper \in Flags
      /\ Vm.vm_start < lo /\ lo <= hi /\ hi < top /\ top <= Vm.vm_end
      /\ lo % PAGE = 0 /\ top % PAGE = 0
      /\ list = Parted(lo, hi, top, lower, upper)
  BY DEF IsParted
<1>1. /\ i \in 1..Len(vm_area) /\ Len(vm_area) \in Nat
      /\ start \in Int /\ Vm.vm_end \in Int /\ Vm.vm_start <= start
  BY CursorFacts
<1>2. start < lo /\ lo <= Vm.vm_end /\ hi < Vm.vm_end /\ Vm.vm_start <= hi
  BY <1>0, <1>1
<1>3. cut = Put(vm_area, call.vm, Area(start, lo, lower)) /\ list = InsertAt(cut, i + 1, b)
  BY <1>0 DEF Parted
<1>4. /\ b \in Rec /\ b.vm_start = hi /\ b.vm_end = top /\ b.access_flags = upper
  BY <1>0 DEF Area, Rec
<1>5. start = Vm.vm_start
  OBVIOUS
<1> HIDE DEF cut, start, b
<1>6. /\ Sorted(cut) /\ Len(cut) = Len(vm_area) /\ SameAbove(cut, i)
      /\ cut[i] = Area(start, lo, lower)
  BY <1>0, <1>1, <1>2, <1>3, CutFacts
<1>7. \A a \in Int : \A p :
        Holds(cut, a, p) <=>
          IF Vm.vm_start <= a /\ a < Vm.vm_end THEN start <= a /\ a < lo /\ p = lower
          ELSE Holds(vm_area, a, p)
  BY <1>0, <1>1, <1>2, <1>3, CutHolds
<1>8. /\ i \in 1..Len(cut) /\ cut[i].vm_end <= b.vm_start /\ Vm.vm_start <= b.vm_start
      /\ b.vm_start < b.vm_end /\ b.vm_end <= Vm.vm_end /\ b.vm_end % PAGE = 0
  BY <1>0, <1>1, <1>2, <1>4, <1>6 DEF Area
<1> HIDE DEF i
<1>9. /\ Sorted(list) /\ Len(list) = Len(cut) + 1 /\ i + 1 \in 1..Len(list)
      /\ list[i + 1] = b /\ SameAbove(list, i + 1)
  <2>1. Sorted(cut) /\ i \in 1..Len(cut) /\ SameAbove(cut, i) /\ b \in Rec
    BY <1>4, <1>6, <1>8
  <2>2. list = InsertAt(cut, i + 1, b)
    BY <1>3
  <2> QED BY <1>8, <2>1, <2>2, PartFacts, SMTT(30)
<1>10. \A a \in Int : \A p :
         Holds(list, a, p) <=>
           (b.vm_start <= a /\ a < b.vm_end /\ p = b.access_flags) \/ Holds(cut, a, p)
  <2> SUFFICES ASSUME NEW a \in Int, NEW p
               PROVE  Holds(list, a, p) <=>
                        \/ b.vm_start <= a /\ a < b.vm_end /\ p = b.access_flags
                        \/ Holds(cut, a, p)
    OBVIOUS
  <2>1. IsPart(list, cut, i, b)
    BY <1>3, <1>4, <1>6, <1>8 DEF IsPart
  <2> QED BY <2>1, PartHolds
<1>11. ASSUME NEW a \in Int, NEW p
       PROVE  Holds(list, a, p) <=>
                IF Vm.vm_start <= a /\ a < Vm.vm_end
                THEN (a < lo /\ p = lower) \/ (hi <= a /\ a < top /\ p = upper)
                ELSE Holds(vm_area, a, p)
  BY <1>0, <1>1, <1>2, <1>4, <1>5, <1>7, <1>10
<1> QED BY <1>6, <1>9, <1>11 DEF i, b

LEMMA UnmapMiddleSweeps ==
  ASSUME Inv, UnmapMiddle
  PROVE  Sweeps
<1> DEFINE flags == Vm.access_flags
           list == Parted(call.caddr, call.end, Vm.vm_end, flags, flags)
           j == call.vm + 1
<1>0. call.op = "munmap" /\ Idle.op = "idle" /\ Middle
  BY DEF UnmapMiddle, Idle
<1>1. call # Idle
  BY <1>0
<1>2. /\ call.vm \in 1..Len(vm_area) /\ Vm \in Rec /\ flags \in Flags
      /\ Len(vm_area) \in Nat
      /\ Vm.vm_start \in Int /\ Vm.vm_end \in Int /\ call.end \in Int /\ call.caddr \in Int
      /\ call.caddr <= call.end /\ Vm.vm_end <= Vm.vm_end /\ Vm.vm_end % PAGE = 0
      /\ call.vm < Len(vm_area) => Vm.vm_end <= vm_area[call.vm + 1].vm_start
  BY <1>1, CursorFacts DEF AreaOK
<1>3. Vm.vm_start < call.caddr /\ call.caddr % PAGE = 0 /\ call.end < Vm.vm_end
  <2>1. call.caddr > Vm.vm_start /\ call.end < Vm.vm_end
    BY <1>0 DEF Middle
  <2> QED BY <1>1, <1>2, <2>1, CursorFacts
<1>4. vm_area' = list /\ Continue(list, NextOf(list, j), Vm.vm_end)
  <2>1. [vm_area EXCEPT ![call.vm].vm_end = call.caddr] =
          Put(vm_area, call.vm, Area(Vm.vm_start, call.caddr, Vm.access_flags))
    BY <1>2, FieldFacts
  <2> QED BY <2>1 DEF UnmapMiddle, Edit, Parted
<1>5. PassEnd = call.end /\ Target = Unmapped
  BY <1>0, <1>3 DEF PassEnd, Target
<1> HIDE DEF list, flags
<1>6. /\ Sorted(list) /\ Len(list) = Len(vm_area) + 1 /\ j \in 1..Len(list)
      /\ list[j] = Area(call.end, Vm.vm_end, flags)
      /\ SameAbove(list, j)
      /\ \A a \in Int : \A p :
           Holds(list, a, p) <=>
             IF Vm.vm_start <= a /\ a < Vm.vm_end
             THEN (a < call.caddr /\ p = flags)
                  \/ (call.end <= a /\ a < Vm.vm_end /\ p = flags)
             ELSE Holds(vm_area, a, p)
  <2>1. IsParted(list, call.caddr, call.end, Vm.vm_end, flags, flags)
    BY <1>2, <1>3 DEF IsParted, list
  <2> QED BY <1>1, <2>1, PartedFacts
<1>7. Treats(vm_area, list, Target, call.caddr, PassEnd)
  <2>1. ASSUME NEW a \in Int, NEW p
        PROVE  IF Vm.vm_start <= a /\ a < Vm.vm_end
               THEN Holds(list, a, p) <=> IF call.caddr <= a /\ a < PassEnd
                                          THEN p = Target /\ Target # Unmapped
                                          ELSE p = Vm.access_flags
               ELSE Holds(list, a, p) <=> Holds(vm_area, a, p)
    BY <1>2, <1>5, <1>6 DEF flags
  <2> QED BY <1>1, <2>1, TreatsArea
<1>8. /\ list[j].vm_end <= Vm.vm_end
      /\ j < Len(list) => Vm.vm_end <= list[j + 1].vm_start
  BY <1>2, <1>6 DEF Area, SameAbove
<1> HIDE DEF j
<1> QED BY <1>1, <1>4, <1>6, <1>7, <1>8, GoOnSweeps DEF Sweeps

LEMMA ProtectSameSweeps ==
  ASSUME Inv, ProtectSame
  PROVE  Sweeps
<1> DEFINE m == TryMerge(vm_area, call.vm, TRUE, FALSE)
<1>0. call.op = "mprotect" /\ Idle.op = "idle" /\ Vm.access_flags = call.prot
  BY DEF ProtectSame, Protecting, Idle
<1>1. call # Idle
  BY <1>0
<1>2. vm_area' = m.list /\ Continue(m.list, NextOf(m.list, m.vm), m.list[m.vm].vm_end)
  BY DEF ProtectSame, MergeAndContinue, Edit
<1>3. /\ Sorted(vm_area) /\ call.vm \in 1..Len(vm_area) /\ call.prot \in Flags
      /\ Vm.vm_start \in Int /\ Vm.vm_end \in Int /\ Vm.vm_start < Vm.vm_end
  BY <1>1, CursorFacts DEF AreaOK
<1> HIDE DEF m
<1>4. /\ Sorted(m.list) /\ m.vm \in 1..Len(m.list)
      /\ \A x \in Int : \A p : Holds(m.list, x, p) <=> Holds(vm_area, x, p)
      /\ m.list[m.vm].vm_start <= Vm.vm_start /\ Vm.vm_end <= m.list[m.vm].vm_end
      /\ m.list[m.vm].access_flags = Vm.access_flags
  BY <1>3, MergeHolds DEF m, Vm
<1>5. m.list[m.vm].vm_start <= Vm.vm_end
  <2>1. m.list[m.vm].vm_start \in Int
    BY <1>4, SortedFacts
  <2> QED BY <1>3, <1>4, <2>1
<1>6. Treats(vm_area, m.list, Target, call.caddr, PassEnd)
  <2>1. Target = Vm.access_flags /\ Target # Unmapped
    BY <1>0, <1>3, ProtAssumption DEF Target, Flags
  <2>2. \A a \in Int : Vm.vm_start <= a /\ a < Vm.vm_end =>
          \A p : Holds(vm_area, a, p) <=> p = Vm.access_flags
    BY <1>1, BoundFacts
  <2>3. ASSUME NEW a \in Int, NEW p
        PROVE  IF Vm.vm_start <= a /\ a < Vm.vm_end
               THEN Holds(m.list, a, p) <=> IF call.caddr <= a /\ a < PassEnd
                                            THEN p = Target /\ Target # Unmapped
                                            ELSE p = Vm.access_flags
               ELSE Holds(m.list, a, p) <=> Holds(vm_area, a, p)
    BY <1>4, <2>1, <2>2
  <2> QED BY <1>1, <2>3, TreatsArea
<1> QED BY <1>0, <1>1, <1>2, <1>4, <1>5, <1>6, MergedSweeps DEF Sweeps

LEMMA ProtectWholeSweeps ==
  ASSUME Inv, ProtectWhole
  PROVE  Sweeps
<1> DEFINE list == [vm_area EXCEPT ![call.vm].access_flags = call.prot]
           m == TryMerge(list, call.vm, TRUE, TRUE)
           lo == Vm.vm_start
           hi == Vm.vm_end
<1>0. call.op = "mprotect" /\ Idle.op = "idle" /\ Whole
  BY DEF ProtectWhole, Protecting, Idle
<1>1. call # Idle
  BY <1>0
<1>2. vm_area' = m.list /\ Continue(m.list, NextOf(m.list, m.vm), m.list[m.vm].vm_end)
  BY DEF ProtectWhole, MergeAndContinue, Edit
<1>3. /\ call.vm \in 1..Len(vm_area) /\ Vm \in Rec /\ call.prot \in Flags /\ Len(vm_area) \in Nat
      /\ lo \in Int /\ hi \in Int /\ lo < hi /\ call.end \in Int
      /\ Vm.vm_start <= lo /\ hi <= Vm.vm_end /\ hi % PAGE = 0
  BY <1>1, CursorFacts DEF AreaOK
<1>4. list = Put(vm_area, call.vm, Area(lo, hi, call.prot))
  BY <1>3, FieldFacts
<1>5. PassEnd = Vm.vm_end /\ call.caddr = Vm.vm_start /\ Target = call.prot /\ Target # Unmapped
  BY <1>0, <1>3, ProtAssumption DEF PassEnd, Whole, Target, Flags
<1> HIDE DEF list, m, lo, hi
<1>6. /\ Sorted(list) /\ Len(list) = Len(vm_area) /\ list[call.vm] = Area(lo, hi, call.prot)
  BY <1>1, <1>3, <1>4, CutFacts
<1>7. \A a \in Int : \A p :
        Holds(list, a, p) <=>
          IF Vm.vm_start <= a /\ a < Vm.vm_end THEN lo <= a /\ a < hi /\ p = call.prot
          ELSE Holds(vm_area, a, p)
  BY <1>1, <1>3, <1>4, CutHolds
<1>8. /\ Sorted(m.list) /\ m.vm \in 1..Len(m.list)
      /\ \A x \in Int : \A p : Holds(m.list, x, p) <=> Holds(list, x, p)
      /\ m.list[m.vm].vm_start <= lo /\ hi <= m.list[m.vm].vm_end
      /\ m.list[m.vm].access_flags = call.prot
  <2>1. /\ Sorted(m.list) /\ m.vm \in 1..Len(m.list)
        /\ \A x \in Int : \A p : Holds(m.list, x, p) <=> Holds(list, x, p)
        /\ m.list[m.vm].vm_start <= list[call.vm].vm_start
        /\ list[call.vm].vm_end <= m.list[m.vm].vm_end
        /\ m.list[m.vm].access_flags = list[call.vm].access_flags
    <3>1. call.vm \in 1..Len(list) /\ Sorted(list)
      BY <1>3, <1>6
    <3> QED BY <3>1, MergeHolds DEF m
  <2> QED BY <1>6, <2>1 DEF Area
<1>9. m.list[m.vm].vm_start <= Vm.vm_end /\ Vm.vm_end <= m.list[m.vm].vm_end
  <2>1. m.list[m.vm].vm_start \in Int
    BY <1>8, SortedFacts
  <2> QED BY <1>3, <1>8, <2>1 DEF hi
<1>10. Treats(vm_area, m.list, Target, call.caddr, PassEnd)
  <2>1. ASSUME NEW a \in Int, NEW p
        PROVE  IF Vm.vm_start <= a /\ a < Vm.vm_end
               THEN Holds(m.list, a, p) <=> IF call.caddr <= a /\ a < PassEnd
                                            THEN p = Target /\ Target # Unmapped
                                            ELSE p = Vm.access_flags
               ELSE Holds(m.list, a, p) <=> Holds(vm_area, a, p)
    BY <1>5, <1>7, <1>8 DEF lo, hi
  <2> QED BY <1>1, <2>1, TreatsArea
<1> QED BY <1>0, <1>1, <1>2, <1>8, <1>9, <1>10, MergedSweeps DEF Sweeps

LEMMA ProtectHigherSweeps ==
  ASSUME Inv, ProtectHigher
  PROVE  Sweeps
<1> DEFINE flags == Vm.access_flags
           lo == call.caddr
           list == Parted(lo, lo, Vm.vm_end, flags, call.prot)
           j == call.vm + 1
           m == TryMerge(list, j, FALSE, TRUE)
<1>0. call.op = "mprotect" /\ Idle.op = "idle" /\ Higher
  BY DEF ProtectHigher, Protecting, Idle
<1>1. call # Idle
  BY <1>0
<1>2. /\ call.vm \in 1..Len(vm_area) /\ Vm \in Rec /\ flags \in Flags /\ call.prot \in Flags
      /\ Vm.vm_start \in Int /\ Vm.vm_end \in Int /\ lo \in Int /\ call.end \in Int
      /\ lo < Vm.vm_end /\ lo <= lo /\ Vm.vm_end <= Vm.vm_end /\ Vm.vm_end % PAGE = 0
  BY <1>1, CursorFacts DEF AreaOK
<1>3. Vm.vm_start < lo /\ lo % PAGE = 0 /\ call.end >= Vm.vm_end
  <2>1. call.caddr > Vm.vm_start /\ call.end >= Vm.vm_end
    BY <1>0 DEF Higher
  <2> QED BY <1>1, <1>2, <2>1, CursorFacts
<1>4. vm_area' = m.list /\ Continue(m.list, NextOf(m.list, m.vm), m.list[m.vm].vm_end)
  <2>1. [vm_area EXCEPT ![call.vm].vm_end = call.caddr] =
          Put(vm_area, call.vm, Area(Vm.vm_start, call.caddr, Vm.access_flags))
    BY <1>2, FieldFacts
  <2> QED BY <2>1 DEF ProtectHigher, MergeAndContinue, Edit, Parted
<1>5. PassEnd = Vm.vm_end /\ Target = call.prot /\ Target # Unmapped
  BY <1>0, <1>2, <1>3, ProtAssumption DEF PassEnd, Target, Flags
<1>5a. lo = call.caddr /\ flags = Vm.access_flags
  OBVIOUS
<1> HIDE DEF list, flags, m, lo
<1>6. /\ Sorted(list) /\ j \in 1..Len(list) /\ list[j] = Area(lo, Vm.vm_end, call.prot)
      /\ \A a \in Int : \A p :
           Holds(list, a, p) <=>
             IF Vm.vm_start <= a /\ a < Vm.vm_end
             THEN (a < lo /\ p = flags) \/ (lo <= a /\ a < Vm.vm_end /\ p = call.prot)
             ELSE Holds(vm_area, a, p)
  <2>1. IsParted(list, lo, lo, Vm.vm_end, flags, call.prot)
    BY <1>2, <1>3 DEF IsParted, list
  <2> QED BY <1>1, <2>1, PartedFacts
<1> HIDE DEF j
<1>7. /\ Sorted(m.list) /\ m.vm \in 1..Len(m.list)
      /\ \A x \in Int : \A p : Holds(m.list, x, p) <=> Holds(list, x, p)
      /\ m.list[m.vm].vm_start <= lo /\ Vm.vm_end <= m.list[m.vm].vm_end
      /\ m.list[m.vm].access_flags = call.prot
  <2>1. /\ Sorted(m.list) /\ m.vm \in 1..Len(m.list)
        /\ \A x \in Int : \A p : Holds(m.list, x, p) <=> Holds(list, x, p)
        /\ m.list[m.vm].vm_start <= list[j].vm_start
        /\ list[j].vm_end <= m.list[m.vm].vm_end
        /\ m.list[m.vm].access_flags = list[j].access_flags
    BY <1>6, MergeHolds DEF m
  <2> QED BY <1>6, <2>1 DEF Area
<1>8. m.list[m.vm].vm_start <= Vm.vm_end
  <2>1. m.list[m.vm].vm_start \in Int
    BY <1>7, SortedFacts
  <2> QED BY <1>2, <1>7, <2>1
<1>9. Treats(vm_area, m.list, Target, call.caddr, PassEnd)
  <2>1. ASSUME NEW a \in Int, NEW p
        PROVE  IF Vm.vm_start <= a /\ a < Vm.vm_end
               THEN Holds(m.list, a, p) <=> IF call.caddr <= a /\ a < PassEnd
                                            THEN p = Target /\ Target # Unmapped
                                            ELSE p = Vm.access_flags
               ELSE Holds(m.list, a, p) <=> Holds(vm_area, a, p)
    BY <1>2, <1>5, <1>5a, <1>6, <1>7
  <2> QED BY <1>1, <2>1, TreatsArea
<1> QED BY <1>0, <1>1, <1>4, <1>7, <1>8, <1>9, MergedSweeps DEF Sweeps

LEMMA ProtectLowestSweeps ==
  ASSUME Inv, ProtectLowest
  PROVE  Sweeps
<1> DEFINE flags == Vm.access_flags
           hi == call.end
           list == Parted(hi, hi, Vm.vm_end, call.prot, flags)
           m == TryMerge(list, call.vm, TRUE, FALSE)
           caddr == Vm.vm_end
<1>0. call.op = "mprotect" /\ Idle.op = "idle" /\ Lowest
  BY DEF ProtectLowest, Protecting, Idle
<1>1. call # Idle
  BY <1>0
<1>2. /\ call.vm \in 1..Len(vm_area) /\ Vm \in Rec /\ flags \in Flags /\ call.prot \in Flags
      /\ Vm.vm_start \in Int /\ Vm.vm_end \in Int /\ hi \in Int /\ call.caddr \in Int
      /\ hi <= hi /\ Vm.vm_end <= Vm.vm_end /\ Vm.vm_end % PAGE = 0 /\ hi % PAGE = 0
      /\ call.caddr < call.end /\ Len(vm_area) \in Nat
  BY <1>1, CursorFacts DEF AreaOK
<1>3. call.caddr = Vm.vm_start /\ hi < Vm.vm_end /\ Vm.vm_start < hi
  BY <1>0, <1>2 DEF Lowest
<1>4. vm_area' = m.list /\ Continue(m.list, NextOf(m.list, m.vm), caddr)
  BY DEF ProtectLowest, Edit, Parted, Put
<1>5. PassEnd = call.end /\ Target = call.prot /\ Target # Unmapped
  BY <1>0, <1>2, <1>3, ProtAssumption DEF PassEnd, Target, Flags
<1>5a. hi = call.end /\ flags = Vm.access_flags
  OBVIOUS
<1> HIDE DEF list, flags, m, hi
<1>6. /\ Sorted(list) /\ Len(list) = Len(vm_area) + 1
      /\ \A a \in Int : \A p :
           Holds(list, a, p) <=>
             IF Vm.vm_start <= a /\ a < Vm.vm_end
             THEN (a < hi /\ p = call.prot) \/ (hi <= a /\ a < Vm.vm_end /\ p = flags)
             ELSE Holds(vm_area, a, p)
  <2>1. IsParted(list, hi, hi, Vm.vm_end, call.prot, flags)
    BY <1>2, <1>3 DEF IsParted, list
  <2> QED BY <1>1, <2>1, PartedFacts
<1>7. /\ Sorted(m.list) /\ m.vm \in 1..Len(m.list)
      /\ \A x \in Int : \A p : Holds(m.list, x, p) <=> Holds(list, x, p)
  <2>1. Sorted(list) /\ call.vm \in 1..Len(list)
    BY <1>2, <1>6
  <2>2. /\ Sorted(m.list) /\ m.vm \in 1..Len(m.list)
        /\ \A x \in Int : \A p : Holds(m.list, x, p) <=> Holds(list, x, p)
        /\ m.list[m.vm].vm_start <= list[call.vm].vm_start
        /\ list[call.vm].vm_end <= m.list[m.vm].vm_end
        /\ m.list[m.vm].access_flags = list[call.vm].access_flags
    BY <2>1, MergeHolds DEF m
  <2> QED BY <2>2
<1>8. Treats(vm_area, m.list, Target, call.caddr, PassEnd)
  <2>1. ASSUME NEW a \in Int, NEW p
        PROVE  IF Vm.vm_start <= a /\ a < Vm.vm_end
               THEN Holds(m.list, a, p) <=> IF call.caddr <= a /\ a < PassEnd
                                            THEN p = Target /\ Target # Unmapped
                                            ELSE p = Vm.access_flags
               ELSE Holds(m.list, a, p) <=> Holds(vm_area, a, p)
    BY <1>2, <1>3, <1>5, <1>5a, <1>6, <1>7
  <2> QED BY <1>1, <2>1, TreatsArea
<1>9. PassEnd <= caddr /\ ~(caddr < call.end) /\ caddr \in Int
  BY <1>2, <1>3, <1>5, <1>5a
<1>10. \A a \in Int : PassEnd <= a /\ a < caddr /\ a < call.end =>
         \A p : Holds(m.list, a, p) => p = Target
  BY <1>2, <1>5, <1>5a
<1> DEFINE l == m.list
           j == m.vm
<1>11. /\ Sorted(l) /\ j \in 1..Len(l) /\ vm_area' = l /\ Continue(l, NextOf(l, j), caddr)
       /\ Treats(vm_area, l, Target, call.caddr, PassEnd)
       /\ \A a \in Int : PassEnd <= a /\ a < caddr /\ a < call.end =>
            \A p : Holds(l, a, p) => p = Target
  BY <1>4, <1>7, <1>8, <1>10
<1> HIDE DEF l, j, caddr
<1> QED BY <1>1, <1>9, <1>11, SweepRefines DEF Sweeps

LEMMA ProtectMiddleSweeps ==
  ASSUME Inv, ProtectMiddle
  PROVE  Sweeps
<1> DEFINE flags == Vm.access_flags
           lo == call.caddr
           hi == call.end
           i == call.vm + 1
           j == call.vm + 2
           mid == Parted(lo, lo, hi, flags, call.prot)
           b == Area(hi, Vm.vm_end, flags)
           list == InsertAt(mid, j, b)
<1>0. call.op = "mprotect" /\ Idle.op = "idle" /\ Middle
  BY DEF ProtectMiddle, Protecting, Idle
<1>1. call # Idle
  BY <1>0
<1>2. /\ call.vm \in 1..Len(vm_area) /\ Vm \in Rec /\ flags \in Flags /\ call.prot \in Flags
      /\ Vm.vm_start \in Int /\ Vm.vm_end \in Int /\ lo \in Int /\ hi \in Int
      /\ Vm.vm_end % PAGE = 0 /\ hi % PAGE = 0 /\ lo < hi /\ lo <= lo /\ Len(vm_area) \in Nat
      /\ call.vm < Len(vm_area) => Vm.vm_end <= vm_area[call.vm + 1].vm_start
      /\ Vm.vm_end <= Vm.vm_end
  BY <1>1, CursorFacts DEF AreaOK
<1>3. Vm.vm_start < lo /\ lo % PAGE = 0 /\ hi < Vm.vm_end /\ hi <= Vm.vm_end
  <2>1. call.caddr > Vm.vm_start /\ call.end < Vm.vm_end
    BY <1>0 DEF Middle
  <2> QED BY <1>1, <1>2, <2>1, CursorFacts
<1>4. vm_area' = list /\ Continue(list, NextOf(list, j), Vm.vm_end)
  <2>1. [vm_area EXCEPT ![call.vm].vm_end = call.caddr] =
          Put(vm_area, call.vm, Area(Vm.vm_start, call.caddr, Vm.access_flags))
    BY <1>2, FieldFacts
  <2> QED BY <2>1 DEF ProtectMiddle, Edit, Parted
<1>5. PassEnd = call.end /\ Target = call.prot /\ Target # Unmapped
  BY <1>0, <1>2, <1>3, ProtAssumption DEF PassEnd, Target, Flags
<1>5a. lo = call.caddr /\ hi = call.end /\ flags = Vm.access_flags /\ i \in Int /\ j = i + 1
  BY <1>2
<1>5b. b \in Rec /\ b.vm_start = hi /\ b.vm_end = Vm.vm_end /\ b.access_flags = flags
  BY <1>2 DEF Area, Rec
<1>5c. list = InsertAt(mid, i + 1, b)
  BY <1>5a
<1> HIDE DEF list, mid, b, flags, lo, hi
<1>6. /\ Sorted(mid) /\ Len(mid) = Len(vm_area) + 1 /\ i \in 1..Len(mid)
      /\ mid[i] = Area(lo, hi, call.prot) /\ SameAbove(mid, i)
      /\ \A a \in Int : \A p :
           Holds(mid, a, p) <=>
             IF Vm.vm_start <= a /\ a < Vm.vm_end
             THEN (a < lo /\ p = flags) \/ (lo <= a /\ a < hi /\ p = call.prot)
             ELSE Holds(vm_area, a, p)
  <2>1. IsParted(mid, lo, lo, hi, flags, call.prot)
    BY <1>2, <1>3 DEF IsParted, mid
  <2> QED BY <1>1, <2>1, PartedFacts
<1>7. /\ mid[i].vm_end <= b.vm_start /\ Vm.vm_start <= b.vm_start
      /\ b.vm_start < b.vm_end /\ b.vm_end <= Vm.vm_end /\ b.vm_end % PAGE = 0
  BY <1>2, <1>3, <1>5b, <1>6 DEF Area
<1> HIDE DEF i, j
<1>8. /\ Sorted(list) /\ j \in 1..Len(list) /\ SameAbove(list, j) /\ list[j] = b
  BY <1>1, <1>5a, <1>5b, <1>5c, <1>6, <1>7, PartFacts, SMTT(30)
<1>9. \A a \in Int : \A p :
        Holds(list, a, p) <=>
          (b.vm_start <= a /\ a < b.vm_end /\ p = b.access_flags) \/ Holds(mid, a, p)
  <2> SUFFICES ASSUME NEW a \in Int, NEW p
               PROVE  Holds(list, a, p) <=>
                        \/ b.vm_start <= a /\ a < b.vm_end /\ p = b.access_flags
                        \/ Holds(mid, a, p)
    OBVIOUS
  <2>1. IsPart(list, mid, i, b)
    BY <1>5b, <1>5c, <1>6, <1>7 DEF IsPart
  <2> QED BY <1>1, <2>1, PartHolds
<1>10. Treats(vm_area, list, Target, call.caddr, PassEnd)
  <2>1. ASSUME NEW a \in Int, NEW p
        PROVE  IF Vm.vm_start <= a /\ a < Vm.vm_end
               THEN Holds(list, a, p) <=> IF call.caddr <= a /\ a < PassEnd
                                          THEN p = Target /\ Target # Unmapped
                                          ELSE p = Vm.access_flags
               ELSE Holds(list, a, p) <=> Holds(vm_area, a, p)
    BY <1>2, <1>3, <1>5, <1>5a, <1>5b, <1>6, <1>9
  <2> QED BY <1>1, <2>1, TreatsArea
<1>11. /\ list[j].vm_end <= Vm.vm_end
       /\ j < Len(list) => Vm.vm_end <= list[j + 1].vm_start
  BY <1>2, <1>5b, <1>8 DEF SameAbove
<1> QED BY <1>1, <1>4, <1>8, <1>10, <1>11, GoOnSweeps DEF Sweeps

-----------------------------------------------------------------------------
(* What mmap adds.                                                         *)

\* From list old to list new, the free addresses from lo to hi - 1 take the
\* protection prot, and no others change.
Gains(old, new, lo, hi, prot) ==
  \A a \in Int : \A p :
    /\ lo <= a /\ a < hi => ~Holds(old, a, p)
    /\ Holds(new, a, p) <=> (lo <= a /\ a < hi /\ p = prot) \/ Holds(old, a, p)

\* The three ways to serve a request: onto the area below, onto the area
\* above, or as an area of its own.
LEMMA ExtendHolds ==
  ASSUME NEW list, Sorted(list), NEW i \in 1..Len(list),
         NEW hi \in Int, list[i].vm_end < hi, hi <= GapEnd(list, i), hi % PAGE = 0
  PROVE  Gains(list, Extend(list, i, hi).list, list[i].vm_end, hi, list[i].access_flags)
<1> DEFINE a == [list[i] EXCEPT !.vm_end = hi]
           grown == Put(list, i, a)
           lo == list[i].vm_end
           prot == list[i].access_flags
           closes == i < Len(list) /\ Mergeable(grown[i], grown[i + 1])
           new == Extend(list, i, hi).list
<1>1. /\ list[i] \in Rec /\ AreaOK(list[i]) /\ Len(list) \in Nat
      /\ lo \in Int /\ list[i].vm_start \in Int /\ list[i].vm_start < lo
  BY SortedFacts
<1>2. /\ MMAP_AREA_END \in Int /\ GapEnd(list, i) \in Int
      /\ GapEnd(list, i) <= MMAP_AREA_END /\ Floor(list, i) <= list[i].vm_start
  BY GapFacts
<1>3. /\ a \in Rec /\ a.vm_start = list[i].vm_start /\ a.vm_end = hi
      /\ a.access_flags = prot
  BY <1>1 DEF Rec
<1>4. AreaOK(a)
  BY <1>1, <1>2, <1>3 DEF AreaOK, Rec
<1>5. new = IF closes THEN Absorb(grown, i) ELSE grown
  BY DEF Extend, Put
<1> HIDE DEF a, new
<1>6. Floor(list, i) <= a.vm_start /\ a.vm_end <= GapEnd(list, i)
  BY <1>2, <1>3
<1>7. /\ Sorted(grown) /\ Len(grown) = Len(list)
      /\ \A k \in 1..Len(list) : grown[k] = IF k = i THEN a ELSE list[k]
  BY <1>3, <1>4, <1>6, PutFacts
<1> HIDE DEF grown
<1>8. IsPut(grown, list, i, a)
  BY <1>7 DEF IsPut
<1>9. ASSUME NEW x \in Int, NEW p PROVE Holds(new, x, p) <=> Holds(grown, x, p)
  <2>1. CASE closes
    <3>1. i \in 1..(Len(grown) - 1) /\ new = Absorb(grown, i)
      BY <1>1, <1>5, <1>7, <2>1
    <3>2. Mergeable(grown[i], grown[i + 1])
      BY <2>1
    <3> HIDE DEF closes
    <3> QED BY <1>7, <3>1, <3>2, AbsorbHolds
  <2>2. CASE ~closes
    BY <1>5, <2>2
  <2> QED BY <2>1, <2>2
<1> HIDE DEF closes
<1>10. ASSUME NEW x \in Int, lo <= x, x < hi, NEW p PROVE ~Holds(list, x, p)
  <2>1. i < Len(list) => x < list[i + 1].vm_start
    <3> SUFFICES ASSUME i < Len(list) PROVE x < list[i + 1].vm_start
      OBVIOUS
    <3>1. GapEnd(list, i) = list[i + 1].vm_start
      BY DEF GapEnd
    <3>2. x < GapEnd(list, i)
      BY <1>2, <1>10
    <3> QED BY <3>1, <3>2
  <2> QED BY <1>10, <2>1, AboveFree
<1>11. ASSUME NEW x \in Int, NEW p
       PROVE  Holds(grown, x, p) <=> (lo <= x /\ x < hi /\ p = prot) \/ Holds(list, x, p)
  <2>1. Holds(grown, x, p) <=>
          \/ In(x, a) /\ p = a.access_flags
          \/ Holds(list, x, p) /\ ~In(x, list[i])
    BY <1>8, PutHolds
  <2>2. In(x, a) <=> In(x, list[i]) \/ (lo <= x /\ x < hi)
    BY <1>1, <1>3 DEF In
  <2>3. In(x, list[i]) => Holds(list, x, prot)
    BY DEF Holds
  <2>4. In(x, list[i]) /\ Holds(list, x, p) => p = prot
    <3>1. Holds(list, x, p) => \A k \in 1..Len(list) : In(x, list[k]) => list[k].access_flags = p
      BY HoldsFacts
    <3> QED BY <3>1
  <2> QED BY <1>3, <2>1, <2>2, <2>3, <2>4
<1>12. Gains(list, new, lo, hi, prot)
  BY <1>9, <1>10, <1>11 DEF Gains
<1> QED BY <1>12 DEF new

LEMMA LowerHolds ==
  ASSUME NEW list, Sorted(list), NEW i \in 1..Len(list), i < Len(list),
         NEW lo \in Int, list[i].vm_end <= lo, lo <= list[i + 1].vm_start
  PROVE  Gains(list, Lower(list, i, lo).list, lo, list[i + 1].vm_start,
               list[i + 1].access_flags)
<1> DEFINE j == i + 1
           a == [list[j] EXCEPT !.vm_start = lo]
           grown == Put(list, j, a)
           hi == list[j].vm_start
           prot == list[j].access_flags
           new == Lower(list, i, lo).list
<1>1. /\ list[i] \in Rec /\ AreaOK(list[i]) /\ Len(list) \in Nat
      /\ j \in 1..Len(list) /\ list[j] \in Rec /\ AreaOK(list[j]) /\ j - 1 = i /\ j > 1
  BY SortedFacts
<1>2. /\ list[j].vm_end <= GapEnd(list, j)
      /\ list[j].vm_end \in Int /\ hi \in Int /\ hi < list[j].vm_end
  BY <1>1, GapFacts, SortedFacts
<1>3. /\ a \in Rec /\ a.vm_start = lo /\ a.vm_end = list[j].vm_end
      /\ a.access_flags = prot
  BY <1>1 DEF Rec
<1>4. AreaOK(a)
  BY <1>1, <1>3 DEF AreaOK, Rec, MMAP_AREA_START, PAGE
<1>5. new = grown
  BY DEF Lower, Put
<1>6. lo <= hi /\ hi = list[i + 1].vm_start
  OBVIOUS
<1>7. Floor(list, j) <= a.vm_start
  BY <1>1, <1>3 DEF Floor
<1> HIDE DEF a, j, new
<1>9. /\ Sorted(grown) /\ Len(grown) = Len(list)
      /\ \A k \in 1..Len(list) : grown[k] = IF k = j THEN a ELSE list[k]
  BY <1>1, <1>2, <1>3, <1>4, <1>7, PutFacts
<1> HIDE DEF grown
<1>10. IsPut(grown, list, j, a)
  BY <1>9 DEF IsPut
<1> HIDE DEF hi
<1>11. ASSUME NEW x \in Int, lo <= x, x < hi, NEW p PROVE ~Holds(list, x, p)
  <2>1. x < list[i + 1].vm_start
    BY <1>6, <1>11
  <2>2. list[i].vm_end <= x
    <3>1. list[i].vm_end \in Int
      BY SortedFacts
    <3> QED BY <1>11, <3>1
  <2> QED BY <2>1, <2>2, AboveFree
<1>12. ASSUME NEW x \in Int, NEW p
       PROVE  Holds(grown, x, p) <=> (lo <= x /\ x < hi /\ p = prot) \/ Holds(list, x, p)
  <2>1. Holds(grown, x, p) <=>
          \/ In(x, a) /\ p = a.access_flags
          \/ Holds(list, x, p) /\ ~In(x, list[j])
    BY <1>1, <1>10, PutHolds
  <2>2. In(x, a) <=> In(x, list[j]) \/ (lo <= x /\ x < hi)
    BY <1>2, <1>3, <1>6 DEF In, hi
  <2>3. In(x, list[j]) => Holds(list, x, prot)
    BY <1>1 DEF Holds
  <2>4. In(x, list[j]) /\ Holds(list, x, p) => p = prot
    <3>1. Holds(list, x, p) => \A k \in 1..Len(list) : In(x, list[k]) => list[k].access_flags = p
      BY HoldsFacts
    <3> QED BY <1>1, <3>1
  <2> QED BY <1>3, <2>1, <2>2, <2>3, <2>4
<1>13. Gains(list, new, lo, hi, prot)
  BY <1>5, <1>11, <1>12 DEF Gains
<1> QED BY <1>13 DEF new, hi, j

LEMMA CreateHolds ==
  ASSUME NEW list, Sorted(list), NEW i \in 1..Len(list),
         NEW lo \in Int, NEW hi \in Int, NEW prot \in Flags,
         list[i].vm_end <= lo, lo < hi, hi <= GapEnd(list, i), hi % PAGE = 0
  PROVE  Gains(list, Create(list, i, lo, hi, prot).list, lo, hi, prot)
<1> DEFINE a == Area(lo, hi, prot)
           new == InsertAt(list, i + 1, a)
<1>1. list[i] \in Rec /\ AreaOK(list[i]) /\ Len(list) \in Nat /\ list[i].vm_end \in Int
  BY SortedFacts
<1>2. MMAP_AREA_END \in Int /\ GapEnd(list, i) \in Int /\ GapEnd(list, i) <= MMAP_AREA_END
  BY GapFacts
<1>3. a \in Rec /\ a.vm_start = lo /\ a.vm_end = hi /\ a.access_flags = prot
  BY DEF Area, Rec
<1>4. AreaOK(a)
  BY <1>1, <1>2, <1>3 DEF AreaOK, Rec, MMAP_AREA_START, PAGE
<1>5. Create(list, i, lo, hi, prot).list = new
  BY DEF Create
<1> HIDE DEF a
<1>7. /\ Len(new) = Len(list) + 1
      /\ \A k \in 1..(Len(list) + 1) :
           new[k] = IF k <= i THEN list[k] ELSE IF k = i + 1 THEN a ELSE list[k - 1]
  BY <1>3, <1>4, InsertSorted, SMTT(30)
<1> HIDE DEF new
<1>8. ASSUME NEW x \in Int, NEW p
      PROVE  Holds(new, x, p) <=> (lo <= x /\ x < hi /\ p = prot) \/ Holds(list, x, p)
  <2>1. Holds(new, x, p) <=> (In(x, a) /\ p = a.access_flags) \/ Holds(list, x, p)
    BY <1>7, InsertHolds
  <2> QED BY <1>3, <2>1 DEF In
<1>9. ASSUME NEW x \in Int, lo <= x, x < hi, NEW p PROVE ~Holds(list, x, p)
  <2>1. i < Len(list) => x < list[i + 1].vm_start
    <3> SUFFICES ASSUME i < Len(list) PROVE x < list[i + 1].vm_start
      OBVIOUS
    <3>1. GapEnd(list, i) = list[i + 1].vm_start
      BY DEF GapEnd
    <3>2. x < GapEnd(list, i)
      BY <1>2, <1>9
    <3> QED BY <3>1, <3>2
  <2>2. list[i].vm_end <= x
    BY <1>1, <1>9
  <2> QED BY <2>1, <2>2, AboveFree
<1>10. Gains(list, new, lo, hi, prot)
  BY <1>8, <1>9 DEF Gains
<1> QED BY <1>5, <1>10

\* Edit e serves a request for length bytes: from e.addr to hi the free
\* addresses take the protection asked for.
ServesTo(list, e, length, prot, hi) ==
  /\ hi \in Int /\ e.addr \in Int
  /\ MMAP_AREA_START <= e.addr /\ e.addr < EndAddr(e.addr, length)
  /\ EndAddr(e.addr, length) <= hi /\ hi <= MMAP_AREA_END
  /\ Gains(list, e.list, e.addr, hi, prot)

Serves(list, e, length, prot) == \E hi \in Int : ServesTo(list, e, length, prot, hi)

\* map_vm_area serves, in a gap the request fits in; when it lowers the area
\* above, it takes the whole gap.
LEMMA MapVmAreaServes ==
  ASSUME NEW list, Sorted(list), NEW i \in 1..Len(list),
         NEW length \in Int, length > 0, NEW prot \in Flags, Fits(list, i, length)
  PROVE  Serves(list, MapVmArea(list, i, length, prot), length, prot)
<1> DEFINE lo == list[i].vm_end
           hi == EndAddr(lo, length)
           e == MapVmArea(list, i, length, prot)
<1> SUFFICES Serves(list, e, length, prot)
  OBVIOUS
<1>1. /\ list[i] \in Rec /\ AreaOK(list[i]) /\ lo \in Int /\ Len(list) \in Nat
      /\ list[i].vm_start \in Int /\ list[i].vm_start < lo
      /\ MMAP_AREA_END \in Int /\ MMAP_AREA_START \in Int
      /\ GapEnd(list, i) \in Int /\ lo <= GapEnd(list, i) /\ GapEnd(list, i) <= MMAP_AREA_END
  BY SortedFacts, GapFacts DEF MMAP_AREA_START, PAGE
<1>2. hi \in Int /\ hi % PAGE = 0
  BY <1>1, EndFacts
<1>3. lo < hi /\ hi <= GapEnd(list, i)
  <2>1. PageOf(GapEnd(list, i)) - PageOf(lo) >= NumPages(length)
    BY DEF Fits
  <2> QED BY <1>1, <2>1, FitFacts
<1>4. MMAP_AREA_START <= lo
  BY <1>1 DEF AreaOK
<1>5. hi = EndAddr(lo, length)
  OBVIOUS
<1> HIDE DEF hi
<1>6. ASSUME NEW top, top \in Int, hi <= top, top <= MMAP_AREA_END, e.addr = lo,
             Gains(list, e.list, lo, top, prot)
      PROVE  Serves(list, e, length, prot)
  <2> HIDE DEF e, lo
  <2>1. ServesTo(list, e, length, prot, top)
    BY <1>1, <1>3, <1>4, <1>5, <1>6 DEF ServesTo
  <2> QED BY <1>6, <2>1 DEF Serves
<1>7. CASE list[i].access_flags = prot
  <2>1. e = Extend(list, i, hi)
    BY <1>5, <1>7 DEF MapVmArea
  <2>2. Gains(list, Extend(list, i, hi).list, lo, hi, prot)
    BY <1>2, <1>3, <1>7, ExtendHolds
  <2>3. Extend(list, i, hi).addr = lo
    BY DEF Extend
  <2>4. hi <= hi /\ hi <= MMAP_AREA_END
    BY <1>1, <1>2, <1>3
  <2> HIDE DEF e, lo
  <2> QED BY <1>2, <1>6, <2>1, <2>2, <2>3, <2>4
<1>8. CASE list[i].access_flags # prot /\ i < Len(list) /\ list[i + 1].access_flags = prot
  <2> DEFINE top == list[i + 1].vm_start
  <2>1. top = GapEnd(list, i)
    BY <1>8 DEF GapEnd
  <2>2. e = Lower(list, i, lo)
    BY <1>8 DEF MapVmArea
  <2>3. lo <= lo /\ lo <= top
    BY <1>1, <2>1
  <2>4. Gains(list, Lower(list, i, lo).list, lo, top, prot)
    BY <1>1, <1>8, <2>3, LowerHolds
  <2>5. Lower(list, i, lo).addr = lo
    BY DEF Lower
  <2> HIDE DEF e, lo, top
  <2> QED BY <1>1, <1>3, <1>6, <2>1, <2>2, <2>4, <2>5
<1>9. CASE list[i].access_flags # prot /\ ~(i < Len(list) /\ list[i + 1].access_flags = prot)
  <2>1. e = Create(list, i, lo, hi, prot)
    BY <1>5, <1>9 DEF MapVmArea
  <2>2. lo <= lo
    BY <1>1
  <2>3. Gains(list, Create(list, i, lo, hi, prot).list, lo, hi, prot)
    BY <1>1, <1>2, <1>3, <2>2, CreateHolds
  <2>4. Create(list, i, lo, hi, prot).addr = lo
    BY DEF Create
  <2>5. hi <= hi /\ hi <= MMAP_AREA_END
    BY <1>1, <1>2, <1>3
  <2> HIDE DEF e, lo
  <2> QED BY <1>2, <1>6, <2>1, <2>3, <2>4, <2>5
<1> QED BY <1>7, <1>8, <1>9

\* look_up_hint_addr serves at the hint.
LEMMA MapAtHintServes ==
  ASSUME NEW list, Sorted(list), NEW addr \in Int,
         NEW length \in Int, length > 0, NEW prot \in Flags,
         NEW i \in HintGap(list, addr, length)
  PROVE  Serves(list, MapAtHint(list, i, addr, length, prot), length, prot)
<1> DEFINE hi == EndAddr(addr, length)
           e == MapAtHint(list, i, addr, length, prot)
<1> SUFFICES Serves(list, e, length, prot)
  OBVIOUS
<1>1. /\ i \in 1..Len(list) /\ list[i].vm_end <= addr
      /\ PageOf(GapEnd(list, i)) - PageOf(addr) >= NumPages(length)
  BY DEF HintGap
<1>2. /\ list[i] \in Rec /\ AreaOK(list[i]) /\ list[i].vm_end \in Int /\ Len(list) \in Nat
      /\ list[i].vm_start \in Int /\ list[i].vm_start < list[i].vm_end
      /\ MMAP_AREA_END \in Int /\ MMAP_AREA_START \in Int
      /\ GapEnd(list, i) \in Int /\ GapEnd(list, i) <= MMAP_AREA_END
  BY <1>1, SortedFacts, GapFacts DEF MMAP_AREA_START, PAGE
<1>3. hi \in Int /\ hi % PAGE = 0
  BY EndFacts
<1>4. addr < hi /\ hi <= GapEnd(list, i)
  BY <1>1, <1>2, FitFacts
<1>5. MMAP_AREA_START <= addr /\ hi = EndAddr(addr, length) /\ hi <= hi /\ hi <= MMAP_AREA_END
  BY <1>1, <1>2, <1>3, <1>4 DEF AreaOK
<1> HIDE DEF hi
<1>6. ASSUME e.addr = addr, Gains(list, e.list, addr, hi, prot)
      PROVE  Serves(list, e, length, prot)
  <2> HIDE DEF e
  <2>1. ServesTo(list, e, length, prot, hi)
    BY <1>2, <1>3, <1>4, <1>5, <1>6 DEF ServesTo
  <2> QED BY <1>3, <2>1 DEF Serves
<1> DEFINE joins == list[i].vm_end = addr /\ list[i].access_flags = prot
           meets == i < Len(list) /\ Mergeable(Area(addr, hi, prot), list[i + 1])
<1>7. CASE joins
  <2>1. e = Extend(list, i, hi)
    BY <1>5, <1>7 DEF MapAtHint
  <2>2. Gains(list, Extend(list, i, hi).list, addr, hi, prot)
    BY <1>1, <1>3, <1>4, <1>7, ExtendHolds
  <2>3. Extend(list, i, hi).addr = addr
    BY <1>7 DEF Extend
  <2> HIDE DEF e, joins
  <2> QED BY <1>6, <2>1, <2>2, <2>3
<1>8. CASE ~joins /\ meets
  <2>1. /\ i < Len(list) /\ hi = list[i + 1].vm_start /\ list[i + 1].access_flags = prot
    BY <1>8 DEF Mergeable, Area
  <2>2. addr <= list[i + 1].vm_start
    BY <1>3, <1>4, <2>1
  <2>3. e = Lower(list, i, addr)
    BY <1>5, <1>8 DEF MapAtHint
  <2>4. Gains(list, Lower(list, i, addr).list, addr, hi, prot)
    BY <1>1, <2>1, <2>2, LowerHolds
  <2>5. Lower(list, i, addr).addr = addr
    BY DEF Lower
  <2> HIDE DEF e, joins, meets
  <2> QED BY <1>6, <2>3, <2>4, <2>5
<1>9. CASE ~joins /\ ~meets
  <2>1. e = Create(list, i, addr, hi, prot)
    BY <1>5, <1>9 DEF MapAtHint
  <2>2. Gains(list, Create(list, i, addr, hi, prot).list, addr, hi, prot)
    BY <1>1, <1>3, <1>4, CreateHolds
  <2>3. Create(list, i, addr, hi, prot).addr = addr
    BY DEF Create
  <2> HIDE DEF e, joins, meets
  <2> QED BY <1>6, <2>1, <2>2, <2>3
<1> QED BY <1>7, <1>8, <1>9

LEMMA MapEditsServe ==
  ASSUME NEW list, Sorted(list), NEW addr \in Int,
         NEW length \in Int, length > 0, NEW prot \in Flags, NEW flags,
         NEW e \in MapEdits(list, addr, length, prot, flags)
  PROVE  Serves(list, e, length, prot)
<1>1. \/ \E i \in HintGap(list, addr, length) : e = MapAtHint(list, i, addr, length, prot)
      \/ \E i \in FirstFit(list, length) : e = MapVmArea(list, i, length, prot)
  BY Zenon DEF MapEdits
<1>2. CASE \E i \in HintGap(list, addr, length) : e = MapAtHint(list, i, addr, length, prot)
  BY <1>2, MapAtHintServes
<1>3. CASE \E i \in FirstFit(list, length) : e = MapVmArea(list, i, length, prot)
  <2>1. PICK i \in FirstFit(list, length) : e = MapVmArea(list, i, length, prot)
    BY <1>3
  <2>2. i \in 1..Len(list) /\ Fits(list, i, length)
    BY DEF FirstFit
  <2> QED BY <2>1, <2>2, MapVmAreaServes
<1> QED BY <1>1, <1>2, <1>3

-----------------------------------------------------------------------------
(* The calls outside the loops.                                            *)

\* What a request adds, in terms of ProtOf.
LEMMA GainFunction ==
  ASSUME NEW old, Sorted(old), Apart(old), NEW new, Sorted(new), NEW lo \in Int, NEW hi \in Int,
         lo < hi, MMAP_AREA_START <= lo, hi <= MMAP_AREA_END, NEW prot \in Flags,
         Gains(WithHead(old), new, lo, hi, prot)
  PROVE  /\ \A a \in lo..(hi - 1) : a \in Addrs /\ ProtIn(old)[a] = Unmapped
                                    /\ ProtIn(new)[a] = prot
         /\ ProtIn(new) = [a \in Addrs |-> IF a \in lo..(hi - 1) THEN prot ELSE ProtIn(old)[a]]
<1> DEFINE head == WithHead(old)
<1>0. MMAP_AREA_START \in Int /\ MMAP_AREA_END \in Int
  BY AreaAssumption DEF MMAP_AREA_START, MMAP_AREA_END, PAGE
<1>1. prot # Unmapped
  BY ProtAssumption DEF Flags
<1>2. new # <<>>
  <2>1. Holds(new, lo, prot)
    BY DEF Gains
  <2> QED BY <2>1 DEF Holds
<1>3. WithHead(new) = new
  BY <1>2 DEF WithHead
<1>4. Gains(head, new, lo, hi, prot)
  OBVIOUS
<1> HIDE DEF head
<1>5. ASSUME NEW a \in Addrs, NEW v
      PROVE  ProtIn(old)[a] = v <=> IF v = Unmapped THEN \A p : ~Holds(head, a, p)
                                    ELSE Holds(head, a, v)
  BY ProtIs DEF head
<1>6. ASSUME NEW a \in Addrs, NEW v
      PROVE  ProtIn(new)[a] = v <=> IF v = Unmapped THEN \A p : ~Holds(new, a, p)
                                    ELSE Holds(new, a, v)
  BY <1>3, ProtIs
<1>7. ASSUME NEW a \in Addrs
      PROVE  /\ a \in Int
             /\ \A p : /\ lo <= a /\ a < hi => ~Holds(head, a, p)
                       /\ Holds(new, a, p) <=>
                            (lo <= a /\ a < hi /\ p = prot) \/ Holds(head, a, p)
  <2>1. a \in Int
    BY <1>0 DEF Addrs
  <2> QED BY <1>4, <2>1 DEF Gains
<1>8. ASSUME NEW a \in lo..(hi - 1)
      PROVE  a \in Addrs /\ ProtIn(old)[a] = Unmapped /\ ProtIn(new)[a] = prot
  <2>1. a \in Addrs /\ lo <= a /\ a < hi
    BY <1>0 DEF Addrs
  <2> QED BY <1>1, <1>5, <1>6, <1>7, <2>1
<1>9. ASSUME NEW a \in Addrs, ~(a \in lo..(hi - 1)) PROVE ProtIn(new)[a] = ProtIn(old)[a]
  <2> DEFINE v == ProtIn(old)[a]
  <2>1. a \in Int
    BY <1>7
  <2>2. ~(lo <= a /\ a < hi)
    BY <1>9, <2>1
  <2>3. IF v = Unmapped THEN \A p : ~Holds(head, a, p) ELSE Holds(head, a, v)
    BY <1>5
  <2> HIDE DEF v
  <2>4. \A p : Holds(new, a, p) <=> Holds(head, a, p)
    BY <1>7, <2>2
  <2>5. ProtIn(new)[a] = v
    BY <1>6, <2>3, <2>4
  <2> QED BY <2>5 DEF v
<1>10. ProtIn(new) = [a \in Addrs |-> ProtIn(new)[a]]
  BY DEF ProtIn
<1>11. ASSUME NEW a \in Addrs
       PROVE  ProtIn(new)[a] = IF a \in lo..(hi - 1) THEN prot ELSE ProtIn(old)[a]
  BY <1>8, <1>9
<1> QED BY <1>8, <1>10, <1>11

\* Putting the list head in place changes no protection.
LEMMA HeadKeeps ==
  ASSUME NEW list, Sorted(list), Apart(list)
  PROVE  ProtIn(WithHead(list)) = ProtIn(list)
<1> DEFINE head == WithHead(list)
<1>1. Sorted(head) /\ WithHead(head) = head
  BY HeadFacts DEF WithHead
<1>2. head = WithHead(list)
  OBVIOUS
<1> HIDE DEF head
<1>3. ASSUME NEW a \in Addrs PROVE ProtIn(head)[a] = ProtIn(list)[a]
  <2> DEFINE v == ProtIn(list)[a]
  <2>1. IF v = Unmapped THEN \A p : ~Holds(head, a, p) ELSE Holds(head, a, v)
    BY <1>2, ProtIs
  <2> HIDE DEF v
  <2>2. ProtIn(head)[a] = v
    BY <1>1, <2>1, ProtIs
  <2> QED BY <2>2 DEF v
<1>4. ProtIn(head) = [a \in Addrs |-> ProtIn(head)[a]] /\ ProtIn(list) = [a \in Addrs |-> ProtIn(list)[a]]
  BY DEF ProtIn
<1>5. ProtIn(head) = ProtIn(list)
  BY <1>3, <1>4
<1> QED BY <1>2, <1>5

\* Without a list only the reserved page has a protection.
LEMMA BlankIs == ProtIn(<<>>) = AS!Blank
<1>1. ASSUME NEW a \in Addrs
      PROVE  ProtIn(<<>>)[a] = IF a \in MMAP_AREA_START..(MMAP_AREA_START + PAGE - 1)
                               THEN PROT_NONE ELSE Unmapped
  <2>1. /\ a \in Int /\ MMAP_AREA_START \in Int /\ PAGE \in Int /\ MMAP_AREA_START <= a
    BY AreaAssumption DEF Addrs, MMAP_AREA_START, MMAP_AREA_END, PAGE
  <2> DEFINE l == <<>>
  <2>2. Len(l) = 0 /\ l = <<>>
    OBVIOUS
  <2> HIDE DEF l
  <2>3. ~(\E i \in 1..Len(l) : In(a, l[i]))
    BY <2>2
  <2>4. ProtIn(l)[a] = IF a < MMAP_AREA_START + PAGE THEN PROT_NONE ELSE Unmapped
    BY <2>2, <2>3 DEF ProtIn
  <2>5. a < MMAP_AREA_START + PAGE <=> a \in MMAP_AREA_START..(MMAP_AREA_START + PAGE - 1)
    BY <2>1
  <2> QED BY <2>2, <2>4, <2>5
<1>2. ProtIn(<<>>) = [a \in Addrs |-> ProtIn(<<>>)[a]]
  BY DEF ProtIn
<1>3. AS!Blank = [a \in Addrs |-> IF a \in MMAP_AREA_START..(MMAP_AREA_START + PAGE - 1)
                                  THEN PROT_NONE ELSE Unmapped]
  BY DEF AS!Blank
<1> QED BY <1>1, <1>2, <1>3

LEMMA ProtOfIs == ProtOf = ProtIn(vm_area) /\ ProtOf' = ProtIn(vm_area')
BY DEF ProtOf, ProtIn

LEMMA IdleBusy ==
  ASSUME call = Idle PROVE Busy = AS!Idle
BY DEF Busy, AS!Idle, Idle

LEMMA IdleBusyAfter ==
  ASSUME call' = Idle PROVE Busy' = AS!Idle
BY DEF Busy, AS!Idle, Idle

\* A call that leaves every protection as it was.
LEMMA NoEffectRefines ==
  ASSUME call = Idle, call' = Idle, ProtOf' = ProtOf, ret' \in {-1, 0}
  PROVE  AS!Next
<1>1. Busy = AS!Idle /\ Busy' = AS!Idle
  BY IdleBusy, IdleBusyAfter
<1> HIDE DEF ProtOf, Busy
<1>2. AS!NoEffect(ret')
  BY <1>1 DEF AS!NoEffect
<1> QED BY <1>2 DEF AS!Next

LEMMA MmapRefines ==
  ASSUME Inv, NEW addr \in Addresses, NEW length \in Lengths, NEW prot \in Prots,
         NEW flags \in FlagSets, Mmap(addr, length, prot, flags), Sorted(vm_area')
  PROVE  AS!Next /\ MmapServes'
<1>1. /\ call = Idle /\ call' = Idle
      /\ addr \in Int /\ length \in Int /\ prot \in Flags
      /\ Sorted(vm_area) /\ Apart(vm_area)
  BY AreaAssumption DEF Mmap, Flags, Inv
<1> DEFINE list == WithHead(vm_area)
           edits == MapEdits(list, addr, length, prot, flags)
<1>2. \/ vm_area' = vm_area /\ ret' = -1 /\ asked' = Nothing
      \/ vm_area' = list /\ ret' = -1 /\ asked' = Nothing
      \/ /\ ~BadRequest(addr, length)
         /\ \E e \in edits : vm_area' = e.list /\ ret' = e.addr /\ asked' = Request(length, prot)
  BY DEF Mmap
<1> HIDE DEF edits
<1>3. CASE asked' = Nothing /\ ret' = -1 /\ (vm_area' = vm_area \/ vm_area' = list)
  <2>1. ProtIn(vm_area') = ProtIn(vm_area)
    BY <1>1, <1>3, HeadKeeps
  <2>2. AS!Next
    BY <1>1, <1>3, <2>1, ProtOfIs, NoEffectRefines
  <2>3. MmapServes'
    BY <1>3 DEF MmapServes, Nothing
  <2> QED BY <2>2, <2>3
<1>4. ASSUME ~BadRequest(addr, length), NEW e \in edits,
             vm_area' = e.list, ret' = e.addr, asked' = Request(length, prot)
      PROVE  AS!Next /\ MmapServes'
  <2>0. length > 0
    BY <1>1, <1>4 DEF BadRequest
  <2>1. Serves(list, e, length, prot)
    <3>1. Sorted(list)
      BY <1>1, HeadFacts
    <3> HIDE DEF list
    <3> QED BY <1>1, <2>0, <3>1, MapEditsServe DEF edits
  <2>2. PICK hi \in Int : ServesTo(list, e, length, prot, hi)
    BY <2>1 DEF Serves
  <2> DEFINE lo == e.addr
             end == EndAddr(lo, length)
  <2>3. /\ lo \in Int /\ MMAP_AREA_START <= lo /\ lo < end
        /\ end <= hi /\ hi <= MMAP_AREA_END
        /\ Gains(WithHead(vm_area), e.list, lo, hi, prot)
    BY <2>2 DEF ServesTo
  <2>4. end \in Int /\ MMAP_AREA_START \in Int /\ MMAP_AREA_END \in Int
    <3>1. end \in Int
      BY <1>1, <2>3, EndFacts
    <3> QED BY <3>1, AreaAssumption DEF MMAP_AREA_START, MMAP_AREA_END, PAGE
  <2>4a. end = EndAddr(lo, length) /\ ret' = lo
    BY <1>4
  <2> HIDE DEF end, lo, list
  <2>5. lo < hi /\ \A a \in lo..(end - 1) : a \in lo..(hi - 1)
    BY <2>3, <2>4
  <2>6. /\ \A a \in lo..(hi - 1) : a \in Addrs /\ ProtIn(vm_area)[a] = Unmapped
                                   /\ ProtIn(vm_area')[a] = prot
        /\ ProtIn(vm_area') = [a \in Addrs |-> IF a \in lo..(hi - 1) THEN prot
                                               ELSE ProtIn(vm_area)[a]]
    <3>1. Sorted(e.list) /\ e.list = vm_area'
      BY <1>4
    <3>2. /\ \A a \in lo..(hi - 1) : a \in Addrs /\ ProtIn(vm_area)[a] = Unmapped
                                   /\ ProtIn(e.list)[a] = prot
          /\ ProtIn(e.list) = [a \in Addrs |-> IF a \in lo..(hi - 1) THEN prot
                                               ELSE ProtIn(vm_area)[a]]
      BY <1>1, <2>3, <2>5, <3>1, GainFunction
    <3> QED BY <3>1, <3>2
  <2>7. MmapServes'
    <3>1. asked'.length = length /\ asked'.prot = prot
      BY <1>4 DEF Request
    <3>2. \A a \in ret'..(EndAddr(ret', length) - 1) :
            a \in Addrs /\ ProtOf'[a] = prot
      BY <2>4a, <2>5, <2>6, ProtOfIs
    <3> HIDE DEF ProtOf
    <3> QED BY <3>1, <3>2 DEF MmapServes
  <2>8. Busy = AS!Idle /\ Busy' = AS!Idle
    BY <1>1, IdleBusy, IdleBusyAfter
  <2>9. lo \in Addrs /\ hi \in AS!Limits
    <3>1. lo \in Addrs /\ hi - 1 \in Addrs /\ hi = (hi - 1) + 1
      BY <2>3, <2>4, <2>5 DEF Addrs
    <3> QED BY <3>1 DEF AS!Limits
  <2> HIDE DEF Busy, ProtOf
  <2>10. AS!Map(lo, hi, prot)
    <3>1. \A a \in lo..(hi - 1) : ProtOf[a] = Unmapped
      BY <2>6, ProtOfIs
    <3>2. ProtOf' = [a \in Addrs |-> IF a \in lo..(hi - 1) THEN prot ELSE ProtOf[a]]
      BY <2>6, ProtOfIs
    <3> QED BY <2>4a, <2>5, <2>8, <3>1, <3>2 DEF AS!Map
  <2>11. AS!Next
    BY <2>9, <2>10 DEF AS!Next
  <2> QED BY <2>7, <2>11
<1> QED BY <1>2, <1>3, <1>4

\* How munmap and mprotect start: at once on a mapped address, or with
\* nothing to do.
LEMMA EntryRefines ==
  ASSUME Inv, call = Idle, vm_area' = vm_area,
         NEW op \in {"munmap", "mprotect"}, NEW addr \in Int, addr % PAGE = 0,
         NEW end \in Int, end % PAGE = 0, NEW prot \in Flags,
         op = "mprotect" => prot \in Prots,
         NEW c, c = SkipHead(vm_area, addr),
         LoopOrReturn(op, LookupVma(vm_area, 1, c), c, end, prot)
  PROVE  AS!Next
<1> DEFINE vm == LookupVma(vm_area, 1, c)
           area == vm_area[vm]
           t == IF op = "munmap" THEN Unmapped ELSE prot
           hi == IF end < MMAP_AREA_END THEN end ELSE MMAP_AREA_END
<1>1. Sorted(vm_area) /\ ret \in Int
  BY DEF Inv
<1>2. ProtOf' = ProtOf
  BY ProtOfIs
<1>3. call' # Idle => CursorOK(vm_area, call')
  BY <1>1, EntryFacts
<1>4. \/ /\ call' = [op |-> op, vm |-> vm, caddr |-> c, end |-> end, prot |-> prot]
         /\ ret' = ret
      \/ call' = Idle /\ ret' = 0
  BY DEF LoopOrReturn
<1> HIDE DEF vm
<1>5. CASE call' = Idle /\ ret' = 0
  BY <1>2, <1>5, NoEffectRefines
<1>6. CASE /\ call' = [op |-> op, vm |-> vm, caddr |-> c, end |-> end, prot |-> prot]
           /\ ret' = ret
  <2>1. /\ call' # Idle /\ call'.op = op /\ call'.caddr = c /\ call'.end = end
        /\ call'.prot = prot /\ call'.vm = vm
    BY <1>6 DEF Idle
  <2>2. /\ vm \in 1..Len(vm_area) /\ area.vm_start <= c /\ c < area.vm_end /\ c < end
    BY <1>3, <2>1 DEF CursorOK
  <2>3. /\ AreaOK(area) /\ area.vm_start \in Int /\ area.vm_end \in Int
        /\ vm_area # <<>>
    BY <1>1, <2>2, SortedFacts
  <2>4. c \in Int
    <3>1. Len(vm_area) \in Nat
      BY <1>1, SortedFacts
    <3>2. \/ c = addr
          \/ 2 \in 1..Len(vm_area) /\ c = vm_area[2].vm_start
      BY <3>1 DEF SkipHead
    <3> QED BY <1>1, <3>2, SortedFacts
  <2>5. /\ MMAP_AREA_START \in Int /\ MMAP_AREA_END \in Int
        /\ MMAP_AREA_START <= area.vm_start /\ area.vm_end <= MMAP_AREA_END
    BY <2>3, AreaAssumption DEF AreaOK, MMAP_AREA_START, MMAP_AREA_END, PAGE
  <2> HIDE DEF area
  <2>6. c \in Addrs /\ c < hi /\ hi \in Int /\ hi - 1 \in Addrs /\ hi = (hi - 1) + 1
    BY <2>2, <2>3, <2>4, <2>5 DEF Addrs
  <2>7. hi \in AS!Limits
    <3> HIDE DEF hi
    <3> QED BY <2>6 DEF AS!Limits
  <2>8. ProtOf[c] # Unmapped
    <3>1. Holds(vm_area, c, area.access_flags)
      BY <2>2 DEF Holds, In, area
    <3>2. area.access_flags # Unmapped /\ WithHead(vm_area) = vm_area
      BY <1>1, <2>3, <2>4, <3>1, HoldsFacts DEF WithHead
    <3>3. ProtIn(vm_area)[c] = area.access_flags
      BY <1>1, <2>6, <3>1, <3>2, ProtIs
    <3> QED BY <3>2, <3>3, ProtOfIs
  <2>9. Busy = AS!Idle
    BY IdleBusy
  <2>10. Busy' = [op |-> "sweep", target |-> t, lo |-> c, hi |-> hi]
    <3>1. Busy' = [op |-> "sweep",
                   target |-> IF call'.op = "munmap" THEN Unmapped ELSE call'.prot,
                   lo |-> call'.caddr,
                   hi |-> IF call'.end < MMAP_AREA_END THEN call'.end ELSE MMAP_AREA_END]
      BY <2>1 DEF Busy
    <3> HIDE DEF Busy
    <3> QED BY <2>1, <3>1
  <2>11. t \in Prots \cup {Unmapped}
    OBVIOUS
  <2> HIDE DEF Busy, ProtOf, hi, t
  <2>12. AS!Begin(t, c, hi)
    BY <1>2, <1>6, <2>6, <2>8, <2>9, <2>10 DEF AS!Begin
  <2> QED BY <2>6, <2>7, <2>11, <2>12 DEF AS!Next
<1> QED BY <1>4, <1>5, <1>6

LEMMA MunmapRefines ==
  ASSUME Inv, NEW addr \in Addresses, NEW length \in Lengths, Munmap(addr, length)
  PROVE  AS!Next
<1>1. /\ call = Idle /\ vm_area' = vm_area
      /\ addr \in Int /\ length \in Int /\ PROT_NONE \in Flags
  BY AreaAssumption DEF Munmap, Flags
<1>2. CASE PageOf(addr) * PAGE # addr \/ vm_area = <<>>
  <2>1. ret' = -1 /\ call' = Idle
    BY <1>1, <1>2 DEF Munmap
  <2>2. ProtOf' = ProtOf
    BY <1>1, ProtOfIs
  <2> QED BY <1>1, <2>1, <2>2, NoEffectRefines
<1>3. CASE ~(PageOf(addr) * PAGE # addr \/ vm_area = <<>>)
  <2> DEFINE c == SkipHead(vm_area, addr)
             end == EndAddr(addr, length)
             op == "munmap"
  <2>1. LoopOrReturn(op, LookupVma(vm_area, 1, c), c, end, PROT_NONE)
    BY <1>3 DEF Munmap
  <2>2. addr % PAGE = 0
    BY <1>1, <1>3 DEF PageOf, PAGE
  <2>3. end \in Int /\ end % PAGE = 0
    BY <1>1, EndFacts
  <2>4. op \in {"munmap", "mprotect"} /\ ~(op = "mprotect")
    OBVIOUS
  <2>5. c = SkipHead(vm_area, addr)
    OBVIOUS
  <2> HIDE DEF end, op
  <2> QED BY <1>1, <2>1, <2>2, <2>3, <2>4, EntryRefines
<1> QED BY <1>2, <1>3

LEMMA MprotectRefines ==
  ASSUME Inv, NEW addr \in Addresses, NEW length \in Lengths, NEW prot \in Prots,
         Mprotect(addr, length, prot)
  PROVE  AS!Next
<1> DEFINE from == PageOf(addr) * PAGE
           c == SkipHead(vm_area, from)
           end == EndAddr(addr, length)
           op == "mprotect"
<1>1. /\ call = Idle /\ vm_area' = vm_area
      /\ addr \in Int /\ length \in Int /\ prot \in Flags /\ prot \in Prots
  BY AreaAssumption DEF Mprotect, Flags
<1>2. LoopOrReturn(op, LookupVma(vm_area, 1, c), c, end, prot)
  BY DEF Mprotect
<1>3. from \in Int /\ from % PAGE = 0
  BY <1>1 DEF PageOf, PAGE
<1>4. end \in Int /\ end % PAGE = 0
  BY <1>1, EndFacts
<1>5. op \in {"munmap", "mprotect"}
  OBVIOUS
<1> HIDE DEF end, from, op
<1> QED BY <1>1, <1>2, <1>3, <1>4, <1>5, EntryRefines

LEMMA ExitRefines ==
  ASSUME Exit
  PROVE  AS!Next
<1>1. call = Idle /\ call' = Idle /\ vm_area' = <<>> /\ ret' = 0
  BY DEF Exit
<1>2. Busy = AS!Idle /\ Busy' = AS!Idle
  BY <1>1, IdleBusy, IdleBusyAfter
<1>3. ProtOf' = AS!Blank
  BY <1>1, ProtOfIs, BlankIs
<1> HIDE DEF Busy, ProtOf, AS!Blank
<1>4. AS!Exit
  BY <1>1, <1>2, <1>3 DEF AS!Exit
<1> QED BY <1>4 DEF AS!Next

\* A pass through a loop; the one that loses the kernel changes nothing the
\* address space sees.
LEMMA LoopRefines ==
  ASSUME Inv, LoopStep
  PROVE  AS!Next \/ UNCHANGED AS!vars
<1>1. CASE UnmapWhole /\ call.vm = 1
  <2>1. UNCHANGED <<vm_area, call, ret>>
    BY <1>1 DEF UnmapWhole
  <2>2. Busy' = Busy /\ ProtOf' = ProtOf
    BY <2>1, ProtOfIs DEF Busy
  <2> HIDE DEF Busy, ProtOf
  <2> QED BY <2>1, <2>2 DEF AS!vars
<1>2. CASE ~(UnmapWhole /\ call.vm = 1)
  <2>1. Sweeps
    BY <1>2, UnmapWholeSweeps, UnmapHigherSweeps, UnmapLowestSweeps, UnmapMiddleSweeps,
       ProtectSameSweeps, ProtectWholeSweeps, ProtectHigherSweeps, ProtectLowestSweeps,
       ProtectMiddleSweeps DEF LoopStep
  <2> QED BY <2>1 DEF Sweeps, AS!Next
<1> QED BY <1>1, <1>2

LEMMA StepRefines == Inv /\ Inv' /\ [Next]_vars => [AS!Next]_AS!vars
<1> SUFFICES ASSUME Inv, Inv', [Next]_vars PROVE AS!Next \/ UNCHANGED AS!vars
  OBVIOUS
<1>1. CASE UNCHANGED vars
  <2>1. UNCHANGED <<vm_area, call, ret>>
    BY <1>1 DEF vars
  <2>2. Busy' = Busy /\ ProtOf' = ProtOf
    BY <2>1, ProtOfIs DEF Busy
  <2> HIDE DEF Busy, ProtOf
  <2> QED BY <2>1, <2>2 DEF AS!vars
<1>2. CASE LoopStep
  BY <1>2, LoopRefines
<1>3. CASE Exit
  BY <1>3, ExitRefines
<1>4. Sorted(vm_area')
  BY DEF Inv
<1> QED BY <1>1, <1>2, <1>3, <1>4, MmapRefines, MunmapRefines, MprotectRefines DEF Next

LEMMA InitRefines == Init => AS!Init
<1> SUFFICES ASSUME Init PROVE AS!Init
  OBVIOUS
<1>1. call = Idle /\ vm_area = <<>> /\ ret = 0
  BY DEF Init
<1>2. Busy = AS!Idle
  BY <1>1, IdleBusy
<1>3. ProtOf = AS!Blank
  BY <1>1, ProtOfIs, BlankIs
<1> HIDE DEF Busy, ProtOf, AS!Blank
<1> QED BY <1>1, <1>2, <1>3 DEF AS!Init

\* The list implements the address space: mmap takes free addresses only, and
\* each pass of the loops of munmap and mprotect changes exactly the mapped
\* addresses it passes over, to the end of the range.
THEOREM RefinesAddrSpace == Spec => ImplementsAddrSpace
<1>1. Init => AS!Init
  BY InitRefines
<1>2. Inv /\ Inv' /\ [Next]_vars => [AS!Next]_AS!vars
  BY StepRefines
<1> QED BY <1>1, <1>2, Invariance, PTL DEF Spec, ImplementsAddrSpace, AS!Spec

\* mmap serves the request: every address of the run it returns carries the
\* protection asked for.
THEOREM MmapServesRequests == Spec => []MmapServes
<1> DEFINE Served == MmapServes /\ (call # Idle => asked = Nothing)
<1>1. Init => Served
  BY DEF Init, MmapServes
<1>2. Inv /\ Inv' /\ Served /\ [Next]_vars => Served'
  <2> SUFFICES ASSUME Inv, Inv', Served, [Next]_vars PROVE Served'
    OBVIOUS
  <2>1. CASE UNCHANGED vars
    <3>1. UNCHANGED <<vm_area, ret, asked, call>>
      BY <2>1 DEF vars
    <3>2. ProtOf' = ProtOf
      BY <3>1, ProtOfIs
    <3> HIDE DEF ProtOf
    <3> QED BY <3>1, <3>2 DEF MmapServes
  <2>2. CASE LoopStep
    <3>0. Idle.op = "idle"
      BY DEF Idle
    <3>1. call # Idle /\ asked' = asked
      <4>1. CASE UnmapWhole
        BY <3>0, <4>1 DEF UnmapWhole, Edit
      <4>2. CASE UnmapHigher \/ UnmapLowest \/ UnmapMiddle
        BY <3>0, <4>2 DEF UnmapHigher, UnmapLowest, UnmapMiddle, Edit
      <4>3. CASE ProtectSame \/ ProtectWhole \/ ProtectHigher
        BY <3>0, <4>3 DEF ProtectSame, ProtectWhole, ProtectHigher, Protecting,
           MergeAndContinue, Edit
      <4>4. CASE ProtectLowest \/ ProtectMiddle
        BY <3>0, <4>4 DEF ProtectLowest, ProtectMiddle, Protecting, Edit
      <4> QED BY <2>2, <4>1, <4>2, <4>3, <4>4 DEF LoopStep
    <3> QED BY <3>1 DEF MmapServes
  <2>3. CASE Exit
    BY <2>3 DEF Exit, MmapServes
  <2>4. ASSUME NEW addr \in Addresses, NEW length \in Lengths, NEW prot \in Prots,
               NEW flags \in FlagSets, Mmap(addr, length, prot, flags)
        PROVE  Served'
    <3>1. Sorted(vm_area') /\ call' = Idle
      BY <2>4 DEF Inv, Mmap
    <3> QED BY <2>4, <3>1, MmapRefines
  <2>5. ASSUME NEW addr \in Addresses, NEW length \in Lengths, Munmap(addr, length)
        PROVE  Served'
    BY <2>5 DEF Munmap, MmapServes
  <2>6. ASSUME NEW addr \in Addresses, NEW length \in Lengths, NEW prot \in Prots,
               Mprotect(addr, length, prot)
        PROVE  Served'
    BY <2>6 DEF Mprotect, MmapServes
  <2> QED BY <2>1, <2>2, <2>3, <2>4, <2>5, <2>6 DEF Next
<1>3. Served => MmapServes
  OBVIOUS
<1> QED BY <1>1, <1>2, <1>3, Invariance, PTL DEF Spec
=============================================================================
