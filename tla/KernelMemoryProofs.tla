------------------------- MODULE KernelMemoryProofs -------------------------
(***************************************************************************)
(* The kernel's memory: its allocators and its page tables, for sizes of   *)
(* any kind.                                                               *)
(*                                                                         *)
(* The allocators hand out pages and objects that do not overlap, for a    *)
(* region of any size, words of any width and any classes of sizes: a free *)
(* page is found while the count says that there is one, every page has    *)
(* one holder, and two objects meet only behind the end of a page.  The    *)
(* search through the bitmap comes first, of which no more is needed than  *)
(* that the page it finds is free and that it finds one; at boot also that *)
(* it is the first.  Then where an object may lie: pages belong to one     *)
(* class, and the page a class cuts from has no object at or behind the    *)
(* position it cuts next.                                                  *)
(*                                                                         *)
(* The page tables, of any fan-out, are trees that lead a process to the   *)
(* pages it has mapped and to no others, share no table but those of the   *)
(* kernel, and lose none but the PUDs that exits leave behind.  The        *)
(* invariant says which tables there are, by their names, and what is in   *)
(* each: an entry leads to the table of its place exactly if that table is *)
(* there.  A step of the walk, building what is missing, keeps this; the   *)
(* loops follow by induction.  A purge is followed level by level: what it *)
(* clears are the pages of its range and the entries of the tables that    *)
(* become empty, whatever lies outside of the range.                       *)
(***************************************************************************)
EXTENDS OsAlloc, PageTables, FiniteSetTheorems, SequenceTheorems, WellFoundedInduction,
        TLAPS

-----------------------------------------------------------------------------
(* Induction                                                               *)

\* A set of numbers has a least one.
LEMMA Least ==
  ASSUME NEW T \in SUBSET Nat, T # {}
  PROVE  \E n \in T : \A m \in T : n <= m
<1>1. \A i, j \in Nat : i < j => <<i, j>> \in OpToRel(<, Nat)
  BY DEF OpToRel
<1>2. PICK R : IsWellFoundedOn(R, Nat) /\ \A i, j \in Nat : i < j => <<i, j>> \in R
  BY <1>1, NatLessThanWellFounded
<1>3. IsWellFoundedOn(R, Nat)
  BY <1>2
<1>4. T \subseteq Nat
  OBVIOUS
<1>5. \E x \in T : \A y \in T : ~ (<<y, x>> \in R)
  BY <1>3, <1>4, WFMin, Zenon
<1>6. PICK x \in T : \A y \in T : ~ (<<y, x>> \in R)
  BY <1>5
<1>7. ASSUME NEW y \in T PROVE x <= y
  <2>1. <<y, x>> \notin R /\ x \in Nat /\ y \in Nat
    BY <1>6
  <2>2. ~ (y < x)
    BY <2>1, <1>2
  <2> QED BY <2>1, <2>2
<1> QED BY <1>7

\* Induction, over a set: the library's theorems take an operator, which the
\* provers cannot instantiate.
LEMMA SetInduction ==
  ASSUME NEW S, 0 \in S, \A n \in Nat : n \in S => n + 1 \in S
  PROVE  Nat \subseteq S
<1> SUFFICES ASSUME Nat \ S # {} PROVE FALSE
  OBVIOUS
<1>1. PICK n \in Nat \ S : \A m \in Nat \ S : n <= m
  BY Least
<1> QED BY <1>1

\* Max and Min of a set of numbers that has one.
LEMMA MinFacts ==
  ASSUME NEW T \in SUBSET Nat, T # {}
  PROVE  Min(T) \in T /\ \A m \in T : Min(T) <= m
<1>1. \E n \in T : \A m \in T : n =< m
  BY Least
<1> QED BY <1>1 DEF Min

\* The greatest number of T is what leaves the least below the bound.
LEMMA MaxFacts ==
  ASSUME NEW b \in Nat, NEW T \in SUBSET (0 .. b), T # {}
  PROVE  Max(T) \in T /\ \A m \in T : m <= Max(T)
<1> DEFINE U == {b - m : m \in T}
<1>0. \A m \in T : m \in 0 .. b /\ b - m \in Nat
  OBVIOUS
<1>1. U \in SUBSET Nat /\ U # {}
  BY <1>0
<1>2. PICK u \in U : \A m \in U : u <= m
  BY <1>1, Least
<1>3. PICK t \in T : u = b - t
  BY <1>2
<1>4. ASSUME NEW m \in T PROVE t >= m
  <2>1. u <= b - m
    BY <1>2
  <2> QED BY <1>3, <2>1
<1>5. \E x \in T : \A y \in T : x >= y
  BY <1>4
<1>6. Max(T) \in T /\ \A m \in T : Max(T) >= m
  BY <1>5 DEF Max
<1>7. ASSUME NEW m \in T PROVE m <= Max(T)
  BY <1>6
<1> QED BY <1>6, <1>7

-----------------------------------------------------------------------------
(* Powers of two                                                           *)

\* f holds the powers up to n.
Powers(n, f) == f = [k \in 0 .. n |-> IF k = 0 THEN 1 ELSE 2 * f[k - 1]]

\* The recursive function TwoTo exists.
LEMMA PowersExist ==
  ASSUME NEW n \in Nat
  PROVE  \E f : Powers(n, f)
<1> DEFINE S == {m \in Nat : \E f : Powers(m, f)}
<1>1. 0 \in S
  <2>1. Powers(0, [k \in 0 .. 0 |-> 1])
    BY DEF Powers
  <2> QED BY <2>1
<1>2. ASSUME NEW m \in Nat, m \in S PROVE m + 1 \in S
  <2>1. PICK f : Powers(m, f)
    BY <1>2
  <2> DEFINE g == [k \in 0 .. (m + 1) |-> IF k <= m THEN f[k] ELSE 2 * f[m]]
  <2>2. ASSUME NEW k \in 0 .. (m + 1)
        PROVE  g[k] = IF k = 0 THEN 1 ELSE 2 * g[k - 1]
    <3>1. CASE k = 0
      BY <2>1, <3>1 DEF Powers
    <3>2. CASE k \in 1 .. m
      <4>1. f[k] = 2 * f[k - 1]
        BY <2>1, <3>2 DEF Powers
      <4>2. g[k] = f[k] /\ g[k - 1] = f[k - 1]
        BY <3>2
      <4> QED BY <3>2, <4>1, <4>2
    <3>3. CASE k = m + 1
      BY <3>3
    <3> QED BY <3>1, <3>2, <3>3
  <2>3. g = [k \in 0 .. (m + 1) |-> g[k]]
    OBVIOUS
  <2> HIDE DEF g
  <2>4. Powers(m + 1, g)
    BY <2>2, <2>3 DEF Powers
  <2> QED BY <2>4
<1> HIDE DEF S
<1>3. Nat \subseteq S
  BY <1>1, <1>2, SetInduction
<1> QED BY <1>3 DEF S

LEMMA TwoToStep ==
  /\ TwoTo[0] = 1
  /\ \A k \in 1 .. PAGE_SHIFT : TwoTo[k] = 2 * TwoTo[k - 1]
<1>1. PAGE_SHIFT \in Nat
  BY AllocAssumption
<1>2. TwoTo = CHOOSE f : Powers(PAGE_SHIFT, f)
  BY DEF TwoTo, Powers
<1>3. \E f : Powers(PAGE_SHIFT, f)
  BY <1>1, PowersExist
<1>4. Powers(PAGE_SHIFT, TwoTo)
  BY <1>2, <1>3
<1> QED BY <1>1, <1>4 DEF Powers

LEMMA TwoToNat ==
  ASSUME NEW k \in 0 .. PAGE_SHIFT
  PROVE  TwoTo[k] \in Nat /\ TwoTo[k] >= 1
<1> DEFINE S == {m \in Nat : m <= PAGE_SHIFT => TwoTo[m] \in Nat /\ TwoTo[m] >= 1}
<1>1. PAGE_SHIFT \in Nat
  BY AllocAssumption
<1>2. 0 \in S
  BY TwoToStep
<1>3. ASSUME NEW m \in Nat, m \in S PROVE m + 1 \in S
  <2>1. CASE m + 1 <= PAGE_SHIFT
    <3>1. TwoTo[m] \in Nat /\ TwoTo[m] >= 1
      BY <1>1, <1>3, <2>1
    <3>2. m + 1 \in 1 .. PAGE_SHIFT /\ (m + 1) - 1 = m
      BY <1>1, <2>1
    <3>3. TwoTo[m + 1] = 2 * TwoTo[m]
      BY <3>2, TwoToStep
    <3> QED BY <3>1, <3>3
  <2> QED BY <2>1
<1> HIDE DEF S
<1>4. k \in S
  BY <1>1, <1>2, <1>3, SetInduction
<1> QED BY <1>1, <1>4 DEF S

\* Objects of a class fill a page exactly.
LEMMA TwoToProduct ==
  ASSUME NEW k \in 0 .. PAGE_SHIFT
  PROVE  TwoTo[PAGE_SHIFT - k] * TwoTo[k] = PAGE_SIZE
<1> DEFINE S == {m \in Nat : m <= PAGE_SHIFT => TwoTo[PAGE_SHIFT - m] * TwoTo[m] = PAGE_SIZE}
<1>1. PAGE_SHIFT \in Nat
  BY AllocAssumption
<1>2. 0 \in S
  <2>1. TwoTo[PAGE_SHIFT] \in Nat /\ PAGE_SHIFT - 0 = PAGE_SHIFT
    BY <1>1, TwoToNat
  <2> QED BY <2>1, TwoToStep DEF PAGE_SIZE
<1>3. ASSUME NEW m \in Nat, m \in S PROVE m + 1 \in S
  <2>1. CASE m + 1 <= PAGE_SHIFT
    <3>1. TwoTo[PAGE_SHIFT - m] * TwoTo[m] = PAGE_SIZE
      BY <1>1, <1>3, <2>1
    <3>2. /\ m + 1 \in 1 .. PAGE_SHIFT /\ (m + 1) - 1 = m
          /\ PAGE_SHIFT - m \in 1 .. PAGE_SHIFT /\ (PAGE_SHIFT - m) - 1 = PAGE_SHIFT - (m + 1)
          /\ PAGE_SHIFT - (m + 1) \in 0 .. PAGE_SHIFT /\ m \in 0 .. PAGE_SHIFT
      BY <1>1, <2>1
    <3>3. TwoTo[m + 1] = 2 * TwoTo[m] /\ TwoTo[PAGE_SHIFT - m] = 2 * TwoTo[PAGE_SHIFT - (m + 1)]
      BY <3>2, TwoToStep
    <3>4. TwoTo[m] \in Nat /\ TwoTo[PAGE_SHIFT - (m + 1)] \in Nat
      BY <3>2, TwoToNat
    <3>5. \A a, b \in Nat : (2 * a) * b = a * (2 * b)
      OBVIOUS
    <3>6. TwoTo[PAGE_SHIFT - (m + 1)] * TwoTo[m + 1] = PAGE_SIZE
      BY <3>1, <3>3, <3>4, <3>5
    <3> QED BY <3>6
  <2> QED BY <2>1
<1> HIDE DEF S
<1>4. k \in S
  BY <1>1, <1>2, <1>3, SetInduction
<1> QED BY <1>1, <1>4 DEF S

-----------------------------------------------------------------------------
(* Division                                                                *)

\* q is a \div b.
LEMMA Quotient ==
  ASSUME NEW a \in Nat, NEW b \in Nat \ {0}
  PROVE  /\ a \div b \in Nat
         /\ (a \div b) * b <= a
         /\ a < (a \div b) * b + b
         /\ a = (a \div b) * b + (a % b)
OBVIOUS

\* Products with b keep the order of numbers.
LEMMA Products ==
  ASSUME NEW b \in Nat \ {0}, NEW m \in Nat, NEW n \in Nat
  PROVE  /\ m * b \in Nat
         /\ m <= n => m * b <= n * b
         /\ m < n => m * b + b <= n * b
OBVIOUS

-----------------------------------------------------------------------------
(* Sizes                                                                   *)

\* What a bit says of a size.
LEMMA BitFacts ==
  ASSUME NEW size \in Nat, NEW i \in 0 .. PAGE_SHIFT
  PROVE  /\ IsSet(size, i) => TwoTo[i] <= size
         /\ TwoTo[i] <= size /\ size < 2 * TwoTo[i] => IsSet(size, i)
<1> DEFINE b == TwoTo[i]
           q == size \div b
<1>1. b \in Nat \ {0}
  BY TwoToNat
<1> HIDE DEF b
<1>2. q \in Nat /\ q * b <= size /\ size < q * b + b
  BY <1>1, Quotient
<1> HIDE DEF q
<1>3. ASSUME q % 2 = 1 PROVE b <= size
  <2>1. q >= 1
    BY <1>2, <1>3
  <2>2. 1 * b <= q * b /\ q * b \in Nat
    BY <1>1, <1>2, <2>1, Products
  <2> QED BY <1>1, <1>2, <2>2
<1>4. ASSUME b <= size, size < 2 * b PROVE q % 2 = 1
  <2>1. q # 0
    <3>1. 0 * b = 0
      BY <1>1
    <3> QED BY <1>1, <1>2, <1>4, <3>1
  <2>2. ~ (q >= 2)
    <3>1. q >= 2 => 2 * b <= q * b /\ q * b \in Nat
      BY <1>1, <1>2, Products
    <3> QED BY <1>1, <1>2, <1>4, <3>1
  <2>3. q = 1
    BY <1>2, <2>1, <2>2
  <2> QED BY <2>3
<1> QED BY <1>3, <1>4 DEF IsSet, b, q

\* The class os_alloc chooses for a size is the smallest that holds it: no
\* object is shorter than what its caller asked for.
THEOREM SizesAreServed ==
  ASSUME NEW size \in 1 .. TwoTo[MAX_SHIFT]
  PROVE  /\ SizeClass(size) \in Classes
         /\ size <= TwoTo[SizeClass(size)]
         /\ SizeClass(size) = MIN_SHIFT \/ TwoTo[SizeClass(size) - 1] < size
<1> DEFINE B == {MIN_SHIFT} \cup {k \in MIN_SHIFT + 1 .. MAX_SHIFT : IsSet(size, k)}
           i == Max(B)
<1>1. /\ MIN_SHIFT \in Nat /\ MAX_SHIFT \in Nat /\ PAGE_SHIFT \in Nat
      /\ MIN_SHIFT <= MAX_SHIFT /\ MAX_SHIFT <= PAGE_SHIFT - 1
  BY AllocAssumption
<1>2. TwoTo[MAX_SHIFT] \in Nat /\ size \in Nat /\ size >= 1 /\ size <= TwoTo[MAX_SHIFT]
  <2>1. MAX_SHIFT \in 0 .. PAGE_SHIFT
    BY <1>1
  <2> QED BY <2>1, TwoToNat
<1>3. B \in SUBSET (0 .. MAX_SHIFT) /\ B # {}
  BY <1>1
<1>4. i \in B /\ \A k \in B : k <= i
  <2> HIDE DEF B
  <2> QED BY <1>1, <1>3, MaxFacts
<1>5. i \in Classes /\ i \in 0 .. PAGE_SHIFT /\ i \in MIN_SHIFT .. MAX_SHIFT
  BY <1>1, <1>4 DEF Classes
<1>6. SizeClass(size) = IF TwoTo[i] < size THEN i + 1 ELSE i
  BY DEF SizeClass
<1>7. i = MIN_SHIFT \/ IsSet(size, i)
  BY <1>4
<1>8. \A k \in MIN_SHIFT + 1 .. MAX_SHIFT : IsSet(size, k) => k <= i
  BY <1>4
<1> HIDE DEF i, B
<1>9. TwoTo[i] \in Nat
  BY <1>5, TwoToNat
<1>10. CASE TwoTo[i] < size
  <2>1. i < MAX_SHIFT
    <3>1. i # MAX_SHIFT
      BY <1>2, <1>9, <1>10
    <3> QED BY <1>1, <1>5, <3>1
  <2>2. /\ i + 1 \in Classes /\ i + 1 \in 0 .. PAGE_SHIFT /\ i + 1 \in 1 .. PAGE_SHIFT
        /\ (i + 1) - 1 = i
    BY <1>1, <1>5, <2>1 DEF Classes
  <2>3. TwoTo[i + 1] = 2 * TwoTo[i] /\ TwoTo[i + 1] \in Nat
    BY <2>2, TwoToStep, TwoToNat
  <2>4. size <= TwoTo[i + 1]
    <3> SUFFICES ASSUME TwoTo[i + 1] < size PROVE FALSE
      BY <1>2, <2>3
    <3> DEFINE T == {k \in 0 .. MAX_SHIFT : TwoTo[k] < size}
               k == Max(T)
    <3>1. i + 1 \in T /\ T \in SUBSET (0 .. MAX_SHIFT) /\ T # {}
      BY <1>1, <1>5, <2>1
    <3>2. k \in T /\ \A m \in T : m <= k
      <4> HIDE DEF T
      <4> QED BY <1>1, <3>1, MaxFacts
    <3>3. k \in 0 .. MAX_SHIFT /\ TwoTo[k] < size /\ i + 1 <= k
      BY <3>1, <3>2
    <3>4. \A m \in 0 .. MAX_SHIFT : TwoTo[m] < size => m <= k
      BY <3>2
    <3> HIDE DEF k, T
    <3>5. k < MAX_SHIFT
      <4>1. k # MAX_SHIFT
        BY <1>2, <3>3
      <4> QED BY <1>1, <3>3, <4>1
    <3>6. /\ k \in 0 .. PAGE_SHIFT /\ k + 1 \in 1 .. PAGE_SHIFT /\ (k + 1) - 1 = k
          /\ k + 1 \in 0 .. MAX_SHIFT /\ k + 1 \in 0 .. PAGE_SHIFT
          /\ k \in MIN_SHIFT + 1 .. MAX_SHIFT /\ k + 1 \in MIN_SHIFT + 1 .. MAX_SHIFT
          /\ ~ (k + 1 <= k) /\ ~ (k + 1 <= i) /\ ~ (k <= i)
      BY <1>1, <1>5, <3>3, <3>5
    <3>7. TwoTo[k + 1] = 2 * TwoTo[k] /\ TwoTo[k] \in Nat
      BY <3>6, TwoToStep, TwoToNat
    <3>8. ~ (TwoTo[k + 1] < size)
      BY <3>4, <3>6
    <3>9. ~ IsSet(size, k) /\ ~ IsSet(size, k + 1)
      BY <1>8, <3>6
    <3>10. ~ (TwoTo[k] <= size /\ size < 2 * TwoTo[k])
      BY <1>2, <3>6, <3>9, BitFacts
    <3>11. size = TwoTo[k + 1]
      BY <1>2, <3>3, <3>7, <3>8, <3>10
    <3>12. TwoTo[k + 1] <= size /\ size < 2 * TwoTo[k + 1]
      BY <1>2, <3>7, <3>11
    <3> QED BY <1>2, <3>6, <3>9, <3>12, BitFacts
  <2> QED BY <1>6, <1>10, <2>2, <2>4
<1>11. CASE ~ (TwoTo[i] < size)
  <2>1. SizeClass(size) = i /\ size <= TwoTo[i]
    BY <1>2, <1>6, <1>9, <1>11
  <2>2. ASSUME i # MIN_SHIFT PROVE TwoTo[i - 1] < size
    <3>1. TwoTo[i] <= size
      BY <1>2, <1>5, <1>7, <2>2, BitFacts
    <3>2. i \in 1 .. PAGE_SHIFT /\ i - 1 \in 0 .. PAGE_SHIFT
      BY <1>1, <1>5, <2>2
    <3>3. TwoTo[i] = 2 * TwoTo[i - 1] /\ TwoTo[i - 1] \in Nat /\ TwoTo[i - 1] >= 1
      BY <3>2, TwoToStep, TwoToNat
    <3> QED BY <1>2, <1>9, <3>1, <3>3
  <2> QED BY <1>5, <2>1, <2>2
<1> QED BY <1>10, <1>11

-----------------------------------------------------------------------------
(* The search for a free page                                              *)

Words == PAGES \div WORD

\* The bitmap, the count and the position of the last search agree.
PageOK(l) ==
  /\ l \in [taken : SUBSET (0 .. PAGES - 1), free_pages : Int, last_free_pos : Nat]
  /\ l.last_free_pos <= Words
  /\ l.free_pages = Cardinality(FreePages(l, PAGES))

LEMMA RegionFacts ==
  /\ WORD \in Nat \ {0} /\ PAGES \in Nat /\ Words \in Nat /\ Words * WORD = PAGES
<1>1. WORD \in Nat \ {0} /\ PAGES \in Nat /\ PAGES % WORD = 0
  BY AllocAssumption
<1>2. Words \in Nat /\ PAGES = Words * WORD + (PAGES % WORD) /\ Words * WORD \in Nat
  BY <1>1, Quotient, Products DEF Words
<1> QED BY <1>1, <1>2

\* The pages of a word.
LEMMA WordPages ==
  ASSUME NEW w \in Nat, w < Words, NEW bit \in 0 .. WORD - 1
  PROVE  /\ w * WORD + bit \in 0 .. PAGES - 1
         /\ w * WORD \in Nat /\ w * WORD <= w * WORD + bit /\ w * WORD + bit < w * WORD + WORD
<1>1. w * WORD \in Nat /\ w * WORD + WORD <= Words * WORD
  BY RegionFacts, Products
<1> QED BY <1>1, RegionFacts

\* The word of a page.
LEMMA PageWord ==
  ASSUME NEW v \in 0 .. PAGES - 1
  PROVE  /\ v \div WORD \in Nat /\ v \div WORD < Words
         /\ \E bit \in 0 .. WORD - 1 : v = (v \div WORD) * WORD + bit
         /\ \A w \in Nat : w * WORD <= v => w <= v \div WORD
         /\ (v \div WORD) * WORD <= v
<1> DEFINE q == v \div WORD
<1>1. WORD \in Nat \ {0} /\ PAGES \in Nat /\ Words \in Nat /\ Words * WORD = PAGES /\ v \in Nat
  BY RegionFacts
<1>2. q \in Nat /\ q * WORD <= v /\ v < q * WORD + WORD /\ q * WORD \in Nat
  BY <1>1, Quotient, Products
<1> HIDE DEF q
<1>3. q < Words
  <2>1. Words <= q => Words * WORD <= q * WORD
    BY <1>1, <1>2, Products
  <2> QED BY <1>1, <1>2, <2>1
<1>4. v - q * WORD \in 0 .. WORD - 1 /\ v = q * WORD + (v - q * WORD)
  BY <1>1, <1>2
<1>5. ASSUME NEW w \in Nat, w * WORD <= v PROVE w <= q
  <2>1. q < w => q * WORD + WORD <= w * WORD
    BY <1>1, <1>2, Products
  <2>2. w * WORD \in Nat
    BY <1>1, Products
  <2> QED BY <1>1, <1>2, <1>5, <2>1, <2>2
<1> QED BY <1>2, <1>3, <1>4, <1>5 DEF q

LEMMA ScanFacts ==
  ASSUME NEW l, NEW from \in Nat, NEW to \in Nat, from <= to
  PROVE  /\ ScanWords(l, from, to) \in from .. to
         /\ ScanWords(l, from, to) < to => ~ FullWord(l, ScanWords(l, from, to))
         /\ \A w \in from .. to - 1 : ~ FullWord(l, w) => ScanWords(l, from, to) <= w
<1> DEFINE T == {w \in from .. to - 1 : ~ FullWord(l, w)} \cup {to}
<1>1. T \in SUBSET Nat /\ T # {}
  OBVIOUS
<1>2. Min(T) \in T /\ \A m \in T : Min(T) <= m
  <2> HIDE DEF T
  <2> QED BY <1>1, MinFacts
<1>3. ScanWords(l, from, to) = Min(T)
  BY DEF ScanWords
<1> QED BY <1>2, <1>3

\* A word with a clear bit yields its first free page.
LEMMA FirstFree ==
  ASSUME NEW l, NEW pos \in Nat, pos < Words, ~ FullWord(l, pos),
         NEW page, page = Min({pos * WORD + bit : bit \in 0 .. WORD - 1} \ l.taken)
  PROVE  /\ page \in FreePages(l, PAGES)
         /\ pos * WORD <= page /\ page < pos * WORD + WORD
         /\ \A bit \in 0 .. WORD - 1 : pos * WORD + bit \notin l.taken => page <= pos * WORD + bit
<1> DEFINE T == {pos * WORD + bit : bit \in 0 .. WORD - 1} \ l.taken
<1>1. \A bit \in 0 .. WORD - 1 :
        /\ pos * WORD + bit \in 0 .. PAGES - 1
        /\ pos * WORD <= pos * WORD + bit /\ pos * WORD + bit < pos * WORD + WORD
  BY WordPages
<1>2. PICK bit \in 0 .. WORD - 1 : pos * WORD + bit \notin l.taken
  BY DEF FullWord
<1>3. T \in SUBSET Nat /\ T # {}
  BY <1>1, <1>2
<1>4. page = Min(T)
  OBVIOUS
<1>5. Min(T) \in T /\ \A m \in T : Min(T) <= m
  <2> HIDE DEF T
  <2> QED BY <1>3, MinFacts
<1>6. page \in T /\ \A m \in T : page <= m
  BY <1>4, <1>5
<1> QED BY <1>1, <1>6 DEF FreePages

\* get_free_page finds a page if there is one, whichever word the last search
\* stopped at: none that is free behind that word lies before it.
LEMMA GetFacts ==
  ASSUME NEW l, PageOK(l), FreePages(l, PAGES) # {},
         NEW got, got = GetFreePage(l, PAGES)
  PROVE  /\ got.found
         /\ got.page \in FreePages(l, PAGES)
         /\ PageOK(got.list)
         /\ got.list.taken = l.taken \cup {got.page}
         /\ got.list.last_free_pos * WORD <= got.page
         /\ \A v \in FreePages(l, PAGES) : l.last_free_pos * WORD <= v => got.page <= v
<1> DEFINE last == l.last_free_pos
           up == ScanWords(l, last, Words)
           again == ScanWords(l, 0, last)
           pos == IF up < Words THEN up ELSE again
           page == Min({pos * WORD + bit : bit \in 0 .. WORD - 1} \ l.taken)
           list == [taken |-> l.taken \cup {page}, free_pages |-> l.free_pages - 1,
                    last_free_pos |-> pos]
<1>1. last \in Nat /\ last <= Words /\ Words \in Nat
  BY RegionFacts DEF PageOK
<1>2. /\ up \in last .. Words /\ (up < Words => ~ FullWord(l, up))
      /\ \A w \in last .. Words - 1 : ~ FullWord(l, w) => up <= w
  BY <1>1, ScanFacts
<1>3. /\ again \in 0 .. last /\ (again < last => ~ FullWord(l, again))
      /\ \A w \in 0 .. last - 1 : ~ FullWord(l, w) => again <= w
  BY <1>1, ScanFacts
<1>4. \A v \in FreePages(l, PAGES) : ~ FullWord(l, v \div WORD) /\ v \in 0 .. PAGES - 1
  <2> TAKE v \in FreePages(l, PAGES)
  <2>1. v \in 0 .. PAGES - 1 /\ v \notin l.taken
    BY DEF FreePages
  <2>2. \E bit \in 0 .. WORD - 1 : v = (v \div WORD) * WORD + bit
    BY <2>1, PageWord
  <2> QED BY <2>1, <2>2 DEF FullWord
<1>5. got = IF up >= Words /\ pos >= last
            THEN [found |-> FALSE, page |-> -1, list |-> l]
            ELSE [found |-> TRUE, page |-> page, list |-> list]
  BY DEF GetFreePage, Words
<1> HIDE DEF up, again, list
<1>6. ~ (up >= Words /\ pos >= last) /\ pos < Words /\ ~ FullWord(l, pos) /\ pos \in Nat
  <2>1. PICK v \in FreePages(l, PAGES) : TRUE
    OBVIOUS
  <2>2. v \div WORD \in Nat /\ v \div WORD < Words /\ ~ FullWord(l, v \div WORD)
    BY <1>4, PageWord
  <2>3. CASE up < Words
    BY <1>1, <1>2, <2>3
  <2>4. CASE ~ (up < Words)
    <3>1. v \div WORD < last /\ again <= v \div WORD
      BY <1>1, <1>2, <1>3, <2>2, <2>4
    <3> QED BY <1>1, <1>2, <1>3, <2>2, <2>4, <3>1
  <2> QED BY <2>3, <2>4
<1>7. got = [found |-> TRUE, page |-> page, list |-> list]
  BY <1>5, <1>6
<1> HIDE DEF pos
<1>8. /\ page \in FreePages(l, PAGES)
      /\ pos * WORD <= page /\ page < pos * WORD + WORD
      /\ \A bit \in 0 .. WORD - 1 : pos * WORD + bit \notin l.taken => page <= pos * WORD + bit
  BY <1>6, FirstFree
<1> HIDE DEF page
<1>9. /\ list.taken = l.taken \cup {page} /\ list.free_pages = l.free_pages - 1
      /\ list.last_free_pos = pos
      /\ list = [taken |-> list.taken, free_pages |-> list.free_pages,
                 last_free_pos |-> list.last_free_pos]
  BY DEF list
<1>10. PageOK(list)
  <2>1. page \in 0 .. PAGES - 1 /\ page \notin l.taken
    BY <1>8 DEF FreePages
  <2>2. FreePages(list, PAGES) = FreePages(l, PAGES) \ {page}
    BY <1>9 DEF FreePages
  <2>3. IsFiniteSet(FreePages(l, PAGES))
    <3>1. IsFiniteSet(0 .. PAGES - 1) /\ FreePages(l, PAGES) \subseteq 0 .. PAGES - 1
      BY RegionFacts, FS_Interval DEF FreePages
    <3> QED BY <3>1, FS_Subset
  <2>4. Cardinality(FreePages(list, PAGES)) = Cardinality(FreePages(l, PAGES)) - 1
    BY <1>8, <2>2, <2>3, FS_RemoveElement
  <2>5. list.free_pages \in Int /\ l.taken \subseteq 0 .. PAGES - 1
    BY <1>9 DEF PageOK
  <2>6. list \in [taken : SUBSET (0 .. PAGES - 1), free_pages : Int, last_free_pos : Nat]
    BY <1>6, <1>9, <2>1, <2>5
  <2> QED BY <1>1, <1>6, <1>9, <2>4, <2>6 DEF PageOK
<1>11. ASSUME NEW v \in FreePages(l, PAGES), last * WORD <= v PROVE page <= v
  <2>1. v \in 0 .. PAGES - 1 /\ v \notin l.taken /\ ~ FullWord(l, v \div WORD)
    BY <1>4 DEF FreePages
  <2>2. /\ v \div WORD \in Nat /\ v \div WORD < Words /\ last <= v \div WORD
        /\ (v \div WORD) * WORD <= v
    BY <1>1, <1>11, <2>1, PageWord
  <2>3. PICK bit \in 0 .. WORD - 1 : v = (v \div WORD) * WORD + bit
    BY <2>1, PageWord
  <2>4. up <= v \div WORD /\ pos = up
    BY <1>1, <1>2, <2>1, <2>2 DEF pos
  <2>5. CASE v \div WORD = pos
    BY <1>8, <2>1, <2>3, <2>5
  <2>6. CASE v \div WORD # pos
    <3>1. pos < v \div WORD
      BY <1>6, <2>2, <2>4, <2>6
    <3>2. pos * WORD + WORD <= (v \div WORD) * WORD /\ pos * WORD \in Nat /\ (v \div WORD) * WORD \in Nat
      BY <1>6, <2>2, <3>1, RegionFacts, Products
    <3>3. page \in Int /\ v \in Int /\ WORD \in Int
      BY <1>8, <2>1, RegionFacts DEF FreePages
    <3> QED BY <1>8, <2>2, <3>2, <3>3
  <2> QED BY <2>5, <2>6
<1> QED BY <1>7, <1>8, <1>9, <1>10, <1>11

\* os_page_free of a page that is taken and not the first of its region.
LEMMA PageFreeFacts ==
  ASSUME NEW l, PageOK(l), NEW page \in l.taken, page # 0,
         NEW m, m = OsPageFree(l, page, PAGES)
  PROVE  PageOK(m) /\ m.taken = l.taken \ {page}
<1>1. /\ l.taken \subseteq 0 .. PAGES - 1 /\ l.free_pages \in Int /\ l.last_free_pos \in Nat
      /\ l = [taken |-> l.taken, free_pages |-> l.free_pages, last_free_pos |-> l.last_free_pos]
  BY DEF PageOK
<1>2. page \in 0 .. PAGES - 1 /\ InRegion(page, PAGES)
  BY <1>1, RegionFacts DEF InRegion
<1>3. m = [l EXCEPT !.taken = @ \ {page}, !.free_pages = @ + 1]
  BY <1>2 DEF OsPageFree
<1>4. /\ m.taken = l.taken \ {page} /\ m.free_pages = l.free_pages + 1
      /\ m.last_free_pos = l.last_free_pos
      /\ m \in [taken : SUBSET (0 .. PAGES - 1), free_pages : Int, last_free_pos : Nat]
  <2>1. m = [taken |-> l.taken \ {page}, free_pages |-> l.free_pages + 1,
             last_free_pos |-> l.last_free_pos]
    BY <1>1, <1>3, Zenon
  <2>2. l.taken \ {page} \in SUBSET (0 .. PAGES - 1) /\ l.free_pages + 1 \in Int
    BY <1>1
  <2> QED BY <1>1, <2>1, <2>2
<1>5. FreePages(m, PAGES) = FreePages(l, PAGES) \cup {page} /\ page \notin FreePages(l, PAGES)
  BY <1>2, <1>4 DEF FreePages
<1>6. IsFiniteSet(FreePages(l, PAGES))
  <2>1. 0 \in Int /\ PAGES - 1 \in Int
    BY RegionFacts
  <2>2. IsFiniteSet(0 .. PAGES - 1)
    BY <2>1, FS_Interval
  <2>3. FreePages(l, PAGES) \subseteq 0 .. PAGES - 1
    BY DEF FreePages
  <2> QED BY <2>2, <2>3, FS_Subset
<1>7. Cardinality(FreePages(m, PAGES)) = Cardinality(FreePages(l, PAGES)) + 1
  BY <1>5, <1>6, FS_AddElement
<1> QED BY <1>4, <1>7 DEF PageOK

-----------------------------------------------------------------------------
(* Boot                                                                    *)

\* f holds the lists after up to n pages of boot.
Booted(n, f) ==
  f = [k \in 0 .. n |-> IF k = 0 THEN InitPageList(PAGES, RESERVED)
                        ELSE GetFreePage(f[k - 1], PAGES).list]

LEMMA BootExists ==
  ASSUME NEW n \in Nat
  PROVE  \E f : Booted(n, f)
<1> DEFINE S == {m \in Nat : \E f : Booted(m, f)}
<1>1. 0 \in S
  <2>1. Booted(0, [k \in 0 .. 0 |-> InitPageList(PAGES, RESERVED)])
    BY DEF Booted
  <2> QED BY <2>1
<1>2. ASSUME NEW m \in Nat, m \in S PROVE m + 1 \in S
  <2>1. PICK f : Booted(m, f)
    BY <1>2
  <2> DEFINE g == [k \in 0 .. (m + 1) |-> IF k <= m THEN f[k] ELSE GetFreePage(f[m], PAGES).list]
  <2>2. ASSUME NEW k \in 0 .. (m + 1)
        PROVE  g[k] = IF k = 0 THEN InitPageList(PAGES, RESERVED)
                      ELSE GetFreePage(g[k - 1], PAGES).list
    <3>1. CASE k = 0
      BY <2>1, <3>1 DEF Booted
    <3>2. CASE k \in 1 .. m
      <4>1. f[k] = GetFreePage(f[k - 1], PAGES).list
        BY <2>1, <3>2 DEF Booted
      <4>2. g[k] = f[k] /\ g[k - 1] = f[k - 1]
        BY <3>2
      <4> QED BY <3>2, <4>1, <4>2
    <3>3. CASE k = m + 1
      BY <3>3
    <3> QED BY <3>1, <3>2, <3>3
  <2>3. g = [k \in 0 .. (m + 1) |-> g[k]]
    OBVIOUS
  <2> HIDE DEF g
  <2>4. Booted(m + 1, g)
    BY <2>2, <2>3 DEF Booted
  <2> QED BY <2>4
<1> HIDE DEF S
<1>3. Nat \subseteq S
  BY <1>1, <1>2, SetInduction
<1> QED BY <1>3 DEF S

\* There is room for what boot takes.
LEMMA BootRoom ==
  /\ RESERVED \in Nat \ {0} /\ BootPages \in Nat /\ RESERVED + BootPages <= PAGES
  /\ MIN_SHIFT \in Nat /\ MAX_SHIFT \in Nat /\ PAGE_SHIFT \in Nat
  /\ \A i \in Classes : /\ i \in Nat /\ i <= PAGE_SHIFT /\ i >= MIN_SHIFT
                        /\ 1 + (i - MIN_SHIFT) < BootPages
<1>1. /\ MIN_SHIFT \in Nat /\ MAX_SHIFT \in Nat /\ PAGE_SHIFT \in Nat
      /\ MIN_SHIFT <= MAX_SHIFT /\ MAX_SHIFT < PAGE_SHIFT /\ NODE_MEM_PAGES \in Nat
  BY AllocAssumption
<1>2. Cardinality(Classes) = MAX_SHIFT - MIN_SHIFT + 1
  BY <1>1, FS_Interval DEF Classes
<1>3. BootPages = 1 + (MAX_SHIFT - MIN_SHIFT + 1) + NODE_MEM_PAGES
  BY <1>2 DEF BootPages
<1>4. \A i \in Classes : i \in Nat /\ MIN_SHIFT <= i /\ i <= MAX_SHIFT
  BY <1>1 DEF Classes
<1> QED BY <1>1, <1>3, <1>4, AllocAssumption

\* After n pages of boot.
First(l, n) ==
  /\ PageOK(l) /\ l.taken = 0 .. RESERVED + n - 1
  /\ l.last_free_pos * WORD <= RESERVED + n

LEMMA InitFirst == First(InitPageList(PAGES, RESERVED), 0)
<1> DEFINE l == InitPageList(PAGES, RESERVED)
           q == RESERVED \div WORD
<1>1. RESERVED \in Nat /\ RESERVED <= PAGES /\ PAGES \in Nat /\ WORD \in Nat \ {0}
  BY BootRoom, RegionFacts
<1>2. q \in Nat /\ q * WORD <= RESERVED
  BY <1>1, Quotient
<1>3. q <= Words
  <2>1. Words < q => Words * WORD + WORD <= q * WORD
    BY <1>1, <1>2, RegionFacts, Products
  <2>2. q * WORD \in Nat
    BY <1>1, <1>2, Products
  <2> QED BY <1>1, <1>2, <2>1, <2>2, RegionFacts
<1>4. /\ l.taken = 0 .. RESERVED - 1 /\ l.free_pages = PAGES - RESERVED /\ l.last_free_pos = q
      /\ l = [taken |-> l.taken, free_pages |-> l.free_pages, last_free_pos |-> l.last_free_pos]
  BY DEF InitPageList
<1> HIDE DEF l, q
<1>5. FreePages(l, PAGES) = RESERVED .. PAGES - 1
  BY <1>1, <1>4 DEF FreePages
<1>6. Cardinality(FreePages(l, PAGES)) = PAGES - RESERVED
  <2>1. Cardinality(RESERVED .. PAGES - 1) = (PAGES - 1) - RESERVED + 1 \/ PAGES - 1 < RESERVED
    BY <1>1, FS_Interval
  <2>2. PAGES - 1 < RESERVED => RESERVED .. PAGES - 1 = {} /\ PAGES - RESERVED = 0
    BY <1>1
  <2> QED BY <1>1, <1>5, <2>1, <2>2, FS_EmptySet
<1>7. l.taken \in SUBSET (0 .. PAGES - 1) /\ l.free_pages \in Int
  BY <1>1, <1>4
<1>8. PageOK(l)
  BY <1>2, <1>3, <1>4, <1>6, <1>7 DEF PageOK
<1> QED BY <1>1, <1>2, <1>4, <1>8 DEF First, l

\* Boot takes the first pages, one after the other.
LEMMA NextFirst ==
  ASSUME NEW n \in Nat, RESERVED + n < PAGES, NEW l, First(l, n)
  PROVE  First(GetFreePage(l, PAGES).list, n + 1)
<1>1. RESERVED \in Nat /\ PAGES \in Nat /\ WORD \in Nat
  BY BootRoom, RegionFacts
<1>2. PageOK(l) /\ l.taken = 0 .. RESERVED + n - 1 /\ l.last_free_pos * WORD <= RESERVED + n
  BY DEF First
<1>3. FreePages(l, PAGES) = RESERVED + n .. PAGES - 1
  BY <1>1, <1>2 DEF FreePages
<1>4. FreePages(l, PAGES) # {} /\ RESERVED + n \in FreePages(l, PAGES)
  <2>1. RESERVED + n \in RESERVED + n .. PAGES - 1
    BY <1>1
  <2> QED BY <1>3, <2>1
<1> DEFINE got == GetFreePage(l, PAGES)
<1>5. /\ got.page \in FreePages(l, PAGES) /\ PageOK(got.list)
      /\ got.list.taken = l.taken \cup {got.page}
      /\ got.list.last_free_pos * WORD <= got.page
      /\ \A v \in FreePages(l, PAGES) : l.last_free_pos * WORD <= v => got.page <= v
  BY <1>2, <1>4, GetFacts
<1> HIDE DEF got
<1>6. got.page = RESERVED + n
  BY <1>1, <1>2, <1>3, <1>4, <1>5
<1>7. got.list.taken = 0 .. RESERVED + (n + 1) - 1
  BY <1>1, <1>2, <1>5, <1>6
<1>8. got.list.last_free_pos * WORD <= RESERVED + (n + 1)
  <2>1. got.list.last_free_pos * WORD \in Nat
    BY <1>5, RegionFacts, Products DEF PageOK
  <2> QED BY <1>1, <1>5, <1>6, <2>1
<1> QED BY <1>5, <1>7, <1>8 DEF First, got

LEMMA BootFacts == First(BootList, BootPages)
<1>1. BootPages \in Nat /\ RESERVED \in Nat /\ RESERVED + BootPages <= PAGES /\ PAGES \in Nat
  BY BootRoom, RegionFacts
<1>2. Boot = CHOOSE f : Booted(BootPages, f)
  BY DEF Boot, Booted
<1>3. Booted(BootPages, Boot)
  BY <1>1, <1>2, BootExists
<1>4. /\ Boot[0] = InitPageList(PAGES, RESERVED)
      /\ \A k \in 1 .. BootPages : Boot[k] = GetFreePage(Boot[k - 1], PAGES).list
  BY <1>1, <1>3 DEF Booted
<1> DEFINE S == {m \in Nat : m <= BootPages => First(Boot[m], m)}
<1>5. 0 \in S
  BY <1>4, InitFirst
<1>6. ASSUME NEW m \in Nat, m \in S PROVE m + 1 \in S
  <2>1. CASE m + 1 <= BootPages
    <3>1. First(Boot[m], m) /\ RESERVED + m < PAGES /\ m + 1 \in 1 .. BootPages /\ (m + 1) - 1 = m
      BY <1>1, <1>6, <2>1
    <3>2. Boot[m + 1] = GetFreePage(Boot[m], PAGES).list
      BY <1>4, <3>1
    <3>3. First(GetFreePage(Boot[m], PAGES).list, m + 1)
      BY <3>1, NextFirst
    <3> QED BY <3>2, <3>3
  <2> QED BY <2>1
<1> HIDE DEF S
<1>7. BootPages \in S
  BY <1>1, <1>5, <1>6, SetInduction
<1> QED BY <1>1, <1>7 DEF S, BootList

-----------------------------------------------------------------------------
(* Lists of free objects                                                   *)

LEMMA TailFacts ==
  ASSUME NEW S, NEW s \in Seq(S), s # <<>>, IsInjective(s)
  PROVE  /\ Head(s) \in Range(s) /\ Tail(s) \in Seq(S) /\ IsInjective(Tail(s))
         /\ Range(s) = Range(Tail(s)) \cup {Head(s)} /\ Head(s) \notin Range(Tail(s))
<1> DEFINE t == Tail(s)
           n == Len(s)
<1>1. s \in [1 .. n -> S] /\ n \in Nat /\ n # 0
  BY LenProperties, EmptySeq
<1>2. t \in Seq(S) /\ Len(t) = n - 1 /\ \A i \in 1 .. Len(t) : t[i] = s[i + 1]
  BY HeadTailProperties
<1>3. t \in [1 .. n - 1 -> S]
  BY <1>1, <1>2, LenProperties
<1>4. Head(s) = s[1]
  BY <1>1
<1> HIDE DEF t, n
<1>5. \A i \in 1 .. n - 1 : t[i] = s[i + 1] /\ i + 1 \in 1 .. n /\ i + 1 # 1
  BY <1>1, <1>2
<1>6. DOMAIN s = 1 .. n /\ DOMAIN t = 1 .. n - 1 /\ 1 \in 1 .. n
  BY <1>1, <1>3
<1>7. \A i, j \in 1 .. n : s[i] = s[j] => i = j
  BY <1>6 DEF IsInjective
<1>8. IsInjective(t)
  <2>1. ASSUME NEW i \in 1 .. n - 1, NEW j \in 1 .. n - 1, t[i] = t[j] PROVE i = j
    <3>1. i + 1 = j + 1
      BY <1>5, <1>7, <2>1
    <3> QED BY <3>1
  <2> QED BY <1>6, <2>1 DEF IsInjective
<1>9. Head(s) \notin {t[i] : i \in 1 .. n - 1}
  BY <1>4, <1>5, <1>6, <1>7
<1>10. {s[i] : i \in 1 .. n} = {t[i] : i \in 1 .. n - 1} \cup {s[1]}
  <2>1. \A i \in 1 .. n : i # 1 => i - 1 \in 1 .. n - 1 /\ (i - 1) + 1 = i
    BY <1>1
  <2>2. \A i \in 1 .. n : i # 1 => s[i] = t[i - 1] /\ i - 1 \in 1 .. n - 1
    BY <1>5, <2>1
  <2> QED BY <1>5, <1>6, <2>2
<1>11. Range(s) = {s[i] : i \in 1 .. n} /\ Range(t) = {t[i] : i \in 1 .. n - 1}
  BY <1>6 DEF Range
<1>12. s[1] \in Range(s)
  BY <1>6, <1>11
<1>13. Range(s) = Range(t) \cup {Head(s)} /\ Head(s) \notin Range(t)
  BY <1>4, <1>9, <1>10, <1>11
<1> QED BY <1>2, <1>4, <1>8, <1>12, <1>13 DEF t

LEMMA AppendFacts ==
  ASSUME NEW S, NEW s \in Seq(S), NEW o \in S, IsInjective(s), o \notin Range(s)
  PROVE  /\ Append(s, o) \in Seq(S) /\ IsInjective(Append(s, o))
         /\ Range(Append(s, o)) = Range(s) \cup {o}
<1> DEFINE t == Append(s, o)
           n == Len(s)
<1>1. s \in [1 .. n -> S] /\ n \in Nat
  BY LenProperties
<1>2. t \in Seq(S) /\ Len(t) = n + 1 /\ (\A i \in 1 .. n : t[i] = s[i]) /\ t[n + 1] = o
  BY AppendProperties
<1>3. t \in [1 .. n + 1 -> S]
  BY <1>2, LenProperties
<1> HIDE DEF t, n
<1>4. DOMAIN s = 1 .. n /\ DOMAIN t = 1 .. n + 1
  BY <1>1, <1>3
<1>5. \A i \in 1 .. n + 1 : i \in 1 .. n \/ i = n + 1
  BY <1>1
<1>6. \A i \in 1 .. n : i \in 1 .. n + 1 /\ n + 1 \in 1 .. n + 1 /\ s[i] # o
  BY <1>1, <1>4 DEF Range
<1>7. \A i, j \in 1 .. n : s[i] = s[j] => i = j
  BY <1>4 DEF IsInjective
<1>8. \A i, j \in 1 .. n + 1 : t[i] = t[j] => i = j
  BY <1>2, <1>5, <1>6, <1>7
<1>9. {t[i] : i \in 1 .. n + 1} = {s[i] : i \in 1 .. n} \cup {o}
  <2>1. n + 1 \in 1 .. n + 1
    BY <1>1
  <2> QED BY <1>2, <1>5, <1>6, <2>1
<1>10. IsInjective(t)
  BY <1>4, <1>8 DEF IsInjective
<1>11. Range(t) = Range(s) \cup {o}
  BY <1>4, <1>9 DEF Range
<1> QED BY <1>2, <1>10, <1>11 DEF t

-----------------------------------------------------------------------------
(* The invariant                                                           *)

\* How many objects of the class i a page holds.
Room(i) == TwoTo[PAGE_SHIFT - i]

Objs == [shift : Classes, page : Nat, position : Nat]

Chunk == [free_position : Nat, current_pfn : Nat, freelist : Seq(Objs), ends : BOOLEAN]

\* The objects that were ever cut: those in L, which callers hold, and those on
\* the lists of the chunks c.
Cuts(c, L) == L \cup UNION {Range(c[i].freelist) : i \in Classes}

\* A page that is taken belongs to the bitmap, the allocator or a caller.
PagesHeld(l, K, P) ==
  /\ PageOK(l)
  /\ l.taken = (0 .. RESERVED - 1) \cup K \cup P
  /\ K \cap P = {} /\ (K \cup P) \cap (0 .. RESERVED - 1) = {}

\* Each class cuts from a page of its own, up to one object behind its end.
ChunksOK(c, K) ==
  /\ c \in [Classes -> Chunk]
  /\ \A i \in Classes : c[i].free_position <= Room(i) + 1 /\ c[i].current_pfn \in K
  /\ \A i, j \in Classes : c[i].current_pfn = c[j].current_pfn => i = j

\* Objects lie in pages of the allocator, those in one page are of one class,
\* and in the page a class cuts from there is none where it has not cut yet.
Placed(c, K, O) ==
  /\ O \subseteq Objs
  /\ \A o \in O : o.page \in K /\ o.position <= Room(o.shift)
  /\ \A o \in O, i \in Classes : o.page = c[i].current_pfn =>
       o.shift = i /\ o.position < c[i].free_position
  /\ \A o, p \in O : o.page = p.page => o.shift = p.shift

\* An object is in use or once on the list of its class.
Listed(c, L) ==
  \A i \in Classes :
    /\ IsInjective(c[i].freelist) /\ Range(c[i].freelist) \cap L = {}
    /\ \A o \in Range(c[i].freelist) : o.shift = i

\* The inductive invariant.
Inv ==
  /\ PagesHeld(pgl, kernel, pages)
  /\ ChunksOK(ck, kernel)
  /\ Placed(ck, kernel, Cuts(ck, live))
  /\ Listed(ck, live)
  /\ stopped \in {"no", "page 0"}

LEMMA RoomFacts ==
  ASSUME NEW i \in Classes
  PROVE  i \in 0 .. PAGE_SHIFT /\ PAGE_SHIFT - i \in 0 .. PAGE_SHIFT /\ Room(i) \in Nat
<1>1. i \in 0 .. PAGE_SHIFT /\ PAGE_SHIFT - i \in 0 .. PAGE_SHIFT
  BY BootRoom
<1> QED BY <1>1, TwoToNat DEF Room

\* A page is found while the count says that there is one, and nobody has it.
LEMMA TakePage ==
  ASSUME NEW K, NEW P, PagesHeld(pgl, K, P), pgl.free_pages > 0
  PROVE  /\ Got.found /\ Got.page \in Nat /\ Got.page \notin K \cup P
         /\ PagesHeld(Got.list, K, P \cup {Got.page})
         /\ PagesHeld(Got.list, K \cup {Got.page}, P)
<1>1. FreePages(pgl, PAGES) # {}
  <2>1. pgl.free_pages = Cardinality(FreePages(pgl, PAGES))
    BY DEF PagesHeld, PageOK
  <2> QED BY <2>1, FS_EmptySet
<1>2. PageOK(pgl)
  BY DEF PagesHeld
<1>3. /\ Got.found /\ Got.page \in FreePages(pgl, PAGES) /\ PageOK(Got.list)
      /\ Got.list.taken = pgl.taken \cup {Got.page}
  BY <1>1, <1>2, GetFacts DEF Got
<1>4. Got.page \in Nat /\ Got.page \notin pgl.taken
  BY <1>3 DEF FreePages
<1> QED BY <1>3, <1>4 DEF PagesHeld

-----------------------------------------------------------------------------
(* Steps                                                                   *)

LEMMA InitKeeps == AllocInit => Inv
<1> SUFFICES ASSUME AllocInit PROVE Inv
  OBVIOUS
<1>1. /\ RESERVED \in Nat \ {0} /\ BootPages \in Nat
      /\ \A i \in Classes : /\ i \in Nat /\ i <= PAGE_SHIFT /\ i >= MIN_SHIFT
                            /\ 1 + (i - MIN_SHIFT) < BootPages
      /\ MIN_SHIFT \in Nat
  BY BootRoom
<1>2. PageOK(BootList) /\ BootList.taken = 0 .. RESERVED + BootPages - 1
  BY BootFacts DEF First
<1>3. kernel = RESERVED .. RESERVED + BootPages - 1 /\ pages = {} /\ pgl = BootList
  BY <1>1, <1>2 DEF AllocInit
<1>4. PagesHeld(pgl, kernel, pages)
  BY <1>1, <1>2, <1>3 DEF PagesHeld
<1>5. /\ ck \in [Classes -> Chunk]
      /\ \A i \in Classes : ck[i].free_position = 0 /\ ck[i].freelist = <<>>
                            /\ ck[i].current_pfn = RESERVED + 1 + (i - MIN_SHIFT)
  <2> DEFINE c(i) == [free_position |-> 0, current_pfn |-> RESERVED + 1 + (i - MIN_SHIFT),
                      freelist |-> <<>>, ends |-> FALSE]
  <2>1. ck = [i \in Classes |-> c(i)]
    BY DEF AllocInit
  <2>2. \A i \in Classes : RESERVED + 1 + (i - MIN_SHIFT) \in Nat
    BY <1>1
  <2>3. <<>> \in Seq(Objs)
    BY EmptySeq
  <2>4. \A i \in Classes : c(i) \in Chunk
    BY <2>2, <2>3 DEF Chunk
  <2> QED BY <2>1, <2>4
<1>6. ChunksOK(ck, kernel)
  <2>1. ASSUME NEW i \in Classes
        PROVE  ck[i].free_position <= Room(i) + 1 /\ ck[i].current_pfn \in kernel
    BY <1>1, <1>3, <1>5, RoomFacts
  <2>2. ASSUME NEW i \in Classes, NEW j \in Classes, ck[i].current_pfn = ck[j].current_pfn
        PROVE  i = j
    BY <1>1, <1>5, <2>2
  <2> QED BY <1>5, <2>1, <2>2 DEF ChunksOK
<1>7. \A i \in Classes : Range(ck[i].freelist) = {} /\ IsInjective(ck[i].freelist)
  BY <1>5 DEF Range, IsInjective
<1>8. live = {} /\ stopped = "no"
  BY DEF AllocInit
<1>9. Cuts(ck, live) = {}
  BY <1>7, <1>8 DEF Cuts
<1>10. Placed(ck, kernel, Cuts(ck, live))
  BY <1>9 DEF Placed
<1>11. Listed(ck, live)
  BY <1>7, <1>8 DEF Listed
<1> QED BY <1>4, <1>6, <1>8, <1>10, <1>11 DEF Inv

LEMMA PageAllocKeeps == Inv /\ PageAlloc => Inv'
<1> SUFFICES ASSUME Inv, PageAlloc PROVE Inv'
  OBVIOUS
<1>1. PagesHeld(pgl, kernel, pages) /\ pgl.free_pages > 0
  BY DEF Inv, PageAlloc
<1>2. Got.found /\ PagesHeld(Got.list, kernel, pages \cup {Got.page})
  BY <1>1, TakePage
<1>3. /\ pgl' = Got.list /\ pages' = pages \cup {Got.page} /\ stopped' = "no"
      /\ ck' = ck /\ kernel' = kernel /\ live' = live
  BY <1>2 DEF PageAlloc, Stops
<1> QED BY <1>2, <1>3 DEF Inv

LEMMA PageFreeKeeps ==
  ASSUME Inv, NEW page \in pages, PageFree(page)
  PROVE  Inv'
<1>1. /\ PageOK(pgl) /\ pgl.taken = (0 .. RESERVED - 1) \cup kernel \cup pages
      /\ kernel \cap pages = {} /\ (kernel \cup pages) \cap (0 .. RESERVED - 1) = {}
  BY DEF Inv, PagesHeld
<1>2. page \in pgl.taken /\ page # 0 /\ page \notin 0 .. RESERVED - 1 /\ page \notin kernel
  BY <1>1, BootRoom
<1>3. /\ pgl' = OsPageFree(pgl, page, PAGES) /\ pages' = pages \ {page}
      /\ ck' = ck /\ kernel' = kernel /\ live' = live /\ stopped' = stopped
  BY DEF PageFree
<1>4. PageOK(pgl') /\ pgl'.taken = pgl.taken \ {page}
  BY <1>1, <1>2, <1>3, PageFreeFacts
<1>5. PagesHeld(pgl', kernel', pages')
  BY <1>1, <1>2, <1>3, <1>4 DEF PagesHeld
<1> QED BY <1>3, <1>5 DEF Inv

\* A change of one chunk.
LEMMA ChunkChanged ==
  ASSUME NEW c \in [Classes -> Chunk], NEW i \in Classes, NEW r \in Chunk, NEW d,
         d = [c EXCEPT ![i] = r]
  PROVE  /\ d \in [Classes -> Chunk] /\ d[i] = r
         /\ \A j \in Classes : j # i => d[j] = c[j]
OBVIOUS

\* Objects go between callers and lists without a change of where is cut.
LEMMA SamePositions ==
  ASSUME NEW K, NEW c, ChunksOK(c, K), NEW O, Placed(c, K, O), NEW d \in [Classes -> Chunk],
         \A j \in Classes : /\ d[j].free_position = c[j].free_position
                            /\ d[j].current_pfn = c[j].current_pfn,
         NEW N \in SUBSET O
  PROVE  ChunksOK(d, K) /\ Placed(d, K, N)
<1>1. ChunksOK(d, K)
  BY DEF ChunksOK
<1>2. Placed(d, K, N)
  BY DEF Placed
<1> QED BY <1>1, <1>2

LEMMA ReuseStep ==
  ASSUME Inv, NEW i \in Classes, Reuse(i)
  PROVE  Inv'
<1> DEFINE s == ck[i].freelist
           o == Head(s)
           r == [ck[i] EXCEPT !.freelist = Tail(s)]
<1>1. /\ s # <<>> /\ live' = live \cup {o} /\ ck' = [ck EXCEPT ![i] = r]
      /\ pgl' = pgl /\ kernel' = kernel /\ pages' = pages /\ stopped' = stopped
  BY DEF Reuse, Dequeued
<1>2. ck \in [Classes -> Chunk] /\ ck[i] \in Chunk /\ s \in Seq(Objs) /\ IsInjective(s)
  BY DEF Inv, ChunksOK, Chunk, Listed
<1>3. /\ o \in Range(s) /\ Tail(s) \in Seq(Objs) /\ IsInjective(Tail(s))
      /\ Range(s) = Range(Tail(s)) \cup {o} /\ o \notin Range(Tail(s))
  BY <1>1, <1>2, TailFacts
<1>4. /\ r \in Chunk /\ r.freelist = Tail(s)
      /\ r.free_position = ck[i].free_position /\ r.current_pfn = ck[i].current_pfn
  BY <1>2, <1>3 DEF Chunk
<1> HIDE DEF r
<1>5. /\ ck' \in [Classes -> Chunk] /\ ck'[i] = r
      /\ \A j \in Classes : j # i => ck'[j] = ck[j]
  BY <1>1, <1>2, <1>4, ChunkChanged
<1>6. \A j \in Classes : /\ ck'[j].free_position = ck[j].free_position
                         /\ ck'[j].current_pfn = ck[j].current_pfn
  BY <1>4, <1>5
<1>8. \A j \in Classes : Range(ck'[j].freelist) \subseteq Range(ck[j].freelist)
  BY <1>3, <1>4, <1>5
<1>9. Cuts(ck', live') \subseteq Cuts(ck, live)
  <2>1. o \in Cuts(ck, live)
    BY <1>3 DEF Cuts
  <2> QED BY <1>1, <1>8, <2>1 DEF Cuts
<1>10. ChunksOK(ck', kernel') /\ Placed(ck', kernel', Cuts(ck', live'))
  <2> DEFINE d == ck'
             N == Cuts(ck', live')
  <2>1. ChunksOK(ck, kernel) /\ Placed(ck, kernel, Cuts(ck, live))
    BY DEF Inv
  <2>2. /\ d \in [Classes -> Chunk] /\ N \in SUBSET Cuts(ck, live)
        /\ \A j \in Classes : /\ d[j].free_position = ck[j].free_position
                              /\ d[j].current_pfn = ck[j].current_pfn
    BY <1>5, <1>6, <1>9
  <2> HIDE DEF d, N
  <2>3. ChunksOK(d, kernel) /\ Placed(d, kernel, N)
    BY <2>1, <2>2, SamePositions
  <2> QED BY <1>1, <2>3 DEF d, N
<1>11. Listed(ck', live')
  <2>1. Listed(ck, live)
    BY DEF Inv
  <2>2. ASSUME NEW j \in Classes
        PROVE  /\ IsInjective(ck'[j].freelist) /\ Range(ck'[j].freelist) \cap live' = {}
               /\ \A p \in Range(ck'[j].freelist) : p.shift = j
    <3>1. CASE j = i
      BY <1>1, <1>3, <1>4, <1>5, <2>1, <3>1 DEF Listed
    <3>2. CASE j # i
      <4>1. o \notin Range(ck[j].freelist)
        BY <1>3, <2>1, <3>2 DEF Listed
      <4> QED BY <1>1, <1>5, <2>1, <3>2, <4>1 DEF Listed
    <3> QED BY <3>1, <3>2
  <2> QED BY <2>2 DEF Listed
<1> QED BY <1>1, <1>10, <1>11 DEF Inv

LEMMA OsFreeKeeps ==
  ASSUME Inv, NEW o \in live, OsFree(o)
  PROVE  Inv'
<1> DEFINE i == o.shift
           s == ck[i].freelist
           r == [ck[i] EXCEPT !.freelist = Append(s, o), !.ends = TRUE]
<1>1. o \in Cuts(ck, live) /\ o \in Objs /\ i \in Classes
  <2>1. o \in Cuts(ck, live)
    BY DEF Cuts
  <2>2. o \in Objs
    BY <2>1 DEF Inv, Placed
  <2> QED BY <2>1, <2>2 DEF Objs
<1>2. /\ live' = live \ {o} /\ ck' = [ck EXCEPT ![i] = r]
      /\ pgl' = pgl /\ kernel' = kernel /\ pages' = pages /\ stopped' = stopped
  BY DEF OsFree
<1> HIDE DEF i
<1>3. ck \in [Classes -> Chunk] /\ ck[i] \in Chunk /\ s \in Seq(Objs) /\ IsInjective(s) /\ o \notin Range(s)
  BY <1>1 DEF Inv, ChunksOK, Chunk, Listed
<1>4. /\ Append(s, o) \in Seq(Objs) /\ IsInjective(Append(s, o))
      /\ Range(Append(s, o)) = Range(s) \cup {o}
  BY <1>1, <1>3, AppendFacts
<1>5. /\ r \in Chunk /\ r.freelist = Append(s, o)
      /\ r.free_position = ck[i].free_position /\ r.current_pfn = ck[i].current_pfn
  BY <1>3, <1>4 DEF Chunk
<1> HIDE DEF r
<1>6. /\ ck' \in [Classes -> Chunk] /\ ck'[i] = r
      /\ \A j \in Classes : j # i => ck'[j] = ck[j]
  BY <1>1, <1>2, <1>3, <1>5, ChunkChanged
<1>7. \A j \in Classes : /\ ck'[j].free_position = ck[j].free_position
                         /\ ck'[j].current_pfn = ck[j].current_pfn
  BY <1>5, <1>6
<1>9. \A j \in Classes : Range(ck'[j].freelist) \subseteq Range(ck[j].freelist) \cup {o}
  BY <1>4, <1>5, <1>6
<1>10. Cuts(ck', live') \subseteq Cuts(ck, live)
  BY <1>1, <1>2, <1>9 DEF Cuts
<1>11. ChunksOK(ck', kernel') /\ Placed(ck', kernel', Cuts(ck', live'))
  <2> DEFINE d == ck'
             N == Cuts(ck', live')
  <2>1. ChunksOK(ck, kernel) /\ Placed(ck, kernel, Cuts(ck, live))
    BY DEF Inv
  <2>2. /\ d \in [Classes -> Chunk] /\ N \in SUBSET Cuts(ck, live)
        /\ \A j \in Classes : /\ d[j].free_position = ck[j].free_position
                              /\ d[j].current_pfn = ck[j].current_pfn
    BY <1>6, <1>7, <1>10
  <2> HIDE DEF d, N
  <2>3. ChunksOK(d, kernel) /\ Placed(d, kernel, N)
    BY <2>1, <2>2, SamePositions
  <2> QED BY <1>2, <2>3 DEF d, N
<1>12. Listed(ck', live')
  <2>1. Listed(ck, live)
    BY DEF Inv
  <2>2. ASSUME NEW j \in Classes
        PROVE  /\ IsInjective(ck'[j].freelist) /\ Range(ck'[j].freelist) \cap live' = {}
               /\ \A p \in Range(ck'[j].freelist) : p.shift = j
    <3>1. CASE j = i
      BY <1>2, <1>4, <1>5, <1>6, <2>1, <3>1 DEF Listed, i
    <3>2. CASE j # i
      BY <1>2, <1>6, <2>1, <3>2 DEF Listed
    <3> QED BY <3>1, <3>2
  <2> QED BY <2>2 DEF Listed
<1> QED BY <1>2, <1>11, <1>12 DEF Inv

\* An object is cut: d is the chunks after it.
CutChunk(x, page, position) == [x EXCEPT !.current_pfn = page, !.free_position = position + 1]

IsCut(c, i, page, position, d) == d = [c EXCEPT ![i] = CutChunk(c[i], page, position)]

LEMMA ChunkCut ==
  ASSUME NEW x \in Chunk, NEW page \in Nat, NEW position \in Nat,
         NEW r, r = CutChunk(x, page, position)
  PROVE  /\ r \in Chunk /\ r.freelist = x.freelist
         /\ r.current_pfn = page /\ r.free_position = position + 1
<1>1. /\ x.freelist \in Seq(Objs) /\ x.ends \in BOOLEAN
      /\ x = [free_position |-> x.free_position, current_pfn |-> x.current_pfn,
              freelist |-> x.freelist, ends |-> x.ends]
  BY DEF Chunk
<1>2. r = [free_position |-> position + 1, current_pfn |-> page,
           freelist |-> x.freelist, ends |-> x.ends]
  BY <1>1, Zenon DEF CutChunk
<1>3. position + 1 \in Nat
  OBVIOUS
<1> QED BY <1>1, <1>2, <1>3 DEF Chunk

\* Objects are cut behind those of their class, or at the start of a page that
\* nobody had.
LEMMA CutFacts ==
  ASSUME NEW K, NEW c, ChunksOK(c, K), NEW L, Placed(c, K, Cuts(c, L)), Listed(c, L),
         NEW i \in Classes, NEW page \in Nat, NEW position \in Nat, position <= Room(i),
         \/ page = c[i].current_pfn /\ position = c[i].free_position
         \/ page \notin K,
         NEW d, IsCut(c, i, page, position, d),
         NEW o, o = [shift |-> i, page |-> page, position |-> position]
  PROVE  /\ ChunksOK(d, K \cup {page})
         /\ Placed(d, K \cup {page}, Cuts(d, L \cup {o}))
         /\ Listed(d, L \cup {o})
<1> DEFINE r == CutChunk(c[i], page, position)
           M == Cuts(d, L \cup {o})
           H == K \cup {page}
<1>1. c \in [Classes -> Chunk] /\ c[i] \in Chunk
  BY DEF ChunksOK
<1>3. d = [c EXCEPT ![i] = r]
  BY DEF IsCut
<1>2. /\ r \in Chunk /\ r.freelist = c[i].freelist
      /\ r.current_pfn = page /\ r.free_position = position + 1
  BY <1>1, ChunkCut
<1> HIDE DEF r
<1>4. d \in [Classes -> Chunk] /\ d[i] = r /\ \A j \in Classes : j # i => d[j] = c[j]
  BY <1>1, <1>2, <1>3, ChunkChanged
<1>5. \A j \in Classes : d[j].freelist = c[j].freelist
  BY <1>2, <1>4
<1>6. d[i].current_pfn = page /\ d[i].free_position = position + 1
  BY <1>2, <1>4
<1>7. \A j \in Classes : c[j].current_pfn = page => j = i
  BY DEF ChunksOK
<1>8. ChunksOK(d, H)
  <2>1. ASSUME NEW j \in Classes
        PROVE  d[j].free_position <= Room(j) + 1 /\ d[j].current_pfn \in H
    <3>1. CASE j = i
      BY <1>6, <3>1, RoomFacts
    <3>2. CASE j # i
      BY <1>4, <3>2 DEF ChunksOK
    <3> QED BY <3>1, <3>2
  <2>2. ASSUME NEW j \in Classes, NEW k \in Classes, d[j].current_pfn = d[k].current_pfn
        PROVE  j = k
    <3>1. CASE j = i /\ k = i
      BY <3>1
    <3>2. CASE j = i /\ k # i
      BY <1>4, <1>6, <1>7, <2>2, <3>2
    <3>3. CASE j # i /\ k = i
      BY <1>4, <1>6, <1>7, <2>2, <3>3
    <3>4. CASE j # i /\ k # i
      BY <1>4, <2>2, <3>4 DEF ChunksOK
    <3> QED BY <3>1, <3>2, <3>3, <3>4
  <2> QED BY <1>4, <2>1, <2>2 DEF ChunksOK
<1>9. M = Cuts(c, L) \cup {o}
  BY <1>5 DEF Cuts
<1>10. o \in Objs /\ o.shift = i /\ o.page = page /\ o.position = position
  BY DEF Objs
\* What was cut from this page before is of this class and lies in front.
<1>11. ASSUME NEW p \in Cuts(c, L)
       PROVE  /\ p \in Objs /\ p.page \in K /\ p.position <= Room(p.shift)
              /\ p.page = page => p.shift = i /\ p.position < position
              /\ \A j \in Classes : p.page = c[j].current_pfn =>
                   p.shift = j /\ p.position < c[j].free_position
  BY DEF Placed
<1>12. \A p \in Cuts(c, L) : p # o
  BY <1>10, <1>11
<1> HIDE DEF M
<1>13. Placed(d, H, M)
  <2>1. M \subseteq Objs
    BY <1>9, <1>10, <1>11
  <2>2. ASSUME NEW p \in M PROVE p.page \in H /\ p.position <= Room(p.shift)
    BY <1>9, <1>10, <1>11
  <2>3. ASSUME NEW p \in M, NEW j \in Classes, p.page = d[j].current_pfn
        PROVE  p.shift = j /\ p.position < d[j].free_position
    <3>1. CASE p = o
      <4>1. j = i
        <5>1. j # i => c[j].current_pfn = page
          BY <1>4, <1>10, <2>3, <3>1
        <5> QED BY <1>7, <5>1
      <4> QED BY <1>6, <1>10, <3>1, <4>1
    <3>2. CASE p \in Cuts(c, L) /\ j = i
      <4>1. p.shift = i /\ p.position < position /\ p.position \in Nat
        BY <1>6, <1>11, <2>3, <3>2 DEF Objs
      <4> QED BY <1>6, <3>2, <4>1
    <3>3. CASE p \in Cuts(c, L) /\ j # i
      BY <1>4, <1>11, <2>3, <3>3
    <3> QED BY <1>9, <3>1, <3>2, <3>3
  <2>4. ASSUME NEW p \in M, NEW q \in M, p.page = q.page PROVE p.shift = q.shift
    <3>1. CASE p = o /\ q = o
      BY <3>1
    <3>2. CASE p = o /\ q \in Cuts(c, L)
      BY <1>10, <1>11, <2>4, <3>2
    <3>3. CASE p \in Cuts(c, L) /\ q = o
      BY <1>10, <1>11, <2>4, <3>3
    <3>4. CASE p \in Cuts(c, L) /\ q \in Cuts(c, L)
      BY <2>4, <3>4 DEF Placed
    <3> QED BY <1>9, <3>1, <3>2, <3>3, <3>4
  <2> QED BY <2>1, <2>2, <2>3, <2>4 DEF Placed
<1>14. Listed(d, L \cup {o})
  <2>1. \A j \in Classes : o \notin Range(c[j].freelist)
    BY <1>12 DEF Cuts
  <2> QED BY <1>5, <2>1 DEF Listed
<1> QED BY <1>8, <1>13, <1>14 DEF M

\* CutAt is such a cut.
LEMMA CutAtFacts ==
  ASSUME ck \in [Classes -> Chunk], NEW i \in Classes, NEW page, NEW position,
         CutAt(i, page, position)
  PROVE  /\ IsCut(ck, i, page, position, ck')
         /\ live' = live \cup {[shift |-> i, page |-> page, position |-> position]}
<1>1. ck' = [ck EXCEPT ![i].current_pfn = page, ![i].free_position = position + 1]
  BY DEF CutAt
<1>2. [ck EXCEPT ![i].current_pfn = page, ![i].free_position = position + 1]
      = [ck EXCEPT ![i] = [ck[i] EXCEPT !.current_pfn = page, !.free_position = position + 1]]
  OBVIOUS
<1> QED BY <1>1, <1>2 DEF IsCut, CutChunk, CutAt

LEMMA CutStep ==
  ASSUME Inv, NEW i \in Classes, Cut(i)
  PROVE  Inv'
<1> DEFINE page == ck[i].current_pfn
           position == ck[i].free_position
           o == [shift |-> i, page |-> page, position |-> position]
           d == ck'
<1>1. /\ ChunksOK(ck, kernel) /\ Placed(ck, kernel, Cuts(ck, live)) /\ Listed(ck, live)
      /\ ck \in [Classes -> Chunk]
  BY DEF Inv, ChunksOK
<1>2. page \in Nat /\ position \in Nat /\ page \in kernel
  BY <1>1 DEF ChunksOK, Chunk
<1>3. position <= Room(i)
  BY <1>2, RoomFacts DEF Cut, Finished, Room
<1>4. CutAt(i, page, position) /\ UNCHANGED <<pgl, nodes, kernel, pages, stopped>>
  BY DEF Cut
<1>5. IsCut(ck, i, page, position, d) /\ live' = live \cup {o}
  BY <1>1, <1>4, CutAtFacts
<1> HIDE DEF d, o
<1>6. o = [shift |-> i, page |-> page, position |-> position]
  BY DEF o
<1>7. page = ck[i].current_pfn /\ position = ck[i].free_position
  OBVIOUS
<1> HIDE DEF page, position
<1>8. /\ ChunksOK(d, kernel \cup {page})
      /\ Placed(d, kernel \cup {page}, Cuts(d, live \cup {o}))
      /\ Listed(d, live \cup {o})
  BY <1>1, <1>2, <1>3, <1>5, <1>6, <1>7, CutFacts
<1>9. kernel \cup {page} = kernel /\ kernel' = kernel
  BY <1>2, <1>4
<1>10. /\ ChunksOK(ck', kernel') /\ Placed(ck', kernel', Cuts(ck', live'))
       /\ Listed(ck', live')
  BY <1>5, <1>8, <1>9 DEF d
<1> QED BY <1>4, <1>10 DEF Inv

LEMMA CutFromNewPageStep ==
  ASSUME Inv, NEW i \in Classes, CutFromNewPage(i)
  PROVE  Inv'
<1> DEFINE page == Got.page
           o == [shift |-> i, page |-> page, position |-> 0]
           d == ck'
<1>1. /\ ChunksOK(ck, kernel) /\ Placed(ck, kernel, Cuts(ck, live)) /\ Listed(ck, live)
      /\ ck \in [Classes -> Chunk]
  BY DEF Inv, ChunksOK
<1>2. PagesHeld(pgl, kernel, pages) /\ pgl.free_pages > 0
  BY DEF Inv, CutFromNewPage
<1>3. /\ Got.found /\ page \in Nat /\ page \notin kernel
      /\ PagesHeld(Got.list, kernel \cup {page}, pages)
  BY <1>2, TakePage
<1>4. 0 \in Nat /\ 0 <= Room(i)
  BY RoomFacts
<1>5. /\ CutAt(i, page, 0) /\ pgl' = Got.list /\ kernel' = kernel \cup {page}
      /\ pages' = pages /\ stopped' = "no"
  BY <1>3 DEF CutFromNewPage, Stops
<1>6. IsCut(ck, i, page, 0, d) /\ live' = live \cup {o}
  BY <1>1, <1>5, CutAtFacts
<1> HIDE DEF d, o
<1>7. o = [shift |-> i, page |-> page, position |-> 0]
  BY DEF o
<1> HIDE DEF page
<1>8. /\ ChunksOK(d, kernel \cup {page})
      /\ Placed(d, kernel \cup {page}, Cuts(d, live \cup {o}))
      /\ Listed(d, live \cup {o})
  BY <1>1, <1>3, <1>4, <1>6, <1>7, CutFacts
<1>9. /\ ChunksOK(ck', kernel') /\ Placed(ck', kernel', Cuts(ck', live'))
      /\ Listed(ck', live')
  BY <1>5, <1>6, <1>8 DEF d
<1> QED BY <1>3, <1>5, <1>9 DEF Inv

LEMMA NextKeeps == Inv /\ [AllocNext]_allocVars => Inv'
<1> SUFFICES ASSUME Inv, [AllocNext]_allocVars PROVE Inv'
  OBVIOUS
<1>1. CASE PageAlloc
  BY <1>1, PageAllocKeeps
<1>2. ASSUME NEW page \in pages, PageFree(page) PROVE Inv'
  BY <1>2, PageFreeKeeps
<1>3. ASSUME NEW size \in Sizes, OsAlloc(size) PROVE Inv'
  <2> DEFINE i == SizeClass(size)
  <2>1. i \in Classes
    BY SizesAreServed, AllocAssumption
  <2>2. Reuse(i) \/ Cut(i) \/ CutFromNewPage(i) \/ CutFromNothing(i)
    BY <1>3 DEF OsAlloc
  <2> HIDE DEF i
  <2>3. CASE CutFromNothing(i)
    BY <2>3 DEF CutFromNothing, Inv
  <2> QED BY <2>1, <2>2, <2>3, ReuseStep, CutStep, CutFromNewPageStep
<1>4. ASSUME NEW o \in live, OsFree(o) PROVE Inv'
  BY <1>4, OsFreeKeeps
<1>5. CASE UNCHANGED allocVars
  BY <1>5 DEF allocVars, Inv
<1> QED BY <1>1, <1>2, <1>3, <1>4, <1>5 DEF AllocNext

-----------------------------------------------------------------------------
(* The theorems                                                            *)

\* The allocators keep their invariant: the bitmap, the count and the holders of
\* pages agree, and objects lie where their class cut them (memory.c:171-366).
THEOREM Invariance == AllocSpec => []Inv
<1>1. AllocInit => Inv
  BY InitKeeps
<1>2. Inv /\ [AllocNext]_allocVars => Inv'
  BY NextKeeps
<1> QED BY <1>1, <1>2, PTL DEF AllocSpec

\* A page has one holder, the count of free pages is right, and get_free_page
\* finds one while it says so: its OS_BUG is never met (memory.c:171-257).
THEOREM PagesAreAccounted == AllocSpec => []PagesAccounted
<1>1. Inv => PagesAccounted
  <2> SUFFICES ASSUME Inv PROVE PagesAccounted
    OBVIOUS
  <2>1. /\ PageOK(pgl) /\ pgl.taken = (0 .. RESERVED - 1) \cup kernel \cup pages
        /\ kernel \cap pages = {} /\ (kernel \cup pages) \cap (0 .. RESERVED - 1) = {}
        /\ stopped \in {"no", "page 0"}
    BY DEF Inv, PagesHeld
  <2>2. 0 \in 0 .. RESERVED - 1
    BY BootRoom
  <2>3. 0 \notin pages \cup kernel /\ pages \cap kernel = {} /\ stopped # "Out of memory"
    BY <2>1, <2>2
  <2>4. pgl.free_pages = Cardinality(FreePages(pgl, PAGES))
    BY <2>1 DEF PageOK
  <2> QED BY <2>1, <2>3, <2>4 DEF PagesAccounted
<1> QED BY <1>1, Invariance, PTL

\* The bytes of an object that does not lie behind its page.
LEMMA BytesInPage ==
  ASSUME NEW o \in Objs, o.position < Room(o.shift)
  PROVE  /\ Address(o) \in Nat /\ TwoTo[o.shift] \in Nat
         /\ o.page * PAGE_SIZE \in Nat
         /\ o.page * PAGE_SIZE <= Address(o)
         /\ Address(o) + TwoTo[o.shift] <= o.page * PAGE_SIZE + PAGE_SIZE
         /\ \A b \in BytesOf(o) : b \div PAGE_SIZE = o.page
<1> DEFINE k == o.shift
           start == o.page * PAGE_SIZE
           within == o.position * TwoTo[k]
<1>1. k \in Classes /\ o.page \in Nat /\ o.position \in Nat
  BY DEF Objs
<1>2. /\ k \in 0 .. PAGE_SHIFT /\ PAGE_SHIFT \in 0 .. PAGE_SHIFT
      /\ Room(k) \in Nat
  BY <1>1, RoomFacts, BootRoom
<1>3. TwoTo[k] \in Nat \ {0} /\ PAGE_SIZE \in Nat \ {0}
  BY <1>2, TwoToNat DEF PAGE_SIZE
<1>4. Room(k) * TwoTo[k] = PAGE_SIZE
  BY <1>2, TwoToProduct DEF Room
<1>5. start \in Nat
  BY <1>1, <1>3, Products
<1>6. within \in Nat /\ within + TwoTo[k] <= PAGE_SIZE
  BY <1>1, <1>2, <1>3, <1>4, Products
<1>7. Address(o) = start + within /\ BytesOf(o) = Address(o) .. Address(o) + TwoTo[k] - 1
  BY DEF Address, BytesOf
<1> HIDE DEF k, within
<1>8. /\ Address(o) \in Nat /\ start <= Address(o)
      /\ Address(o) + TwoTo[k] <= start + PAGE_SIZE
  BY <1>3, <1>5, <1>6, <1>7
<1>9. ASSUME NEW b \in BytesOf(o) PROVE b \div PAGE_SIZE = o.page
  <2> DEFINE q == b \div PAGE_SIZE
  <2>1. b \in Nat /\ start <= b /\ b < start + PAGE_SIZE
    BY <1>3, <1>5, <1>7, <1>8
  <2>2. q \in Nat /\ q * PAGE_SIZE <= b /\ b < q * PAGE_SIZE + PAGE_SIZE /\ q * PAGE_SIZE \in Nat
    BY <1>3, <2>1, Quotient, Products
  <2> HIDE DEF q
  <2>3. ~ (q < o.page)
    <3>1. q < o.page => q * PAGE_SIZE + PAGE_SIZE <= start
      BY <1>1, <1>3, <2>2, Products
    <3> QED BY <1>3, <1>5, <2>1, <2>2, <3>1
  <2>4. ~ (o.page < q)
    <3>1. o.page < q => start + PAGE_SIZE <= q * PAGE_SIZE
      BY <1>1, <1>3, <2>2, Products
    <3> QED BY <1>3, <1>5, <2>1, <2>2, <3>1
  <2>5. q = o.page
    BY <1>1, <2>2, <2>3, <2>4
  <2> QED BY <2>5 DEF q
<1> QED BY <1>3, <1>5, <1>8, <1>9 DEF k

\* Two of them in one page, of one class, or in two pages.
LEMMA BytesApart ==
  ASSUME NEW o \in Objs, NEW p \in Objs, o.position < Room(o.shift), p.position < Room(p.shift),
         \/ o.page < p.page
         \/ o.page = p.page /\ o.shift = p.shift /\ o.position < p.position
  PROVE  BytesOf(o) \cap BytesOf(p) = {}
<1>1. /\ o.shift \in Classes /\ o.page \in Nat /\ o.position \in Nat
      /\ p.shift \in Classes /\ p.page \in Nat /\ p.position \in Nat
  BY DEF Objs
<1>2. /\ Address(o) \in Nat /\ TwoTo[o.shift] \in Nat /\ o.page * PAGE_SIZE \in Nat
      /\ Address(o) + TwoTo[o.shift] <= o.page * PAGE_SIZE + PAGE_SIZE
      /\ Address(p) \in Nat /\ TwoTo[p.shift] \in Nat /\ p.page * PAGE_SIZE \in Nat
      /\ p.page * PAGE_SIZE <= Address(p)
  BY BytesInPage
<1>3. PAGE_SIZE \in Nat \ {0}
  BY BootRoom, TwoToNat DEF PAGE_SIZE
<1>4. Address(o) + TwoTo[o.shift] <= Address(p)
  <2>1. CASE o.page < p.page
    <3>1. o.page * PAGE_SIZE + PAGE_SIZE <= p.page * PAGE_SIZE
      BY <1>1, <1>3, <2>1, Products
    <3> QED BY <1>2, <1>3, <3>1
  <2>2. CASE o.page = p.page /\ o.shift = p.shift /\ o.position < p.position
    <3>1. TwoTo[o.shift] \in Nat \ {0}
      BY <1>1, RoomFacts, TwoToNat
    <3>2. /\ o.position * TwoTo[o.shift] + TwoTo[o.shift] <= p.position * TwoTo[o.shift]
          /\ o.position * TwoTo[o.shift] \in Nat /\ p.position * TwoTo[o.shift] \in Nat
      BY <1>1, <2>2, <3>1, Products
    <3>3. /\ Address(o) = o.page * PAGE_SIZE + o.position * TwoTo[o.shift]
          /\ Address(p) = o.page * PAGE_SIZE + p.position * TwoTo[o.shift]
      BY <2>2 DEF Address
    <3> QED BY <1>2, <3>2, <3>3
  <2> QED BY <2>1, <2>2
<1>5. /\ BytesOf(o) = Address(o) .. Address(o) + TwoTo[o.shift] - 1
      /\ BytesOf(p) = Address(p) .. Address(p) + TwoTo[p.shift] - 1
  BY DEF BytesOf
<1> QED BY <1>2, <1>4, <1>5

\* Objects overlap only where one was cut behind the end of its page, which
\* os_alloc does once for each page (memory.c:338): all others lie in pages of
\* the allocator, and none is handed out twice.
THEOREM OverlapsOnlyBehind == AllocSpec => []OverlapOnlyBehind
<1>1. Inv => OverlapOnlyBehind
  <2> SUFFICES ASSUME Inv PROVE OverlapOnlyBehind
    OBVIOUS
  <2> DEFINE behind == {o \in Objects : o.position = TwoTo[PAGE_SHIFT - o.shift]}
             inside == Objects \ behind
  <2>1. Objects = Cuts(ck, live)
    BY DEF Objects, OnList, Cuts
  <2>2. Placed(ck, kernel, Cuts(ck, live)) /\ Listed(ck, live)
    BY DEF Inv
  <2>3. ASSUME NEW o \in inside
        PROVE  o \in Objs /\ o \in Cuts(ck, live) /\ o.page \in kernel /\ o.position < Room(o.shift)
    <3>1. o \in Cuts(ck, live) /\ o.position # Room(o.shift)
      BY <2>1, <2>3 DEF Room
    <3>2. o \in Objs /\ o.page \in kernel /\ o.position <= Room(o.shift)
      BY <2>2, <3>1 DEF Placed
    <3>3. o.position \in Nat /\ Room(o.shift) \in Nat
      BY <3>2, RoomFacts DEF Objs
    <3> QED BY <3>1, <3>2, <3>3
  <2> HIDE DEF inside
  <2>4. ASSUME NEW o \in inside, NEW p \in inside, o # p
        PROVE  BytesOf(o) \cap BytesOf(p) = {}
    <3>1. /\ o \in Objs /\ p \in Objs /\ o.position < Room(o.shift) /\ p.position < Room(p.shift)
      BY <2>3
    <3>2. o.page = p.page => o.shift = p.shift
      BY <2>2, <2>3 DEF Placed
    <3>3. /\ o.page \in Nat /\ p.page \in Nat /\ o.position \in Nat /\ p.position \in Nat
      BY <3>1 DEF Objs
    <3>4. o.page = p.page /\ o.shift = p.shift => o.position # p.position
      BY <2>4, <3>1 DEF Objs
    <3>5. CASE o.page < p.page
      BY <3>1, <3>5, BytesApart
    <3>6. CASE p.page < o.page
      <4>1. BytesOf(p) \cap BytesOf(o) = {}
        BY <3>1, <3>6, BytesApart
      <4> QED BY <4>1
    <3>7. CASE o.page = p.page
      <4>1. CASE o.position < p.position
        BY <3>1, <3>2, <3>7, <4>1, BytesApart
      <4>2. CASE p.position < o.position
        <5>1. BytesOf(p) \cap BytesOf(o) = {}
          BY <3>1, <3>2, <3>7, <4>2, BytesApart
        <5> QED BY <5>1
      <4> QED BY <3>2, <3>3, <3>4, <3>7, <4>1, <4>2
    <3> QED BY <3>3, <3>5, <3>6, <3>7
  <2>5. ASSUME NEW o \in inside
        PROVE  {b \div PAGE_SIZE : b \in BytesOf(o)} \subseteq kernel
    <3>1. \A b \in BytesOf(o) : b \div PAGE_SIZE = o.page
      BY <2>3, BytesInPage
    <3> QED BY <2>3, <3>1
  <2>6. \A i \in Classes : IsInjective(ck[i].freelist) /\ OnList(i) \cap live = {}
    BY <2>2 DEF Listed, OnList
  <2> QED BY <2>4, <2>5, <2>6 DEF OverlapOnlyBehind, inside
<1> QED BY <1>1, Invariance, PTL

-----------------------------------------------------------------------------
(* The trees of page tables                                                *)

\* The name of the only table of a process for a place in its tree, a PUD
\* excepted: exits leave those behind.
Name(p, level, base) == [proc |-> p, level |-> level, base |-> base, copy |-> 0]
Pud(p, k) == [proc |-> p, level |-> PUD, base |-> 0, copy |-> k]

\* The entries of a PUD that are the user's, and those of the kernel.
UserSlots == OS_ENTRIES .. FAN - 1
KernelSlots == 0 .. OS_ENTRIES - 1

UserTable(u) == ToTable(u, TRUE)
KernelTable(u) == ToTable(u, FALSE)

\* A new table, and an entry that leads to u as soon as u is there.
EmptyRow == [i \in Entries |-> Empty]
Lead(T, u) == IF u \in DOMAIN T THEN UserTable(u) ELSE Empty

\* Where the memory of the user lies, in tables of a level.
InUser(level, b) == Slot(CODE_START, level + 1) <= b /\ b <= Slot(STACK_START, level + 1)

\* The tables that are in the tree of a process that is alive.
PmdOf(p, t) == \E b \in UserSlots : t = Name(p, PMD, b) /\ InUser(PMD, b)
PteOf(T, p, t) ==
  \E c \in Nat : /\ t = Name(p, PTE, c) /\ c \div FAN \in UserSlots /\ InUser(PTE, c)
                 /\ Name(p, PMD, c \div FAN) \in DOMAIN T
PudLike(p, t) == \E k \in Nat : t = Pud(p, k)

\* The tables are finitely many, of FAN entries each.
IsRow(row) == row = [i \in Entries |-> row[i]]
Fine(T) == IsFiniteSet(DOMAIN T) /\ \A t \in DOMAIN T : IsRow(T[t])

\* What belongs to a process: its tables, but not those of the kernel that
\* were made in its name.
KernelPmd(t) == \E b \in KernelSlots : t = Name(FirstProc, PMD, b)
Own(T, p) == {t \in DOMAIN T : t.proc = p /\ ~ KernelPmd(t)}

\* The entries of a PMD and of a last table of p.
PmdRow(T, p, b) == [i \in Entries |-> Lead(T, Name(p, PTE, b * FAN + i))]
PteRow(M, b) ==
  [i \in Entries |-> IF b * FAN + i \in M THEN ToPage(b * FAN + i) ELSE Empty]

\* The tables below the PUD of p, and the pages M they map.
Lower(T, p, M) ==
  /\ \A b \in UserSlots : Name(p, PMD, b) \in DOMAIN T => T[Name(p, PMD, b)] = PmdRow(T, p, b)
  /\ \A b \in Nat : Name(p, PTE, b) \in DOMAIN T => T[Name(p, PTE, b)] = PteRow(M, b)
  /\ M \subseteq UserPages
  /\ \A v \in M : Name(p, PTE, v \div FAN) \in DOMAIN T

\* p has a tree, with the k-th of its PUDs, which starts with the entries low.
PgdRow(u) == [i \in Entries |-> IF i = 0 THEN UserTable(u) ELSE Empty]
PudRow(T, p, low) ==
  [i \in Entries |-> IF i < OS_ENTRIES THEN low[i] ELSE Lead(T, Name(p, PMD, i))]

HasTree(T, p, k, M, low) ==
  /\ Name(p, PGD, 0) \in DOMAIN T /\ T[Name(p, PGD, 0)] = PgdRow(Pud(p, k))
  /\ Pud(p, k) \in DOMAIN T /\ T[Pud(p, k)] = PudRow(T, p, low)
  /\ Lower(T, p, M)
  /\ \A t \in Own(T, p) : t = Name(p, PGD, 0) \/ PudLike(p, t) \/ PmdOf(p, t) \/ PteOf(T, p, t)

\* Of a process that is not alive only PUDs are left.
Gone(T, p) == \A t \in Own(T, p) : PudLike(p, t)

\* The kernel's tables for the huge pages H.
Low(H) ==
  [i \in KernelSlots |->
     IF \E h \in H : h \div FAN = i THEN KernelTable(Name(FirstProc, PMD, i)) ELSE Empty]

KernelRow(H, b) ==
  [i \in Entries |-> IF b * FAN + i \in H THEN ToHuge(b * FAN + i) ELSE Empty]

KernelTables(T, H) ==
  \A b \in KernelSlots :
     /\ Name(FirstProc, PMD, b) \in DOMAIN T <=> \E h \in H : h \div FAN = b
     /\ Name(FirstProc, PMD, b) \in DOMAIN T => T[Name(FirstProc, PMD, b)] = KernelRow(H, b)

\* The invariant.  Its parts need each other: that a process alive has a tree
\* holds after a fork because its parent's PUD starts with the kernel's tables,
\* and these stay because they are no process's own; that only PUDs are left of
\* a process that is gone holds after an exit because its tree had no table
\* without a place in it.
TreesInv ==
  /\ DOMAIN pgd \subseteq Procs
  /\ mapped \in [Procs -> SUBSET UserPages]
  /\ Fine(table)
  /\ \A t \in DOMAIN table : t.proc \in Procs
  /\ KernelTables(table, OsPages)
  /\ \A p \in Procs \ DOMAIN pgd : Gone(table, p)
  /\ \A p \in DOMAIN pgd :
       /\ pgd[p] = Name(p, PGD, 0)
       /\ CodePages \subseteq mapped[p]
       /\ \E k \in Nat : HasTree(table, p, k, mapped[p], Low(OsPages))

\* The sizes of tables and where the user's memory lies.
LEMMA FanFacts ==
  /\ FAN \in Nat \ {0} /\ FAN >= 2 /\ Entries = 0 .. FAN - 1 /\ 0 \in Entries
  /\ OS_ENTRIES \in Nat /\ CODE_START \in Nat /\ STACK_START \in Nat
BY TreeAssumption DEF Entries

\* A page number is the slot above it and an index.
LEMMA Division ==
  ASSUME NEW n \in Nat
  PROVE  n \div FAN \in Nat /\ n % FAN \in Entries /\ n = (n \div FAN) * FAN + (n % FAN)
<1>1. /\ n \div FAN \in Nat
      /\ (n \div FAN) * FAN <= n
      /\ n < (n \div FAN) * FAN + FAN
      /\ n = (n \div FAN) * FAN + (n % FAN)
  BY FanFacts, Quotient
<1>2. (n \div FAN) * FAN \in Nat
  BY <1>1, FanFacts, Products
<1>3. n % FAN \in Int
  BY FanFacts
<1> QED BY <1>1, <1>2, <1>3, FanFacts

\* Two numbers of the same sum are of the same block of F and at the same place
\* in it.
LEMMA Remainders ==
  ASSUME NEW F \in Nat, NEW x \in Nat, NEW y \in Nat, NEW b \in Nat, NEW q \in Nat,
         NEW i \in Nat, NEW r \in Nat, i < F, r < F, x + r = y + i,
         q < b => x + F <= y, b < q => y + F <= x, q = b => x = y
  PROVE  q = b /\ r = i
OBVIOUS

\* The page at index i below slot b has that slot and that index.
LEMMA DivisionIs ==
  ASSUME NEW b \in Nat, NEW i \in Entries
  PROVE  /\ b * FAN \in Nat /\ b * FAN + i \in Nat
         /\ (b * FAN + i) \div FAN = b /\ (b * FAN + i) % FAN = i
<1>1. i \in Nat /\ i < FAN /\ b * FAN \in Nat /\ FAN \in Nat
  BY FanFacts, Products
<1>2. b * FAN + i \in Nat
  BY <1>1
<1>3. PICK n \in Nat : n = b * FAN + i
  BY <1>2
<1>4. n \div FAN \in Nat /\ n % FAN \in Entries /\ n = (n \div FAN) * FAN + (n % FAN)
  BY Division
<1>5. PICK q \in Nat, r \in Nat : q = n \div FAN /\ r = n % FAN /\ r < FAN
  BY <1>4, FanFacts
<1>6. n = q * FAN + r
  BY <1>4, <1>5
<1>7. /\ q < b => q * FAN + FAN <= b * FAN
      /\ b < q => b * FAN + FAN <= q * FAN
      /\ q * FAN \in Nat
  BY FanFacts, Products
<1>8. q * FAN + r = b * FAN + i
  BY <1>3, <1>6
<1>9. q = b => q * FAN = b * FAN
  OBVIOUS
<1>10. q = b /\ r = i
  BY <1>1, <1>5, <1>7, <1>8, <1>9, Remainders
<1> QED BY <1>1, <1>2, <1>3, <1>5, <1>10

\* A shift keeps the order of numbers.
LEMMA DivisionGrows ==
  ASSUME NEW m \in Nat, NEW n \in Nat
  PROVE  /\ m <= n => m \div FAN <= n \div FAN
         /\ n < m * FAN => n \div FAN < m
         /\ m * FAN <= n => m <= n \div FAN
<1> DEFINE q == n \div FAN
           r == m \div FAN
           x == q * FAN
           y == r * FAN
           z == m * FAN
<1>1. FAN \in Nat /\ q \in Nat /\ r \in Nat /\ x \in Nat /\ y \in Nat /\ z \in Nat
  BY FanFacts, Division, Products
<1>2. x <= n /\ n < x + FAN /\ y <= m /\ m < y + FAN
  BY FanFacts, Quotient
<1>3. /\ q < r => x + FAN <= y
      /\ m <= q => z <= x
      /\ q < m => x + FAN <= z
  BY <1>1, FanFacts, Products
<1> HIDE DEF x, y, z, q, r
<1>4. m <= n => r <= q
  BY <1>1, <1>2, <1>3
<1>5. n < z => q < m
  BY <1>1, <1>2, <1>3
<1>6. z <= n => m <= q
  BY <1>1, <1>2, <1>3
<1> QED BY <1>4, <1>5, <1>6 DEF x, y, z, q, r

\* The slots and indices by their divisions.
LEMMA SlotFacts ==
  ASSUME NEW v
  PROVE  /\ Slot(v, PTE) = v /\ Slot(v, PMD) = v \div FAN
         /\ Slot(v, PUD) = (v \div FAN) \div FAN
         /\ Slot(v, PGD) = ((v \div FAN) \div FAN) \div FAN
         /\ Index(v, PTE) = v % FAN /\ Index(v, PMD) = (v \div FAN) % FAN
         /\ Index(v, PUD) = ((v \div FAN) \div FAN) % FAN
         /\ Index(v, PGD) = (((v \div FAN) \div FAN) \div FAN) % FAN
BY DEF Slot, Index, PTE, PMD, PUD, PGD

\* The four kinds of entries are different ones.
LEMMA EntryFacts ==
  /\ ~ IsTable(Empty) /\ ~ IsHuge(Empty)
  /\ \A u : /\ IsTable(UserTable(u)) /\ ~ IsHuge(UserTable(u)) /\ UserTable(u) # Empty
            /\ UserTable(u).to = u /\ UserTable(u).user
            /\ IsTable(KernelTable(u)) /\ ~ IsHuge(KernelTable(u)) /\ KernelTable(u) # Empty
            /\ KernelTable(u).to = u /\ ~ KernelTable(u).user
  /\ \A v : /\ ~ IsTable(ToPage(v)) /\ ~ IsHuge(ToPage(v)) /\ ToPage(v) # Empty
            /\ ~ IsTable(ToHuge(v)) /\ IsHuge(ToHuge(v)) /\ ToHuge(v) # Empty
<1>1. ~ IsTable(Empty) /\ ~ IsHuge(Empty)
  BY DEF IsTable, IsHuge, Empty
<1>2. ASSUME NEW u
      PROVE  /\ IsTable(UserTable(u)) /\ ~ IsHuge(UserTable(u)) /\ UserTable(u) # Empty
             /\ UserTable(u).to = u /\ UserTable(u).user
             /\ IsTable(KernelTable(u)) /\ ~ IsHuge(KernelTable(u)) /\ KernelTable(u) # Empty
             /\ KernelTable(u).to = u /\ ~ KernelTable(u).user
  <2>1. UserTable(u).kind = "table" /\ UserTable(u).to = u /\ UserTable(u).user
    BY DEF UserTable, ToTable
  <2>2. KernelTable(u).kind = "table" /\ KernelTable(u).to = u /\ ~ KernelTable(u).user
    BY DEF KernelTable, ToTable
  <2>3. Empty.kind = "none"
    BY DEF Empty
  <2> QED BY <2>1, <2>2, <2>3 DEF IsTable, IsHuge
<1>3. ASSUME NEW v
      PROVE  /\ ~ IsTable(ToPage(v)) /\ ~ IsHuge(ToPage(v)) /\ ToPage(v) # Empty
             /\ ~ IsTable(ToHuge(v)) /\ IsHuge(ToHuge(v)) /\ ToHuge(v) # Empty
  <2>1. ToPage(v).kind = "page" /\ ToHuge(v).kind = "huge" /\ Empty.kind = "none"
    BY DEF ToPage, ToHuge, Empty
  <2> QED BY <2>1 DEF IsTable, IsHuge
<1> QED BY <1>1, <1>2, <1>3

LEMMA Levels ==
  /\ PTE = 1 /\ PMD = 2 /\ PUD = 3 /\ PGD = 4
BY DEF PTE, PMD, PUD, PGD

LEMMA NameFacts ==
  /\ \A p, l, b : /\ Name(p, l, b).proc = p /\ Name(p, l, b).level = l
                  /\ Name(p, l, b).base = b
  /\ \A p, k : Pud(p, k).proc = p /\ Pud(p, k).level = PUD /\ Pud(p, k).copy = k
BY DEF Name, Pud

\* A table's name tells its process, its level and its place.
LEMMA NamesDiffer ==
  /\ \A p, q, l, m, b, c : Name(p, l, b) = Name(q, m, c) => p = q /\ l = m /\ b = c
  /\ \A p, q, k, j : Pud(p, k) = Pud(q, j) => p = q /\ k = j
  /\ \A p, q, l, b, k : Name(p, l, b) = Pud(q, k) => l = PUD
<1>1. ASSUME NEW p, NEW q, NEW l, NEW m, NEW b, NEW c, Name(p, l, b) = Name(q, m, c)
      PROVE  p = q /\ l = m /\ b = c
  BY <1>1, NameFacts
<1>2. ASSUME NEW p, NEW q, NEW k, NEW j, Pud(p, k) = Pud(q, j)
      PROVE  p = q /\ k = j
  BY <1>2, NameFacts
<1>3. ASSUME NEW p, NEW q, NEW l, NEW b, NEW k, Name(p, l, b) = Pud(q, k)
      PROVE  l = PUD
  BY <1>3, NameFacts
<1> QED BY <1>1, <1>2, <1>3

\* The tables of the kernel are PMDs of the first process.
LEMMA KernelNames ==
  /\ \A p, l, b : KernelPmd(Name(p, l, b)) <=> p = FirstProc /\ l = PMD /\ b \in KernelSlots
  /\ \A p, k : ~ KernelPmd(Pud(p, k))
<1>1. ASSUME NEW p, NEW l, NEW b
      PROVE  KernelPmd(Name(p, l, b)) <=> p = FirstProc /\ l = PMD /\ b \in KernelSlots
  BY NamesDiffer DEF KernelPmd
<1>2. ASSUME NEW p, NEW k PROVE ~ KernelPmd(Pud(p, k))
  BY NamesDiffer, Levels DEF KernelPmd
<1> QED BY <1>1, <1>2

\* The kernel's slots and the user's are the entries of a PUD.
LEMMA SlotsOfPud ==
  /\ OS_ENTRIES < FAN
  /\ \A i \in Entries : i \in UserSlots \/ i \in KernelSlots
  /\ \A i \in UserSlots : i \in Entries /\ i \in Nat /\ i >= OS_ENTRIES /\ i \notin KernelSlots
  /\ \A i \in KernelSlots : i \in Entries /\ i \in Nat /\ i < OS_ENTRIES
<1>1. CODE_START <= STACK_START
  <2>1. PICK v \in CodePages : TRUE
    BY TreeAssumption
  <2>2. v \in CODE_START .. STACK_START - 1
    BY <2>1, TreeAssumption DEF UserPages
  <2> QED BY <2>2, FanFacts
<1>2. OS_ENTRIES < FAN
  <2> SUFFICES ASSUME FAN <= OS_ENTRIES PROVE FALSE
    BY FanFacts
  <2>1. FAN * FAN <= OS_ENTRIES * FAN /\ FAN * FAN \in Nat /\ OS_ENTRIES * FAN \in Nat
    BY FanFacts, Products
  <2>2. (FAN * FAN) * FAN <= (OS_ENTRIES * FAN) * FAN
    BY <2>1, FanFacts, Products
  <2>3. (FAN * FAN) * FAN \in Nat /\ (OS_ENTRIES * FAN) * FAN \in Nat
    BY <2>1, FanFacts, Products
  <2>4. (OS_ENTRIES * FAN) * FAN <= CODE_START /\ STACK_START < (FAN * FAN) * FAN
    BY TreeAssumption
  <2> QED BY <2>2, <2>3, <2>4, <1>1, FanFacts
<1> QED BY <1>2, FanFacts DEF UserSlots, KernelSlots

\* The addresses of the user.
UserRange == CODE_START .. STACK_START

\* Where the pages of the user lie.
LEMMA UserPageFacts ==
  /\ \A v \in UserPages : v \in UserRange /\ v < STACK_START /\ v \in Nat
  /\ UserRange \subseteq Nat
BY TreeAssumption, FanFacts DEF UserRange

\* Where a page of the user is in a tree.
LEMMA PlaceFacts ==
  ASSUME NEW v \in UserRange
  PROVE  LET b == (v \div FAN) \div FAN
             i == (v \div FAN) % FAN
         IN /\ v \in Nat /\ v \div FAN \in Nat /\ b \in UserSlots /\ i \in Entries /\ v % FAN \in Entries
            /\ v \div FAN = b * FAN + i /\ v = (v \div FAN) * FAN + (v % FAN)
            /\ Index(v, PGD) = 0 /\ Slot(v, PGD) = 0
            /\ Index(v, PUD) = b /\ Slot(v, PUD) = b
            /\ Index(v, PMD) = i /\ Slot(v, PMD) = v \div FAN
            /\ Index(v, PTE) = v % FAN
            /\ InUser(PMD, b) /\ InUser(PTE, v \div FAN)
<1> DEFINE n == v \div FAN
           b == n \div FAN
<1>1. v \in Nat /\ CODE_START <= v /\ v <= STACK_START /\ FAN * FAN \in Nat /\ FAN \in Nat
      /\ OS_ENTRIES * FAN \in Nat
  BY FanFacts, Products DEF UserRange
<1>2. v < (FAN * FAN) * FAN /\ (OS_ENTRIES * FAN) * FAN <= v
  BY <1>1, TreeAssumption, FanFacts
<1>3. n \in Nat /\ n < FAN * FAN /\ OS_ENTRIES * FAN <= n
  BY <1>1, <1>2, Division, DivisionGrows
<1>4. b \in Nat /\ b < FAN /\ OS_ENTRIES <= b
  BY <1>1, <1>3, FanFacts, Division, DivisionGrows
<1>5. b \in UserSlots /\ b \in Entries
  BY <1>4, FanFacts DEF UserSlots
<1>6. b \div FAN = 0 /\ b % FAN = b
  <2>1. (0 * FAN + b) \div FAN = 0 /\ (0 * FAN + b) % FAN = b
    BY <1>5, DivisionIs
  <2>2. 0 * FAN + b = b
    BY <1>4, FanFacts
  <2> QED BY <2>1, <2>2
<1>7. 0 % FAN = 0
  BY FanFacts
<1>8. CODE_START \div FAN <= n /\ n <= STACK_START \div FAN
  BY <1>1, FanFacts, DivisionGrows
<1>9. (CODE_START \div FAN) \div FAN <= b /\ b <= (STACK_START \div FAN) \div FAN
  BY <1>3, <1>8, FanFacts, Division, DivisionGrows
<1>10. InUser(PMD, b) /\ InUser(PTE, n)
  <2>1. PMD + 1 = PUD /\ PTE + 1 = PMD
    BY Levels
  <2> QED BY <2>1, <1>8, <1>9, SlotFacts DEF InUser
<1>11. n % FAN \in Entries /\ v % FAN \in Entries /\ n = b * FAN + (n % FAN) /\ v = n * FAN + (v % FAN)
  <2>1. v % FAN \in Entries /\ v = (v \div FAN) * FAN + (v % FAN)
    BY <1>1, Division
  <2>2. n \in Nat
    BY <1>3
  <2> HIDE DEF n
  <2>3. n % FAN \in Entries /\ n = (n \div FAN) * FAN + (n % FAN)
    BY <2>2, Division
  <2> QED BY <2>1, <2>3 DEF n
<1> QED BY <1>1, <1>3, <1>5, <1>6, <1>7, <1>10, <1>11, SlotFacts

\* Where a huge page of the kernel is.
LEMMA HugeFacts ==
  ASSUME NEW h \in Nat, h < OS_ENTRIES * FAN
  PROVE  /\ h \div FAN \in KernelSlots /\ h % FAN \in Entries
         /\ h = (h \div FAN) * FAN + (h % FAN)
         /\ Index(h * FAN, PGD) = 0 /\ Slot(h * FAN, PGD) = 0
         /\ Index(h * FAN, PUD) = h \div FAN /\ Slot(h * FAN, PUD) = h \div FAN
         /\ Index(h * FAN, PMD) = h % FAN
<1> DEFINE b == h \div FAN
<1>1. b \in Nat /\ b < OS_ENTRIES /\ h % FAN \in Entries /\ h = b * FAN + (h % FAN)
  <2>1. h \div FAN \in Nat /\ h % FAN \in Entries /\ h = (h \div FAN) * FAN + (h % FAN)
    BY Division
  <2>2. h \div FAN < OS_ENTRIES
    BY FanFacts, DivisionGrows
  <2> QED BY <2>1, <2>2
<1>2. b \in KernelSlots /\ b \in Entries
  BY <1>1, SlotsOfPud, FanFacts DEF KernelSlots
<1>3. b \div FAN = 0 /\ b % FAN = b
  <2>1. (0 * FAN + b) \div FAN = 0 /\ (0 * FAN + b) % FAN = b
    BY <1>2, DivisionIs
  <2>2. 0 * FAN + b = b
    BY <1>1, FanFacts
  <2> QED BY <2>1, <2>2
<1>4. (h * FAN) \div FAN = h
  <2>1. h * FAN \in Nat /\ 0 \in Entries
    BY FanFacts, Products
  <2>2. (h * FAN + 0) \div FAN = h
    BY <2>1, DivisionIs
  <2>3. h * FAN + 0 = h * FAN
    BY <2>1
  <2> QED BY <2>2, <2>3
<1>5. 0 % FAN = 0
  BY FanFacts
<1> QED BY <1>1, <1>2, <1>3, <1>4, <1>5, SlotFacts

\* os_pfn_alloc takes a page that is not a table, and the plain name of it if
\* that is free.
LEMMA NewTableFacts ==
  ASSUME NEW T, Fine(T), NEW p, NEW level, NEW base
  PROVE  /\ \E k \in Nat :
              NewTable(T, p, level, base)
                = [proc |-> p, level |-> level, base |-> base, copy |-> k]
         /\ NewTable(T, p, level, base) \notin DOMAIN T
         /\ Name(p, level, base) \notin DOMAIN T =>
              NewTable(T, p, level, base) = Name(p, level, base)
<1> DEFINE Full(k) == [proc |-> p, level |-> level, base |-> base, copy |-> k]
           n == Cardinality(DOMAIN T)
           K == {k \in 0 .. n : Full(k) \notin DOMAIN T}
<1>0. IsFiniteSet(DOMAIN T)
  BY DEF Fine
<1>1. n \in Nat
  BY <1>0, FS_CardinalityType
<1>2. K # {}
  <2> SUFFICES ASSUME \A k \in 0 .. n : Full(k) \in DOMAIN T PROVE FALSE
    OBVIOUS
  <2> DEFINE f == [k \in 0 .. n |-> Full(k)]
  <2>1. f \in [0 .. n -> DOMAIN T]
    OBVIOUS
  <2>2. IsFiniteSet(0 .. n) /\ Cardinality(0 .. n) = n + 1
    BY <1>1, FS_Interval
  <2>3. n < n + 1
    BY <1>1
  <2> HIDE DEF n
  <2>4. Cardinality(DOMAIN T) < Cardinality(0 .. n)
    BY <2>2, <2>3 DEF n
  <2> HIDE DEF f
  <2>5. \E x, y \in 0 .. n : x # y /\ f[x] = f[y]
    BY <1>0, <2>1, <2>2, <2>4, FS_PigeonHole
  <2>6. PICK x \in 0 .. n, y \in 0 .. n : x # y /\ Full(x) = Full(y)
    BY <2>5 DEF f
  <2>7. Full(x).copy = x /\ Full(y).copy = y
    OBVIOUS
  <2> HIDE DEF Full
  <2> QED BY <2>6, <2>7
<1>3. K \in SUBSET Nat
  BY <1>1
<1> HIDE DEF K, Full
<1>4. Min(K) \in K /\ \A k \in K : Min(K) <= k
  BY <1>2, <1>3, MinFacts
<1>5. NewTable(T, p, level, base) = Full(Min(K))
  BY DEF NewTable, K, Full
<1>6. Min(K) \in Nat /\ Full(Min(K)) \notin DOMAIN T
  BY <1>3, <1>4 DEF K
<1>7. ASSUME Name(p, level, base) \notin DOMAIN T
      PROVE  Full(Min(K)) = Name(p, level, base)
  <2>1. Full(0) = Name(p, level, base)
    BY DEF Full, Name
  <2>2. 0 \in K
    BY <1>1, <1>7, <2>1 DEF K
  <2>3. Min(K) = 0
    BY <1>4, <1>6, <2>2
  <2> QED BY <2>1, <2>3
<1> QED BY <1>5, <1>6, <1>7 DEF Full

\* One entry of a row, and of a table, is set.
RowPut(row, i, e) == [j \in Entries |-> IF j = i THEN e ELSE row[j]]

\* An entry is written.
Put(T, t, i, e) == [T EXCEPT ![t][i] = e]

\* One entry of a table changes.
LEMMA PutFacts ==
  ASSUME NEW T, NEW t \in DOMAIN T, NEW i \in Entries, NEW e, DOMAIN T[t] = Entries
  PROVE  /\ DOMAIN Put(T, t, i, e) = DOMAIN T
         /\ Put(T, t, i, e)[t] = RowPut(T[t], i, e)
         /\ \A x \in DOMAIN T \ {t} : Put(T, t, i, e)[x] = T[x]
BY DEF Put, RowPut

\* A table is built, and an entry leads to it.
Built(T, u, t, i, e) == Put(WithTable(T, u), t, i, e)

\* S is T with the table u, to which the entry i of t leads by e.
IsBuilt(T, S, u, t, i, e) ==
  /\ DOMAIN S = DOMAIN T \cup {u} /\ S[u] = EmptyRow /\ S[t] = RowPut(T[t], i, e)
  /\ \A x \in DOMAIN T \ {t} : S[x] = T[x]

\* A table is added and an entry leads to it.
LEMMA BuiltFacts ==
  ASSUME NEW T, NEW t \in DOMAIN T, NEW u, u \notin DOMAIN T, NEW i \in Entries, NEW e,
         DOMAIN T[t] = Entries
  PROVE  IsBuilt(T, Built(T, u, t, i, e), u, t, i, e)
<1> DEFINE W == WithTable(T, u)
<1>1. DOMAIN W = DOMAIN T \cup {u} /\ W[u] = EmptyRow /\ \A x \in DOMAIN T : W[x] = T[x]
  BY DEF WithTable, EmptyRow
<1> HIDE DEF W
<1>2. t \in DOMAIN W /\ DOMAIN W[t] = Entries /\ u # t
  BY <1>1
<1>3. /\ DOMAIN Put(W, t, i, e) = DOMAIN W
      /\ Put(W, t, i, e)[t] = RowPut(W[t], i, e)
      /\ \A x \in DOMAIN W \ {t} : Put(W, t, i, e)[x] = W[x]
  BY <1>2, PutFacts
<1>4. W[t] = T[t]
  BY <1>1
<1> QED BY <1>1, <1>2, <1>3, <1>4 DEF Built, W, IsBuilt

\* The rows that are written have all the entries of a table.
LEMMA Rows ==
  /\ IsRow(EmptyRow)
  /\ \A row, i, e : IsRow(RowPut(row, i, e))
  /\ \A H, b : IsRow(KernelRow(H, b))
  /\ \A T, p, low : IsRow(PudRow(T, p, low))
BY DEF IsRow, EmptyRow, RowPut, KernelRow, PudRow

\* One table is new, or changed, and another changed.
LEMMA FineStays ==
  ASSUME NEW T, Fine(T), NEW S, NEW u, NEW t, DOMAIN S = DOMAIN T \cup {u},
         IsRow(S[u]), IsRow(S[t]), \A x \in DOMAIN T \ {u, t} : S[x] = T[x]
  PROVE  Fine(S)
<1>1. IsFiniteSet(DOMAIN S)
  BY FS_AddElement DEF Fine
<1>2. ASSUME NEW x \in DOMAIN S PROVE IsRow(S[x])
  <2>1. CASE x = u \/ x = t
    BY <2>1
  <2>2. CASE x # u /\ x # t
    <3>1. x \in DOMAIN T /\ S[x] = T[x] /\ IsRow(T[x])
      BY <2>2 DEF Fine
    <3> QED BY <3>1
  <2> QED BY <2>1, <2>2
<1> QED BY <1>1, <1>2 DEF Fine

\* A step of a walk, for the user and for the kernel.
UserBelow(T, t, p, v, level) == Below([tables |-> T, at |-> t], p, v, level, TRUE)
KernelBelow(T, t, p, v, level) == Below([tables |-> T, at |-> t], p, v, level, FALSE)

\* A walk for the user goes on to a table that is there, or builds it.
LEMMA UserBelowFacts ==
  ASSUME NEW T, NEW t, NEW p, NEW v, NEW level
  PROVE  LET i == Index(v, level)
             u == NewTable(T, p, level - 1, Slot(v, level))
         IN /\ T[t][i] # Empty =>
                 UserBelow(T, t, p, v, level) = [tables |-> T, at |-> T[t][i].to]
            /\ T[t][i] = Empty =>
                 UserBelow(T, t, p, v, level)
                   = [tables |-> Built(T, u, t, i, UserTable(u)), at |-> u]
BY DEF UserBelow, Below, Built, Put, UserTable

\* And a walk for the kernel.
LEMMA KernelBelowFacts ==
  ASSUME NEW T, NEW t, NEW p, NEW v, NEW level
  PROVE  LET i == Index(v, level)
             u == NewTable(T, p, level - 1, Slot(v, level))
         IN /\ T[t][i] # Empty =>
                 KernelBelow(T, t, p, v, level) = [tables |-> T, at |-> T[t][i].to]
            /\ T[t][i] = Empty =>
                 KernelBelow(T, t, p, v, level)
                   = [tables |-> Built(T, u, t, i, KernelTable(u)), at |-> u]
BY DEF KernelBelow, Below, Built, Put, KernelTable

\* S has the tables of T, those of p excepted.
Same(T, S, p) ==
  \A t : t.proc # p \/ KernelPmd(t) =>
           /\ t \in DOMAIN T <=> t \in DOMAIN S
           /\ t \in DOMAIN T => S[t] = T[t]

\* What is the same for all processes but p.
LEMMA SameFacts ==
  ASSUME NEW T, NEW S, NEW p, Same(T, S, p)
  PROVE  /\ \A t : t.proc # p \/ KernelPmd(t) => (t \in DOMAIN T <=> t \in DOMAIN S)
         /\ \A t \in DOMAIN T : t.proc # p \/ KernelPmd(t) => S[t] = T[t]
BY DEF Same

LEMMA SameIsSame ==
  ASSUME NEW T, NEW S, NEW p, NEW R, Same(T, S, p), Same(S, R, p)
  PROVE  Same(T, R, p)
BY DEF Same

\* The tree of another process stays.
LEMMA TreeStays ==
  ASSUME NEW T, NEW S, NEW p, NEW q, q # p, Same(T, S, p), NEW k, NEW M, NEW low,
         HasTree(T, q, k, M, low)
  PROVE  HasTree(S, q, k, M, low)
<1>1. \A l, b : /\ Name(q, l, b) \in DOMAIN T <=> Name(q, l, b) \in DOMAIN S
                /\ Name(q, l, b) \in DOMAIN T => S[Name(q, l, b)] = T[Name(q, l, b)]
  BY SameFacts, NameFacts
<1>2. \A j : /\ Pud(q, j) \in DOMAIN T <=> Pud(q, j) \in DOMAIN S
             /\ Pud(q, j) \in DOMAIN T => S[Pud(q, j)] = T[Pud(q, j)]
  BY SameFacts, NameFacts
<1>3. \A l, b : Lead(S, Name(q, l, b)) = Lead(T, Name(q, l, b))
  BY <1>1 DEF Lead
<1>4. PudRow(S, q, low) = PudRow(T, q, low)
  BY <1>3 DEF PudRow
<1>5. \A b : PmdRow(S, q, b) = PmdRow(T, q, b)
  BY <1>3 DEF PmdRow
<1>6. Name(q, PGD, 0) \in DOMAIN S /\ S[Name(q, PGD, 0)] = PgdRow(Pud(q, k))
  BY <1>1 DEF HasTree
<1>7. Pud(q, k) \in DOMAIN S /\ S[Pud(q, k)] = PudRow(S, q, low)
  BY <1>2, <1>4 DEF HasTree
<1>8. Lower(S, q, M)
  <2>1. Lower(T, q, M)
    BY DEF HasTree
  <2>2. \A b \in UserSlots : Name(q, PMD, b) \in DOMAIN S => S[Name(q, PMD, b)] = PmdRow(S, q, b)
    BY <2>1, <1>1, <1>5 DEF Lower
  <2>3. \A b \in Nat : Name(q, PTE, b) \in DOMAIN S => S[Name(q, PTE, b)] = PteRow(M, b)
    BY <2>1, <1>1 DEF Lower
  <2>4. M \subseteq UserPages /\ \A v \in M : Name(q, PTE, v \div FAN) \in DOMAIN S
    BY <2>1, <1>1 DEF Lower
  <2> QED BY <2>2, <2>3, <2>4 DEF Lower
<1>9. \A t \in Own(S, q) : t = Name(q, PGD, 0) \/ PudLike(q, t) \/ PmdOf(q, t) \/ PteOf(S, q, t)
  <2> SUFFICES ASSUME NEW t \in Own(S, q)
               PROVE  t = Name(q, PGD, 0) \/ PudLike(q, t) \/ PmdOf(q, t) \/ PteOf(S, q, t)
    OBVIOUS
  <2>1. t \in Own(T, q)
    BY SameFacts DEF Own
  <2>2. t = Name(q, PGD, 0) \/ PudLike(q, t) \/ PmdOf(q, t) \/ PteOf(T, q, t)
    BY <2>1 DEF HasTree
  <2>3. PteOf(T, q, t) => PteOf(S, q, t)
    BY <1>1 DEF PteOf
  <2> QED BY <2>2, <2>3
<1> QED BY <1>6, <1>7, <1>8, <1>9 DEF HasTree

\* The leftovers of a process that is not alive stay what they are.
LEMMA GoneStays ==
  ASSUME NEW T, NEW S, NEW p, NEW q, q # p, Same(T, S, p), Gone(T, q)
  PROVE  Gone(S, q)
<1>1. Own(S, q) \subseteq Own(T, q)
  BY SameFacts DEF Own
<1> QED BY <1>1 DEF Gone

\* The kernel's tables are nobody's own.
LEMMA KernelStays ==
  ASSUME NEW T, NEW S, NEW p, Same(T, S, p), NEW H, KernelTables(T, H)
  PROVE  KernelTables(S, H)
<1> SUFFICES ASSUME NEW b \in KernelSlots
             PROVE  /\ Name(FirstProc, PMD, b) \in DOMAIN S <=> \E h \in H : h \div FAN = b
                    /\ Name(FirstProc, PMD, b) \in DOMAIN S =>
                         S[Name(FirstProc, PMD, b)] = KernelRow(H, b)
  BY DEF KernelTables
<1>1. KernelPmd(Name(FirstProc, PMD, b))
  BY DEF KernelPmd
<1>2. /\ Name(FirstProc, PMD, b) \in DOMAIN T <=> \E h \in H : h \div FAN = b
      /\ Name(FirstProc, PMD, b) \in DOMAIN T => T[Name(FirstProc, PMD, b)] = KernelRow(H, b)
  BY DEF KernelTables
<1>3. /\ Name(FirstProc, PMD, b) \in DOMAIN T <=> Name(FirstProc, PMD, b) \in DOMAIN S
      /\ Name(FirstProc, PMD, b) \in DOMAIN T =>
           S[Name(FirstProc, PMD, b)] = T[Name(FirstProc, PMD, b)]
  BY <1>1, SameFacts
<1> QED BY <1>2, <1>3

\* Changing tables of p leaves the others the same.
LEMMA BuiltSame ==
  ASSUME NEW T, NEW S, NEW p, NEW t, NEW u, t.proc = p, u.proc = p, ~ KernelPmd(t), ~ KernelPmd(u),
         DOMAIN S = DOMAIN T \cup {u}, \A x \in DOMAIN T \ {t} : S[x] = T[x]
  PROVE  Same(T, S, p)
BY DEF Same

\* The tables of a tree.
LEMMA TreeRows ==
  ASSUME NEW T, NEW p, NEW k, NEW M, NEW low, HasTree(T, p, k, M, low)
  PROVE  /\ Name(p, PGD, 0) \in DOMAIN T /\ DOMAIN T[Name(p, PGD, 0)] = Entries
         /\ T[Name(p, PGD, 0)][0] = UserTable(Pud(p, k))
         /\ Pud(p, k) \in DOMAIN T /\ DOMAIN T[Pud(p, k)] = Entries
         /\ \A i \in KernelSlots : T[Pud(p, k)][i] = low[i]
         /\ \A i \in UserSlots : T[Pud(p, k)][i] = Lead(T, Name(p, PMD, i))
         /\ \A b \in UserSlots, i \in Entries : Name(p, PMD, b) \in DOMAIN T =>
              /\ DOMAIN T[Name(p, PMD, b)] = Entries
              /\ T[Name(p, PMD, b)][i] = Lead(T, Name(p, PTE, b * FAN + i))
         /\ \A b \in Nat, i \in Entries : Name(p, PTE, b) \in DOMAIN T =>
              /\ DOMAIN T[Name(p, PTE, b)] = Entries
              /\ T[Name(p, PTE, b)][i] =
                   IF b * FAN + i \in M THEN ToPage(b * FAN + i) ELSE Empty
<1>1. /\ Name(p, PGD, 0) \in DOMAIN T /\ DOMAIN T[Name(p, PGD, 0)] = Entries
      /\ T[Name(p, PGD, 0)][0] = UserTable(Pud(p, k))
  BY FanFacts DEF HasTree, PgdRow
<1>2. Pud(p, k) \in DOMAIN T /\ T[Pud(p, k)] = PudRow(T, p, low)
  BY DEF HasTree
<1>3. /\ DOMAIN T[Pud(p, k)] = Entries
      /\ \A i \in KernelSlots : T[Pud(p, k)][i] = low[i]
      /\ \A i \in UserSlots : T[Pud(p, k)][i] = Lead(T, Name(p, PMD, i))
  BY <1>2, SlotsOfPud, FanFacts DEF PudRow
<1>4. Lower(T, p, M)
  BY DEF HasTree
<1>5. ASSUME NEW b \in UserSlots, NEW i \in Entries, Name(p, PMD, b) \in DOMAIN T
      PROVE  /\ DOMAIN T[Name(p, PMD, b)] = Entries
             /\ T[Name(p, PMD, b)][i] = Lead(T, Name(p, PTE, b * FAN + i))
  BY <1>4, <1>5 DEF Lower, PmdRow
<1>6. ASSUME NEW b \in Nat, NEW i \in Entries, Name(p, PTE, b) \in DOMAIN T
      PROVE  /\ DOMAIN T[Name(p, PTE, b)] = Entries
             /\ T[Name(p, PTE, b)][i] =
                  IF b * FAN + i \in M THEN ToPage(b * FAN + i) ELSE Empty
  BY <1>4, <1>6 DEF Lower, PteRow
<1> QED BY <1>1, <1>2, <1>3, <1>5, <1>6

\* The tables in a process's tree are its own.
LEMMA OwnNames ==
  ASSUME NEW p
  PROVE  /\ Name(p, PGD, 0).proc = p /\ ~ KernelPmd(Name(p, PGD, 0))
         /\ \A b \in UserSlots : Name(p, PMD, b).proc = p /\ ~ KernelPmd(Name(p, PMD, b))
         /\ \A c : Name(p, PTE, c).proc = p /\ ~ KernelPmd(Name(p, PTE, c))
         /\ \A k : Pud(p, k).proc = p /\ ~ KernelPmd(Pud(p, k))
BY NameFacts, KernelNames, Levels, SlotsOfPud

\* The tables a process may have.
LEMMA OwnTables ==
  ASSUME NEW T, NEW p, NEW k, NEW M, NEW low, HasTree(T, p, k, M, low)
  PROVE  /\ \A b : Name(p, PMD, b) \in DOMAIN T /\ ~ KernelPmd(Name(p, PMD, b)) =>
              b \in UserSlots /\ InUser(PMD, b)
         /\ \A c : Name(p, PTE, c) \in DOMAIN T =>
              /\ c \in Nat /\ c \div FAN \in UserSlots /\ InUser(PTE, c)
              /\ Name(p, PMD, c \div FAN) \in DOMAIN T
         /\ \A v \in M : v \in UserPages /\ Name(p, PTE, v \div FAN) \in DOMAIN T
<1>1. \A t \in Own(T, p) : t = Name(p, PGD, 0) \/ PudLike(p, t) \/ PmdOf(p, t) \/ PteOf(T, p, t)
  BY DEF HasTree
<1>2. ASSUME NEW b, Name(p, PMD, b) \in DOMAIN T, ~ KernelPmd(Name(p, PMD, b))
      PROVE  b \in UserSlots /\ InUser(PMD, b)
  <2> DEFINE t == Name(p, PMD, b)
  <2>1. t \in Own(T, p)
    BY <1>2, NameFacts DEF Own
  <2>2. t # Name(p, PGD, 0) /\ ~ PudLike(p, t) /\ ~ PteOf(T, p, t)
    BY NamesDiffer, Levels DEF PudLike, PteOf
  <2>3. PmdOf(p, t)
    BY <1>1, <2>1, <2>2
  <2> QED BY <2>3, NamesDiffer DEF PmdOf
<1>3. ASSUME NEW c, Name(p, PTE, c) \in DOMAIN T
      PROVE  /\ c \in Nat /\ c \div FAN \in UserSlots /\ InUser(PTE, c)
             /\ Name(p, PMD, c \div FAN) \in DOMAIN T
  <2> DEFINE t == Name(p, PTE, c)
  <2>1. t \in Own(T, p)
    BY <1>3, OwnNames DEF Own
  <2>2. t # Name(p, PGD, 0) /\ ~ PudLike(p, t) /\ ~ PmdOf(p, t)
    BY NamesDiffer, Levels DEF PudLike, PmdOf
  <2>3. PteOf(T, p, t)
    BY <1>1, <2>1, <2>2
  <2> QED BY <2>3, NamesDiffer DEF PteOf
<1>4. \A v \in M : v \in UserPages /\ Name(p, PTE, v \div FAN) \in DOMAIN T
  BY DEF HasTree, Lower
<1> QED BY <1>2, <1>3, <1>4

\* A PMD is built.
LEMMA PmdBuilt ==
  ASSUME NEW T, NEW S, NEW p, NEW k, NEW M, NEW low, HasTree(T, p, k, M, low),
         NEW b \in UserSlots, InUser(PMD, b), Name(p, PMD, b) \notin DOMAIN T,
         DOMAIN S = DOMAIN T \cup {Name(p, PMD, b)}, S[Name(p, PMD, b)] = EmptyRow,
         S[Pud(p, k)] = RowPut(T[Pud(p, k)], b, UserTable(Name(p, PMD, b))),
         \A x \in DOMAIN T \ {Pud(p, k)} : S[x] = T[x]
  PROVE  HasTree(S, p, k, M, low)
<1> DEFINE u == Name(p, PMD, b)
           t == Pud(p, k)
<1>0. S[t] = [j \in Entries |-> IF j = b THEN UserTable(u) ELSE T[t][j]]
  BY DEF RowPut
<1> USE <1>0
<1>1. /\ \A c : Name(p, PTE, c) # u /\ Name(p, PTE, c) # t
      /\ Name(p, PGD, 0) # u /\ Name(p, PGD, 0) # t /\ t # u
      /\ \A c : Name(p, PMD, c) # t /\ (Name(p, PMD, c) = u <=> c = b)
  BY NamesDiffer, Levels
<1>2. \A c : Name(p, PTE, c) \in DOMAIN S <=> Name(p, PTE, c) \in DOMAIN T
  BY <1>1
<1>3. \A c : c # b => (Name(p, PMD, c) \in DOMAIN S <=> Name(p, PMD, c) \in DOMAIN T)
  BY <1>1
<1>4. Name(p, PGD, 0) \in DOMAIN S /\ S[Name(p, PGD, 0)] = PgdRow(Pud(p, k))
  BY <1>1 DEF HasTree
<1>5. t \in DOMAIN S
  BY DEF HasTree
<1>6. S[t] = PudRow(S, p, low)
  <2>1. T[t] = PudRow(T, p, low)
    BY DEF HasTree
  <2>2. ASSUME NEW j \in Entries
        PROVE  S[t][j] = IF j < OS_ENTRIES THEN low[j] ELSE Lead(S, Name(p, PMD, j))
    <3>1. CASE j = b
      <4>1. ~ (j < OS_ENTRIES) /\ Lead(S, Name(p, PMD, j)) = UserTable(u)
        BY <3>1, SlotsOfPud, FanFacts DEF Lead
      <4> QED BY <3>1, <4>1
    <3>2. CASE j # b
      <4>1. S[t][j] = T[t][j]
        BY <3>2
      <4>2. T[t][j] = IF j < OS_ENTRIES THEN low[j] ELSE Lead(T, Name(p, PMD, j))
        BY <2>1 DEF PudRow
      <4>3. Lead(S, Name(p, PMD, j)) = Lead(T, Name(p, PMD, j))
        BY <3>2, <1>3 DEF Lead
      <4> QED BY <4>1, <4>2, <4>3
    <3> QED BY <3>1, <3>2
  <2>3. S[t] = [j \in Entries |-> S[t][j]]
    OBVIOUS
  <2> QED BY <2>2, <2>3 DEF PudRow
<1>7. \A c : Lead(S, Name(p, PTE, c)) = Lead(T, Name(p, PTE, c))
  BY <1>2 DEF Lead
<1>8. \A c : PmdRow(S, p, c) = PmdRow(T, p, c)
  BY <1>7 DEF PmdRow
<1>9. EmptyRow = PmdRow(S, p, b)
  <2>1. ASSUME NEW j \in Entries PROVE Lead(S, Name(p, PTE, b * FAN + j)) = Empty
    <3>1. (b * FAN + j) \div FAN = b
      BY DivisionIs, SlotsOfPud
    <3>2. Name(p, PTE, b * FAN + j) \notin DOMAIN T
      BY <3>1, OwnTables
    <3> QED BY <3>2, <1>2 DEF Lead
  <2> QED BY <2>1 DEF PmdRow, EmptyRow
<1>10. Lower(S, p, M)
  <2>1. Lower(T, p, M)
    BY DEF HasTree
  <2>2. ASSUME NEW c \in UserSlots, Name(p, PMD, c) \in DOMAIN S
        PROVE  S[Name(p, PMD, c)] = PmdRow(S, p, c)
    <3>1. CASE c = b
      BY <3>1, <1>9
    <3>2. CASE c # b
      <4>1. Name(p, PMD, c) \in DOMAIN T
        BY <2>2, <3>2, <1>3
      <4>2. T[Name(p, PMD, c)] = PmdRow(T, p, c)
        BY <4>1, <2>1 DEF Lower
      <4> QED BY <4>1, <4>2, <1>1, <1>8
    <3> QED BY <3>1, <3>2
  <2>3. \A c \in Nat : Name(p, PTE, c) \in DOMAIN S => S[Name(p, PTE, c)] = PteRow(M, c)
    BY <2>1, <1>1, <1>2 DEF Lower
  <2>4. M \subseteq UserPages /\ \A v \in M : Name(p, PTE, v \div FAN) \in DOMAIN S
    BY <2>1 DEF Lower
  <2> QED BY <2>2, <2>3, <2>4 DEF Lower
<1>11. \A x \in Own(S, p) : x = Name(p, PGD, 0) \/ PudLike(p, x) \/ PmdOf(p, x) \/ PteOf(S, p, x)
  <2> SUFFICES ASSUME NEW x \in Own(S, p)
               PROVE  x = Name(p, PGD, 0) \/ PudLike(p, x) \/ PmdOf(p, x) \/ PteOf(S, p, x)
    OBVIOUS
  <2>1. CASE x = u
    BY <2>1 DEF PmdOf
  <2>2. CASE x # u
    <3>1. x \in Own(T, p)
      BY <2>2 DEF Own
    <3>2. x = Name(p, PGD, 0) \/ PudLike(p, x) \/ PmdOf(p, x) \/ PteOf(T, p, x)
      BY <3>1 DEF HasTree
    <3>3. PteOf(T, p, x) => PteOf(S, p, x)
      BY DEF PteOf
    <3> QED BY <3>2, <3>3
  <2> QED BY <2>1, <2>2
<1> QED BY <1>4, <1>5, <1>6, <1>10, <1>11 DEF HasTree

\* A last table is built.
LEMMA PteBuilt ==
  ASSUME NEW T, NEW S, NEW p, NEW k, NEW M, NEW low, HasTree(T, p, k, M, low),
         NEW b \in UserSlots, NEW i \in Entries, NEW c, c = b * FAN + i, InUser(PTE, c),
         Name(p, PMD, b) \in DOMAIN T, Name(p, PTE, c) \notin DOMAIN T,
         DOMAIN S = DOMAIN T \cup {Name(p, PTE, c)}, S[Name(p, PTE, c)] = EmptyRow,
         S[Name(p, PMD, b)] = RowPut(T[Name(p, PMD, b)], i, UserTable(Name(p, PTE, c))),
         \A x \in DOMAIN T \ {Name(p, PMD, b)} : S[x] = T[x]
  PROVE  HasTree(S, p, k, M, low)
<1> DEFINE u == Name(p, PTE, c)
           t == Name(p, PMD, b)
<1>z. S[t] = [j \in Entries |-> IF j = i THEN UserTable(u) ELSE T[t][j]]
  BY DEF RowPut
<1> USE <1>z
<1>0. b \in Nat /\ c \in Nat /\ c \div FAN = b /\ c % FAN = i
  BY DivisionIs, SlotsOfPud
<1>1. /\ \A x : Name(p, PMD, x) # u /\ (Name(p, PMD, x) = t <=> x = b)
      /\ Name(p, PGD, 0) # u /\ Name(p, PGD, 0) # t /\ t # u
      /\ Pud(p, k) # u /\ Pud(p, k) # t
      /\ \A x : Name(p, PTE, x) # t /\ (Name(p, PTE, x) = u <=> x = c)
  BY NamesDiffer, Levels
<1>2. \A x : Name(p, PMD, x) \in DOMAIN S <=> Name(p, PMD, x) \in DOMAIN T
  BY <1>1
<1>3. \A x : x # c => (Name(p, PTE, x) \in DOMAIN S <=> Name(p, PTE, x) \in DOMAIN T)
  BY <1>1
<1>4. Name(p, PGD, 0) \in DOMAIN S /\ S[Name(p, PGD, 0)] = PgdRow(Pud(p, k))
  BY <1>1 DEF HasTree
<1>5. Pud(p, k) \in DOMAIN S /\ S[Pud(p, k)] = PudRow(S, p, low)
  <2>1. Pud(p, k) \in DOMAIN T /\ T[Pud(p, k)] = PudRow(T, p, low)
    BY DEF HasTree
  <2>2. \A x : Lead(S, Name(p, PMD, x)) = Lead(T, Name(p, PMD, x))
    BY <1>2 DEF Lead
  <2>3. PudRow(S, p, low) = PudRow(T, p, low)
    BY <2>2 DEF PudRow
  <2> QED BY <2>1, <2>3, <1>1
<1>6. Lower(S, p, M)
  <2>1. Lower(T, p, M)
    BY DEF HasTree
  <2>2. ASSUME NEW d \in UserSlots, Name(p, PMD, d) \in DOMAIN S
        PROVE  S[Name(p, PMD, d)] = PmdRow(S, p, d)
    <3>0. d \in Nat
      BY SlotsOfPud
    <3>1. Name(p, PMD, d) \in DOMAIN T /\ T[Name(p, PMD, d)] = PmdRow(T, p, d)
      BY <2>1, <2>2, <1>2 DEF Lower
    <3>2. ASSUME NEW j \in Entries
          PROVE  S[Name(p, PMD, d)][j] = Lead(S, Name(p, PTE, d * FAN + j))
      <4>1. (d * FAN + j) \div FAN = d /\ (d * FAN + j) % FAN = j
        BY <3>0, DivisionIs
      <4>2. CASE d = b /\ j = i
        <5>1. Name(p, PTE, d * FAN + j) = u
          BY <4>2
        <5>2. S[Name(p, PMD, d)][j] = UserTable(u)
          BY <4>2
        <5> QED BY <5>1, <5>2 DEF Lead
      <4>3. CASE d # b \/ j # i
        <5>1. d * FAN + j # c
          BY <4>1, <4>3, <1>0
        <5>2. Lead(S, Name(p, PTE, d * FAN + j)) = Lead(T, Name(p, PTE, d * FAN + j))
          BY <5>1, <1>3 DEF Lead
        <5>3. S[Name(p, PMD, d)][j] = T[Name(p, PMD, d)][j]
          BY <3>1, <4>3, <1>1
        <5>4. T[Name(p, PMD, d)][j] = Lead(T, Name(p, PTE, d * FAN + j))
          BY <3>1 DEF PmdRow
        <5> QED BY <5>2, <5>3, <5>4
      <4> QED BY <4>2, <4>3
    <3>3. S[Name(p, PMD, d)] = [j \in Entries |-> S[Name(p, PMD, d)][j]]
      <4>1. CASE d = b
        BY <4>1
      <4>2. CASE d # b
        <5>1. S[Name(p, PMD, d)] = T[Name(p, PMD, d)]
          BY <3>1, <4>2, <1>1
        <5> QED BY <5>1, <3>1 DEF PmdRow
      <4> QED BY <4>1, <4>2
    <3> QED BY <3>2, <3>3 DEF PmdRow
  <2>3. ASSUME NEW d \in Nat, Name(p, PTE, d) \in DOMAIN S
        PROVE  S[Name(p, PTE, d)] = PteRow(M, d)
    <3>1. CASE d = c
      <4>1. ASSUME NEW j \in Entries PROVE c * FAN + j \notin M
        <5>1. (c * FAN + j) \div FAN = c
          BY <1>0, DivisionIs
        <5> QED BY <5>1, OwnTables
      <4>2. EmptyRow = PteRow(M, c)
        BY <4>1 DEF EmptyRow, PteRow
      <4> QED BY <3>1, <4>2
    <3>2. CASE d # c
      <4>1. Name(p, PTE, d) \in DOMAIN T
        BY <2>3, <3>2, <1>3
      <4> QED BY <4>1, <2>1, <1>1 DEF Lower
    <3> QED BY <3>1, <3>2
  <2>4. M \subseteq UserPages /\ \A v \in M : Name(p, PTE, v \div FAN) \in DOMAIN S
    BY <2>1 DEF Lower
  <2> QED BY <2>2, <2>3, <2>4 DEF Lower
<1>7. \A x \in Own(S, p) : x = Name(p, PGD, 0) \/ PudLike(p, x) \/ PmdOf(p, x) \/ PteOf(S, p, x)
  <2> SUFFICES ASSUME NEW x \in Own(S, p)
               PROVE  x = Name(p, PGD, 0) \/ PudLike(p, x) \/ PmdOf(p, x) \/ PteOf(S, p, x)
    OBVIOUS
  <2>1. CASE x = u
    <3>1. Name(p, PMD, c \div FAN) \in DOMAIN S
      BY <1>0
    <3> QED BY <2>1, <3>1, <1>0 DEF PteOf
  <2>2. CASE x # u
    <3>1. x \in Own(T, p)
      BY <2>2 DEF Own
    <3>2. x = Name(p, PGD, 0) \/ PudLike(p, x) \/ PmdOf(p, x) \/ PteOf(T, p, x)
      BY <3>1 DEF HasTree
    <3>3. PteOf(T, p, x) => PteOf(S, p, x)
      BY DEF PteOf
    <3> QED BY <3>2, <3>3
  <2> QED BY <2>1, <2>2
<1> QED BY <1>4, <1>5, <1>6, <1>7 DEF HasTree

\* An entry of a last table is set or cleared.
PageEntry(v, M) == IF v \in M THEN ToPage(v) ELSE Empty

\* A page is mapped in a table that is there, or unmapped.
LEMMA PageChanged ==
  ASSUME NEW T, NEW S, NEW p, NEW k, NEW M, NEW low, HasTree(T, p, k, M, low),
         NEW v \in UserPages, NEW N \in SUBSET UserPages, N \ {v} = M \ {v},
         Name(p, PTE, v \div FAN) \in DOMAIN T, DOMAIN S = DOMAIN T,
         S[Name(p, PTE, v \div FAN)] =
           RowPut(T[Name(p, PTE, v \div FAN)], v % FAN, PageEntry(v, N)),
         \A x \in DOMAIN T \ {Name(p, PTE, v \div FAN)} : S[x] = T[x]
  PROVE  HasTree(S, p, k, N, low)
<1> DEFINE c == v \div FAN
           t == Name(p, PTE, c)
<1>z. S[t] = [j \in Entries |-> IF j = v % FAN THEN PageEntry(v, N) ELSE T[t][j]]
  BY DEF RowPut
<1> USE <1>z
<1>0. v \in Nat /\ c \in Nat /\ v % FAN \in Entries /\ v = c * FAN + (v % FAN)
  BY UserPageFacts, Division
<1>1. /\ \A x : Name(p, PMD, x) # t
      /\ Name(p, PGD, 0) # t /\ Pud(p, k) # t
      /\ \A x : Name(p, PTE, x) = t <=> x = c
  BY NamesDiffer, Levels
<1>2. \A u : Lead(S, u) = Lead(T, u)
  BY DEF Lead
<1>3. PudRow(S, p, low) = PudRow(T, p, low) /\ \A d : PmdRow(S, p, d) = PmdRow(T, p, d)
  BY <1>2 DEF PudRow, PmdRow
<1>4. /\ Name(p, PGD, 0) \in DOMAIN S /\ S[Name(p, PGD, 0)] = PgdRow(Pud(p, k))
      /\ Pud(p, k) \in DOMAIN S /\ S[Pud(p, k)] = PudRow(S, p, low)
  BY <1>1, <1>3 DEF HasTree
<1>5. Lower(S, p, N)
  <2>1. Lower(T, p, M)
    BY DEF HasTree
  <2>2. \A d \in UserSlots : Name(p, PMD, d) \in DOMAIN S => S[Name(p, PMD, d)] = PmdRow(S, p, d)
    BY <2>1, <1>1, <1>3 DEF Lower
  <2>3. ASSUME NEW d \in Nat, Name(p, PTE, d) \in DOMAIN S
        PROVE  S[Name(p, PTE, d)] = PteRow(N, d)
    <3>1. T[Name(p, PTE, d)] = PteRow(M, d)
      BY <2>1, <2>3 DEF Lower
    <3>2. ASSUME NEW j \in Entries, d # c \/ j # v % FAN
          PROVE  PageEntry(d * FAN + j, M) = PageEntry(d * FAN + j, N)
      <4>1. (d * FAN + j) \div FAN = d /\ (d * FAN + j) % FAN = j
        BY DivisionIs
      <4>2. d * FAN + j # v
        BY <3>2, <4>1
      <4> QED BY <4>2 DEF PageEntry
    <3>3. \A j \in Entries : T[Name(p, PTE, d)][j] = PageEntry(d * FAN + j, M)
      BY <3>1 DEF PteRow, PageEntry
    <3>4. ASSUME NEW j \in Entries PROVE S[Name(p, PTE, d)][j] = PageEntry(d * FAN + j, N)
      <4>1. CASE d = c /\ j = v % FAN
        <5>1. d * FAN + j = v
          BY <4>1, <1>0
        <5>2. S[Name(p, PTE, d)][j] = PageEntry(v, N)
          BY <4>1
        <5> QED BY <5>1, <5>2
      <4>2. CASE d = c /\ j # v % FAN
        BY <4>2, <3>2, <3>3
      <4>3. CASE d # c
        <5>1. S[Name(p, PTE, d)] = T[Name(p, PTE, d)]
          BY <4>3, <1>1, <2>3
        <5> QED BY <5>1, <4>3, <3>2, <3>3
      <4> QED BY <4>1, <4>2, <4>3
    <3>5. S[Name(p, PTE, d)] = [j \in Entries |-> S[Name(p, PTE, d)][j]]
      <4>1. CASE d = c
        BY <4>1
      <4>2. CASE d # c
        <5>1. S[Name(p, PTE, d)] = T[Name(p, PTE, d)]
          BY <4>2, <1>1, <2>3
        <5> QED BY <5>1, <3>1 DEF PteRow
      <4> QED BY <4>1, <4>2
    <3> QED BY <3>4, <3>5 DEF PteRow, PageEntry
  <2>4. N \subseteq UserPages /\ \A w \in N : Name(p, PTE, w \div FAN) \in DOMAIN S
    <3>1. ASSUME NEW w \in N PROVE Name(p, PTE, w \div FAN) \in DOMAIN S
      <4>1. w = v \/ w \in M
        OBVIOUS
      <4> QED BY <4>1, <2>1 DEF Lower
    <3> QED BY <3>1
  <2> QED BY <2>2, <2>3, <2>4 DEF Lower
<1>6. \A x \in Own(S, p) : x = Name(p, PGD, 0) \/ PudLike(p, x) \/ PmdOf(p, x) \/ PteOf(S, p, x)
  <2> SUFFICES ASSUME NEW x \in Own(S, p)
               PROVE  x = Name(p, PGD, 0) \/ PudLike(p, x) \/ PmdOf(p, x) \/ PteOf(S, p, x)
    OBVIOUS
  <2>1. x \in Own(T, p)
    BY DEF Own
  <2>2. x = Name(p, PGD, 0) \/ PudLike(p, x) \/ PmdOf(p, x) \/ PteOf(T, p, x)
    BY <2>1 DEF HasTree
  <2>3. PteOf(T, p, x) => PteOf(S, p, x)
    BY DEF PteOf
  <2> QED BY <2>2, <2>3
<1> QED BY <1>4, <1>5, <1>6 DEF HasTree

\* A walk is at a table of the tree that T became.
At(T, r, p, k, M, low, t) ==
  /\ r.at = t /\ t \in DOMAIN r.tables
  /\ HasTree(r.tables, p, k, M, low)
  /\ Fine(r.tables)
  /\ Same(T, r.tables, p)

LEMMA SameItself ==
  ASSUME NEW T, NEW p
  PROVE  Same(T, T, p)
BY DEF Same

\* The walk goes from the PUD to the PMD of the page, from there to its last
\* table, and from the top to the PUD.
LEMMA StepToPmd ==
  ASSUME NEW T, NEW p, NEW k, NEW M, NEW low, HasTree(T, p, k, M, low), Fine(T),
         NEW v \in UserRange
  PROVE  At(T, UserBelow(T, Pud(p, k), p, v, PUD), p, k, M, low,
            Name(p, PMD, (v \div FAN) \div FAN))
<1> DEFINE b == (v \div FAN) \div FAN
           t == Pud(p, k)
           u == Name(p, PMD, b)
           r == UserBelow(T, t, p, v, PUD)
<1>1. b \in UserSlots /\ InUser(PMD, b) /\ Index(v, PUD) = b /\ Slot(v, PUD) = b /\ b \in Entries
  BY PlaceFacts, SlotsOfPud
<1> HIDE DEF b
<1>2. t \in DOMAIN T /\ DOMAIN T[t] = Entries /\ T[t][b] = Lead(T, u)
  BY <1>1, TreeRows
<1>3. CASE u \in DOMAIN T
  <2>1. T[t][b] # Empty /\ T[t][b].to = u
    BY <1>2, <1>3, EntryFacts DEF Lead
  <2>2. r = [tables |-> T, at |-> u]
    BY <2>1, <1>1, UserBelowFacts
  <2> QED BY <2>2, <1>3, SameItself DEF At, b
<1>4. CASE u \notin DOMAIN T
  <2> DEFINE S == Built(T, u, t, b, UserTable(u))
  <2>1. T[t][b] = Empty
    BY <1>2, <1>4 DEF Lead
  <2>2. NewTable(T, p, PUD - 1, b) = u
    <3>1. PUD - 1 = PMD
      BY Levels
    <3> QED BY <3>1, <1>4, NewTableFacts
  <2>3. r = [tables |-> S, at |-> u]
    BY <2>1, <2>2, <1>1, UserBelowFacts
  <2>4. /\ DOMAIN S = DOMAIN T \cup {u} /\ S[u] = EmptyRow
        /\ S[t] = RowPut(T[t], b, UserTable(u))
        /\ \A x \in DOMAIN T \ {t} : S[x] = T[x]
    <3>1. t \in DOMAIN T /\ u \notin DOMAIN T /\ b \in Entries /\ DOMAIN T[t] = Entries
      BY <1>1, <1>2, <1>4
    <3> HIDE DEF t, u
    <3>2. IsBuilt(T, Built(T, u, t, b, UserTable(u)), u, t, b, UserTable(u))
      BY <3>1, BuiltFacts
    <3> QED BY <3>2 DEF IsBuilt
  <2> HIDE DEF S
  <2>5. HasTree(S, p, k, M, low)
    BY <1>1, <1>4, <2>4, PmdBuilt
  <2>6. Fine(S)
    <3>1. IsRow(S[u]) /\ IsRow(S[t])
      BY <2>4, Rows
    <3>2. DOMAIN S = DOMAIN T \cup {u} /\ \A x \in DOMAIN T \ {u, t} : S[x] = T[x]
      BY <2>4
    <3> HIDE DEF t, u
    <3> QED BY <3>1, <3>2, FineStays
  <2>7. Same(T, S, p)
    <3>1. t.proc = p /\ u.proc = p /\ ~ KernelPmd(t) /\ ~ KernelPmd(u)
      BY <1>1, OwnNames
    <3> HIDE DEF t, u
    <3> QED BY <3>1, <2>4, BuiltSame
  <2>8. u \in DOMAIN S
    BY <2>4
  <2> QED BY <2>3, <2>5, <2>6, <2>7, <2>8 DEF At, b
<1> QED BY <1>3, <1>4

LEMMA StepToPte ==
  ASSUME NEW T, NEW p, NEW k, NEW M, NEW low, HasTree(T, p, k, M, low), Fine(T),
         NEW v \in UserRange, Name(p, PMD, (v \div FAN) \div FAN) \in DOMAIN T
  PROVE  At(T, UserBelow(T, Name(p, PMD, (v \div FAN) \div FAN), p, v, PMD), p, k, M, low,
            Name(p, PTE, v \div FAN))
<1> DEFINE c == v \div FAN
           b == (v \div FAN) \div FAN
           i == (v \div FAN) % FAN
           t == Name(p, PMD, b)
           u == Name(p, PTE, c)
           r == UserBelow(T, t, p, v, PMD)
<1>1. /\ b \in UserSlots /\ i \in Entries /\ c = b * FAN + i /\ InUser(PTE, c)
      /\ Index(v, PMD) = i /\ Slot(v, PMD) = c
  BY PlaceFacts
<1>0. t \in DOMAIN T
  OBVIOUS
<1> HIDE DEF b, i, c
<1>2. DOMAIN T[t] = Entries /\ T[t][i] = Lead(T, u)
  <2>1. DOMAIN T[t] = Entries /\ T[t][i] = Lead(T, Name(p, PTE, b * FAN + i))
    BY <1>0, <1>1, TreeRows
  <2> QED BY <2>1, <1>1
<1>3. CASE u \in DOMAIN T
  <2>1. T[t][i] # Empty /\ T[t][i].to = u
    BY <1>2, <1>3, EntryFacts DEF Lead
  <2>2. r = [tables |-> T, at |-> u]
    BY <2>1, <1>1, UserBelowFacts
  <2> QED BY <2>2, <1>3, SameItself DEF At, b, c
<1>4. CASE u \notin DOMAIN T
  <2> DEFINE S == Built(T, u, t, i, UserTable(u))
  <2>1. T[t][i] = Empty
    BY <1>2, <1>4 DEF Lead
  <2>2. NewTable(T, p, PMD - 1, c) = u
    <3>1. PMD - 1 = PTE
      BY Levels
    <3> QED BY <3>1, <1>4, NewTableFacts
  <2>3. r = [tables |-> S, at |-> u]
    BY <2>1, <2>2, <1>1, UserBelowFacts
  <2>4. /\ DOMAIN S = DOMAIN T \cup {u} /\ S[u] = EmptyRow
        /\ S[t] = RowPut(T[t], i, UserTable(u))
        /\ \A x \in DOMAIN T \ {t} : S[x] = T[x]
    <3>1. t \in DOMAIN T /\ u \notin DOMAIN T /\ i \in Entries /\ DOMAIN T[t] = Entries
      BY <1>0, <1>1, <1>2, <1>4
    <3> HIDE DEF t, u
    <3>2. IsBuilt(T, Built(T, u, t, i, UserTable(u)), u, t, i, UserTable(u))
      BY <3>1, BuiltFacts
    <3> QED BY <3>2 DEF IsBuilt
  <2> HIDE DEF S
  <2>5. HasTree(S, p, k, M, low)
    BY <1>0, <1>1, <1>4, <2>4, PteBuilt
  <2>6. Fine(S)
    <3>1. IsRow(S[u]) /\ IsRow(S[t])
      BY <2>4, Rows
    <3>2. DOMAIN S = DOMAIN T \cup {u} /\ \A x \in DOMAIN T \ {u, t} : S[x] = T[x]
      BY <2>4
    <3> HIDE DEF t, u
    <3> QED BY <3>1, <3>2, FineStays
  <2>7. Same(T, S, p)
    <3>1. t.proc = p /\ u.proc = p /\ ~ KernelPmd(t) /\ ~ KernelPmd(u)
      BY <1>1, OwnNames
    <3> HIDE DEF t, u
    <3> QED BY <3>1, <2>4, BuiltSame
  <2>8. u \in DOMAIN S
    BY <2>4
  <2> QED BY <2>3, <2>5, <2>6, <2>7, <2>8 DEF At, b, c
<1> QED BY <1>3, <1>4

LEMMA StepToPud ==
  ASSUME NEW T, NEW p, NEW k, NEW M, NEW low, HasTree(T, p, k, M, low), Fine(T),
         NEW v, Index(v, PGD) = 0
  PROVE  /\ At(T, UserBelow(T, Name(p, PGD, 0), p, v, PGD), p, k, M, low, Pud(p, k))
         /\ At(T, KernelBelow(T, Name(p, PGD, 0), p, v, PGD), p, k, M, low, Pud(p, k))
<1> DEFINE t == Name(p, PGD, 0)
           u == Pud(p, k)
<1>1. T[t][0] # Empty /\ T[t][0].to = u /\ u \in DOMAIN T
  BY TreeRows, EntryFacts
<1>2. /\ UserBelow(T, t, p, v, PGD) = [tables |-> T, at |-> u]
      /\ KernelBelow(T, t, p, v, PGD) = [tables |-> T, at |-> u]
  BY <1>1, UserBelowFacts, KernelBelowFacts
<1> QED BY <1>1, <1>2, SameItself DEF At

\* The top of a tree that has nothing yet.
Bare(T, p) ==
  /\ Name(p, PGD, 0) \in DOMAIN T /\ T[Name(p, PGD, 0)] = EmptyRow
  /\ \A t \in Own(T, p) : t = Name(p, PGD, 0) \/ PudLike(p, t)

\* The first walk from a bare top builds the PUD.
LEMMA FirstPud ==
  ASSUME NEW T, NEW p, Bare(T, p), Fine(T), NEW v \in UserRange
  PROVE  \E k \in Nat :
           At(T, UserBelow(T, Name(p, PGD, 0), p, v, PGD), p, k, {}, Low({}), Pud(p, k))
<1> DEFINE t == Name(p, PGD, 0)
           u == NewTable(T, p, PUD, 0)
           S == Built(T, u, t, 0, UserTable(u))
<1>1. t \in DOMAIN T /\ T[t] = EmptyRow
  BY DEF Bare
<1>2. DOMAIN T[t] = Entries /\ T[t][0] = Empty /\ 0 \in Entries
  BY <1>1, FanFacts DEF EmptyRow
<1>3. Index(v, PGD) = 0 /\ Slot(v, PGD) = 0 /\ PGD - 1 = PUD
  BY PlaceFacts, Levels
<1>4. UserBelow(T, t, p, v, PGD) = [tables |-> S, at |-> u]
  BY <1>2, <1>3, UserBelowFacts
<1>5. PICK k \in Nat : u = Pud(p, k)
  BY NewTableFacts DEF Pud
<1>6. u \notin DOMAIN T
  BY NewTableFacts
<1> HIDE DEF u
<1>7. /\ DOMAIN S = DOMAIN T \cup {u} /\ S[u] = EmptyRow
      /\ S[t] = RowPut(T[t], 0, UserTable(u))
      /\ \A x \in DOMAIN T \ {t} : S[x] = T[x]
  <2> HIDE DEF t
  <2>1. IsBuilt(T, Built(T, u, t, 0, UserTable(u)), u, t, 0, UserTable(u))
    BY <1>1, <1>2, <1>6, BuiltFacts
  <2> QED BY <2>1 DEF IsBuilt
<1> HIDE DEF S
<1>8. S[t] = PgdRow(u)
  BY <1>7, <1>1 DEF EmptyRow, PgdRow, RowPut
<1>9. /\ \A b \in UserSlots : Name(p, PMD, b) \notin DOMAIN S
      /\ \A c : Name(p, PTE, c) \notin DOMAIN S
  <2>1. ASSUME NEW b \in UserSlots PROVE Name(p, PMD, b) \notin DOMAIN S
    <3>1. Name(p, PMD, b) \notin DOMAIN T
      BY OwnNames, NamesDiffer, Levels DEF Bare, Own, PudLike
    <3> QED BY <3>1, <1>5, <1>7, NamesDiffer, Levels
  <2>2. ASSUME NEW c PROVE Name(p, PTE, c) \notin DOMAIN S
    <3>1. Name(p, PTE, c) \notin DOMAIN T
      BY OwnNames, NamesDiffer, Levels DEF Bare, Own, PudLike
    <3> QED BY <3>1, <1>5, <1>7, NamesDiffer, Levels
  <2> QED BY <2>1, <2>2
<1>10. S[u] = PudRow(S, p, Low({}))
  <2>1. ASSUME NEW i \in Entries
        PROVE  Empty = IF i < OS_ENTRIES THEN Low({})[i] ELSE Lead(S, Name(p, PMD, i))
    <3>1. CASE i \in KernelSlots
      BY <3>1, SlotsOfPud DEF Low
    <3>2. CASE i \in UserSlots
      BY <3>2, <1>9, SlotsOfPud, FanFacts DEF Lead
    <3> QED BY <3>1, <3>2, SlotsOfPud
  <2> QED BY <2>1, <1>7 DEF PudRow, EmptyRow
<1>11. Lower(S, p, {})
  <2>1. \A b \in UserSlots : Name(p, PMD, b) \in DOMAIN S => S[Name(p, PMD, b)] = PmdRow(S, p, b)
    BY <1>9
  <2>2. \A b \in Nat : Name(p, PTE, b) \in DOMAIN S => S[Name(p, PTE, b)] = PteRow({}, b)
    BY <1>9
  <2> QED BY <2>1, <2>2 DEF Lower
<1>12. \A x \in Own(S, p) : x = t \/ PudLike(p, x)
  BY <1>5, <1>7 DEF Bare, Own, PudLike
<1>13. HasTree(S, p, k, {}, Low({}))
  BY <1>1, <1>5, <1>7, <1>8, <1>10, <1>11, <1>12 DEF HasTree
<1>14. Fine(S)
  <2>1. IsRow(S[u]) /\ IsRow(S[t])
    BY <1>7, Rows
  <2>2. DOMAIN S = DOMAIN T \cup {u} /\ \A x \in DOMAIN T \ {u, t} : S[x] = T[x]
    BY <1>7
  <2> HIDE DEF t, u
  <2> QED BY <2>1, <2>2, FineStays
<1>15. Same(T, S, p)
  <2>1. t.proc = p /\ u.proc = p /\ ~ KernelPmd(t) /\ ~ KernelPmd(u)
    BY <1>5, OwnNames
  <2> HIDE DEF t
  <2> QED BY <2>1, <1>7, BuiltSame
<1> QED BY <1>4, <1>5, <1>7, <1>13, <1>14, <1>15 DEF At

\* A walk carries the tables and where it is.
LEMMA WalkRecords ==
  ASSUME NEW T, NEW t, NEW p, NEW v, NEW level
  PROVE  /\ UserBelow(T, t, p, v, level)
              = [tables |-> UserBelow(T, t, p, v, level).tables,
                 at |-> UserBelow(T, t, p, v, level).at]
         /\ KernelBelow(T, t, p, v, level)
              = [tables |-> KernelBelow(T, t, p, v, level).tables,
                 at |-> KernelBelow(T, t, p, v, level).at]
<1>1. CASE T[t][Index(v, level)] = Empty
  BY <1>1, UserBelowFacts, KernelBelowFacts
<1>2. CASE T[t][Index(v, level)] # Empty
  BY <1>2, UserBelowFacts, KernelBelowFacts
<1> QED BY <1>1, <1>2

\* map_physical_page is three steps down and an entry.
LEMMA MapIsSteps ==
  ASSUME NEW T, NEW p, NEW top, NEW v
  PROVE  LET a == UserBelow(T, top, p, v, PGD)
             b == UserBelow(a.tables, a.at, p, v, PUD)
             c == UserBelow(b.tables, b.at, p, v, PMD)
         IN MapPhysicalPage(T, p, top, v) = Put(c.tables, c.at, Index(v, PTE), ToPage(v))
<1> DEFINE a == UserBelow(T, top, p, v, PGD)
           b == UserBelow(a.tables, a.at, p, v, PUD)
           c == UserBelow(b.tables, b.at, p, v, PMD)
           x == Below([tables |-> T, at |-> top], p, v, PGD, TRUE)
           y == Below(x, p, v, PUD, TRUE)
           z == Below(y, p, v, PMD, TRUE)
<1>1. MapPhysicalPage(T, p, top, v) = [z.tables EXCEPT ![z.at][Index(v, PTE)] = ToPage(v)]
  BY DEF MapPhysicalPage
<1>2. x = a
  BY DEF UserBelow
<1>3. y = b
  <2>1. a = [tables |-> a.tables, at |-> a.at]
    BY WalkRecords
  <2> HIDE DEF a, x
  <2> QED BY <2>1, <1>2 DEF UserBelow
<1>4. z = c
  <2>1. b = [tables |-> b.tables, at |-> b.at]
    BY WalkRecords
  <2> HIDE DEF b, y
  <2> QED BY <2>1, <1>3 DEF UserBelow
<1> HIDE DEF c, z
<1> QED BY <1>1, <1>4 DEF Put, c

\* From the PUD on.
LEMMA MapBelowPud ==
  ASSUME NEW T, NEW a, NEW p, NEW k, NEW M, NEW low, At(T, a, p, k, M, low, Pud(p, k)),
         NEW v \in UserPages
  PROVE  LET b == UserBelow(a.tables, a.at, p, v, PUD)
             c == UserBelow(b.tables, b.at, p, v, PMD)
             S == Put(c.tables, c.at, Index(v, PTE), ToPage(v))
         IN /\ HasTree(S, p, k, M \cup {v}, low)
            /\ Fine(S) /\ Same(T, S, p)
<1> DEFINE b == UserBelow(a.tables, a.at, p, v, PUD)
           c == UserBelow(b.tables, b.at, p, v, PMD)
           S == Put(c.tables, c.at, Index(v, PTE), ToPage(v))
           m == Name(p, PMD, (v \div FAN) \div FAN)
           t == Name(p, PTE, v \div FAN)
<1>0. v \in UserRange
  BY UserPageFacts
<1>1. /\ a.at = Pud(p, k) /\ HasTree(a.tables, p, k, M, low)
      /\ Fine(a.tables) /\ Same(T, a.tables, p)
  BY DEF At
<1>2. At(a.tables, b, p, k, M, low, m)
  <2>1. At(a.tables, UserBelow(a.tables, Pud(p, k), p, v, PUD), p, k, M, low, m)
    BY <1>0, <1>1, StepToPmd
  <2> QED BY <2>1, <1>1
<1> HIDE DEF b
<1>3. /\ b.at = m /\ m \in DOMAIN b.tables /\ HasTree(b.tables, p, k, M, low)
      /\ Fine(b.tables) /\ Same(a.tables, b.tables, p)
  BY <1>2 DEF At
<1>4. At(b.tables, c, p, k, M, low, t)
  <2>1. At(b.tables, UserBelow(b.tables, m, p, v, PMD), p, k, M, low, t)
    BY <1>0, <1>3, StepToPte
  <2> QED BY <2>1, <1>3
<1> HIDE DEF c
<1>5. /\ c.at = t /\ t \in DOMAIN c.tables /\ HasTree(c.tables, p, k, M, low)
      /\ Fine(c.tables) /\ Same(b.tables, c.tables, p)
  BY <1>4 DEF At
<1>6. Index(v, PTE) = v % FAN /\ v % FAN \in Entries /\ v \div FAN \in Nat
  BY <1>0, PlaceFacts
<1>7. DOMAIN c.tables[t] = Entries
  BY <1>5, <1>6, TreeRows
<1>8. /\ DOMAIN S = DOMAIN c.tables
      /\ S[t] = RowPut(c.tables[t], v % FAN, ToPage(v))
      /\ \A x \in DOMAIN c.tables \ {t} : S[x] = c.tables[x]
  BY <1>5, <1>6, <1>7, PutFacts
<1> HIDE DEF S
<1>9. HasTree(S, p, k, M \cup {v}, low)
  <2>1. M \cup {v} \in SUBSET UserPages /\ (M \cup {v}) \ {v} = M \ {v}
    BY <1>5, OwnTables
  <2>2. ToPage(v) = PageEntry(v, M \cup {v})
    BY DEF PageEntry
  <2>3. S[t] = RowPut(c.tables[t], v % FAN, PageEntry(v, M \cup {v}))
    BY <1>8, <2>2
  <2> QED BY <2>1, <2>3, <1>5, <1>8, PageChanged
<1>10. Fine(S)
  <2>1. IsRow(S[t]) /\ DOMAIN S = DOMAIN c.tables \cup {t}
    BY <1>5, <1>8, Rows
  <2>2. \A x \in DOMAIN c.tables \ {t, t} : S[x] = c.tables[x]
    BY <1>8
  <2>3. Fine(c.tables)
    BY <1>5
  <2> HIDE DEF t
  <2> QED BY <2>1, <2>2, <2>3, FineStays
<1>11. Same(c.tables, S, p)
  <2>1. t.proc = p /\ ~ KernelPmd(t)
    BY OwnNames
  <2> HIDE DEF t
  <2> QED BY <2>1, <1>8 DEF Same
<1>12. Same(T, S, p)
  BY <1>1, <1>3, <1>5, <1>11, SameIsSame
<1> QED BY <1>9, <1>10, <1>12 DEF S, c, b

\* map_physical_page adds the page to the tree.
LEMMA MapFacts ==
  ASSUME NEW T, NEW p, Fine(T), NEW v \in UserPages, NEW k, NEW M, NEW low,
         HasTree(T, p, k, M, low)
  PROVE  LET S == MapPhysicalPage(T, p, Name(p, PGD, 0), v)
         IN /\ HasTree(S, p, k, M \cup {v}, low)
            /\ Fine(S) /\ Same(T, S, p)
<1> DEFINE a == UserBelow(T, Name(p, PGD, 0), p, v, PGD)
<1>1. v \in UserRange /\ Index(v, PGD) = 0
  BY UserPageFacts, PlaceFacts
<1>2. At(T, a, p, k, M, low, Pud(p, k))
  BY <1>1, StepToPud
<1> HIDE DEF a
<1> DEFINE b == UserBelow(a.tables, a.at, p, v, PUD)
           c == UserBelow(b.tables, b.at, p, v, PMD)
           S == Put(c.tables, c.at, Index(v, PTE), ToPage(v))
<1>3. /\ HasTree(S, p, k, M \cup {v}, low)
      /\ Fine(S) /\ Same(T, S, p)
  BY <1>2, MapBelowPud
<1>4. MapPhysicalPage(T, p, Name(p, PGD, 0), v) = S
  BY MapIsSteps DEF a
<1> HIDE DEF S
<1> QED BY <1>3, <1>4

\* The first page a process maps makes its tree.
LEMMA FirstMapFacts ==
  ASSUME NEW T, NEW p, Fine(T), NEW v \in UserPages, Bare(T, p)
  PROVE  LET S == MapPhysicalPage(T, p, Name(p, PGD, 0), v)
         IN /\ \E k \in Nat : HasTree(S, p, k, {v}, Low({}))
            /\ Fine(S) /\ Same(T, S, p)
<1> DEFINE a == UserBelow(T, Name(p, PGD, 0), p, v, PGD)
<1>1. v \in UserRange
  BY UserPageFacts
<1>2. PICK k \in Nat : At(T, a, p, k, {}, Low({}), Pud(p, k))
  BY <1>1, FirstPud
<1> HIDE DEF a
<1> DEFINE b == UserBelow(a.tables, a.at, p, v, PUD)
           c == UserBelow(b.tables, b.at, p, v, PMD)
           S == Put(c.tables, c.at, Index(v, PTE), ToPage(v))
<1>3. /\ HasTree(S, p, k, {} \cup {v}, Low({}))
      /\ Fine(S) /\ Same(T, S, p)
  BY <1>2, MapBelowPud
<1>4. MapPhysicalPage(T, p, Name(p, PGD, 0), v) = S
  BY MapIsSteps DEF a
<1>5. {} \cup {v} = {v}
  OBVIOUS
<1> HIDE DEF S
<1> QED BY <1>3, <1>4, <1>5

-----------------------------------------------------------------------------
(* The loops                                                               *)

\* f holds the tables from page CODE_START to page n.
Mapped(T, p, top, wanted, n, f) ==
  f = [v \in CODE_START .. n |->
         IF v = CODE_START THEN T
         ELSE IF v - 1 \in wanted THEN MapPhysicalPage(f[v - 1], p, top, v - 1)
         ELSE f[v - 1]]

\* The loop over a range has a value at each of its pages, so that the function
\* that MapAll chooses is the one its equation describes.
LEMMA MappedExists ==
  ASSUME NEW T, NEW p, NEW top, NEW wanted, NEW n \in Nat
  PROVE  \E f : Mapped(T, p, top, wanted, CODE_START + n, f)
<1> DEFINE Next1(g, v) == IF v - 1 \in wanted THEN MapPhysicalPage(g, p, top, v - 1) ELSE g
           S == {m \in Nat : \E f : Mapped(T, p, top, wanted, CODE_START + m, f)}
<1>0. ASSUME NEW m \in Nat, NEW f
      PROVE  Mapped(T, p, top, wanted, CODE_START + m, f) <=>
               f = [v \in CODE_START .. CODE_START + m |->
                      IF v = CODE_START THEN T ELSE Next1(f[v - 1], v)]
  <2> QED BY DEF Mapped
<1> HIDE DEF Next1
<1>1. 0 \in S
  <2> DEFINE f == [v \in CODE_START .. CODE_START + 0 |-> T]
  <2>1. \A v \in CODE_START .. CODE_START + 0 : v = CODE_START
    BY FanFacts
  <2>2. f = [v \in CODE_START .. CODE_START + 0 |->
               IF v = CODE_START THEN T ELSE Next1(f[v - 1], v)]
    BY <2>1
  <2>3. Mapped(T, p, top, wanted, CODE_START + 0, f)
    BY <1>0, <2>2
  <2> QED BY <2>3
<1>2. ASSUME NEW m \in Nat, m \in S PROVE m + 1 \in S
  <2>1. PICK f : Mapped(T, p, top, wanted, CODE_START + m, f)
    BY <1>2
  <2>2. f = [v \in CODE_START .. CODE_START + m |->
               IF v = CODE_START THEN T ELSE Next1(f[v - 1], v)]
    BY <1>0, <2>1
  <2> DEFINE last == CODE_START + (m + 1)
             g == [v \in CODE_START .. last |->
                     IF v # last THEN f[v] ELSE Next1(f[CODE_START + m], last)]
  <2>3. last - 1 = CODE_START + m /\ last \in Nat /\ CODE_START < last
    BY FanFacts
  <2>4. ASSUME NEW v \in CODE_START .. last
        PROVE  g[v] = IF v = CODE_START THEN T ELSE Next1(g[v - 1], v)
    <3>1. CASE v = CODE_START
      <4>1. g[v] = f[v] /\ v \in CODE_START .. CODE_START + m
        BY <3>1, <2>3, FanFacts
      <4>2. f[v] = T
        BY <2>2, <3>1, <4>1
      <4> QED BY <3>1, <4>1, <4>2
    <3>2. CASE v # CODE_START /\ v # last
      <4>1. /\ g[v] = f[v] /\ v \in CODE_START .. CODE_START + m
            /\ v - 1 \in CODE_START .. last /\ v - 1 # last /\ g[v - 1] = f[v - 1]
        BY <3>2, <2>3, FanFacts
      <4>2. f[v] = Next1(f[v - 1], v)
        BY <2>2, <3>2, <4>1
      <4> QED BY <3>2, <4>1, <4>2
    <3>3. CASE v = last
      <4>1. g[v] = Next1(f[CODE_START + m], last)
        BY <3>3
      <4>2. v - 1 \in CODE_START .. last /\ v - 1 # last /\ v - 1 = CODE_START + m
        BY <3>3, <2>3, FanFacts
      <4>3. g[v - 1] = f[CODE_START + m]
        BY <4>2
      <4> QED BY <3>3, <4>1, <4>3, <2>3, FanFacts
    <3> QED BY <3>1, <3>2, <3>3
  <2>5. g = [v \in CODE_START .. last |-> g[v]]
    OBVIOUS
  <2> HIDE DEF g
  <2>6. g = [v \in CODE_START .. CODE_START + (m + 1) |->
               IF v = CODE_START THEN T ELSE Next1(g[v - 1], v)]
    BY <2>4, <2>5
  <2>7. Mapped(T, p, top, wanted, CODE_START + (m + 1), g)
    BY <2>6 DEF Mapped, Next1
  <2> QED BY <2>7
<1> HIDE DEF S
<1>3. Nat \subseteq S
  BY <1>1, <1>2, SetInduction
<1> QED BY <1>3 DEF S

\* MapAll maps the pages one after the other.
LEMMA MapAllFacts ==
  ASSUME NEW T, NEW p, NEW top, NEW wanted
  PROVE  \E f : /\ f[CODE_START] = T /\ MapAll(T, p, top, wanted) = f[STACK_START]
                /\ \A v \in UserRange \ {STACK_START} :
                     /\ v \in wanted => f[v + 1] = MapPhysicalPage(f[v], p, top, v)
                     /\ v \notin wanted => f[v + 1] = f[v]
<1> DEFINE f == CHOOSE f : Mapped(T, p, top, wanted, STACK_START, f)
<1>1. MapAll(T, p, top, wanted) = f[STACK_START]
  BY DEF MapAll, Mapped
<1>2. Mapped(T, p, top, wanted, STACK_START, f)
  <2>1. PICK n \in Nat : STACK_START = CODE_START + n
    <3>1. CODE_START <= STACK_START
      BY TreeAssumption DEF UserPages
    <3>2. STACK_START - CODE_START \in Nat /\ STACK_START = CODE_START + (STACK_START - CODE_START)
      BY <3>1, FanFacts
    <3> QED BY <3>2
  <2>2. \E g : Mapped(T, p, top, wanted, STACK_START, g)
    BY <2>1, MappedExists
  <2> QED BY <2>2
<1> HIDE DEF f
<1>3. f = [v \in CODE_START .. STACK_START |->
             IF v = CODE_START THEN T
             ELSE IF v - 1 \in wanted THEN MapPhysicalPage(f[v - 1], p, top, v - 1)
             ELSE f[v - 1]]
  BY <1>2 DEF Mapped
<1>4. CODE_START \in CODE_START .. STACK_START
  BY TreeAssumption DEF UserPages
<1>5. f[CODE_START] = T
  BY <1>3, <1>4
<1>6. ASSUME NEW v \in UserRange \ {STACK_START}
      PROVE  /\ v \in wanted => f[v + 1] = MapPhysicalPage(f[v], p, top, v)
             /\ v \notin wanted => f[v + 1] = f[v]
  <2>1. v + 1 \in CODE_START .. STACK_START /\ v + 1 # CODE_START /\ (v + 1) - 1 = v
    BY FanFacts DEF UserRange
  <2>2. f[v + 1] = IF (v + 1) - 1 \in wanted THEN MapPhysicalPage(f[(v + 1) - 1], p, top, (v + 1) - 1)
                   ELSE f[(v + 1) - 1]
    BY <1>3, <2>1
  <2> QED BY <2>1, <2>2
<1> QED BY <1>1, <1>5, <1>6

\* Induction over the pages of the user.
LEMMA PageInduction ==
  ASSUME NEW S, CODE_START \in S, \A v \in UserRange \ {STACK_START} : v \in S => v + 1 \in S
  PROVE  STACK_START \in S
<1> DEFINE R == {n \in Nat : CODE_START + n <= STACK_START => CODE_START + n \in S}
<1>1. 0 \in R
  BY FanFacts
<1>2. ASSUME NEW n \in Nat, n \in R PROVE n + 1 \in R
  <2> SUFFICES ASSUME CODE_START + (n + 1) <= STACK_START PROVE CODE_START + (n + 1) \in S
    OBVIOUS
  <2>1. CODE_START + n \in UserRange \ {STACK_START} /\ CODE_START + n <= STACK_START
    BY FanFacts DEF UserRange
  <2>2. (CODE_START + n) + 1 \in S
    BY <2>1, <1>2
  <2>3. (CODE_START + n) + 1 = CODE_START + (n + 1)
    BY FanFacts
  <2> QED BY <2>2, <2>3
<1> HIDE DEF R
<1>3. Nat \subseteq R
  BY <1>1, <1>2, SetInduction
<1>4. CODE_START <= STACK_START
  BY TreeAssumption DEF UserPages
<1>5. STACK_START - CODE_START \in Nat /\ CODE_START + (STACK_START - CODE_START) = STACK_START
  BY <1>4, FanFacts
<1>6. STACK_START - CODE_START \in R
  BY <1>3, <1>5
<1> QED BY <1>5, <1>6, FanFacts DEF R

\* Pages are added to a tree.
LEMMA MapAllGrows ==
  ASSUME NEW T, NEW p, Fine(T), NEW wanted \in SUBSET UserPages,
         NEW k, NEW M, NEW low, HasTree(T, p, k, M, low)
  PROVE  LET S == MapAll(T, p, Name(p, PGD, 0), wanted)
         IN /\ HasTree(S, p, k, M \cup wanted, low)
            /\ Fine(S) /\ Same(T, S, p)
<1> DEFINE top == Name(p, PGD, 0)
<1>1. PICK f : /\ f[CODE_START] = T /\ MapAll(T, p, top, wanted) = f[STACK_START]
               /\ \A v \in UserRange \ {STACK_START} :
                    /\ v \in wanted => f[v + 1] = MapPhysicalPage(f[v], p, top, v)
                    /\ v \notin wanted => f[v + 1] = f[v]
  BY MapAllFacts
<1> DEFINE Sofar(v) == {w \in wanted : w < v}
           Good(v) == /\ HasTree(f[v], p, k, M \cup Sofar(v), low)
                      /\ Fine(f[v]) /\ Same(T, f[v], p)
           G == {v \in Nat : Good(v)}
<1>2. CODE_START \in G
  <2>1. Sofar(CODE_START) = {}
    BY UserPageFacts, FanFacts DEF UserRange
  <2>2. M \cup Sofar(CODE_START) = M
    BY <2>1
  <2> QED BY <1>1, <2>2, SameItself, FanFacts
<1>3. ASSUME NEW v \in UserRange \ {STACK_START}, v \in G PROVE v + 1 \in G
  <2>0. v \in Nat /\ v + 1 \in Nat /\ Good(v)
    BY <1>3, UserPageFacts
  <2>1. CASE v \in wanted
    <3>1. f[v + 1] = MapPhysicalPage(f[v], p, top, v) /\ v \in UserPages
      BY <1>1, <2>1
    <3>2. (M \cup Sofar(v)) \cup {v} = M \cup Sofar(v + 1)
      <4>1. \A w \in wanted : w < v + 1 <=> w < v \/ w = v
        BY <2>0, UserPageFacts
      <4> QED BY <2>1, <4>1
    <3> HIDE DEF Sofar, top
    <3>3. HasTree(f[v], p, k, M \cup Sofar(v), low) /\ Fine(f[v]) /\ Same(T, f[v], p)
      BY <2>0
    <3>4. /\ HasTree(f[v + 1], p, k, (M \cup Sofar(v)) \cup {v}, low)
          /\ Fine(f[v + 1]) /\ Same(f[v], f[v + 1], p)
      BY <3>1, <3>3, MapFacts DEF top
    <3>5. Good(v + 1)
      BY <3>2, <3>3, <3>4, SameIsSame
    <3> QED BY <2>0, <3>5
  <2>2. CASE v \notin wanted
    <3>1. f[v + 1] = f[v]
      BY <1>1, <2>2
    <3>2. Sofar(v) = Sofar(v + 1)
      BY <2>0, <2>2, UserPageFacts
    <3> HIDE DEF Sofar
    <3> QED BY <2>0, <3>1, <3>2
  <2> QED BY <2>1, <2>2
<1> HIDE DEF G
<1>4. STACK_START \in G
  BY <1>2, <1>3, PageInduction
<1>5. Sofar(STACK_START) = wanted
  BY UserPageFacts
<1> HIDE DEF Sofar
<1> QED BY <1>1, <1>4, <1>5 DEF G

\* A tree is made of a bare top.
LEMMA MapAllMakes ==
  ASSUME NEW T, NEW p, Fine(T), NEW wanted \in SUBSET UserPages, wanted # {},
         Bare(T, p)
  PROVE  LET S == MapAll(T, p, Name(p, PGD, 0), wanted)
         IN /\ \E k \in Nat : HasTree(S, p, k, wanted, Low({}))
            /\ Fine(S) /\ Same(T, S, p)
<1> DEFINE top == Name(p, PGD, 0)
<1>1. PICK f : /\ f[CODE_START] = T /\ MapAll(T, p, top, wanted) = f[STACK_START]
               /\ \A v \in UserRange \ {STACK_START} :
                    /\ v \in wanted => f[v + 1] = MapPhysicalPage(f[v], p, top, v)
                    /\ v \notin wanted => f[v + 1] = f[v]
  BY MapAllFacts
<1> DEFINE Sofar(v) == {w \in wanted : w < v}
           Has(v) == \E k \in Nat : HasTree(f[v], p, k, Sofar(v), Low({}))
           Good(v) == /\ (Sofar(v) = {} /\ f[v] = T) \/ Has(v)
                      /\ Fine(f[v]) /\ Same(T, f[v], p)
           G == {v \in Nat : Good(v)}
<1>2. CODE_START \in G
  <2>1. Sofar(CODE_START) = {}
    BY UserPageFacts, FanFacts DEF UserRange
  <2> HIDE DEF Sofar, Has
  <2> QED BY <1>1, <2>1, SameItself, FanFacts
<1>3. ASSUME NEW v \in UserRange \ {STACK_START}, v \in G PROVE v + 1 \in G
  <2>0. v \in Nat /\ v + 1 \in Nat /\ Good(v)
    BY <1>3, UserPageFacts
  <2>1. CASE v \in wanted
    <3>1. f[v + 1] = MapPhysicalPage(f[v], p, top, v) /\ v \in UserPages
      BY <1>1, <2>1
    <3>2. Sofar(v) \cup {v} = Sofar(v + 1)
      <4>1. \A w \in wanted : w < v + 1 <=> w < v \/ w = v
        BY <2>0, UserPageFacts
      <4> QED BY <2>1, <4>1
    <3> HIDE DEF Sofar, top
    <3>3. Fine(f[v]) /\ Same(T, f[v], p)
      BY <2>0
    <3>4. CASE Has(v)
      <4>1. PICK k \in Nat : HasTree(f[v], p, k, Sofar(v), Low({}))
        BY <3>4
      <4>2. /\ HasTree(f[v + 1], p, k, Sofar(v) \cup {v}, Low({}))
            /\ Fine(f[v + 1]) /\ Same(f[v], f[v + 1], p)
        <5> DEFINE N == Sofar(v)
                   low == Low({})
                   R == f[v]
        <5>1. HasTree(R, p, k, N, low) /\ Fine(R)
          BY <3>3, <4>1
        <5>2. f[v + 1] = MapPhysicalPage(R, p, Name(p, PGD, 0), v)
          BY <3>1 DEF top
        <5> HIDE DEF N, low, R, Has
        <5>3. /\ HasTree(f[v + 1], p, k, N \cup {v}, low)
              /\ Fine(f[v + 1]) /\ Same(R, f[v + 1], p)
          BY <3>1, <5>1, <5>2, MapFacts
        <5> QED BY <5>3 DEF N, low, R
      <4>3. Good(v + 1)
        BY <3>2, <3>3, <4>2, SameIsSame
      <4> QED BY <2>0, <4>3
    <3>5. CASE Sofar(v) = {} /\ f[v] = T
      <4>1. /\ \E k \in Nat : HasTree(f[v + 1], p, k, {v}, Low({}))
            /\ Fine(f[v + 1]) /\ Same(f[v], f[v + 1], p)
        BY <3>1, <3>3, <3>5, FirstMapFacts DEF top
      <4>2. Sofar(v + 1) = {v}
        BY <3>2, <3>5
      <4>3. Good(v + 1)
        BY <3>3, <4>1, <4>2, SameIsSame
      <4> QED BY <2>0, <4>3
    <3> QED BY <2>0, <3>4, <3>5
  <2>2. CASE v \notin wanted
    <3>1. f[v + 1] = f[v]
      BY <1>1, <2>2
    <3>2. Sofar(v) = Sofar(v + 1)
      BY <2>0, <2>2, UserPageFacts
    <3> HIDE DEF Sofar
    <3> QED BY <2>0, <3>1, <3>2
  <2> QED BY <2>1, <2>2
<1> HIDE DEF G
<1>4. STACK_START \in G
  BY <1>2, <1>3, PageInduction
<1>5. Sofar(STACK_START) = wanted
  BY UserPageFacts
<1> HIDE DEF Sofar
<1> QED BY <1>1, <1>4, <1>5 DEF G

-----------------------------------------------------------------------------
(* The kernel's part of a tree                                             *)

\* The first entries of a PUD change, or tables of the kernel.
LEMMA LowChanged ==
  ASSUME NEW T, NEW S, NEW p, NEW k, NEW M, NEW low, NEW new, HasTree(T, p, k, M, low),
         \A t : ~ KernelPmd(t) => (t \in DOMAIN S <=> t \in DOMAIN T),
         \A t \in DOMAIN T : ~ KernelPmd(t) /\ t # Pud(p, k) => S[t] = T[t],
         S[Pud(p, k)] = PudRow(T, p, new)
  PROVE  HasTree(S, p, k, M, new)
<1>1. /\ \A b \in UserSlots : Name(p, PMD, b) \in DOMAIN S <=> Name(p, PMD, b) \in DOMAIN T
      /\ \A c : Name(p, PTE, c) \in DOMAIN S <=> Name(p, PTE, c) \in DOMAIN T
      /\ Name(p, PGD, 0) \in DOMAIN S <=> Name(p, PGD, 0) \in DOMAIN T
      /\ Pud(p, k) \in DOMAIN S <=> Pud(p, k) \in DOMAIN T
  BY OwnNames
<1>2. /\ \A b \in UserSlots : Name(p, PMD, b) \in DOMAIN T => S[Name(p, PMD, b)] = T[Name(p, PMD, b)]
      /\ \A c : Name(p, PTE, c) \in DOMAIN T => S[Name(p, PTE, c)] = T[Name(p, PTE, c)]
      /\ Name(p, PGD, 0) \in DOMAIN T => S[Name(p, PGD, 0)] = T[Name(p, PGD, 0)]
  BY OwnNames, NamesDiffer, Levels
<1>3. \A b \in UserSlots : Lead(S, Name(p, PMD, b)) = Lead(T, Name(p, PMD, b))
  BY <1>1 DEF Lead
<1>4. PudRow(S, p, new) = PudRow(T, p, new)
  <2>1. \A i \in Entries : ~ (i < OS_ENTRIES) => i \in UserSlots
    BY SlotsOfPud
  <2> QED BY <1>3, <2>1 DEF PudRow
<1>5. \A c : Lead(S, Name(p, PTE, c)) = Lead(T, Name(p, PTE, c))
  BY <1>1 DEF Lead
<1>6. \A b : PmdRow(S, p, b) = PmdRow(T, p, b)
  BY <1>5 DEF PmdRow
<1>7. /\ Name(p, PGD, 0) \in DOMAIN S /\ S[Name(p, PGD, 0)] = PgdRow(Pud(p, k))
      /\ Pud(p, k) \in DOMAIN S /\ S[Pud(p, k)] = PudRow(S, p, new)
  BY <1>1, <1>2, <1>4 DEF HasTree
<1>8. Lower(S, p, M)
  <2>1. Lower(T, p, M)
    BY DEF HasTree
  <2>2. \A b \in UserSlots : Name(p, PMD, b) \in DOMAIN S => S[Name(p, PMD, b)] = PmdRow(S, p, b)
    BY <2>1, <1>1, <1>2, <1>6 DEF Lower
  <2>3. \A b \in Nat : Name(p, PTE, b) \in DOMAIN S => S[Name(p, PTE, b)] = PteRow(M, b)
    BY <2>1, <1>1, <1>2 DEF Lower
  <2>4. M \subseteq UserPages /\ \A v \in M : Name(p, PTE, v \div FAN) \in DOMAIN S
    BY <2>1, <1>1 DEF Lower
  <2> QED BY <2>2, <2>3, <2>4 DEF Lower
<1>9. \A t \in Own(S, p) : t = Name(p, PGD, 0) \/ PudLike(p, t) \/ PmdOf(p, t) \/ PteOf(S, p, t)
  <2> SUFFICES ASSUME NEW t \in Own(S, p)
               PROVE  t = Name(p, PGD, 0) \/ PudLike(p, t) \/ PmdOf(p, t) \/ PteOf(S, p, t)
    OBVIOUS
  <2>1. t \in Own(T, p)
    BY DEF Own
  <2>2. t = Name(p, PGD, 0) \/ PudLike(p, t) \/ PmdOf(p, t) \/ PteOf(T, p, t)
    BY <2>1 DEF HasTree
  <2>3. PteOf(T, p, t) => PteOf(S, p, t)
    BY <1>1 DEF PteOf
  <2> QED BY <2>2, <2>3
<1> QED BY <1>7, <1>8, <1>9 DEF HasTree

\* The kernel's memory in FirstProc's tree so far.
Installed(T, k, M, H) ==
  /\ HasTree(T, FirstProc, k, M, Low(H)) /\ KernelTables(T, H)
  /\ Fine(T)
  /\ \A t \in DOMAIN T : t.proc = FirstProc

\* A huge page is two steps down and an entry.
LEMMA HugeIsSteps ==
  ASSUME NEW T, NEW p, NEW top, NEW h
  PROVE  LET a == KernelBelow(T, top, p, h * FAN, PGD)
             b == KernelBelow(a.tables, a.at, p, h * FAN, PUD)
         IN InstallHuge(T, p, top, h) = Put(b.tables, b.at, Index(h * FAN, PMD), ToHuge(h))
<1> DEFINE v == h * FAN
           a == KernelBelow(T, top, p, v, PGD)
           b == KernelBelow(a.tables, a.at, p, v, PUD)
           x == Below([tables |-> T, at |-> top], p, v, PGD, FALSE)
           y == Below(x, p, v, PUD, FALSE)
<1>1. InstallHuge(T, p, top, h) = [y.tables EXCEPT ![y.at][Index(v, PMD)] = ToHuge(h)]
  BY DEF InstallHuge
<1> HIDE DEF v
<1>2. x = a
  BY DEF KernelBelow
<1>3. y = b
  <2>1. a = [tables |-> a.tables, at |-> a.at]
    BY WalkRecords
  <2> HIDE DEF a, x
  <2> QED BY <2>1, <1>2 DEF KernelBelow
<1> HIDE DEF b, y
<1> QED BY <1>1, <1>3 DEF Put, b, v

\* The row of the kernel's table and the entries that lead to such tables.
LEMMA KernelRowFacts ==
  ASSUME NEW H \in SUBSET Nat, NEW h \in Nat, h < OS_ENTRIES * FAN
  PROVE  /\ RowPut(KernelRow(H, h \div FAN), h % FAN, ToHuge(h)) = KernelRow(H \cup {h}, h \div FAN)
         /\ \A b \in KernelSlots : b # h \div FAN => KernelRow(H \cup {h}, b) = KernelRow(H, b)
         /\ (~ \E g \in H : g \div FAN = h \div FAN) => KernelRow(H, h \div FAN) = EmptyRow
         /\ (\E g \in H : g \div FAN = h \div FAN) => Low(H \cup {h}) = Low(H)
         /\ Low(H \cup {h})[h \div FAN] = KernelTable(Name(FirstProc, PMD, h \div FAN))
         /\ \A b \in KernelSlots : b # h \div FAN => Low(H \cup {h})[b] = Low(H)[b]
<1> DEFINE b0 == h \div FAN
           i0 == h % FAN
<1>1. b0 \in KernelSlots /\ i0 \in Entries /\ h = b0 * FAN + i0 /\ b0 \in Nat
  BY HugeFacts, SlotsOfPud
<1>2. ASSUME NEW b \in KernelSlots, NEW i \in Entries
      PROVE  /\ b * FAN + i = h <=> b = b0 /\ i = i0
             /\ (b * FAN + i) \div FAN = b
  <2>1. (b * FAN + i) \div FAN = b /\ (b * FAN + i) % FAN = i
    BY DivisionIs, SlotsOfPud
  <2> QED BY <2>1, <1>1
<1>3. RowPut(KernelRow(H, b0), i0, ToHuge(h)) = KernelRow(H \cup {h}, b0)
  <2>1. ASSUME NEW i \in Entries
        PROVE  RowPut(KernelRow(H, b0), i0, ToHuge(h))[i] = KernelRow(H \cup {h}, b0)[i]
    <3>1. CASE i = i0
      <4>1. b0 * FAN + i = h
        BY <3>1, <1>1
      <4>2. RowPut(KernelRow(H, b0), i0, ToHuge(h))[i] = ToHuge(h)
        BY <3>1 DEF RowPut
      <4>3. KernelRow(H \cup {h}, b0)[i] = ToHuge(b0 * FAN + i)
        BY <4>1 DEF KernelRow
      <4> QED BY <4>1, <4>2, <4>3
    <3>2. CASE i # i0
      <4>1. b0 * FAN + i # h
        BY <3>2, <1>1, <1>2
      <4>2. RowPut(KernelRow(H, b0), i0, ToHuge(h))[i] = KernelRow(H, b0)[i]
        BY <3>2 DEF RowPut
      <4>3. KernelRow(H \cup {h}, b0)[i] = KernelRow(H, b0)[i]
        BY <4>1 DEF KernelRow
      <4> QED BY <4>2, <4>3
    <3> QED BY <3>1, <3>2
  <2> QED BY <2>1 DEF RowPut, KernelRow
<1>4. ASSUME NEW b \in KernelSlots, b # b0 PROVE KernelRow(H \cup {h}, b) = KernelRow(H, b)
  BY <1>2, <1>4 DEF KernelRow
<1>5. ASSUME ~ \E g \in H : g \div FAN = b0 PROVE KernelRow(H, b0) = EmptyRow
  <2>1. \A i \in Entries : b0 * FAN + i \notin H
    BY <1>1, <1>2, <1>5
  <2> QED BY <2>1 DEF KernelRow, EmptyRow
<1>6. \A b : (\E g \in H \cup {h} : g \div FAN = b) <=> b = b0 \/ \E g \in H : g \div FAN = b
  OBVIOUS
<1> HIDE DEF b0
<1>7. (\E g \in H : g \div FAN = b0) => Low(H \cup {h}) = Low(H)
  BY <1>6 DEF Low
<1>8. Low(H \cup {h})[b0] = KernelTable(Name(FirstProc, PMD, b0))
  BY <1>1, <1>6 DEF Low
<1>9. \A b \in KernelSlots : b # b0 => Low(H \cup {h})[b] = Low(H)[b]
  BY <1>6 DEF Low
<1> QED BY <1>3, <1>4, <1>5, <1>7, <1>8, <1>9 DEF b0

\* What setting the huge page h does to the tables.
HugeSet(T, S, k, H, h) ==
  LET u == Name(FirstProc, PMD, h \div FAN)
  IN /\ DOMAIN S = DOMAIN T \cup {u} /\ S[u] = KernelRow(H \cup {h}, h \div FAN)
     /\ S[Pud(FirstProc, k)] = PudRow(T, FirstProc, Low(H \cup {h}))
     /\ \A x \in DOMAIN T \ {u, Pud(FirstProc, k)} : S[x] = T[x]

\* One huge page of install_os_pts, by what it changes in the tables.
LEMMA HugeStep ==
  ASSUME NEW T, NEW k, NEW M, NEW H \in SUBSET Nat, Installed(T, k, M, H),
         NEW h \in Nat, h < OS_ENTRIES * FAN
  PROVE  HugeSet(T, InstallHuge(T, FirstProc, Name(FirstProc, PGD, 0), h), k, H, h)
<1> DEFINE p == FirstProc
           top == Name(FirstProc, PGD, 0)
           t == Pud(FirstProc, k)
           b0 == h \div FAN
           i0 == h % FAN
           u == Name(FirstProc, PMD, b0)
           new == Low(H \cup {h})
           a == KernelBelow(T, top, p, h * FAN, PGD)
           b == KernelBelow(a.tables, a.at, p, h * FAN, PUD)
           S == Put(b.tables, b.at, Index(h * FAN, PMD), ToHuge(h))
<1>1. /\ b0 \in KernelSlots /\ i0 \in Entries /\ b0 \in Entries
      /\ Index(h * FAN, PGD) = 0
      /\ Index(h * FAN, PUD) = b0 /\ Slot(h * FAN, PUD) = b0
      /\ Index(h * FAN, PMD) = i0
  BY HugeFacts, SlotsOfPud
<1>2. HasTree(T, p, k, M, Low(H)) /\ KernelTables(T, H) /\ Fine(T)
  BY DEF Installed
<1>3. /\ t \in DOMAIN T /\ DOMAIN T[t] = Entries /\ T[t] = PudRow(T, p, Low(H))
      /\ T[t][b0] = Low(H)[b0] /\ T[top][0] # Empty /\ T[top][0].to = t
  <2>1. t \in DOMAIN T /\ DOMAIN T[t] = Entries /\ T[t][b0] = Low(H)[b0]
    BY <1>1, <1>2, TreeRows
  <2>2. T[top][0] # Empty /\ T[top][0].to = t
    BY <1>2, TreeRows, EntryFacts
  <2> QED BY <2>1, <2>2, <1>2 DEF HasTree
<1>4. a = [tables |-> T, at |-> t]
  BY <1>1, <1>3, KernelBelowFacts
<1>5. b = KernelBelow(T, t, p, h * FAN, PUD)
  BY <1>4
<1>6. /\ u \in DOMAIN T <=> \E g \in H : g \div FAN = b0
      /\ u \in DOMAIN T => T[u] = KernelRow(H, b0)
  BY <1>1, <1>2 DEF KernelTables
<1>7. t # u
  BY NamesDiffer, Levels
<1>8. /\ RowPut(KernelRow(H, b0), i0, ToHuge(h)) = KernelRow(H \cup {h}, b0)
      /\ (~ \E g \in H : g \div FAN = b0) => KernelRow(H, b0) = EmptyRow
      /\ (\E g \in H : g \div FAN = b0) => new = Low(H)
      /\ new[b0] = KernelTable(u)
      /\ \A c \in KernelSlots : c # b0 => new[c] = Low(H)[c]
  BY KernelRowFacts
<1>9. DOMAIN EmptyRow = Entries /\ DOMAIN KernelRow(H, b0) = Entries
  BY DEF EmptyRow, KernelRow
<1> HIDE DEF b0, i0, u, t, new, a
<1>10. CASE u \in DOMAIN T
  <2>1. T[t][b0] = KernelTable(u)
    BY <1>3, <1>6, <1>8, <1>10
  <2>2. b = [tables |-> T, at |-> u]
    BY <1>1, <1>5, <2>1, EntryFacts, KernelBelowFacts
  <2>3. S = Put(T, u, i0, ToHuge(h))
    BY <2>2, <1>1
  <2>4. /\ DOMAIN S = DOMAIN T
        /\ S[u] = RowPut(T[u], i0, ToHuge(h))
        /\ \A x \in DOMAIN T \ {u} : S[x] = T[x]
    BY <2>3, <1>1, <1>6, <1>9, <1>10, PutFacts
  <2> HIDE DEF S
  <2>5. S[u] = KernelRow(H \cup {h}, b0)
    BY <2>4, <1>6, <1>8, <1>10
  <2>6. S[t] = PudRow(T, p, new)
    BY <2>4, <1>3, <1>6, <1>7, <1>8, <1>10
  <2>7. HugeSet(T, S, k, H, h)
    BY <2>4, <2>5, <2>6, <1>10 DEF HugeSet, u, t, b0, new
  <2> QED BY <2>7, HugeIsSteps DEF S, a
<1>11. CASE u \notin DOMAIN T
  <2> DEFINE W == Built(T, u, t, b0, KernelTable(u))
  <2>1. T[t][b0] = Empty
    BY <1>1, <1>3, <1>6, <1>11 DEF Low
  <2>2. NewTable(T, p, PUD - 1, b0) = u
    <3>1. PUD - 1 = PMD
      BY Levels
    <3> QED BY <3>1, <1>2, <1>11, NewTableFacts DEF u
  <2>3. b = [tables |-> W, at |-> u]
    BY <2>1, <2>2, <1>1, <1>5, KernelBelowFacts
  <2>4. IsBuilt(T, W, u, t, b0, KernelTable(u))
    BY <1>1, <1>3, <1>11, BuiltFacts
  <2> HIDE DEF W
  <2>5. /\ DOMAIN W = DOMAIN T \cup {u} /\ W[u] = EmptyRow
        /\ W[t] = RowPut(T[t], b0, KernelTable(u))
        /\ \A x \in DOMAIN T \ {t} : W[x] = T[x]
    BY <2>4 DEF IsBuilt
  <2>6. S = Put(W, u, i0, ToHuge(h))
    BY <2>3, <1>1
  <2>7. /\ DOMAIN S = DOMAIN W
        /\ S[u] = RowPut(W[u], i0, ToHuge(h))
        /\ \A x \in DOMAIN W \ {u} : S[x] = W[x]
    BY <2>5, <2>6, <1>1, <1>9, PutFacts
  <2> HIDE DEF S
  <2>8. S[u] = KernelRow(H \cup {h}, b0)
    BY <2>5, <2>7, <1>6, <1>8, <1>11
  <2>9. S[t] = PudRow(T, p, new)
    <3>1. S[t] = RowPut(T[t], b0, KernelTable(u))
      BY <2>5, <2>7, <1>3, <1>7
    <3>2. ASSUME NEW j \in Entries
          PROVE  RowPut(T[t], b0, KernelTable(u))[j]
                   = IF j < OS_ENTRIES THEN new[j] ELSE Lead(T, Name(p, PMD, j))
      <4>1. CASE j = b0
        BY <4>1, <1>1, <1>8, SlotsOfPud DEF RowPut
      <4>2. CASE j # b0
        <5>1. RowPut(T[t], b0, KernelTable(u))[j] = T[t][j]
          BY <4>2 DEF RowPut
        <5>2. T[t][j] = IF j < OS_ENTRIES THEN Low(H)[j] ELSE Lead(T, Name(p, PMD, j))
          BY <1>3 DEF PudRow
        <5>3. j < OS_ENTRIES => new[j] = Low(H)[j]
          <6>1. j < OS_ENTRIES => j \in KernelSlots
            BY SlotsOfPud, FanFacts
          <6> QED BY <6>1, <4>2, <1>8
        <5> QED BY <5>1, <5>2, <5>3
      <4> QED BY <4>1, <4>2
    <3>3. RowPut(T[t], b0, KernelTable(u)) = [j \in Entries |-> RowPut(T[t], b0, KernelTable(u))[j]]
      BY DEF RowPut
    <3> QED BY <3>1, <3>2, <3>3 DEF PudRow
  <2>10. \A x \in DOMAIN T \ {u, t} : S[x] = T[x]
    BY <2>5, <2>7
  <2>11. HugeSet(T, S, k, H, h)
    BY <2>5, <2>7, <2>8, <2>9, <2>10 DEF HugeSet, u, t, b0, new
  <2> QED BY <2>11, HugeIsSteps DEF S, a
<1> QED BY <1>10, <1>11

\* And by what the tables are then.
LEMMA InstallStep ==
  ASSUME NEW T, NEW k, NEW M, NEW H \in SUBSET Nat, Installed(T, k, M, H),
         NEW h \in Nat, h < OS_ENTRIES * FAN
  PROVE  Installed(InstallHuge(T, FirstProc, Name(FirstProc, PGD, 0), h), k, M, H \cup {h})
<1> DEFINE S == InstallHuge(T, FirstProc, Name(FirstProc, PGD, 0), h)
           b0 == h \div FAN
           u == Name(FirstProc, PMD, b0)
<1>1. HugeSet(T, S, k, H, h)
  BY HugeStep
<1> HIDE DEF S
<1>2. /\ DOMAIN S = DOMAIN T \cup {u} /\ S[u] = KernelRow(H \cup {h}, b0)
      /\ S[Pud(FirstProc, k)] = PudRow(T, FirstProc, Low(H \cup {h}))
      /\ \A x \in DOMAIN T \ {u, Pud(FirstProc, k)} : S[x] = T[x]
  BY <1>1 DEF HugeSet
<1>3. /\ HasTree(T, FirstProc, k, M, Low(H)) /\ KernelTables(T, H) /\ Fine(T)
      /\ \A t \in DOMAIN T : t.proc = FirstProc
  BY DEF Installed
<1>4. b0 \in KernelSlots
  BY HugeFacts
<1>5. KernelPmd(u) /\ u.proc = FirstProc
  BY <1>4, NameFacts DEF KernelPmd
<1>6. HasTree(S, FirstProc, k, M, Low(H \cup {h}))
  <2> DEFINE low == Low(H)
             new == Low(H \cup {h})
  <2>1. \A t : ~ KernelPmd(t) => (t \in DOMAIN S <=> t \in DOMAIN T)
    BY <1>2, <1>5
  <2>2. \A t \in DOMAIN T : ~ KernelPmd(t) /\ t # Pud(FirstProc, k) => S[t] = T[t]
    BY <1>2, <1>5
  <2>3. HasTree(T, FirstProc, k, M, low) /\ S[Pud(FirstProc, k)] = PudRow(T, FirstProc, new)
    BY <1>2, <1>3
  <2> HIDE DEF low, new
  <2>4. HasTree(S, FirstProc, k, M, new)
    BY <2>1, <2>2, <2>3, LowChanged
  <2> QED BY <2>4 DEF new
<1>7. KernelTables(S, H \cup {h})
  <2> SUFFICES ASSUME NEW b \in KernelSlots
               PROVE  /\ Name(FirstProc, PMD, b) \in DOMAIN S <=> \E g \in H \cup {h} : g \div FAN = b
                      /\ Name(FirstProc, PMD, b) \in DOMAIN S =>
                           S[Name(FirstProc, PMD, b)] = KernelRow(H \cup {h}, b)
    BY DEF KernelTables
  <2>1. CASE b = b0
    BY <2>1, <1>2
  <2>2. CASE b # b0
    <3>1. Name(FirstProc, PMD, b) # u /\ Name(FirstProc, PMD, b) # Pud(FirstProc, k)
      BY <2>2, NamesDiffer, Levels
    <3>2. KernelRow(H \cup {h}, b) = KernelRow(H, b)
      BY <2>2, KernelRowFacts
    <3>3. /\ Name(FirstProc, PMD, b) \in DOMAIN T <=> \E g \in H : g \div FAN = b
          /\ Name(FirstProc, PMD, b) \in DOMAIN T => T[Name(FirstProc, PMD, b)] = KernelRow(H, b)
      BY <1>3 DEF KernelTables
    <3>4. (\E g \in H \cup {h} : g \div FAN = b) <=> \E g \in H : g \div FAN = b
      BY <2>2
    <3> HIDE DEF u
    <3> QED BY <3>1, <3>2, <3>3, <3>4, <1>2
  <2> QED BY <2>1, <2>2
<1>8. Fine(S)
  <2>1. IsRow(S[u]) /\ IsRow(S[Pud(FirstProc, k)])
    BY <1>2, Rows
  <2> HIDE DEF u
  <2> QED BY <2>1, <1>2, <1>3, FineStays
<1>9. \A t \in DOMAIN S : t.proc = FirstProc
  BY <1>2, <1>3, <1>5
<1> QED BY <1>6, <1>7, <1>8, <1>9 DEF Installed, S

\* The kernel's huge pages lie below the entries that are copied.
LEMMA OsPageFacts ==
  /\ OsPages \subseteq 0 .. APIC /\ APIC \in Nat /\ 0 \in OsPages
  /\ \A h \in OsPages : h \in Nat /\ h < OS_ENTRIES * FAN
<1>1. OS_ENTRIES * FAN \in Nat
  BY FanFacts, Products
<1> QED BY <1>1, TreeAssumption DEF OsPages

\* f holds the tables from huge page 0 to page n.
HugeMapped(T, p, top, n, f) ==
  f = [h \in 0 .. n |->
         IF h = 0 THEN T
         ELSE IF h - 1 \in OsPages THEN InstallHuge(f[h - 1], p, top, h - 1)
         ELSE f[h - 1]]

\* The loop of install_os_pts has a value at each of its pages.
LEMMA HugeMappedExists ==
  ASSUME NEW T, NEW p, NEW top, NEW n \in Nat
  PROVE  \E f : HugeMapped(T, p, top, n, f)
<1> DEFINE Next1(g, v) == IF v - 1 \in OsPages THEN InstallHuge(g, p, top, v - 1) ELSE g
           S == {m \in Nat : \E f : HugeMapped(T, p, top, m, f)}
<1>0. ASSUME NEW m \in Nat, NEW f
      PROVE  HugeMapped(T, p, top, m, f) <=>
               f = [v \in 0 .. m |-> IF v = 0 THEN T ELSE Next1(f[v - 1], v)]
  <2> QED BY DEF HugeMapped
<1> HIDE DEF Next1
<1>1. 0 \in S
  <2> DEFINE f == [v \in 0 .. 0 |-> T]
  <2>1. \A v \in 0 .. 0 : v = 0
    OBVIOUS
  <2>2. f = [v \in 0 .. 0 |-> IF v = 0 THEN T ELSE Next1(f[v - 1], v)]
    BY <2>1
  <2>3. HugeMapped(T, p, top, 0, f)
    BY <1>0, <2>2
  <2> QED BY <2>3
<1>2. ASSUME NEW m \in Nat, m \in S PROVE m + 1 \in S
  <2>1. PICK f : HugeMapped(T, p, top, m, f)
    BY <1>2
  <2>2. f = [v \in 0 .. m |-> IF v = 0 THEN T ELSE Next1(f[v - 1], v)]
    BY <1>0, <2>1
  <2> DEFINE last == m + 1
             g == [v \in 0 .. last |-> IF v # last THEN f[v] ELSE Next1(f[m], last)]
  <2>3. last - 1 = m /\ last \in Nat /\ 0 < last
    OBVIOUS
  <2>4. ASSUME NEW v \in 0 .. last
        PROVE  g[v] = IF v = 0 THEN T ELSE Next1(g[v - 1], v)
    <3>1. CASE v = 0
      <4>1. g[v] = f[v] /\ v \in 0 .. m
        BY <3>1, <2>3
      <4>2. f[v] = T
        BY <2>2, <3>1, <4>1
      <4> QED BY <3>1, <4>1, <4>2
    <3>2. CASE v # 0 /\ v # last
      <4>1. /\ g[v] = f[v] /\ v \in 0 .. m
            /\ v - 1 \in 0 .. last /\ v - 1 # last /\ g[v - 1] = f[v - 1]
        BY <3>2, <2>3
      <4>2. f[v] = Next1(f[v - 1], v)
        BY <2>2, <3>2, <4>1
      <4> QED BY <3>2, <4>1, <4>2
    <3>3. CASE v = last
      <4>1. g[v] = Next1(f[m], last)
        BY <3>3
      <4>2. v - 1 \in 0 .. last /\ v - 1 # last /\ v - 1 = m
        BY <3>3, <2>3
      <4>3. g[v - 1] = f[m]
        BY <4>2
      <4> QED BY <3>3, <4>1, <4>3, <2>3
    <3> QED BY <3>1, <3>2, <3>3
  <2>5. g = [v \in 0 .. last |-> g[v]]
    OBVIOUS
  <2> HIDE DEF g
  <2>6. g = [v \in 0 .. m + 1 |-> IF v = 0 THEN T ELSE Next1(g[v - 1], v)]
    BY <2>4, <2>5
  <2>7. HugeMapped(T, p, top, m + 1, g)
    BY <2>6 DEF HugeMapped, Next1
  <2> QED BY <2>7
<1> HIDE DEF S
<1>3. Nat \subseteq S
  BY <1>1, <1>2, SetInduction
<1> QED BY <1>3 DEF S

\* install_os_pts maps the kernel's pages, and leaves what the user has.
LEMMA InstallFacts ==
  ASSUME NEW T, NEW k, NEW M, Installed(T, k, M, {})
  PROVE  Installed(InstallOsPts(T, FirstProc, Name(FirstProc, PGD, 0)), k, M, OsPages)
<1> DEFINE top == Name(FirstProc, PGD, 0)
           f == CHOOSE f : HugeMapped(T, FirstProc, top, APIC + 1, f)
<1>0. APIC + 1 \in Nat
  BY OsPageFacts
<1>1. InstallOsPts(T, FirstProc, top) = f[APIC + 1]
  BY DEF InstallOsPts, HugeMapped
<1>2. HugeMapped(T, FirstProc, top, APIC + 1, f)
  BY <1>0, HugeMappedExists
<1> HIDE DEF f
<1>3. f = [h \in 0 .. APIC + 1 |->
             IF h = 0 THEN T
             ELSE IF h - 1 \in OsPages THEN InstallHuge(f[h - 1], FirstProc, top, h - 1)
             ELSE f[h - 1]]
  BY <1>2 DEF HugeMapped
<1>4. f[0] = T
  BY <1>0, <1>3
<1>5. ASSUME NEW h \in 0 .. APIC
      PROVE  /\ h \in OsPages => f[h + 1] = InstallHuge(f[h], FirstProc, top, h)
             /\ h \notin OsPages => f[h + 1] = f[h]
  <2>1. h + 1 \in 0 .. APIC + 1 /\ h + 1 # 0 /\ (h + 1) - 1 = h
    BY OsPageFacts
  <2>2. f[h + 1] = IF (h + 1) - 1 \in OsPages THEN InstallHuge(f[(h + 1) - 1], FirstProc, top, (h + 1) - 1)
                   ELSE f[(h + 1) - 1]
    BY <1>3, <2>1
  <2> QED BY <2>1, <2>2
<1> HIDE DEF top
<1> DEFINE Sofar(h) == {g \in OsPages : g < h}
           G == {h \in Nat : h <= APIC + 1 => Installed(f[h], k, M, Sofar(h))}
<1>6. 0 \in G
  <2>1. Sofar(0) = {}
    <3>1. \A g \in OsPages : ~ (g < 0)
      BY OsPageFacts
    <3> QED BY <3>1
  <2> HIDE DEF Sofar
  <2> QED BY <1>4, <2>1
<1>7. ASSUME NEW h \in Nat, h \in G PROVE h + 1 \in G
  <2> SUFFICES ASSUME h + 1 <= APIC + 1 PROVE Installed(f[h + 1], k, M, Sofar(h + 1))
    OBVIOUS
  <2>1. h \in 0 .. APIC /\ h <= APIC + 1
    BY OsPageFacts
  <2>2. Installed(f[h], k, M, Sofar(h))
    BY <1>7, <2>1
  <2>3. CASE h \in OsPages
    <3>1. Sofar(h) \cup {h} = Sofar(h + 1)
      <4>1. \A g \in OsPages : g < h + 1 <=> g < h \/ g = h
        BY OsPageFacts
      <4> QED BY <2>3, <4>1
    <3>2. Sofar(h) \in SUBSET Nat
      BY OsPageFacts
    <3> HIDE DEF Sofar
    <3>3. Installed(InstallHuge(f[h], FirstProc, Name(FirstProc, PGD, 0), h), k, M, Sofar(h) \cup {h})
      <4> DEFINE R == f[h]
                 N == Sofar(h)
      <4>1. Installed(R, k, M, N) /\ N \in SUBSET Nat /\ h < OS_ENTRIES * FAN
        BY <2>2, <2>3, <3>2, OsPageFacts
      <4> HIDE DEF R, N
      <4>2. Installed(InstallHuge(R, FirstProc, Name(FirstProc, PGD, 0), h), k, M, N \cup {h})
        BY <4>1, InstallStep
      <4> QED BY <4>2 DEF R, N
    <3> QED BY <3>1, <3>3, <1>5, <2>1, <2>3 DEF top
  <2>4. CASE h \notin OsPages
    <3>1. Sofar(h) = Sofar(h + 1)
      <4>1. \A g \in OsPages : g < h + 1 <=> g < h
        BY <2>4, OsPageFacts
      <4> QED BY <4>1
    <3> HIDE DEF Sofar
    <3> QED BY <3>1, <2>1, <2>2, <2>4, <1>5
  <2> QED BY <2>3, <2>4
<1> HIDE DEF G
<1>8. Nat \subseteq G
  BY <1>6, <1>7, SetInduction
<1>9. Sofar(APIC + 1) = OsPages
  <2>1. \A g \in OsPages : g < APIC + 1
    BY OsPageFacts
  <2> QED BY <2>1
<1> HIDE DEF Sofar
<1>10. APIC + 1 <= APIC + 1 /\ APIC + 1 \in G
  BY <1>0, <1>8
<1>11. Installed(f[APIC + 1], k, M, Sofar(APIC + 1))
  BY <1>0, <1>10 DEF G
<1> QED BY <1>1, <1>9, <1>11 DEF top

-----------------------------------------------------------------------------
(* The first process                                                       *)

\* The pages of the first process.
LEMMA FirstPagesFacts ==
  /\ {Min(DataPages), Max(StackPages)} \in SUBSET UserPages
  /\ {Min(DataPages), Max(StackPages)} # {}
  /\ CodePages \in SUBSET UserPages /\ FirstPages \in SUBSET UserPages
  /\ {Min(DataPages), Max(StackPages)} \cup CodePages = FirstPages
<1>1. UserPages \in SUBSET Nat /\ UserPages \in SUBSET (0 .. STACK_START)
  BY UserPageFacts, FanFacts
<1>2. DataPages \in SUBSET Nat /\ DataPages # {} /\ DataPages \subseteq UserPages
  BY <1>1, TreeAssumption DEF UserPages
<1>3. StackPages \in SUBSET (0 .. STACK_START) /\ StackPages # {} /\ StackPages \subseteq UserPages
  BY <1>1, TreeAssumption DEF UserPages
<1>4. Min(DataPages) \in UserPages
  BY <1>2, MinFacts
<1>5. Max(StackPages) \in UserPages
  BY <1>3, FanFacts, MaxFacts
<1>6. CodePages \in SUBSET UserPages
  BY DEF UserPages
<1> QED BY <1>4, <1>5, <1>6 DEF FirstPages

\* At boot there are no tables.
LEMMA NoTables == DOMAIN (<<>>) = {}
OBVIOUS

\* A new top is a bare tree.
LEMMA NewTop ==
  ASSUME NEW T, NEW p, Fine(T), Gone(T, p)
  PROVE  /\ Top(T, p) = Name(p, PGD, 0) /\ Name(p, PGD, 0) \notin DOMAIN T
         /\ Bare(WithTable(T, Top(T, p)), p)
         /\ Fine(WithTable(T, Top(T, p)))
         /\ Same(T, WithTable(T, Top(T, p)), p)
<1> DEFINE t == Name(p, PGD, 0)
           W == WithTable(T, t)
<1>0. t.proc = p /\ ~ KernelPmd(t)
  BY OwnNames
<1>1. t \notin DOMAIN T
  BY <1>0, NamesDiffer, Levels DEF Gone, Own, PudLike
<1>2. Top(T, p) = t
  BY <1>1, NewTableFacts DEF Top
<1>3. DOMAIN W = DOMAIN T \cup {t} /\ W[t] = EmptyRow /\ \A x \in DOMAIN T : W[x] = T[x]
  BY <1>1 DEF WithTable, EmptyRow
<1> HIDE DEF W, t
<1>4. \A x \in Own(W, p) : x = t \/ PudLike(p, x)
  BY <1>3 DEF Own, Gone
<1>5. Bare(W, p)
  BY <1>3, <1>4 DEF Bare, t
<1>6. Fine(W)
  <2>1. IsRow(W[t])
    BY <1>3, Rows
  <2> QED BY <2>1, <1>3, FineStays
<1>7. Same(T, W, p)
  BY <1>0, <1>3 DEF Same
<1> QED BY <1>1, <1>2, <1>5, <1>6, <1>7 DEF W, t

\* The tables exec_init leaves, for its one process.
LEMMA InitTables ==
  ASSUME Init
  PROVE  /\ \E k \in Nat : HasTree(table, FirstProc, k, FirstPages, Low(OsPages))
         /\ KernelTables(table, OsPages) /\ Fine(table)
         /\ \A t \in DOMAIN table : t.proc = FirstProc
         /\ pgd = [p \in {FirstProc} |-> Name(FirstProc, PGD, 0)]
<1> DEFINE p == FirstProc
           E == <<>>
           top == Name(p, PGD, 0)
           bare == WithTable(E, top)
           two == {Min(DataPages), Max(StackPages)}
           user == MapAll(bare, p, top, two)
           os == InstallOsPts(user, p, top)
           all == MapAll(os, p, top, CodePages)
<1>1. DOMAIN E = {} /\ Fine(E) /\ Gone(E, p)
  BY NoTables, FS_EmptySet DEF Gone, Own, Fine
<1> HIDE DEF E
<1>2. Top(E, p) = top /\ Bare(bare, p) /\ Fine(bare) /\ Same(E, bare, p)
  BY <1>1, NewTop
<1>3. table = all /\ pgd = [q \in {FirstProc} |-> top]
  <2>1. /\ table = MapAll(InstallOsPts(MapAll(WithTable(<<>>, Top(<<>>, p)), p, Top(<<>>, p), two),
                                       p, Top(<<>>, p)), p, Top(<<>>, p), CodePages)
        /\ pgd = [q \in {FirstProc} |-> Top(<<>>, p)]
    BY DEF Init
  <2> QED BY <2>1, <1>2 DEF E
<1> HIDE DEF bare, two
<1>4. two \in SUBSET UserPages /\ two # {} /\ CodePages \in SUBSET UserPages /\ two \cup CodePages = FirstPages
  BY FirstPagesFacts DEF two
<1>5. PICK k \in Nat : HasTree(user, p, k, two, Low({}))
  BY <1>2, <1>4, MapAllMakes
<1>6. Fine(user) /\ Same(bare, user, p)
  BY <1>2, <1>4, MapAllMakes
<1>7. Same(E, user, p)
  BY <1>2, <1>6, SameIsSame
<1> HIDE DEF user
<1>8. \A t \in DOMAIN user : t.proc = p /\ ~ KernelPmd(t)
  BY <1>1, <1>7, SameFacts
<1>9. KernelTables(user, {})
  <2>1. \A b \in KernelSlots : Name(FirstProc, PMD, b) \notin DOMAIN user
    BY <1>8 DEF KernelPmd
  <2> QED BY <2>1 DEF KernelTables
<1>10. Installed(user, k, two, {})
  BY <1>5, <1>6, <1>8, <1>9 DEF Installed
<1>11. Installed(os, k, two, OsPages)
  BY <1>10, InstallFacts
<1> HIDE DEF os
<1>12. /\ HasTree(os, p, k, two, Low(OsPages)) /\ KernelTables(os, OsPages)
       /\ Fine(os) /\ \A t \in DOMAIN os : t.proc = p
  BY <1>11 DEF Installed
<1>13. /\ HasTree(all, p, k, two \cup CodePages, Low(OsPages))
       /\ Fine(all) /\ Same(os, all, p)
  <2> DEFINE low == Low(OsPages)
  <2>1. HasTree(os, p, k, two, low)
    BY <1>12
  <2> HIDE DEF low
  <2>2. /\ HasTree(all, p, k, two \cup CodePages, low)
        /\ Fine(all) /\ Same(os, all, p)
    BY <1>4, <1>12, <2>1, MapAllGrows
  <2> QED BY <2>2 DEF low
<1> HIDE DEF all
<1>14. KernelTables(all, OsPages)
  BY <1>12, <1>13, KernelStays
<1>15. \A t \in DOMAIN all : t.proc = p
  BY <1>12, <1>13, SameFacts
<1> QED BY <1>3, <1>4, <1>13, <1>14, <1>15

\* exec_init leaves one tree.
LEMMA InitTrees == Init => TreesInv
<1> SUFFICES ASSUME Init PROVE TreesInv
  OBVIOUS
<1>1. /\ \E k \in Nat : HasTree(table, FirstProc, k, FirstPages, Low(OsPages))
      /\ KernelTables(table, OsPages) /\ Fine(table)
      /\ \A t \in DOMAIN table : t.proc = FirstProc
      /\ pgd = [p \in {FirstProc} |-> Name(FirstProc, PGD, 0)]
  BY InitTables
<1>2. mapped = [p \in Procs |-> IF p = FirstProc THEN FirstPages ELSE {}]
  BY DEF Init
<1>3. FirstProc \in Procs /\ DOMAIN pgd = {FirstProc}
  BY <1>1, TreeAssumption
<1>4. mapped \in [Procs -> SUBSET UserPages] /\ mapped[FirstProc] = FirstPages
      /\ CodePages \subseteq FirstPages
  BY <1>2, <1>3, FirstPagesFacts DEF FirstPages
<1>5. \A p \in Procs \ DOMAIN pgd : Gone(table, p)
  BY <1>1, <1>3 DEF Gone, Own
<1> QED BY <1>1, <1>3, <1>4, <1>5 DEF TreesInv

-----------------------------------------------------------------------------
(* The steps of one process                                                *)

\* What a process changes of its own leaves the trees of the others.
LEMMA OthersStay ==
  ASSUME TreesInv, NEW S, NEW p \in Procs, Same(table, S, p)
  PROVE  /\ KernelTables(S, OsPages)
         /\ \A t \in DOMAIN S : t.proc \in Procs
         /\ \A q \in Procs \ DOMAIN pgd : q # p => Gone(S, q)
         /\ \A q \in DOMAIN pgd : q # p =>
              \E k \in Nat : HasTree(S, q, k, mapped[q], Low(OsPages))
<1> DEFINE low == Low(OsPages)
<1>1. /\ KernelTables(table, OsPages)
      /\ \A t \in DOMAIN table : t.proc \in Procs
      /\ \A q \in Procs \ DOMAIN pgd : Gone(table, q)
      /\ \A q \in DOMAIN pgd : \E k \in Nat : HasTree(table, q, k, mapped[q], low)
  BY DEF TreesInv
<1> HIDE DEF low
<1>2. KernelTables(S, OsPages)
  BY <1>1, KernelStays
<1>3. \A t \in DOMAIN S : t.proc \in Procs
  BY <1>1, SameFacts
<1>4. \A q \in Procs \ DOMAIN pgd : q # p => Gone(S, q)
  BY <1>1, GoneStays
<1>5. ASSUME NEW q \in DOMAIN pgd, q # p
      PROVE  \E k \in Nat : HasTree(S, q, k, mapped[q], low)
  <2>1. PICK k \in Nat : HasTree(table, q, k, mapped[q], low)
    BY <1>1
  <2> DEFINE M == mapped[q]
  <2>2. HasTree(table, q, k, M, low)
    BY <2>1
  <2> HIDE DEF M
  <2>3. HasTree(S, q, k, M, low)
    BY <2>2, <1>5, TreeStays
  <2> QED BY <2>3 DEF M
<1> QED BY <1>2, <1>3, <1>4, <1>5 DEF low

\* The invariant stays if one process's tree changes to one for other pages, and
\* nothing else does.
LEMMA OneTreeChanges ==
  ASSUME TreesInv, NEW p \in Procs, p \in DOMAIN pgd, Same(table, table', p),
         Fine(table'), pgd' = pgd, NEW N \in SUBSET UserPages,
         CodePages \subseteq N, mapped' = [mapped EXCEPT ![p] = N],
         \E k \in Nat : HasTree(table', p, k, N, Low(OsPages))
  PROVE  TreesInv'
<1> DEFINE low == Low(OsPages)
<1>1. /\ KernelTables(table', OsPages)
      /\ \A t \in DOMAIN table' : t.proc \in Procs
      /\ \A q \in Procs \ DOMAIN pgd : q # p => Gone(table', q)
      /\ \A q \in DOMAIN pgd : q # p =>
           \E k \in Nat : HasTree(table', q, k, mapped[q], low)
  BY OthersStay
<1>2. /\ DOMAIN pgd \subseteq Procs /\ mapped \in [Procs -> SUBSET UserPages]
      /\ \A q \in DOMAIN pgd : pgd[q] = Name(q, PGD, 0) /\ CodePages \subseteq mapped[q]
  BY DEF TreesInv
<1>3. \E k \in Nat : HasTree(table', p, k, N, low)
  OBVIOUS
<1> HIDE DEF low
<1>4. /\ mapped' \in [Procs -> SUBSET UserPages] /\ mapped'[p] = N
      /\ \A q \in Procs : q # p => mapped'[q] = mapped[q]
  BY <1>2
<1>5. \A q \in DOMAIN pgd' : pgd'[q] = Name(q, PGD, 0) /\ CodePages \subseteq mapped'[q]
  BY <1>2, <1>4
<1>6. \A q \in DOMAIN pgd' : \E k \in Nat : HasTree(table', q, k, mapped'[q], low)
  <2> SUFFICES ASSUME NEW q \in DOMAIN pgd
               PROVE  \E k \in Nat : HasTree(table', q, k, mapped'[q], low)
    OBVIOUS
  <2>1. CASE q = p
    BY <2>1, <1>3, <1>4
  <2>2. CASE q # p
    <3>1. mapped'[q] = mapped[q]
      BY <2>2, <1>2, <1>4
    <3> QED BY <2>2, <3>1, <1>1
  <2> QED BY <2>1, <2>2
<1>7. \A q \in Procs \ DOMAIN pgd' : Gone(table', q)
  BY <1>1
<1> QED BY <1>1, <1>2, <1>4, <1>5, <1>6, <1>7 DEF TreesInv, low

\* What the invariant says of a process that is alive.
LEMMA AliveFacts ==
  ASSUME TreesInv, NEW p, Alive(p)
  PROVE  /\ p \in Procs /\ p \in DOMAIN pgd /\ pgd[p] = Name(p, PGD, 0)
         /\ mapped[p] \in SUBSET UserPages /\ CodePages \subseteq mapped[p]
         /\ Fine(table)
         /\ \E k \in Nat : HasTree(table, p, k, mapped[p], Low(OsPages))
BY DEF TreesInv, Alive

\* Mapping a page.
LEMMA MapPageKeeps ==
  ASSUME TreesInv, NEW p \in Procs, NEW v \in DataPages \cup AreaPages, MapPage(p, v)
  PROVE  TreesInv'
<1> DEFINE M == mapped[p]
           low == Low(OsPages)
<1>1. v \in UserPages
  BY DEF UserPages
<1>2. /\ p \in DOMAIN pgd /\ pgd[p] = Name(p, PGD, 0)
      /\ M \in SUBSET UserPages /\ CodePages \subseteq M /\ Fine(table)
  BY AliveFacts DEF MapPage
<1>3. PICK k \in Nat : HasTree(table, p, k, M, low)
  BY AliveFacts DEF MapPage
<1>4. /\ table' = MapPhysicalPage(table, p, Name(p, PGD, 0), v)
      /\ mapped' = [mapped EXCEPT ![p] = M \cup {v}] /\ pgd' = pgd
  BY <1>2 DEF MapPage
<1> HIDE DEF M, low
<1>5. HasTree(table', p, k, M \cup {v}, low) /\ Fine(table') /\ Same(table, table', p)
  BY <1>1, <1>2, <1>3, <1>4, MapFacts
<1> DEFINE N == M \cup {v}
<1>6. N \in SUBSET UserPages /\ CodePages \subseteq N
  BY <1>1, <1>2
<1>7. HasTree(table', p, k, N, low) /\ mapped' = [mapped EXCEPT ![p] = N]
  BY <1>4, <1>5
<1> HIDE DEF N
<1> QED BY <1>2, <1>4, <1>5, <1>6, <1>7, OneTreeChanges DEF low
-----------------------------------------------------------------------------
(* The walk                                                                *)

\* get_user_pte finds the page if it is mapped, and nothing else.
LEMMA WalkFacts ==
  ASSUME NEW T, NEW p, NEW k, NEW M, NEW low, HasTree(T, p, k, M, low), NEW v \in UserPages
  PROVE  GetUserPte(T, Name(p, PGD, 0), v) = PageEntry(v, M)
<1> DEFINE c == v \div FAN
           b == c \div FAN
           top == Name(p, PGD, 0)
           pud == T[top][Index(v, PGD)]
           pmd == Step(T, pud, Index(v, PUD))
           pte == Step(T, pmd, Index(v, PMD))
           e == Step(T, pte, Index(v, PTE))
<1>0. GetUserPte(T, top, v) = e
  BY DEF GetUserPte
<1>1. /\ v \in Nat /\ c \in Nat /\ b \in UserSlots /\ b \in Entries
      /\ c % FAN \in Entries /\ v % FAN \in Entries
      /\ c = b * FAN + (c % FAN) /\ v = c * FAN + (v % FAN)
      /\ Index(v, PGD) = 0 /\ Index(v, PUD) = b /\ Index(v, PMD) = c % FAN
      /\ Index(v, PTE) = v % FAN
  BY PlaceFacts, UserPageFacts, SlotsOfPud
<1>2. pud = UserTable(Pud(p, k))
  BY <1>1, TreeRows
<1> HIDE DEF c, b, pud
<1>3. pmd = Lead(T, Name(p, PMD, b))
  <2>1. pmd = T[Pud(p, k)][b]
    BY <1>1, <1>2, EntryFacts DEF Step
  <2> QED BY <2>1, <1>1, TreeRows
<1> HIDE DEF pmd
<1>4. CASE Name(p, PMD, b) \notin DOMAIN T
  <2>1. ~ IsTable(pmd)
    BY <1>3, <1>4, EntryFacts DEF Lead
  <2>2. pte = Empty
    BY <2>1 DEF Step
  <2> HIDE DEF pte
  <2>3. e = Empty
    BY <2>2, EntryFacts DEF Step
  <2>4. v \notin M
    BY <1>4, OwnTables DEF c, b
  <2> QED BY <1>0, <2>3, <2>4 DEF PageEntry
<1>5. CASE Name(p, PMD, b) \in DOMAIN T
  <2>1. pmd = UserTable(Name(p, PMD, b))
    BY <1>3, <1>5 DEF Lead, UserTable
  <2>2. pte = T[Name(p, PMD, b)][c % FAN]
    BY <1>1, <2>1, EntryFacts DEF Step
  <2>3. T[Name(p, PMD, b)][c % FAN] = Lead(T, Name(p, PTE, b * FAN + (c % FAN)))
    BY <1>1, <1>5, TreeRows
  <2>4. pte = Lead(T, Name(p, PTE, c))
    BY <2>2, <2>3, <1>1
  <2> HIDE DEF pte
  <2>5. CASE Name(p, PTE, c) \notin DOMAIN T
    <3>1. ~ IsTable(pte)
      BY <2>4, <2>5, EntryFacts DEF Lead
    <3>2. e = Empty
      BY <3>1 DEF Step
    <3>3. v \notin M
      BY <2>5, OwnTables DEF c
    <3> QED BY <1>0, <3>2, <3>3 DEF PageEntry
  <2>6. CASE Name(p, PTE, c) \in DOMAIN T
    <3>1. pte = UserTable(Name(p, PTE, c))
      BY <2>4, <2>6 DEF Lead, UserTable
    <3>2. e = T[Name(p, PTE, c)][v % FAN]
      BY <1>1, <3>1, EntryFacts DEF Step
    <3>3. T[Name(p, PTE, c)][v % FAN] =
            IF c * FAN + (v % FAN) \in M THEN ToPage(c * FAN + (v % FAN)) ELSE Empty
      BY <1>1, <2>6, TreeRows
    <3>4. T[Name(p, PTE, c)][v % FAN] = PageEntry(v, M)
      BY <3>3, <1>1 DEF PageEntry
    <3> QED BY <1>0, <3>2, <3>4
  <2> QED BY <2>5, <2>6
<1> QED BY <1>4, <1>5

\* The last table on the way to a mapped page.
LEMMA TableOfFacts ==
  ASSUME NEW T, NEW p, NEW k, NEW M, NEW low, HasTree(T, p, k, M, low), NEW v \in M
  PROVE  TableOf(T, Name(p, PGD, 0), v) = Name(p, PTE, v \div FAN)
<1> DEFINE c == v \div FAN
           b == c \div FAN
           top == Name(p, PGD, 0)
           pud == T[top][Index(v, PGD)].to
           pmd == T[pud][Index(v, PUD)].to
<1>0. TableOf(T, top, v) = T[pmd][Index(v, PMD)].to
  BY DEF TableOf
<1>1. v \in UserPages /\ Name(p, PTE, c) \in DOMAIN T /\ Name(p, PMD, b) \in DOMAIN T
  BY OwnTables
<1>2. /\ b \in UserSlots /\ b \in Entries /\ c % FAN \in Entries
      /\ c = b * FAN + (c % FAN)
      /\ Index(v, PGD) = 0 /\ Index(v, PUD) = b /\ Index(v, PMD) = c % FAN
  BY <1>1, PlaceFacts, UserPageFacts, SlotsOfPud
<1>3. pud = Pud(p, k)
  BY <1>2, TreeRows, EntryFacts
<1> HIDE DEF c, b, pud
<1>4. T[Pud(p, k)][b] = UserTable(Name(p, PMD, b))
  <2>1. T[Pud(p, k)][b] = Lead(T, Name(p, PMD, b))
    BY <1>2, TreeRows
  <2> QED BY <2>1, <1>1 DEF Lead, UserTable
<1>5. pmd = Name(p, PMD, b)
  BY <1>2, <1>3, <1>4, EntryFacts
<1> HIDE DEF pmd
<1>6. T[Name(p, PMD, b)][c % FAN] = UserTable(Name(p, PTE, c))
  <2>1. T[Name(p, PMD, b)][c % FAN] = Lead(T, Name(p, PTE, b * FAN + (c % FAN)))
    BY <1>1, <1>2, TreeRows
  <2> QED BY <2>1, <1>1, <1>2 DEF Lead, UserTable
<1> QED BY <1>0, <1>2, <1>5, <1>6, EntryFacts DEF c

\* Unmapping one page leaves its table, even if it is empty then.
LEMMA InvalidatePteKeeps ==
  ASSUME TreesInv, NEW p \in Procs, NEW v \in DataPages, InvalidatePte(p, v)
  PROVE  TreesInv'
<1> DEFINE M == mapped[p]
           low == Low(OsPages)
           t == Name(p, PTE, v \div FAN)
           N == M \ {v}
<1>1. v \in UserPages /\ v \notin CodePages
  BY TreeAssumption DEF UserPages
<1>2. /\ p \in DOMAIN pgd /\ pgd[p] = Name(p, PGD, 0)
      /\ M \in SUBSET UserPages /\ CodePages \subseteq M /\ Fine(table)
  BY AliveFacts DEF InvalidatePte
<1>3. PICK k \in Nat : HasTree(table, p, k, M, low)
  BY AliveFacts DEF InvalidatePte
<1>4. /\ GetUserPte(table, Name(p, PGD, 0), v) # Empty
      /\ table' = Put(table, TableOf(table, Name(p, PGD, 0), v), Index(v, PTE), Empty)
      /\ mapped' = [mapped EXCEPT ![p] = N] /\ pgd' = pgd
  BY <1>2 DEF InvalidatePte, Put
<1> HIDE DEF M, low
<1>5. v \in M
  <2>1. GetUserPte(table, Name(p, PGD, 0), v) = PageEntry(v, M)
    BY <1>1, <1>3, WalkFacts
  <2> QED BY <2>1, <1>4 DEF PageEntry
<1>6. TableOf(table, Name(p, PGD, 0), v) = t /\ t \in DOMAIN table
  BY <1>3, <1>5, TableOfFacts, OwnTables
<1>7. v % FAN \in Entries /\ Index(v, PTE) = v % FAN /\ v \div FAN \in Nat
  BY <1>1, PlaceFacts, UserPageFacts
<1>8. DOMAIN table[t] = Entries
  BY <1>3, <1>6, <1>7, TreeRows
<1>9. /\ DOMAIN table' = DOMAIN table
      /\ table'[t] = RowPut(table[t], v % FAN, Empty)
      /\ \A x \in DOMAIN table \ {t} : table'[x] = table[x]
  BY <1>4, <1>6, <1>7, <1>8, PutFacts
<1>10. N \in SUBSET UserPages /\ CodePages \subseteq N /\ N \ {v} = M \ {v} /\ PageEntry(v, N) = Empty
  BY <1>1, <1>2 DEF PageEntry
<1>11. t.proc = p /\ ~ KernelPmd(t)
  BY OwnNames
<1> HIDE DEF N
<1>12. HasTree(table', p, k, N, low)
  BY <1>1, <1>3, <1>6, <1>9, <1>10, PageChanged
<1> HIDE DEF t
<1>13. Same(table, table', p)
  BY <1>2, <1>9, <1>11 DEF Same
<1>14. Fine(table')
  <2>1. IsRow(table'[t]) /\ DOMAIN table' = DOMAIN table \cup {t}
    BY <1>6, <1>9, Rows
  <2> QED BY <2>1, <1>2, <1>9, FineStays
<1> QED BY <1>2, <1>4, <1>10, <1>12, <1>13, <1>14, OneTreeChanges DEF low

-----------------------------------------------------------------------------
(* Where a purge starts and ends in each table                             *)

\* The first of the numbers of slot c from start on.
Begin(start, c) == IF c = start \div FAN THEN start ELSE c * FAN

\* Where a range that starts in the table c or before it starts in that table.
LEMMA BeginFacts ==
  ASSUME NEW start \in Nat, NEW c \in Nat, start \div FAN <= c
  PROVE  /\ Begin(start, c) \in Nat /\ Begin(start, c) % FAN \in Entries
         /\ Begin(start, c) \div FAN = c
         /\ Begin(start, c) = c * FAN + (Begin(start, c) % FAN)
         /\ c * FAN \in Nat
         /\ \A l \in Entries : Begin(start, c) % FAN <= l <=> start <= c * FAN + l
         /\ c # start \div FAN => start < c * FAN /\ Begin(start, c) % FAN = 0
<1>1. /\ start \div FAN \in Nat /\ start % FAN \in Entries
      /\ start = (start \div FAN) * FAN + (start % FAN)
  BY Division
<1>2. c * FAN \in Nat /\ \A l \in Entries : l \in Nat
  BY FanFacts, Products
<1>3. CASE c = start \div FAN
  <2>1. Begin(start, c) = start
    BY <1>3 DEF Begin
  <2>2. start = c * FAN + (start % FAN)
    BY <1>1, <1>3
  <2>3. \A l \in Entries : start % FAN <= l <=> start <= c * FAN + l
    <3> DEFINE r == start % FAN
               x == c * FAN
    <3>1. r \in Nat /\ x \in Nat /\ start = x + r
      BY <1>1, <1>2, <2>2
    <3> HIDE DEF r, x
    <3>2. \A l \in Entries : r <= l <=> start <= x + l
      BY <1>2, <3>1
    <3> QED BY <3>2 DEF r, x
  <2> QED BY <1>1, <1>2, <1>3, <2>1, <2>2, <2>3
<1>4. CASE c # start \div FAN
  <2>1. Begin(start, c) = c * FAN
    BY <1>4 DEF Begin
  <2>2. (c * FAN + 0) \div FAN = c /\ (c * FAN + 0) % FAN = 0 /\ c * FAN + 0 = c * FAN
    BY <1>2, DivisionIs, FanFacts
  <2>3. start < c * FAN
    <3>1. ~ (c * FAN <= start)
      <4>1. c * FAN <= start => c <= start \div FAN
        BY DivisionGrows
      <4> QED BY <4>1, <1>1, <1>4
    <3> QED BY <3>1, <1>2
  <2>4. \A l \in Entries : 0 <= l /\ start <= c * FAN + l
    BY <1>2, <2>3
  <2> QED BY <1>2, <2>1, <2>2, <2>3, <2>4, FanFacts
<1> QED BY <1>3, <1>4

\* The pages below an entry of the PUD.
LEMMA Square ==
  ASSUME NEW b \in Nat
  PROVE  /\ b * FAN \in Nat /\ b * (FAN * FAN) = (b * FAN) * FAN
         /\ ((b * FAN) * FAN) \div FAN = b * FAN
<1>1. b * FAN \in Nat /\ FAN \in Nat
  BY FanFacts, Products
<1>2. b * (FAN * FAN) = (b * FAN) * FAN
  BY <1>1
<1>3. ((b * FAN) * FAN + 0) \div FAN = b * FAN
  BY <1>1, DivisionIs, FanFacts
<1>4. (b * FAN) * FAN + 0 = (b * FAN) * FAN
  <2>1. (b * FAN) * FAN \in Nat
    BY <1>1, FanFacts, Products
  <2> QED BY <2>1
<1> QED BY <1>1, <1>2, <1>3, <1>4

\* Where the purge of the PMD b starts, and of the last table c.
PmdFrom(start, b) == IF b = (start \div FAN) \div FAN THEN start ELSE (b * FAN) * FAN
\* Where it starts in a last table, and the entries of each level it visits.
PteFrom(start, c) == Begin(start, c)

\* The slots of the PUD, of its tables and of theirs that a purge touches.
InPud(start, end) ==
  {b \in UserSlots : (start \div FAN) \div FAN <= b /\ b <= (end \div FAN) \div FAN}
InPmd(start, end, b) ==
  {j \in Entries : start \div FAN <= b * FAN + j /\ b * FAN + j <= end \div FAN}
InPte(start, end, c) == {l \in Entries : start <= c * FAN + l /\ c * FAN + l <= end}

LEMMA SizeFacts == Size(PMD) = FAN /\ Size(PUD) = FAN * FAN
BY DEF Size, PMD, PUD, PGD

\* The entries each level visits, and where the range starts below each of them.
LEMMA RangePgd ==
  ASSUME NEW start \in UserRange, NEW end \in UserRange
  PROVE  InRange(start, end, PGD) = {0} /\ From(start, 0, PGD) = start
<1>1. /\ Index(start, PGD) = 0 /\ Slot(start, PGD) = 0
      /\ Index(end, PGD) = 0 /\ Slot(end, PGD) = 0
  BY PlaceFacts
<1>2. \A i \in Entries : i \in Nat
  BY FanFacts
<1> QED BY <1>1, <1>2, FanFacts DEF InRange, From

\* In the PUD.
LEMMA RangePud ==
  ASSUME NEW start \in UserRange, NEW end \in UserRange
  PROVE  /\ InRange(start, end, PUD) = InPud(start, end)
         /\ \A b \in InPud(start, end) : From(start, b, PUD) = PmdFrom(start, b)
<1> DEFINE s == (start \div FAN) \div FAN
           e == (end \div FAN) \div FAN
<1>1. /\ s \in UserSlots /\ Index(start, PUD) = s /\ Slot(start, PUD) = s
      /\ e \in UserSlots /\ Slot(end, PUD) = e
  BY PlaceFacts
<1> HIDE DEF s, e
<1>2. s \in Nat /\ e \in Nat /\ s >= OS_ENTRIES /\ OS_ENTRIES \in Nat
  BY <1>1, SlotsOfPud, FanFacts
<1>3. ASSUME NEW i \in Entries
      PROVE  i >= s /\ s + (i - s) <= e <=> i \in UserSlots /\ s <= i /\ i <= e
  BY <1>2, FanFacts DEF UserSlots
<1>4. InRange(start, end, PUD) = {i \in Entries : i >= s /\ s + (i - s) <= e}
  BY <1>1 DEF InRange
<1>5. InPud(start, end) = {b \in UserSlots : s <= b /\ b <= e}
  BY DEF InPud, s, e
<1>6. InRange(start, end, PUD) = InPud(start, end)
  BY <1>3, <1>4, <1>5, SlotsOfPud
<1>7. ASSUME NEW b \in UserSlots PROVE From(start, b, PUD) = PmdFrom(start, b)
  <2>1. b \in Nat /\ s + (b - s) = b
    BY <1>2, SlotsOfPud
  <2>2. From(start, b, PUD) = IF b = s THEN start ELSE (s + (b - s)) * (FAN * FAN)
    BY <1>1, SizeFacts DEF From
  <2>3. From(start, b, PUD) = IF b = s THEN start ELSE b * (FAN * FAN)
    BY <2>1, <2>2
  <2>4. From(start, b, PUD) = IF b = s THEN start ELSE (b * FAN) * FAN
    BY <2>1, <2>3, Square
  <2> QED BY <2>4 DEF PmdFrom, s
<1> QED BY <1>5, <1>6, <1>7

\* In a PMD.
LEMMA RangePmd ==
  ASSUME NEW start \in UserRange, NEW end \in UserRange, NEW b \in UserSlots,
         (start \div FAN) \div FAN <= b
  PROVE  /\ InRange(PmdFrom(start, b), end, PMD) = InPmd(start, end, b)
         /\ \A j \in InPmd(start, end, b) :
              From(PmdFrom(start, b), j, PMD) = PteFrom(start, b * FAN + j)
<1> DEFINE f == PmdFrom(start, b)
           m == start \div FAN
           s == f \div FAN
           r == s % FAN
           e == end \div FAN
           x == b * FAN
<1>0. start \in Nat /\ end \in Nat /\ m \in Nat /\ e \in Nat /\ b \in Nat
  BY UserPageFacts, Division, SlotsOfPud
<1>1. s = Begin(m, b)
  <2>1. ((b * FAN) * FAN) \div FAN = b * FAN
    BY <1>0, Square
  <2> QED BY <2>1 DEF PmdFrom, Begin
<1>2. /\ Begin(m, b) \in Nat /\ Begin(m, b) % FAN \in Entries
      /\ Begin(m, b) = b * FAN + (Begin(m, b) % FAN)
      /\ b * FAN \in Nat
      /\ \A j \in Entries : Begin(m, b) % FAN <= j <=> m <= b * FAN + j
      /\ b # m \div FAN => m < b * FAN /\ Begin(m, b) % FAN = 0
  BY <1>0, BeginFacts
<1>3. Index(f, PMD) = r /\ Slot(f, PMD) = s /\ Slot(end, PMD) = e
  BY SlotFacts
<1>4. f = IF b = m \div FAN THEN start ELSE x * FAN
  BY DEF PmdFrom
<1>5. m = start \div FAN
  OBVIOUS
<1> HIDE DEF f, m, s, r, e, x
<1>6. /\ s \in Nat /\ r \in Nat /\ x \in Nat /\ s = x + r
      /\ \A j \in Entries : r <= j <=> m <= x + j
      /\ b # m \div FAN => m < x /\ r = 0
  BY <1>1, <1>2, FanFacts DEF r, x
<1>7. InRange(f, end, PMD) = {j \in Entries : j >= r /\ s + (j - r) <= e}
  BY <1>3 DEF InRange
<1>8. ASSUME NEW j \in Entries PROVE j \in Nat /\ s + (j - r) = x + j /\ (j >= r <=> r <= j)
  BY <1>6, FanFacts
<1>9. InRange(f, end, PMD) = {j \in Entries : m <= x + j /\ x + j <= e}
  BY <1>6, <1>7, <1>8
<1>10. InPmd(start, end, b) = {j \in Entries : m <= x + j /\ x + j <= e}
  BY DEF InPmd, m, e, x
<1>11. ASSUME NEW j \in Entries, r <= j
       PROVE  From(f, j, PMD) = PteFrom(start, x + j)
  <2>1. From(f, j, PMD) = IF j = r THEN f ELSE (s + (j - r)) * FAN
    BY <1>3, SizeFacts DEF From
  <2>2. From(f, j, PMD) = IF j = r THEN f ELSE (x + j) * FAN
    BY <2>1, <1>8
  <2>3. PteFrom(start, x + j) = IF x + j = m THEN start ELSE (x + j) * FAN
    BY <1>5 DEF PteFrom, Begin
  <2>4. CASE b = m \div FAN
    <3>1. m = x + r
      <4>1. Begin(m, b) = m
        BY <2>4 DEF Begin
      <4> QED BY <4>1, <1>1, <1>6
    <3>2. x + j = m <=> j = r
      BY <3>1, <1>6, <1>8
    <3>3. f = start
      BY <2>4, <1>4
    <3> QED BY <2>2, <2>3, <3>2, <3>3
  <2>5. CASE b # m \div FAN
    <3>1. f = x * FAN /\ r = 0 /\ m < x
      BY <2>5, <1>4, <1>6
    <3>2. x + j # m
      BY <3>1, <1>0, <1>6, <1>8
    <3>3. x + r = x
      BY <3>1, <1>6
    <3> QED BY <2>2, <2>3, <3>1, <3>2, <3>3
  <2> QED BY <2>4, <2>5
<1> QED BY <1>6, <1>9, <1>10, <1>11 DEF f, x

\* In a last table.
LEMMA RangePte ==
  ASSUME NEW start \in UserRange, NEW end \in UserRange, NEW c \in Nat, start \div FAN <= c
  PROVE  InRange(PteFrom(start, c), end, PTE) = InPte(start, end, c)
<1> DEFINE g == Begin(start, c)
           r == g % FAN
           x == c * FAN
<1>0. start \in Nat /\ end \in Nat
  BY UserPageFacts
<1>1. /\ g \in Nat /\ r \in Entries /\ g = x + r /\ x \in Nat
      /\ \A l \in Entries : r <= l <=> start <= x + l
  BY <1>0, BeginFacts
<1>2. Index(g, PTE) = r /\ Slot(g, PTE) = g /\ Slot(end, PTE) = end
  BY SlotFacts
<1> HIDE DEF g, r, x
<1>3. InRange(g, end, PTE) = {l \in Entries : l >= r /\ g + (l - r) <= end}
  BY <1>2 DEF InRange
<1>4. ASSUME NEW l \in Entries PROVE g + (l - r) = x + l /\ (l >= r <=> r <= l)
  BY <1>1, FanFacts
<1>5. InRange(g, end, PTE) = {l \in Entries : start <= x + l /\ x + l <= end}
  BY <1>1, <1>3, <1>4
<1> QED BY <1>5 DEF InPte, PteFrom, g, x

-----------------------------------------------------------------------------
(* What a purge clears: N are the pages that stay mapped                   *)

\* No page of N is in the table c; what becomes of tables with none.
NoneOf(N, c) == \A v \in N : v \div FAN # c

\* The last tables and the PMDs that a purge gives back.
PteGone(T, p, N, start, end, c) ==
  /\ Name(p, PTE, c) \in DOMAIN T
  /\ start \div FAN <= c /\ c <= end \div FAN
  /\ NoneOf(N, c)

PmdGone(T, p, N, start, end, b) ==
  /\ Name(p, PMD, b) \in DOMAIN T /\ b \in InPud(start, end)
  /\ \A j \in Entries : Name(p, PTE, b * FAN + j) \in DOMAIN T =>
       PteGone(T, p, N, start, end, b * FAN + j)

\* The entries of last tables that it clears.
PteClears(T, p, start, end, c, x) ==
  Name(p, PTE, c) \in DOMAIN T /\ \E l \in InPte(start, end, c) : x = <<Name(p, PTE, c), l>>

\* A last table is empty after the purge if none of its pages stays mapped.
LEMMA PtePurged ==
  ASSUME NEW T, NEW p, NEW k, NEW M, NEW low, HasTree(T, p, k, M, low),
         NEW start \in UserRange, NEW end \in UserRange,
         NEW c \in Nat, Name(p, PTE, c) \in DOMAIN T, start \div FAN <= c
  PROVE  LET P == PurgePte(T, Name(p, PTE, c), PteFrom(start, c), end)
         IN /\ \A x : x \in P.cleared <=> PteClears(T, p, start, end, c, x)
            /\ P.empty <=> NoneOf(M \ (start .. end), c)
<1> DEFINE t == Name(p, PTE, c)
           P == PurgePte(T, t, PteFrom(start, c), end)
           In == InPte(start, end, c)
           N == M \ (start .. end)
<1>0. start \in Nat /\ end \in Nat
  BY UserPageFacts
<1>1. InRange(PteFrom(start, c), end, PTE) = In
  BY RangePte
<1> HIDE DEF t, In
<1>2. P.cleared = {t} \X In /\ P.empty = RestEmpty(T[t], In)
  BY <1>1 DEF PurgePte
<1>3. \A x : x \in P.cleared <=> PteClears(T, p, start, end, c, x)
  BY <1>2 DEF PteClears, t, In
<1>4. ASSUME NEW l \in Entries
      PROVE  /\ T[t][l] = PageEntry(c * FAN + l, M)
             /\ l \in In <=> c * FAN + l \in start .. end
             /\ (c * FAN + l) \div FAN = c
  <2>1. T[t][l] = PageEntry(c * FAN + l, M)
    BY TreeRows DEF PageEntry, t
  <2>2. c * FAN + l \in Nat /\ (c * FAN + l) \div FAN = c
    BY DivisionIs
  <2>3. l \in In <=> c * FAN + l \in start .. end
    BY <2>2, <1>0 DEF In, InPte
  <2> QED BY <2>1, <2>2, <2>3
<1>5. ASSUME NEW v \in N, v \div FAN = c
      PROVE  v % FAN \in Entries /\ v = c * FAN + (v % FAN)
  <2>1. v \in Nat
    BY OwnTables, UserPageFacts
  <2> QED BY <2>1, <1>5, Division
<1>6. RestEmpty(T[t], In) <=> NoneOf(N, c)
  <2>1. ASSUME NoneOf(N, c) PROVE RestEmpty(T[t], In)
    <3> SUFFICES ASSUME NEW l \in Entries \ In PROVE T[t][l] = Empty
      BY DEF RestEmpty
    <3>1. c * FAN + l \notin M
      BY <2>1, <1>4 DEF NoneOf
    <3> QED BY <3>1, <1>4 DEF PageEntry
  <2>2. ASSUME RestEmpty(T[t], In) PROVE NoneOf(N, c)
    <3> SUFFICES ASSUME NEW v \in N, v \div FAN = c PROVE FALSE
      BY DEF NoneOf
    <3> DEFINE l == v % FAN
    <3>1. l \in Entries /\ v = c * FAN + l
      BY <1>5
    <3> HIDE DEF l
    <3>2. l \notin In /\ T[t][l] = ToPage(v)
      BY <3>1, <1>4 DEF PageEntry
    <3>3. T[t][l] = Empty
      BY <2>2, <3>1, <3>2 DEF RestEmpty
    <3> QED BY <3>2, <3>3, EntryFacts
  <2> QED BY <2>1, <2>2
<1> HIDE DEF P
<1>7. P.empty <=> NoneOf(N, c)
  BY <1>2, <1>6
<1> QED BY <1>3, <1>7 DEF P, t

\* What an upper level reports, by what the levels below do.
LEMMA UpperFacts ==
  ASSUME NEW T, NEW t, NEW touched, NEW below, \A i \in touched : ~ IsHuge(T[t][i])
  PROVE  LET P == Upper(T, t, touched, below)
         IN /\ \A x : x \in P.cleared <=>
                 \/ \E i \in DOMAIN below : below[i].empty /\ x = <<t, i>>
                 \/ \E i \in DOMAIN below : x \in below[i].cleared
            /\ P.empty <=> RestEmpty(T[t], touched) /\ \A i \in DOMAIN below : below[i].empty
<1> DEFINE huge == {i \in touched : IsHuge(T[t][i])}
           gone == {i \in DOMAIN below : below[i].empty}
           P == Upper(T, t, touched, below)
<1>1. huge = {}
  OBVIOUS
<1> HIDE DEF huge
<1>2. /\ P.cleared = ({t} \X (huge \cup gone)) \cup UNION {below[i].cleared : i \in DOMAIN below}
      /\ P.empty = (RestEmpty(T[t], touched) /\ gone = DOMAIN below)
  BY DEF Upper, huge
<1> HIDE DEF P
<1>3. ASSUME NEW x
      PROVE  x \in P.cleared <=> \/ \E i \in DOMAIN below : below[i].empty /\ x = <<t, i>>
                                 \/ \E i \in DOMAIN below : x \in below[i].cleared
  <2>1. x \in P.cleared <=> \/ \E i \in huge \cup gone : x = <<t, i>>
                            \/ \E i \in DOMAIN below : x \in below[i].cleared
    BY <1>2
  <2> QED BY <2>1, <1>1
<1>4. P.empty <=> RestEmpty(T[t], touched) /\ \A i \in DOMAIN below : below[i].empty
  <2>1. gone = DOMAIN below <=> \A i \in DOMAIN below : below[i].empty
    OBVIOUS
  <2> HIDE DEF gone
  <2> QED BY <2>1, <1>2
<1> QED BY <1>3, <1>4 DEF P

\* The entries of a PMD that are cleared, and of the last tables below it.
PmdClears(T, p, N, start, end, b, x) ==
  \/ \E j \in Entries : /\ PteGone(T, p, N, start, end, b * FAN + j)
                        /\ x = <<Name(p, PMD, b), j>>
  \/ \E j \in Entries : PteClears(T, p, start, end, b * FAN + j, x)

\* A PMD is empty if none of its tables is left.
LEMMA PmdPurged ==
  ASSUME NEW T, NEW p, NEW k, NEW M, NEW low, HasTree(T, p, k, M, low),
         NEW start \in UserRange, NEW end \in UserRange,
         NEW b \in InPud(start, end), Name(p, PMD, b) \in DOMAIN T
  PROVE  LET P == PurgePmd(T, Name(p, PMD, b), PmdFrom(start, b), end)
         IN /\ \A x : x \in P.cleared <=> PmdClears(T, p, M \ (start .. end), start, end, b, x)
            /\ P.empty <=> PmdGone(T, p, M \ (start .. end), start, end, b)
<1> DEFINE t == Name(p, PMD, b)
           N == M \ (start .. end)
           f == PmdFrom(start, b)
           touched == InPmd(start, end, b)
           c(j) == b * FAN + j
           below == [j \in Leading(T, t, touched) |->
                       PurgePte(T, T[t][j].to, From(f, j, PMD), end)]
           P == PurgePmd(T, t, f, end)
<1>1. /\ b \in UserSlots /\ (start \div FAN) \div FAN <= b /\ b \in Nat
      /\ InRange(f, end, PMD) = touched
      /\ \A j \in touched : From(f, j, PMD) = PteFrom(start, c(j))
  <2>1. b \in UserSlots /\ (start \div FAN) \div FAN <= b
    BY DEF InPud
  <2> QED BY <2>1, RangePmd, SlotsOfPud
<1>2. P = Upper(T, t, touched, below)
  BY <1>1 DEF PurgePmd
<1>3. ASSUME NEW j \in Entries
      PROVE  /\ T[t][j] = Lead(T, Name(p, PTE, c(j))) /\ c(j) \in Nat
             /\ ~ IsHuge(T[t][j])
             /\ IsTable(T[t][j]) <=> Name(p, PTE, c(j)) \in DOMAIN T
             /\ Name(p, PTE, c(j)) \in DOMAIN T => T[t][j].to = Name(p, PTE, c(j))
             /\ T[t][j] = Empty <=> Name(p, PTE, c(j)) \notin DOMAIN T
             /\ j \in touched <=> start \div FAN <= c(j) /\ c(j) <= end \div FAN
  <2>1. T[t][j] = Lead(T, Name(p, PTE, c(j)))
    BY <1>1, TreeRows
  <2>2. c(j) \in Nat
    BY <1>1, DivisionIs
  <2>3. j \in touched <=> start \div FAN <= c(j) /\ c(j) <= end \div FAN
    BY DEF InPmd
  <2> HIDE DEF t, c, touched
  <2>4. CASE Name(p, PTE, c(j)) \in DOMAIN T
    <3>1. T[t][j] = UserTable(Name(p, PTE, c(j)))
      BY <2>1, <2>4 DEF Lead, UserTable
    <3> QED BY <2>2, <2>1, <2>3, <2>4, <3>1, EntryFacts
  <2>5. CASE Name(p, PTE, c(j)) \notin DOMAIN T
    <3>1. T[t][j] = Empty
      BY <2>1, <2>5 DEF Lead
    <3> QED BY <2>2, <2>1, <2>3, <2>5, <3>1, EntryFacts
  <2> QED BY <2>4, <2>5
<1>4. touched \subseteq Entries
  BY DEF InPmd
<1> HIDE DEF t, touched, N
<1>5. DOMAIN below = {j \in touched : Name(p, PTE, c(j)) \in DOMAIN T}
  BY <1>3, <1>4 DEF Leading
<1>6. ASSUME NEW j \in DOMAIN below
      PROVE  /\ \A x : x \in below[j].cleared <=> PteClears(T, p, start, end, c(j), x)
             /\ below[j].empty <=> NoneOf(N, c(j))
  <2>1. j \in touched /\ j \in Entries /\ Name(p, PTE, c(j)) \in DOMAIN T
    BY <1>4, <1>5
  <2>2. below[j] = PurgePte(T, Name(p, PTE, c(j)), PteFrom(start, c(j)), end)
    BY <2>1, <1>1, <1>3
  <2>3. c(j) \in Nat /\ start \div FAN <= c(j)
    BY <2>1, <1>3
  <2> HIDE DEF c, below
  <2> QED BY <2>1, <2>2, <2>3, PtePurged DEF N
<1> HIDE DEF below, P
<1>7. \A i \in touched : ~ IsHuge(T[t][i])
  BY <1>3, <1>4
<1>8. /\ \A x : x \in P.cleared <=>
                 \/ \E i \in DOMAIN below : below[i].empty /\ x = <<t, i>>
                 \/ \E i \in DOMAIN below : x \in below[i].cleared
      /\ P.empty <=> RestEmpty(T[t], touched) /\ \A i \in DOMAIN below : below[i].empty
  BY <1>2, <1>7, UpperFacts
<1>9. ASSUME NEW j \in Entries
      PROVE  j \in DOMAIN below /\ below[j].empty <=> PteGone(T, p, N, start, end, c(j))
  BY <1>3, <1>5, <1>6 DEF PteGone
<1>10. ASSUME NEW j \in Entries, NEW x
       PROVE  j \in DOMAIN below /\ x \in below[j].cleared <=> PteClears(T, p, start, end, c(j), x)
  <2>1. CASE j \in DOMAIN below
    BY <2>1, <1>6
  <2>2. CASE j \notin DOMAIN below
    <3>1. ~ PteClears(T, p, start, end, c(j), x)
      <4> SUFFICES ASSUME PteClears(T, p, start, end, c(j), x) PROVE FALSE
        OBVIOUS
      <4>1. Name(p, PTE, c(j)) \in DOMAIN T
        BY DEF PteClears
      <4>2. PICK l \in Entries : start <= c(j) * FAN + l /\ c(j) * FAN + l <= end
        BY DEF PteClears, InPte
      <4>3. c(j) \in Nat
        BY <1>3
      <4>4. c(j) * FAN + l \in Nat /\ (c(j) * FAN + l) \div FAN = c(j)
        BY <4>3, DivisionIs
      <4>5. start \in Nat /\ end \in Nat
        BY UserPageFacts
      <4>6. start \div FAN <= c(j) /\ c(j) <= end \div FAN
        <5> DEFINE y == c(j) * FAN + l
        <5>1. y \in Nat /\ y \div FAN = c(j) /\ start <= y /\ y <= end
          BY <4>2, <4>4
        <5> HIDE DEF y
        <5>2. start \div FAN <= y \div FAN /\ y \div FAN <= end \div FAN
          BY <5>1, <4>5, DivisionGrows
        <5> QED BY <5>1, <5>2
      <4> QED BY <4>1, <4>6, <1>3, <1>5, <2>2
    <3> QED BY <2>2, <3>1
  <2> QED BY <2>1, <2>2
<1>11. DOMAIN below \subseteq Entries
  BY <1>4, <1>5
<1>12. ASSUME NEW x
       PROVE  x \in P.cleared <=> PmdClears(T, p, N, start, end, b, x)
  BY <1>8, <1>9, <1>10, <1>11 DEF PmdClears, t
<1>13. P.empty <=> PmdGone(T, p, N, start, end, b)
  <2>1. RestEmpty(T[t], touched) <=> \A j \in Entries : Name(p, PTE, c(j)) \in DOMAIN T => j \in touched
    BY <1>3 DEF RestEmpty
  <2>2. (\A j \in Entries : Name(p, PTE, c(j)) \in DOMAIN T => j \in touched)
          /\ (\A i \in DOMAIN below : below[i].empty)
        <=> \A j \in Entries : Name(p, PTE, c(j)) \in DOMAIN T => PteGone(T, p, N, start, end, c(j))
    BY <1>5, <1>9, <1>11
  <2> QED BY <1>8, <2>1, <2>2 DEF PmdGone
<1> QED BY <1>12, <1>13 DEF P, N, t

PudClears(T, p, k, N, start, end, x) ==
  \/ \E b \in UserSlots : PmdGone(T, p, N, start, end, b) /\ x = <<Pud(p, k), b>>
  \/ \E b \in InPud(start, end) : /\ Name(p, PMD, b) \in DOMAIN T
                                  /\ PmdClears(T, p, N, start, end, b, x)

\* The PUD is never empty: it holds an entry of the kernel.
LEMMA PudPurged ==
  ASSUME NEW T, NEW p, NEW k, NEW M, NEW low, HasTree(T, p, k, M, low),
         NEW start \in UserRange, NEW end \in UserRange,
         NEW o \in KernelSlots, low[o] # Empty
  PROVE  LET P == PurgePud(T, Pud(p, k), start, end)
         IN /\ \A x : x \in P.cleared <=> PudClears(T, p, k, M \ (start .. end), start, end, x)
            /\ ~ P.empty
<1> DEFINE t == Pud(p, k)
           N == M \ (start .. end)
           touched == InPud(start, end)
           below == [b \in Leading(T, t, touched) |->
                       PurgePmd(T, T[t][b].to, From(start, b, PUD), end)]
           P == PurgePud(T, t, start, end)
<1>1. /\ InRange(start, end, PUD) = touched
      /\ \A b \in touched : From(start, b, PUD) = PmdFrom(start, b)
  BY RangePud
<1>2. P = Upper(T, t, touched, below)
  BY <1>1 DEF PurgePud
<1>3. touched \subseteq UserSlots
  BY DEF InPud
<1>4. ASSUME NEW b \in UserSlots
      PROVE  /\ ~ IsHuge(T[t][b])
             /\ IsTable(T[t][b]) <=> Name(p, PMD, b) \in DOMAIN T
             /\ Name(p, PMD, b) \in DOMAIN T => T[t][b].to = Name(p, PMD, b)
  <2>1. T[t][b] = Lead(T, Name(p, PMD, b))
    BY TreeRows
  <2> HIDE DEF t
  <2>2. CASE Name(p, PMD, b) \in DOMAIN T
    <3>1. T[t][b] = UserTable(Name(p, PMD, b))
      BY <2>1, <2>2 DEF Lead, UserTable
    <3> QED BY <2>2, <3>1, EntryFacts
  <2>3. CASE Name(p, PMD, b) \notin DOMAIN T
    <3>1. T[t][b] = Empty
      BY <2>1, <2>3 DEF Lead
    <3> QED BY <2>3, <3>1, EntryFacts
  <2> QED BY <2>2, <2>3
<1>5. ~ RestEmpty(T[t], touched)
  <2>1. T[t][o] = low[o]
    BY TreeRows
  <2>2. o \in Entries \ touched
    BY <1>3, SlotsOfPud
  <2> QED BY <2>1, <2>2 DEF RestEmpty
<1> HIDE DEF t, touched, N
<1>6. DOMAIN below = {b \in touched : Name(p, PMD, b) \in DOMAIN T}
  BY <1>3, <1>4 DEF Leading
<1>7. ASSUME NEW b \in DOMAIN below
      PROVE  /\ \A x : x \in below[b].cleared <=> PmdClears(T, p, N, start, end, b, x)
             /\ below[b].empty <=> PmdGone(T, p, N, start, end, b)
  <2>1. b \in touched /\ b \in UserSlots /\ Name(p, PMD, b) \in DOMAIN T
    BY <1>3, <1>6
  <2>2. below[b] = PurgePmd(T, Name(p, PMD, b), PmdFrom(start, b), end)
    BY <2>1, <1>1, <1>4
  <2> HIDE DEF below
  <2> QED BY <2>1, <2>2, PmdPurged DEF N, touched
<1> HIDE DEF below, P
<1>8. \A i \in touched : ~ IsHuge(T[t][i])
  BY <1>3, <1>4
<1>9. /\ \A x : x \in P.cleared <=>
                 \/ \E i \in DOMAIN below : below[i].empty /\ x = <<t, i>>
                 \/ \E i \in DOMAIN below : x \in below[i].cleared
      /\ P.empty <=> RestEmpty(T[t], touched) /\ \A i \in DOMAIN below : below[i].empty
  BY <1>2, <1>8, UpperFacts
<1>10. ASSUME NEW b \in UserSlots
       PROVE  b \in DOMAIN below /\ below[b].empty <=> PmdGone(T, p, N, start, end, b)
  BY <1>6, <1>7 DEF PmdGone, touched
<1>11. ASSUME NEW x
       PROVE  x \in P.cleared <=> PudClears(T, p, k, N, start, end, x)
  <2>1. (\E i \in DOMAIN below : below[i].empty /\ x = <<t, i>>)
          <=> \E b \in UserSlots : PmdGone(T, p, N, start, end, b) /\ x = <<Pud(p, k), b>>
    BY <1>3, <1>6, <1>10 DEF t
  <2>2. (\E i \in DOMAIN below : x \in below[i].cleared)
          <=> \E b \in InPud(start, end) : /\ Name(p, PMD, b) \in DOMAIN T
                                           /\ PmdClears(T, p, N, start, end, b, x)
    BY <1>6, <1>7 DEF touched
  <2> QED BY <1>9, <2>1, <2>2 DEF PudClears
<1> QED BY <1>5, <1>9, <1>11 DEF P, N, t

\* What a purge clears, table by table.
TreeClears(T, p, k, N, start, end, x) ==
  \/ \E b \in UserSlots : PmdGone(T, p, N, start, end, b) /\ x = <<Pud(p, k), b>>
  \/ \E b \in UserSlots, j \in Entries :
       PteGone(T, p, N, start, end, b * FAN + j) /\ x = <<Name(p, PMD, b), j>>
  \/ \E c \in Nat : PteClears(T, p, start, end, c, x)

\* The whole purge clears the entries of the pages of the range, and those that
\* lead to tables that become empty.
LEMMA TreePurged ==
  ASSUME NEW T, NEW p, NEW k, NEW M, NEW low, HasTree(T, p, k, M, low),
         NEW start \in UserRange, NEW end \in UserRange,
         NEW o \in KernelSlots, low[o] # Empty
  PROVE  \A x : x \in PurgePgd(T, Name(p, PGD, 0), start, end).cleared
                  <=> TreeClears(T, p, k, M \ (start .. end), start, end, x)
<1> DEFINE t == Name(p, PGD, 0)
           N == M \ (start .. end)
           report == PurgePud(T, Pud(p, k), start, end)
           below == [i \in Leading(T, t, {0}) |-> PurgePud(T, T[t][i].to, From(start, i, PGD), end)]
           P == PurgePgd(T, t, start, end)
<1>1. InRange(start, end, PGD) = {0} /\ From(start, 0, PGD) = start
  BY RangePgd
<1>2. P = Upper(T, t, {0}, below)
  BY <1>1 DEF PurgePgd
<1>3. IsTable(T[t][0]) /\ T[t][0].to = Pud(p, k) /\ ~ IsHuge(T[t][0])
  BY TreeRows, EntryFacts
<1>4. DOMAIN below = {0} /\ below[0] = report
  BY <1>1, <1>3 DEF Leading
<1>5. (\A x : x \in report.cleared <=> PudClears(T, p, k, N, start, end, x)) /\ ~ report.empty
  BY PudPurged
<1> HIDE DEF t, N, report, below, P
<1>6. \A i \in {0} : ~ IsHuge(T[t][i])
  BY <1>3
<1>7. \A x : x \in P.cleared <=>
               \/ \E i \in DOMAIN below : below[i].empty /\ x = <<t, i>>
               \/ \E i \in DOMAIN below : x \in below[i].cleared
  BY <1>2, <1>6, UpperFacts
<1>8. \A x : x \in P.cleared <=> PudClears(T, p, k, N, start, end, x)
  BY <1>4, <1>5, <1>7
<1>9. ASSUME NEW x PROVE PudClears(T, p, k, N, start, end, x) <=> TreeClears(T, p, k, N, start, end, x)
  <2>1. ASSUME NEW b \in UserSlots, NEW j \in Entries, NEW c, c = b * FAN + j,
               Name(p, PTE, c) \in DOMAIN T, start \div FAN <= c, c <= end \div FAN
        PROVE  b \in InPud(start, end) /\ Name(p, PMD, b) \in DOMAIN T
    <3>1. c \in Nat /\ c \div FAN = b
      BY <2>1, DivisionIs, SlotsOfPud
    <3>2. start \div FAN \in Nat /\ end \div FAN \in Nat
      BY UserPageFacts, Division
    <3>3. (start \div FAN) \div FAN <= c \div FAN /\ c \div FAN <= (end \div FAN) \div FAN
      <4> DEFINE s == start \div FAN
                 e == end \div FAN
      <4>1. s \in Nat /\ e \in Nat /\ s <= c /\ c <= e
        BY <2>1, <3>2
      <4> HIDE DEF s, e
      <4>2. s \div FAN <= c \div FAN /\ c \div FAN <= e \div FAN
        BY <3>1, <4>1, DivisionGrows
      <4> QED BY <4>2 DEF s, e
    <3>4. Name(p, PMD, c \div FAN) \in DOMAIN T
      BY <2>1, OwnTables
    <3> QED BY <3>1, <3>3, <3>4 DEF InPud
  <2>2. ASSUME PudClears(T, p, k, N, start, end, x)
        PROVE  TreeClears(T, p, k, N, start, end, x)
    <3>1. CASE \E b \in UserSlots : PmdGone(T, p, N, start, end, b) /\ x = <<Pud(p, k), b>>
      BY <3>1 DEF TreeClears
    <3>2. CASE \E b \in InPud(start, end) : /\ Name(p, PMD, b) \in DOMAIN T
                                            /\ PmdClears(T, p, N, start, end, b, x)
      <4>1. PICK b \in InPud(start, end) : PmdClears(T, p, N, start, end, b, x)
        BY <3>2
      <4>2. b \in UserSlots /\ b \in Nat
        BY SlotsOfPud DEF InPud
      <4>3. \A j \in Entries : b * FAN + j \in Nat
        BY <4>2, DivisionIs
      <4> QED BY <4>1, <4>2, <4>3 DEF PmdClears, TreeClears
    <3> QED BY <2>2, <3>1, <3>2 DEF PudClears
  <2>3. ASSUME TreeClears(T, p, k, N, start, end, x)
        PROVE  PudClears(T, p, k, N, start, end, x)
    <3>1. CASE \E b \in UserSlots : PmdGone(T, p, N, start, end, b) /\ x = <<Pud(p, k), b>>
      BY <3>1 DEF PudClears
    <3>2. CASE \E b \in UserSlots, j \in Entries :
                 PteGone(T, p, N, start, end, b * FAN + j) /\ x = <<Name(p, PMD, b), j>>
      <4>1. PICK b \in UserSlots, j \in Entries :
                   PteGone(T, p, N, start, end, b * FAN + j) /\ x = <<Name(p, PMD, b), j>>
        BY <3>2
      <4>2. b \in InPud(start, end) /\ Name(p, PMD, b) \in DOMAIN T
        BY <2>1, <4>1 DEF PteGone
      <4>3. PmdClears(T, p, N, start, end, b, x)
        BY <4>1 DEF PmdClears
      <4> QED BY <4>2, <4>3 DEF PudClears
    <3>3. CASE \E c \in Nat : PteClears(T, p, start, end, c, x)
      <4>1. PICK c \in Nat : PteClears(T, p, start, end, c, x)
        BY <3>3
      <4>2. Name(p, PTE, c) \in DOMAIN T
        BY <4>1 DEF PteClears
      <4>3. PICK l \in Entries : start <= c * FAN + l /\ c * FAN + l <= end
        BY <4>1 DEF PteClears, InPte
      <4>4. start \in Nat /\ end \in Nat /\ c * FAN + l \in Nat /\ (c * FAN + l) \div FAN = c
        BY UserPageFacts, DivisionIs
      <4>5. start \div FAN <= c /\ c <= end \div FAN
        <5> DEFINE y == c * FAN + l
        <5>1. y \in Nat /\ y \div FAN = c /\ start <= y /\ y <= end
          BY <4>3, <4>4
        <5> HIDE DEF y
        <5>2. start \div FAN <= y \div FAN /\ y \div FAN <= end \div FAN
          BY <5>1, <4>4, DivisionGrows
        <5> QED BY <5>1, <5>2
      <4> DEFINE b == c \div FAN
                 j == c % FAN
      <4>6. b \in UserSlots /\ j \in Entries /\ c = b * FAN + j
        BY <4>2, OwnTables, Division
      <4> HIDE DEF b, j
      <4>7. b \in InPud(start, end) /\ Name(p, PMD, b) \in DOMAIN T
        BY <2>1, <4>2, <4>5, <4>6
      <4>8. PmdClears(T, p, N, start, end, b, x)
        BY <4>1, <4>6 DEF PmdClears
      <4> QED BY <4>7, <4>8 DEF PudClears
    <3> QED BY <2>3, <3>1, <3>2, <3>3 DEF TreeClears
  <2> QED BY <2>2, <2>3
<1> QED BY <1>8, <1>9 DEF P, N, t

-----------------------------------------------------------------------------
(* A purged tree                                                           *)

\* The tables a purge gives back.
Given(T, C) == {T[x[1]][x[2]].to : x \in {x \in C : IsTable(T[x[1]][x[2]])}}

\* S is T without what C clears.
IsCleared(T, S, C) ==
  /\ DOMAIN S = DOMAIN T \ Given(T, C)
  /\ \A t \in DOMAIN S : IsRow(S[t])
  /\ \A t \in DOMAIN S, i \in Entries :
       S[t][i] = IF <<t, i>> \in C THEN Empty ELSE T[t][i]

\* The tables after a purge, entry by entry.
LEMMA ClearedFacts ==
  ASSUME NEW T, NEW C
  PROVE  IsCleared(T, Cleared(T, C), C)
BY DEF IsCleared, Cleared, Given, IsRow

\* C is what the purge of the tree of p clears.
Clears(T, p, k, M, start, end, C) ==
  \A x : x \in C <=> TreeClears(T, p, k, M \ (start .. end), start, end, x)

\* The entries of each level that are cleared.
ClearsByLevel(T, p, k, N, start, end, C) ==
  /\ \A i : <<Name(p, PGD, 0), i>> \notin C
  /\ \A i : <<Pud(p, k), i>> \in C <=> i \in UserSlots /\ PmdGone(T, p, N, start, end, i)
  /\ \A b, j : <<Name(p, PMD, b), j>> \in C <=>
       b \in UserSlots /\ j \in Entries /\ PteGone(T, p, N, start, end, b * FAN + j)
  /\ \A c, l : <<Name(p, PTE, c), l>> \in C <=>
       c \in Nat /\ l \in InPte(start, end, c) /\ Name(p, PTE, c) \in DOMAIN T
  /\ \A t, i : <<t, i>> \in C =>
       \/ t = Pud(p, k)
       \/ \E b \in UserSlots : t = Name(p, PMD, b)
       \/ \E c \in Nat : t = Name(p, PTE, c)

\* The cleared entries of each table.
LEMMA ClearedEntries ==
  ASSUME NEW T, NEW p, NEW k, NEW M, NEW start, NEW end, NEW C,
         Clears(T, p, k, M, start, end, C)
  PROVE  ClearsByLevel(T, p, k, M \ (start .. end), start, end, C)
<1> DEFINE N == M \ (start .. end)
<1>1. \A x : x \in C <=>
        \/ \E b \in UserSlots : PmdGone(T, p, N, start, end, b) /\ x = <<Pud(p, k), b>>
        \/ \E b \in UserSlots, j \in Entries :
             PteGone(T, p, N, start, end, b * FAN + j) /\ x = <<Name(p, PMD, b), j>>
        \/ \E c \in Nat : PteClears(T, p, start, end, c, x)
  BY DEF Clears, TreeClears
<1> DEFINE AtPud(t, i) == i \in UserSlots /\ PmdGone(T, p, N, start, end, i) /\ t = Pud(p, k)
           Going(b, j) == PteGone(T, p, N, start, end, b * FAN + j)
           AtPmd(t, i) == i \in Entries /\ \E b \in UserSlots : Going(b, i) /\ t = Name(p, PMD, b)
           AtPte(t, i) ==
             \E c \in Nat : /\ Name(p, PTE, c) \in DOMAIN T /\ i \in InPte(start, end, c)
                            /\ t = Name(p, PTE, c)
<1>2. ASSUME NEW t, NEW i PROVE <<t, i>> \in C <=> AtPud(t, i) \/ AtPmd(t, i) \/ AtPte(t, i)
  <2>1. \A u, l : <<t, i>> = <<u, l>> <=> t = u /\ i = l
    OBVIOUS
  <2>2. (\E b \in UserSlots : PmdGone(T, p, N, start, end, b) /\ <<t, i>> = <<Pud(p, k), b>>)
          <=> AtPud(t, i)
    BY <2>1
  <2>3. (\E b \in UserSlots, j \in Entries : Going(b, j) /\ <<t, i>> = <<Name(p, PMD, b), j>>)
          <=> AtPmd(t, i)
    <3> HIDE DEF Going
    <3> QED BY <2>1
  <2>4. (\E c \in Nat : PteClears(T, p, start, end, c, <<t, i>>)) <=> AtPte(t, i)
    BY <2>1 DEF PteClears
  <2> HIDE DEF AtPud, AtPmd, AtPte
  <2> QED BY <1>1, <2>2, <2>3, <2>4
<1>3. \A t, i : AtPud(t, i) => t = Pud(p, k)
  OBVIOUS
<1>4. \A t, i : AtPmd(t, i) => \E b \in UserSlots : t = Name(p, PMD, b)
  OBVIOUS
<1>5. \A t, i : AtPte(t, i) => \E c \in Nat : t = Name(p, PTE, c)
  OBVIOUS
<1>6. ASSUME NEW i
      PROVE  AtPud(Pud(p, k), i) <=> i \in UserSlots /\ PmdGone(T, p, N, start, end, i)
  OBVIOUS
<1>7. ASSUME NEW b, NEW j
      PROVE  AtPmd(Name(p, PMD, b), j) <=> b \in UserSlots /\ j \in Entries /\ Going(b, j)
  <2> HIDE DEF Going
  <2> QED BY NamesDiffer
<1>8. ASSUME NEW c, NEW l
      PROVE  AtPte(Name(p, PTE, c), l) <=>
               c \in Nat /\ l \in InPte(start, end, c) /\ Name(p, PTE, c) \in DOMAIN T
  BY NamesDiffer
<1> HIDE DEF AtPud, AtPmd, AtPte
<1>9. \A i : <<Name(p, PGD, 0), i>> \notin C
  BY <1>2, <1>3, <1>4, <1>5, NamesDiffer, Levels
<1>10. \A i : <<Pud(p, k), i>> \in C <=> i \in UserSlots /\ PmdGone(T, p, N, start, end, i)
  <2>1. \A i : ~ AtPmd(Pud(p, k), i) /\ ~ AtPte(Pud(p, k), i)
    BY <1>4, <1>5, NamesDiffer, Levels
  <2> QED BY <2>1, <1>2, <1>6
<1>11. \A b, j : <<Name(p, PMD, b), j>> \in C <=> b \in UserSlots /\ j \in Entries /\ Going(b, j)
  <2>1. \A b, j : ~ AtPud(Name(p, PMD, b), j) /\ ~ AtPte(Name(p, PMD, b), j)
    BY <1>3, <1>5, NamesDiffer, Levels
  <2> HIDE DEF Going
  <2> QED BY <2>1, <1>2, <1>7
<1>12. \A c, l : <<Name(p, PTE, c), l>> \in C <=>
         c \in Nat /\ l \in InPte(start, end, c) /\ Name(p, PTE, c) \in DOMAIN T
  <2>1. \A c, l : ~ AtPud(Name(p, PTE, c), l) /\ ~ AtPmd(Name(p, PTE, c), l)
    BY <1>3, <1>4, NamesDiffer, Levels
  <2> QED BY <2>1, <1>2, <1>8
<1>13. \A t, i : <<t, i>> \in C =>
         \/ t = Pud(p, k)
         \/ \E b \in UserSlots : t = Name(p, PMD, b)
         \/ \E c \in Nat : t = Name(p, PTE, c)
  BY <1>2, <1>3, <1>4, <1>5
<1> QED BY <1>9, <1>10, <1>11, <1>12, <1>13 DEF ClearsByLevel

\* The tables given back.
LEMMA GivenFacts ==
  ASSUME NEW T, NEW p, NEW k, NEW M, NEW low, HasTree(T, p, k, M, low),
         NEW start, NEW end, NEW C,
         Clears(T, p, k, M, start, end, C), NEW N, N = M \ (start .. end)
  PROVE  \A g : g \in Given(T, C) <=>
           \/ \E b \in UserSlots : PmdGone(T, p, N, start, end, b) /\ g = Name(p, PMD, b)
           \/ \E c \in Nat : PteGone(T, p, N, start, end, c) /\ g = Name(p, PTE, c)
<1>1. ASSUME NEW b \in UserSlots, PmdGone(T, p, N, start, end, b)
      PROVE  T[Pud(p, k)][b] = UserTable(Name(p, PMD, b))
  <2>1. T[Pud(p, k)][b] = Lead(T, Name(p, PMD, b)) /\ Name(p, PMD, b) \in DOMAIN T
    BY <1>1, TreeRows DEF PmdGone
  <2> QED BY <2>1 DEF Lead, UserTable
<1>2. ASSUME NEW b \in UserSlots, NEW j \in Entries, PteGone(T, p, N, start, end, b * FAN + j)
      PROVE  T[Name(p, PMD, b)][j] = UserTable(Name(p, PTE, b * FAN + j))
  <2>1. Name(p, PTE, b * FAN + j) \in DOMAIN T
    BY <1>2 DEF PteGone
  <2>2. (b * FAN + j) \div FAN = b
    BY DivisionIs, SlotsOfPud
  <2>3. Name(p, PMD, b) \in DOMAIN T
    BY <2>1, <2>2, OwnTables
  <2>4. T[Name(p, PMD, b)][j] = Lead(T, Name(p, PTE, b * FAN + j))
    BY <2>3, TreeRows
  <2> QED BY <2>1, <2>4 DEF Lead, UserTable
<1>3. ASSUME NEW c \in Nat, NEW l \in Entries, Name(p, PTE, c) \in DOMAIN T
      PROVE  ~ IsTable(T[Name(p, PTE, c)][l])
  <2>1. T[Name(p, PTE, c)][l] = PageEntry(c * FAN + l, M)
    BY <1>3, TreeRows DEF PageEntry
  <2> QED BY <2>1, EntryFacts DEF PageEntry
<1>4. \A x : x \in C <=>
        \/ \E b \in UserSlots : PmdGone(T, p, N, start, end, b) /\ x = <<Pud(p, k), b>>
        \/ \E b \in UserSlots, j \in Entries :
             PteGone(T, p, N, start, end, b * FAN + j) /\ x = <<Name(p, PMD, b), j>>
        \/ \E c \in Nat : PteClears(T, p, start, end, c, x)
  BY DEF Clears, TreeClears
<1>5. ASSUME NEW g, g \in Given(T, C)
      PROVE  \/ \E b \in UserSlots : PmdGone(T, p, N, start, end, b) /\ g = Name(p, PMD, b)
             \/ \E c \in Nat : PteGone(T, p, N, start, end, c) /\ g = Name(p, PTE, c)
  <2>1. PICK x \in C : IsTable(T[x[1]][x[2]]) /\ g = T[x[1]][x[2]].to
    BY <1>5 DEF Given
  <2>2. CASE \E b \in UserSlots : PmdGone(T, p, N, start, end, b) /\ x = <<Pud(p, k), b>>
    <3>1. PICK b \in UserSlots : PmdGone(T, p, N, start, end, b) /\ x = <<Pud(p, k), b>>
      BY <2>2
    <3>2. g = UserTable(Name(p, PMD, b)).to
      BY <2>1, <3>1, <1>1
    <3> QED BY <3>1, <3>2, EntryFacts
  <2>3. CASE \E b \in UserSlots, j \in Entries :
               PteGone(T, p, N, start, end, b * FAN + j) /\ x = <<Name(p, PMD, b), j>>
    <3>1. PICK b \in UserSlots, j \in Entries :
               PteGone(T, p, N, start, end, b * FAN + j) /\ x = <<Name(p, PMD, b), j>>
      BY <2>3
    <3>2. g = UserTable(Name(p, PTE, b * FAN + j)).to
      BY <2>1, <3>1, <1>2
    <3>3. b * FAN + j \in Nat
      BY DivisionIs, SlotsOfPud
    <3> QED BY <3>1, <3>2, <3>3, EntryFacts
  <2>4. CASE \E c \in Nat : PteClears(T, p, start, end, c, x)
    <3>1. PICK c \in Nat : PteClears(T, p, start, end, c, x)
      BY <2>4
    <3>2. PICK l \in Entries : x = <<Name(p, PTE, c), l>> /\ Name(p, PTE, c) \in DOMAIN T
      BY <3>1 DEF PteClears, InPte
    <3> QED BY <2>1, <3>2, <1>3
  <2> QED BY <2>1, <2>2, <2>3, <2>4, <1>4
<1>6. ASSUME NEW b \in UserSlots, PmdGone(T, p, N, start, end, b)
      PROVE  Name(p, PMD, b) \in Given(T, C)
  <2> DEFINE x == <<Pud(p, k), b>>
  <2>1. x \in C
    BY <1>4, <1>6
  <2>2. T[x[1]][x[2]] = UserTable(Name(p, PMD, b))
    BY <1>1, <1>6
  <2> HIDE DEF x
  <2>3. IsTable(T[x[1]][x[2]]) /\ T[x[1]][x[2]].to = Name(p, PMD, b)
    BY <2>2, EntryFacts
  <2> QED BY <2>1, <2>3 DEF Given
<1>7. ASSUME NEW c \in Nat, PteGone(T, p, N, start, end, c)
      PROVE  Name(p, PTE, c) \in Given(T, C)
  <2> DEFINE b == c \div FAN
             j == c % FAN
             x == <<Name(p, PMD, b), j>>
  <2>1. b \in UserSlots /\ j \in Entries /\ c = b * FAN + j
    BY <1>7, OwnTables, Division DEF PteGone
  <2> HIDE DEF b, j
  <2>2. x \in C
    BY <1>4, <1>7, <2>1
  <2>3. T[x[1]][x[2]] = UserTable(Name(p, PTE, c))
    BY <1>2, <1>7, <2>1
  <2> HIDE DEF x
  <2>4. IsTable(T[x[1]][x[2]]) /\ T[x[1]][x[2]].to = Name(p, PTE, c)
    BY <2>3, EntryFacts
  <2> QED BY <2>2, <2>4 DEF Given
<1> QED BY <1>5, <1>6, <1>7

\* S is T after a purge: the tree has the other pages, and the tables that
\* became empty are given back.
IsPruned(T, S, p, k, M, low, start, end) ==
  /\ HasTree(S, p, k, M \ (start .. end), low) /\ Fine(S) /\ Same(T, S, p)
  /\ DOMAIN S \subseteq DOMAIN T
  /\ \A b \in UserSlots :
       PmdGone(T, p, M \ (start .. end), start, end, b) => Name(p, PMD, b) \notin DOMAIN S
  /\ \A c \in Nat :
       PteGone(T, p, M \ (start .. end), start, end, c) => Name(p, PTE, c) \notin DOMAIN S

\* Clearing what a purge clears leaves a tree with the other pages.
LEMMA PrunedTree ==
  ASSUME NEW T, NEW p, NEW k, NEW M, NEW low, HasTree(T, p, k, M, low), Fine(T),
         NEW start \in Nat, NEW end \in Nat, NEW C, Clears(T, p, k, M, start, end, C)
  PROVE  IsPruned(T, Cleared(T, C), p, k, M, low, start, end)
<1> DEFINE S == Cleared(T, C)
           N == M \ (start .. end)
           Pmd(b) == PmdGone(T, p, N, start, end, b)
           Pte(c) == PteGone(T, p, N, start, end, c)
<1>1. /\ DOMAIN S = DOMAIN T \ Given(T, C)
      /\ \A t \in DOMAIN S : IsRow(S[t])
      /\ \A t \in DOMAIN S, i \in Entries :
           S[t][i] = IF <<t, i>> \in C THEN Empty ELSE T[t][i]
  <2>1. IsCleared(T, S, C)
    BY ClearedFacts
  <2> HIDE DEF S
  <2> QED BY <2>1 DEF IsCleared
<1>2. /\ \A i : <<Name(p, PGD, 0), i>> \notin C
      /\ \A i : <<Pud(p, k), i>> \in C <=> i \in UserSlots /\ Pmd(i)
      /\ \A b, j : <<Name(p, PMD, b), j>> \in C <=>
           b \in UserSlots /\ j \in Entries /\ Pte(b * FAN + j)
      /\ \A c, l : <<Name(p, PTE, c), l>> \in C <=>
           c \in Nat /\ l \in InPte(start, end, c) /\ Name(p, PTE, c) \in DOMAIN T
      /\ \A t, i : <<t, i>> \in C =>
           \/ t = Pud(p, k)
           \/ \E b \in UserSlots : t = Name(p, PMD, b)
           \/ \E c \in Nat : t = Name(p, PTE, c)
  <2>1. ClearsByLevel(T, p, k, N, start, end, C)
    BY ClearedEntries
  <2> HIDE DEF S
  <2> QED BY <2>1 DEF ClearsByLevel
<1>3. \A g : g \in Given(T, C) <=>
        \/ \E b \in UserSlots : Pmd(b) /\ g = Name(p, PMD, b)
        \/ \E c \in Nat : Pte(c) /\ g = Name(p, PTE, c)
  BY GivenFacts
<1>n. \A v : v \in N <=> v \in M /\ ~ (start <= v /\ v <= end)
  <2>1. \A v \in M : v \in Nat
    BY OwnTables, UserPageFacts
  <2> QED BY <2>1
<1>m. ASSUME NEW b \in UserSlots, NEW j \in Entries, Pmd(b), Name(p, PTE, b * FAN + j) \in DOMAIN T
      PROVE  Pte(b * FAN + j)
  BY <1>m DEF PmdGone
<1>q. \A c : Pte(c) => Name(p, PTE, c) \in DOMAIN T /\ \A v \in N : v \div FAN # c
  BY DEF PteGone, NoneOf
<1> HIDE DEF S, N, Pmd, Pte
<1>4. Name(p, PGD, 0) \in DOMAIN S /\ Pud(p, k) \in DOMAIN S
  <2>1. Name(p, PGD, 0) \notin Given(T, C) /\ Pud(p, k) \notin Given(T, C)
    BY <1>3, NamesDiffer, Levels
  <2> QED BY <1>1, <2>1, TreeRows
<1>5. ASSUME NEW b \in UserSlots
      PROVE  Name(p, PMD, b) \in DOMAIN S <=> Name(p, PMD, b) \in DOMAIN T /\ ~ Pmd(b)
  <2>1. Name(p, PMD, b) \in Given(T, C) <=> Pmd(b)
    BY <1>3, NamesDiffer, Levels
  <2> QED BY <1>1, <2>1
<1>6. ASSUME NEW c \in Nat
      PROVE  Name(p, PTE, c) \in DOMAIN S <=> Name(p, PTE, c) \in DOMAIN T /\ ~ Pte(c)
  <2>1. Name(p, PTE, c) \in Given(T, C) <=> Pte(c)
    BY <1>3, NamesDiffer, Levels
  <2> QED BY <1>1, <2>1
<1>7. S[Name(p, PGD, 0)] = PgdRow(Pud(p, k))
  <2> DEFINE t == Name(p, PGD, 0)
  <2>1. IsRow(S[t]) /\ \A i \in Entries : S[t][i] = T[t][i]
    BY <1>1, <1>2, <1>4
  <2>2. T[t] = PgdRow(Pud(p, k))
    BY DEF HasTree
  <2>3. IsRow(PgdRow(Pud(p, k)))
    BY DEF PgdRow, IsRow
  <2> HIDE DEF t
  <2>4. S[t] = T[t]
    BY <2>1, <2>2, <2>3 DEF IsRow
  <2> QED BY <2>2, <2>4 DEF t
<1>8. S[Pud(p, k)] = PudRow(S, p, low)
  <2> DEFINE t == Pud(p, k)
  <2>1. IsRow(S[t]) /\ \A i \in Entries : S[t][i] = IF i \in UserSlots /\ Pmd(i) THEN Empty ELSE T[t][i]
    BY <1>1, <1>2, <1>4
  <2>2. /\ \A i \in KernelSlots : T[t][i] = low[i]
        /\ \A i \in UserSlots : T[t][i] = Lead(T, Name(p, PMD, i))
    BY TreeRows
  <2> HIDE DEF t
  <2>3. ASSUME NEW i \in Entries
        PROVE  S[t][i] = IF i < OS_ENTRIES THEN low[i] ELSE Lead(S, Name(p, PMD, i))
    <3>1. CASE i \in KernelSlots
      BY <3>1, <2>1, <2>2, SlotsOfPud
    <3>2. CASE i \in UserSlots
      <4>1. ~ (i < OS_ENTRIES)
        BY <3>2, SlotsOfPud, FanFacts
      <4>2. CASE Pmd(i)
        BY <3>2, <4>1, <4>2, <2>1, <1>5 DEF Lead
      <4>3. CASE ~ Pmd(i)
        BY <3>2, <4>1, <4>3, <2>1, <2>2, <1>5 DEF Lead
      <4> QED BY <4>2, <4>3
    <3> QED BY <3>1, <3>2, SlotsOfPud
  <2> QED BY <2>1, <2>3 DEF IsRow, PudRow, t
<1>9. ASSUME NEW b \in UserSlots, Name(p, PMD, b) \in DOMAIN S
      PROVE  S[Name(p, PMD, b)] = PmdRow(S, p, b)
  <2> DEFINE t == Name(p, PMD, b)
  <2>0. t \in DOMAIN T
    BY <1>9, <1>5
  <2>1. IsRow(S[t]) /\ \A j \in Entries : S[t][j] = IF Pte(b * FAN + j) THEN Empty ELSE T[t][j]
    BY <1>1, <1>2, <1>9
  <2>2. \A j \in Entries : T[t][j] = Lead(T, Name(p, PTE, b * FAN + j))
    BY <2>0, TreeRows
  <2> HIDE DEF t
  <2>3. ASSUME NEW j \in Entries PROVE S[t][j] = Lead(S, Name(p, PTE, b * FAN + j))
    <3> DEFINE c == b * FAN + j
    <3>1. c \in Nat
      BY DivisionIs, SlotsOfPud
    <3>2. S[t][j] = IF Pte(c) THEN Empty ELSE T[t][j]
      BY <2>1
    <3>3. T[t][j] = Lead(T, Name(p, PTE, c))
      BY <2>2
    <3> HIDE DEF c
    <3>4. S[t][j] = Lead(S, Name(p, PTE, c))
      BY <3>1, <3>2, <3>3, <1>6 DEF Lead
    <3> QED BY <3>4 DEF c
  <2> QED BY <2>1, <2>3 DEF IsRow, PmdRow, t
<1>10. ASSUME NEW c \in Nat, Name(p, PTE, c) \in DOMAIN S
       PROVE  S[Name(p, PTE, c)] = PteRow(N, c)
  <2> DEFINE t == Name(p, PTE, c)
  <2>0. t \in DOMAIN T
    BY <1>10, <1>6
  <2>1. IsRow(S[t]) /\ \A l \in Entries : S[t][l] = IF l \in InPte(start, end, c) THEN Empty ELSE T[t][l]
    BY <1>1, <1>2, <1>10, <2>0
  <2>2. \A l \in Entries : T[t][l] = IF c * FAN + l \in M THEN ToPage(c * FAN + l) ELSE Empty
    BY <2>0, TreeRows
  <2> HIDE DEF t
  <2>3. ASSUME NEW l \in Entries
        PROVE  S[t][l] = IF c * FAN + l \in N THEN ToPage(c * FAN + l) ELSE Empty
    <3> DEFINE v == c * FAN + l
    <3>1. l \in InPte(start, end, c) <=> start <= v /\ v <= end
      BY DEF InPte
    <3>2. T[t][l] = IF v \in M THEN ToPage(v) ELSE Empty
      BY <2>2
    <3> HIDE DEF v
    <3>3. S[t][l] = IF v \in N THEN ToPage(v) ELSE Empty
      BY <3>1, <3>2, <2>1, <1>n
    <3> QED BY <3>3 DEF v
  <2> QED BY <2>1, <2>3 DEF IsRow, PteRow, t
<1>11. N \subseteq UserPages /\ \A v \in N : Name(p, PTE, v \div FAN) \in DOMAIN S
  <2>1. ASSUME NEW v \in N PROVE v \in UserPages /\ Name(p, PTE, v \div FAN) \in DOMAIN S
    <3>1. v \in UserPages /\ Name(p, PTE, v \div FAN) \in DOMAIN T
      BY <1>n, OwnTables
    <3>2. v \div FAN \in Nat /\ ~ Pte(v \div FAN)
      BY <3>1, <1>q, OwnTables
    <3> QED BY <3>1, <3>2, <1>6
  <2> QED BY <2>1
<1>12. \A t \in Own(S, p) : t = Name(p, PGD, 0) \/ PudLike(p, t) \/ PmdOf(p, t) \/ PteOf(S, p, t)
  <2> SUFFICES ASSUME NEW t \in Own(S, p)
               PROVE  t = Name(p, PGD, 0) \/ PudLike(p, t) \/ PmdOf(p, t) \/ PteOf(S, p, t)
    OBVIOUS
  <2>1. t \in Own(T, p) /\ t \in DOMAIN S
    BY <1>1 DEF Own
  <2>2. t = Name(p, PGD, 0) \/ PudLike(p, t) \/ PmdOf(p, t) \/ PteOf(T, p, t)
    BY <2>1 DEF HasTree
  <2>3. ASSUME PteOf(T, p, t) PROVE PteOf(S, p, t)
    <3>1. PICK c \in Nat : /\ t = Name(p, PTE, c) /\ c \div FAN \in UserSlots /\ InUser(PTE, c)
                           /\ Name(p, PMD, c \div FAN) \in DOMAIN T
      BY <2>3 DEF PteOf
    <3>2. ~ Pte(c) /\ t \in DOMAIN T
      BY <2>1, <3>1, <1>6
    <3> DEFINE b == c \div FAN
               j == c % FAN
    <3>3. j \in Entries /\ c = b * FAN + j /\ b \in UserSlots
      BY <3>1, Division
    <3> HIDE DEF b, j
    <3>4. ~ Pmd(b)
      BY <3>1, <3>2, <3>3, <1>m
    <3>5. Name(p, PMD, b) \in DOMAIN S
      BY <3>1, <3>3, <3>4, <1>5 DEF b
    <3> QED BY <3>1, <3>5 DEF PteOf, b
  <2> QED BY <2>2, <2>3
<1>13. HasTree(S, p, k, N, low)
  <2>1. Lower(S, p, N)
    BY <1>9, <1>10, <1>11 DEF Lower
  <2> QED BY <1>4, <1>7, <1>8, <1>12, <2>1 DEF HasTree
<1>14. Fine(S)
  <2>1. IsFiniteSet(DOMAIN S)
    <3>1. DOMAIN S \subseteq DOMAIN T /\ IsFiniteSet(DOMAIN T)
      BY <1>1 DEF Fine
    <3> QED BY <3>1, FS_Subset
  <2> QED BY <1>1, <2>1 DEF Fine
<1>15. Same(T, S, p)
  <2> SUFFICES ASSUME NEW t, t.proc # p \/ KernelPmd(t)
               PROVE  /\ t \in DOMAIN T <=> t \in DOMAIN S
                      /\ t \in DOMAIN T => S[t] = T[t]
    BY DEF Same
  <2>1. /\ t # Pud(p, k) /\ \A b \in UserSlots : t # Name(p, PMD, b)
        /\ \A c : t # Name(p, PTE, c)
    BY OwnNames
  <2>2. t \notin Given(T, C) /\ \A i : <<t, i>> \notin C
    BY <2>1, <1>2, <1>3
  <2>3. t \in DOMAIN T <=> t \in DOMAIN S
    BY <2>2, <1>1
  <2>4. ASSUME t \in DOMAIN T PROVE S[t] = T[t]
    <3>1. IsRow(S[t]) /\ IsRow(T[t]) /\ \A i \in Entries : S[t][i] = T[t][i]
      BY <2>2, <2>3, <2>4, <1>1 DEF Fine
    <3> QED BY <3>1 DEF IsRow
  <2> QED BY <2>3, <2>4
<1>16. DOMAIN S \subseteq DOMAIN T
  BY <1>1
<1> QED BY <1>5, <1>6, <1>13, <1>14, <1>15, <1>16 DEF IsPruned, S, N, Pmd, Pte

\* A purge takes the pages of its range from the tree.
LEMMA PurgeFacts ==
  ASSUME NEW T, NEW p, NEW k, NEW M, NEW low, HasTree(T, p, k, M, low), Fine(T),
         NEW start \in UserRange, NEW end \in UserRange,
         NEW o \in KernelSlots, low[o] # Empty
  PROVE  IsPruned(T, PurgeMappingRange(T, Name(p, PGD, 0), start, end), p, k, M, low, start, end)
<1> DEFINE C == PurgePgd(T, Name(p, PGD, 0), start, end).cleared
<1>1. Clears(T, p, k, M, start, end, C)
  BY TreePurged DEF Clears
<1>2. start \in Nat /\ end \in Nat
  BY UserPageFacts
<1>3. PurgeMappingRange(T, Name(p, PGD, 0), start, end) = Cleared(T, C)
  BY DEF PurgeMappingRange
<1> HIDE DEF C
<1> QED BY <1>1, <1>2, <1>3, PrunedTree

\* An entry of a PUD leads to a table of the kernel.
LEMMA KernelEntry == \E o \in KernelSlots : Low(OsPages)[o] # Empty
<1> DEFINE o == 0 \div FAN
<1>1. 0 \in OsPages /\ 0 \in Nat /\ 0 < OS_ENTRIES * FAN
  BY OsPageFacts
<1>2. o \in KernelSlots
  BY <1>1, HugeFacts
<1>3. \E h \in OsPages : h \div FAN = o
  BY <1>1
<1> HIDE DEF o
<1>4. Low(OsPages)[o] = KernelTable(Name(FirstProc, PMD, o))
  BY <1>2, <1>3 DEF Low, KernelTable
<1> QED BY <1>2, <1>4, EntryFacts

\* munmap.
LEMMA PurgeKeeps ==
  ASSUME TreesInv, NEW p \in Procs, NEW start \in PurgeBounds, NEW end \in PurgeBounds,
         Purge(p, start, end)
  PROVE  TreesInv'
<1> DEFINE M == mapped[p]
           low == Low(OsPages)
           N == M \ (start .. end)
<1>1. start \in UserRange /\ end \in UserRange /\ start \in Nat
  BY TreeAssumption, UserPageFacts DEF UserRange
<1>2. /\ p \in DOMAIN pgd /\ pgd[p] = Name(p, PGD, 0)
      /\ M \in SUBSET UserPages /\ CodePages \subseteq M /\ Fine(table)
  BY AliveFacts DEF Purge
<1>3. PICK k \in Nat : HasTree(table, p, k, M, low)
  BY AliveFacts DEF Purge
<1>4. /\ table' = PurgeMappingRange(table, Name(p, PGD, 0), start, end)
      /\ mapped' = [mapped EXCEPT ![p] = N] /\ pgd' = pgd
  BY <1>2 DEF Purge
<1>5. PICK o \in KernelSlots : low[o] # Empty
  BY KernelEntry
<1> HIDE DEF M, low
<1>6. IsPruned(table, table', p, k, M, low, start, end)
  BY <1>1, <1>2, <1>3, <1>4, <1>5, PurgeFacts
<1>7. HasTree(table', p, k, N, low) /\ Fine(table') /\ Same(table, table', p)
  BY <1>6 DEF IsPruned
<1>8. N \in SUBSET UserPages /\ CodePages \subseteq N
  <2>1. \A v \in CodePages : v \in Nat /\ v < start
    BY TreeAssumption, UserPageFacts DEF UserPages
  <2>2. \A v \in CodePages : v \notin start .. end
    BY <2>1, <1>1
  <2> QED BY <1>2, <2>2
<1> HIDE DEF N
<1> QED BY <1>2, <1>4, <1>7, <1>8, OneTreeChanges DEF low

\* After the purge of all the user's memory no table of the lower levels is left.
LEMMA AllPurged ==
  ASSUME NEW T, NEW S, NEW p, NEW k, NEW M, NEW low, HasTree(T, p, k, M, low),
         IsPruned(T, S, p, k, M, low, CODE_START, STACK_START)
  PROVE  \A t \in Own(S, p) : t = Name(p, PGD, 0) \/ PudLike(p, t)
<1> DEFINE N == M \ (CODE_START .. STACK_START)
<1>1. /\ HasTree(S, p, k, N, low) /\ DOMAIN S \subseteq DOMAIN T
      /\ \A b \in UserSlots :
           PmdGone(T, p, N, CODE_START, STACK_START, b) => Name(p, PMD, b) \notin DOMAIN S
      /\ \A c \in Nat :
           PteGone(T, p, N, CODE_START, STACK_START, c) => Name(p, PTE, c) \notin DOMAIN S
  BY DEF IsPruned
<1>2. N = {}
  BY OwnTables, UserPageFacts DEF UserRange
<1>3. ASSUME NEW c, Name(p, PTE, c) \in DOMAIN T
      PROVE  c \in Nat /\ PteGone(T, p, N, CODE_START, STACK_START, c)
  <2>1. c \in Nat /\ InUser(PTE, c)
    BY <1>3, OwnTables
  <2>2. CODE_START \div FAN <= c /\ c <= STACK_START \div FAN
    <3>1. PTE + 1 = PMD
      BY Levels
    <3> QED BY <2>1, <3>1, SlotFacts DEF InUser
  <2> QED BY <1>2, <1>3, <2>1, <2>2 DEF PteGone, NoneOf
<1>4. ASSUME NEW b \in UserSlots, InUser(PMD, b), Name(p, PMD, b) \in DOMAIN T
      PROVE  PmdGone(T, p, N, CODE_START, STACK_START, b)
  <2>1. (CODE_START \div FAN) \div FAN <= b /\ b <= (STACK_START \div FAN) \div FAN
    <3>1. PMD + 1 = PUD
      BY Levels
    <3> QED BY <1>4, <3>1, SlotFacts DEF InUser
  <2> QED BY <1>3, <1>4, <2>1 DEF PmdGone, InPud
<1> SUFFICES ASSUME NEW t \in Own(S, p), t # Name(p, PGD, 0), ~ PudLike(p, t) PROVE FALSE
  OBVIOUS
<1>5. t \in DOMAIN S /\ t \in DOMAIN T
  BY <1>1 DEF Own
<1>6. PmdOf(p, t) \/ PteOf(S, p, t)
  BY <1>1 DEF HasTree
<1>7. CASE PmdOf(p, t)
  <2>1. PICK b \in UserSlots : t = Name(p, PMD, b) /\ InUser(PMD, b)
    BY <1>7 DEF PmdOf
  <2> QED BY <2>1, <1>1, <1>4, <1>5
<1>8. CASE PteOf(S, p, t)
  <2>1. PICK c \in Nat : t = Name(p, PTE, c)
    BY <1>8 DEF PteOf
  <2> QED BY <2>1, <1>1, <1>3, <1>5
<1> QED BY <1>6, <1>7, <1>8

\* An exit leaves the PUD, and no other table of the process.
LEMMA ExitKeeps ==
  ASSUME TreesInv, NEW p \in Procs, Exit(p)
  PROVE  TreesInv'
<1> DEFINE M == mapped[p]
           low == Low(OsPages)
           top == Name(p, PGD, 0)
           S == PurgeMappingRange(table, top, CODE_START, STACK_START)
<1>1. CODE_START \in UserRange /\ STACK_START \in UserRange
  <2>1. CODE_START <= STACK_START
    BY TreeAssumption DEF UserPages
  <2> QED BY <2>1, FanFacts DEF UserRange
<1>2. /\ p \in DOMAIN pgd /\ pgd[p] = top /\ Fine(table)
  BY AliveFacts DEF Exit
<1>3. PICK k \in Nat : HasTree(table, p, k, M, low)
  BY AliveFacts DEF Exit
<1>4. /\ table' = Freed(S, top) /\ pgd' = [q \in DOMAIN pgd \ {p} |-> pgd[q]]
      /\ mapped' = [mapped EXCEPT ![p] = {}]
  BY <1>2 DEF Exit
<1>5. PICK o \in KernelSlots : low[o] # Empty
  BY KernelEntry
<1> HIDE DEF M, low
<1>6. IsPruned(table, S, p, k, M, low, CODE_START, STACK_START)
  BY <1>1, <1>2, <1>3, <1>5, PurgeFacts
<1> HIDE DEF S
<1>7. Fine(S) /\ Same(table, S, p)
  BY <1>6 DEF IsPruned
<1>8. \A t \in Own(S, p) : t = top \/ PudLike(p, t)
  BY <1>3, <1>6, AllPurged
<1>9. DOMAIN table' = DOMAIN S \ {top} /\ \A t \in DOMAIN table' : table'[t] = S[t]
  BY <1>4 DEF Freed
<1>10. Gone(table', p)
  BY <1>8, <1>9 DEF Gone, Own
<1>11. Same(table, table', p)
  <2>1. top.proc = p /\ ~ KernelPmd(top)
    BY OwnNames
  <2>2. Same(S, table', p)
    <3> HIDE DEF top
    <3> QED BY <2>1, <1>9 DEF Same
  <2> QED BY <2>2, <1>7, SameIsSame
<1>12. Fine(table')
  <2>1. DOMAIN table' \subseteq DOMAIN S /\ IsFiniteSet(DOMAIN S)
    BY <1>7, <1>9 DEF Fine
  <2>2. IsFiniteSet(DOMAIN table')
    BY <2>1, FS_Subset
  <2> QED BY <2>2, <1>7, <1>9 DEF Fine
<1> HIDE DEF top
<1>13. /\ KernelTables(table', OsPages)
       /\ \A t \in DOMAIN table' : t.proc \in Procs
       /\ \A q \in Procs \ DOMAIN pgd : q # p => Gone(table', q)
       /\ \A q \in DOMAIN pgd : q # p => \E j \in Nat : HasTree(table', q, j, mapped[q], low)
  BY <1>11, OthersStay DEF low
<1>14. /\ DOMAIN pgd \subseteq Procs /\ mapped \in [Procs -> SUBSET UserPages]
       /\ \A q \in DOMAIN pgd : pgd[q] = Name(q, PGD, 0) /\ CodePages \subseteq mapped[q]
  BY DEF TreesInv
<1>15. /\ DOMAIN pgd' = DOMAIN pgd \ {p} /\ \A q \in DOMAIN pgd' : pgd'[q] = pgd[q]
       /\ mapped' \in [Procs -> SUBSET UserPages]
       /\ \A q \in DOMAIN pgd' : mapped'[q] = mapped[q]
  BY <1>4, <1>14
<1>16. \A q \in Procs \ DOMAIN pgd' : Gone(table', q)
  BY <1>10, <1>13, <1>15
<1>17. ASSUME NEW q \in DOMAIN pgd'
       PROVE  /\ pgd'[q] = Name(q, PGD, 0) /\ CodePages \subseteq mapped'[q]
              /\ \E j \in Nat : HasTree(table', q, j, mapped'[q], low)
  <2>1. q \in DOMAIN pgd /\ q # p /\ pgd'[q] = pgd[q] /\ mapped'[q] = mapped[q]
    BY <1>15
  <2> QED BY <2>1, <1>13, <1>14
<1> QED BY <1>12, <1>13, <1>14, <1>15, <1>16, <1>17 DEF TreesInv, low

\* A child inherits what its parent has mapped.
LEMMA InheritedFacts ==
  ASSUME TreesInv, NEW p, Alive(p)
  PROVE  Inherited(p) = mapped[p]
<1> DEFINE M == mapped[p]
           low == Low(OsPages)
<1>1. pgd[p] = Name(p, PGD, 0) /\ M \in SUBSET UserPages
  BY AliveFacts
<1>2. PICK k \in Nat : HasTree(table, p, k, M, low)
  BY AliveFacts
<1> HIDE DEF M, low
<1>3. ASSUME NEW v \in UserPages
      PROVE  GetUserPte(table, pgd[p], v) # Empty <=> v \in M
  <2>1. GetUserPte(table, pgd[p], v) = PageEntry(v, M)
    BY <1>1, <1>2, WalkFacts
  <2> QED BY <2>1, EntryFacts DEF PageEntry
<1>4. Inherited(p) = {v \in UserPages : GetUserPte(table, pgd[p], v) # Empty}
  BY DEF Inherited
<1> QED BY <1>1, <1>3, <1>4 DEF M

\* copy_os_pts gives the child the kernel's entries of its parent.
LEMMA CopyFacts ==
  ASSUME NEW T, Fine(T), NEW p, NEW c, p # c, NEW kp, NEW Mp, NEW kc, NEW Mc, NEW low, NEW bare,
         HasTree(T, p, kp, Mp, low), HasTree(T, c, kc, Mc, bare)
  PROVE  LET S == CopyOsPts(T, Name(p, PGD, 0), Name(c, PGD, 0))
         IN HasTree(S, c, kc, Mc, low) /\ Fine(S) /\ Same(T, S, c)
<1> DEFINE from == Pud(p, kp)
           to == Pud(c, kc)
           S == CopyOsPts(T, Name(p, PGD, 0), Name(c, PGD, 0))
           row == [i \in Entries |-> IF i < OS_ENTRIES THEN T[from][i] ELSE T[to][i]]
<1>1. T[Name(p, PGD, 0)][0].to = from /\ T[Name(c, PGD, 0)][0].to = to
  BY TreeRows, EntryFacts
<1>2. S = [T EXCEPT ![to] = row]
  BY <1>1 DEF CopyOsPts
<1>3. to \in DOMAIN T /\ to.proc = c /\ ~ KernelPmd(to)
  BY TreeRows, OwnNames
<1>4. row = PudRow(T, c, low)
  <2>1. ASSUME NEW i \in Entries
        PROVE  row[i] = IF i < OS_ENTRIES THEN low[i] ELSE Lead(T, Name(c, PMD, i))
    <3>1. CASE i \in KernelSlots
      <4>1. i < OS_ENTRIES /\ T[from][i] = low[i]
        BY <3>1, TreeRows, SlotsOfPud
      <4> QED BY <4>1
    <3>2. CASE i \in UserSlots
      <4>1. ~ (i < OS_ENTRIES) /\ T[to][i] = Lead(T, Name(c, PMD, i))
        BY <3>2, TreeRows, SlotsOfPud, FanFacts
      <4> QED BY <4>1
    <3> QED BY <3>1, <3>2, SlotsOfPud
  <2> QED BY <2>1 DEF PudRow
<1> HIDE DEF row, S, from, to
<1>5. /\ DOMAIN S = DOMAIN T /\ S[to] = PudRow(T, c, low)
      /\ \A x \in DOMAIN T \ {to} : S[x] = T[x]
  BY <1>2, <1>3, <1>4
<1>6. HasTree(S, c, kc, Mc, low)
  <2>1. \A t : ~ KernelPmd(t) => (t \in DOMAIN S <=> t \in DOMAIN T)
    BY <1>5
  <2>2. \A t \in DOMAIN T : ~ KernelPmd(t) /\ t # Pud(c, kc) => S[t] = T[t]
    BY <1>5 DEF to
  <2>3. S[Pud(c, kc)] = PudRow(T, c, low)
    BY <1>5 DEF to
  <2> QED BY <2>1, <2>2, <2>3, LowChanged
<1>7. Same(T, S, c)
  BY <1>3, <1>5 DEF Same
<1>8. Fine(S)
  <2>1. IsRow(S[to]) /\ DOMAIN S = DOMAIN T \cup {to}
    BY <1>3, <1>5, Rows
  <2> QED BY <2>1, <1>5, FineStays
<1> QED BY <1>6, <1>7, <1>8 DEF S

\* The tables of a child.
LEMMA ForkTables ==
  ASSUME TreesInv, NEW p \in Procs, NEW c \in Procs, Fork(p, c)
  PROVE  /\ p # c /\ p \in DOMAIN pgd /\ c \notin DOMAIN pgd
         /\ pgd' = [q \in DOMAIN pgd \cup {c} |-> IF q = c THEN Name(c, PGD, 0) ELSE pgd[q]]
         /\ \E k \in Nat : HasTree(table', c, k, mapped[p], Low(OsPages))
         /\ Fine(table') /\ Same(table, table', c)
<1> DEFINE M == mapped[p]
           low == Low(OsPages)
           none == Low({})
           top == Name(c, PGD, 0)
           W == WithTable(table, top)
           user == MapAll(W, c, top, M)
<1>1. Alive(p) /\ ~ Alive(c)
  BY DEF Fork
<1>2. /\ p # c /\ p \in DOMAIN pgd /\ c \notin DOMAIN pgd
      /\ pgd[p] = Name(p, PGD, 0) /\ M \in SUBSET UserPages /\ M # {} /\ Fine(table)
  BY <1>1, AliveFacts, TreeAssumption DEF Alive
<1>3. PICK kp \in Nat : HasTree(table, p, kp, M, low)
  BY <1>1, AliveFacts
<1>4. Gone(table, c)
  BY <1>2 DEF TreesInv
<1>5. Top(table, c) = top /\ Bare(W, c) /\ Fine(W) /\ Same(table, W, c)
  BY <1>2, <1>4, NewTop
<1>6. Inherited(p) = M
  BY <1>1, InheritedFacts
<1>7. /\ table' = CopyOsPts(user, Name(p, PGD, 0), top)
      /\ pgd' = [q \in DOMAIN pgd \cup {c} |-> IF q = c THEN top ELSE pgd[q]]
  <2>1. /\ table' = CopyOsPts(MapAll(WithTable(table, Top(table, c)), c, Top(table, c), Inherited(p)),
                              pgd[p], Top(table, c))
        /\ pgd' = [q \in DOMAIN pgd \cup {c} |-> IF q = c THEN Top(table, c) ELSE pgd[q]]
    BY DEF Fork
  <2> HIDE DEF M, top
  <2> QED BY <2>1, <1>2, <1>5, <1>6
<1> HIDE DEF M, low, none, W
<1>8. PICK kc \in Nat : HasTree(user, c, kc, M, Low({}))
  BY <1>2, <1>5, MapAllMakes
<1>9. Fine(user) /\ Same(W, user, c)
  BY <1>2, <1>5, MapAllMakes
<1> HIDE DEF user
<1>10. Same(table, user, c)
  BY <1>5, <1>9, SameIsSame
<1>11. HasTree(user, p, kp, M, low)
  BY <1>2, <1>3, <1>10, TreeStays
<1>12. HasTree(user, c, kc, M, none)
  BY <1>8 DEF none
<1>13. HasTree(table', c, kc, M, low) /\ Fine(table') /\ Same(user, table', c)
  BY <1>2, <1>7, <1>9, <1>11, <1>12, CopyFacts
<1>14. Same(table, table', c)
  BY <1>10, <1>13, SameIsSame
<1> QED BY <1>2, <1>7, <1>13, <1>14 DEF M, low

\* fork and cfork.
LEMMA ForkKeeps ==
  ASSUME TreesInv, NEW p \in Procs, NEW c \in Procs, Fork(p, c)
  PROVE  TreesInv'
<1> DEFINE low == Low(OsPages)
<1>1. /\ p # c /\ p \in DOMAIN pgd /\ c \notin DOMAIN pgd
      /\ pgd' = [q \in DOMAIN pgd \cup {c} |-> IF q = c THEN Name(c, PGD, 0) ELSE pgd[q]]
      /\ \E k \in Nat : HasTree(table', c, k, mapped[p], low)
      /\ Fine(table') /\ Same(table, table', c)
  BY ForkTables
<1>2. mapped' = [mapped EXCEPT ![c] = mapped[p]]
  BY DEF Fork
<1>3. /\ KernelTables(table', OsPages)
      /\ \A t \in DOMAIN table' : t.proc \in Procs
      /\ \A q \in Procs \ DOMAIN pgd : q # c => Gone(table', q)
      /\ \A q \in DOMAIN pgd : q # c => \E k \in Nat : HasTree(table', q, k, mapped[q], low)
  BY <1>1, OthersStay
<1>4. /\ DOMAIN pgd \subseteq Procs /\ mapped \in [Procs -> SUBSET UserPages]
      /\ \A q \in DOMAIN pgd : pgd[q] = Name(q, PGD, 0) /\ CodePages \subseteq mapped[q]
  BY DEF TreesInv
<1> HIDE DEF low
<1>5. /\ DOMAIN pgd' = DOMAIN pgd \cup {c} /\ pgd'[c] = Name(c, PGD, 0)
      /\ \A q \in DOMAIN pgd : pgd'[q] = pgd[q] /\ q # c
      /\ mapped' \in [Procs -> SUBSET UserPages] /\ mapped'[c] = mapped[p]
      /\ \A q \in DOMAIN pgd : mapped'[q] = mapped[q]
  BY <1>1, <1>2, <1>4
<1>6. \A q \in Procs \ DOMAIN pgd' : Gone(table', q)
  BY <1>3, <1>5
<1>7. ASSUME NEW q \in DOMAIN pgd'
      PROVE  /\ pgd'[q] = Name(q, PGD, 0) /\ CodePages \subseteq mapped'[q]
             /\ \E k \in Nat : HasTree(table', q, k, mapped'[q], low)
  <2>1. CASE q = c
    BY <2>1, <1>1, <1>4, <1>5
  <2>2. CASE q # c
    <3>1. q \in DOMAIN pgd /\ mapped'[q] = mapped[q] /\ pgd'[q] = pgd[q]
      BY <2>2, <1>5
    <3> QED BY <2>2, <3>1, <1>3, <1>4
  <2> QED BY <2>1, <2>2
<1>8. DOMAIN pgd' \subseteq Procs
  BY <1>4, <1>5
<1> QED BY <1>1, <1>3, <1>5, <1>6, <1>7, <1>8 DEF TreesInv, low

\* Every process that is alive has one tree, which maps what it has mapped,
\* with the kernel's tables in it; of the others only PUDs are left.
THEOREM TreesInvHolds == Spec => []TreesInv
<1>1. Init => TreesInv
  BY InitTrees
<1>2. TreesInv /\ [Next]_vars => TreesInv'
  <2> SUFFICES ASSUME TreesInv, [Next]_vars PROVE TreesInv'
    OBVIOUS
  <2>1. ASSUME NEW p \in Procs, NEW v \in DataPages \cup AreaPages, MapPage(p, v)
        PROVE  TreesInv'
    BY <2>1, MapPageKeeps
  <2>2. ASSUME NEW p \in Procs, NEW start \in PurgeBounds, NEW end \in PurgeBounds,
               Purge(p, start, end)
        PROVE  TreesInv'
    BY <2>2, PurgeKeeps
  <2>3. ASSUME NEW p \in Procs, NEW v \in DataPages, InvalidatePte(p, v)
        PROVE  TreesInv'
    BY <2>3, InvalidatePteKeeps
  <2>4. ASSUME NEW p \in Procs, NEW c \in Procs, Fork(p, c)
        PROVE  TreesInv'
    BY <2>4, ForkKeeps
  <2>5. ASSUME NEW p \in Procs, Exit(p)
        PROVE  TreesInv'
    BY <2>5, ExitKeeps
  <2>6. CASE UNCHANGED vars
    BY <2>6 DEF vars, TreesInv
  <2> QED BY <2>1, <2>2, <2>3, <2>4, <2>5, <2>6 DEF Next
<1> QED BY <1>1, <1>2, PTL DEF Spec

-----------------------------------------------------------------------------
(* What the trees owe the processes                                        *)

\* The walk to the kernel's pages, as the kernel does it and as the user may.
LEMMA OsWalkFacts ==
  ASSUME NEW T, NEW p, NEW k, NEW M, HasTree(T, p, k, M, Low(OsPages)),
         KernelTables(T, OsPages), NEW h \in OsPages
  PROVE  /\ OsWalk(T, Name(p, PGD, 0), h) = ToHuge(h)
         /\ GetUserPte(T, Name(p, PGD, 0), h * FAN) = Empty
<1> DEFINE b == h \div FAN
           i == h % FAN
           u == Name(FirstProc, PMD, b)
           top == Name(p, PGD, 0)
           pud == T[top][Index(h * FAN, PGD)]
           pmd == OsStep(T, pud, Index(h * FAN, PUD))
           upmd == Step(T, pud, Index(h * FAN, PUD))
           upte == Step(T, upmd, Index(h * FAN, PMD))
<1>1. /\ b \in KernelSlots /\ i \in Entries /\ h = b * FAN + i
      /\ Index(h * FAN, PGD) = 0 /\ Index(h * FAN, PUD) = b /\ Index(h * FAN, PMD) = i
  <2>1. h \in Nat /\ h < OS_ENTRIES * FAN
    BY OsPageFacts
  <2> QED BY <2>1, HugeFacts
<1>2. /\ OsWalk(T, top, h) = OsStep(T, pmd, i)
      /\ GetUserPte(T, top, h * FAN) = Step(T, upte, Index(h * FAN, PTE))
  BY <1>1 DEF OsWalk, GetUserPte
<1>3. pud = UserTable(Pud(p, k))
  BY <1>1, TreeRows
<1>4. \E g \in OsPages : g \div FAN = b
  OBVIOUS
<1>5. T[u] = KernelRow(OsPages, b)
  BY <1>1, <1>4 DEF KernelTables
<1> HIDE DEF b, i, pud
<1>6. T[Pud(p, k)][b] = KernelTable(u)
  <2>1. T[Pud(p, k)][b] = Low(OsPages)[b]
    BY <1>1, TreeRows
  <2> QED BY <2>1, <1>1, <1>4 DEF Low, KernelTable
<1>7. pmd = KernelTable(u)
  BY <1>1, <1>3, <1>6, EntryFacts DEF OsStep
<1>8. upmd = KernelTable(u)
  BY <1>1, <1>3, <1>6, EntryFacts DEF Step
<1> HIDE DEF pmd, upmd, u
<1>9. OsStep(T, pmd, i) = T[u][i]
  BY <1>7, EntryFacts DEF OsStep
<1>10. T[u][i] = ToHuge(h)
  BY <1>1, <1>5 DEF KernelRow
<1>11. upte = Empty
  BY <1>8, EntryFacts DEF Step
<1> HIDE DEF upte
<1>12. Step(T, upte, Index(h * FAN, PTE)) = Empty
  BY <1>11, EntryFacts DEF Step
<1> QED BY <1>2, <1>9, <1>10, <1>12

\* Each process finds through its tables the pages it has mapped, no others,
\* and the kernel's, which are out of the user's reach.
THEOREM WalkIsFlatHolds == Spec => []WalkIsFlat
<1>1. TreesInv => WalkIsFlat
  <2> SUFFICES ASSUME TreesInv, NEW p \in Procs, Alive(p)
               PROVE  /\ \A v \in UserPages :
                           GetUserPte(table, pgd[p], v)
                             = IF v \in mapped[p] THEN ToPage(v) ELSE Empty
                      /\ \A h \in OsPages : OsWalk(table, pgd[p], h) = ToHuge(h)
                      /\ \A h \in OsPages : GetUserPte(table, pgd[p], h * FAN) = Empty
    BY DEF WalkIsFlat
  <2> DEFINE M == mapped[p]
  <2>1. pgd[p] = Name(p, PGD, 0)
    BY AliveFacts
  <2>2. PICK k \in Nat : HasTree(table, p, k, M, Low(OsPages))
    BY AliveFacts
  <2>3. KernelTables(table, OsPages)
    BY DEF TreesInv
  <2> HIDE DEF M
  <2>4. \A v \in UserPages : GetUserPte(table, Name(p, PGD, 0), v) = PageEntry(v, M)
    <3> DEFINE low == Low(OsPages)
    <3>1. HasTree(table, p, k, M, low)
      BY <2>2
    <3> HIDE DEF low
    <3> QED BY <3>1, WalkFacts
  <2>5. \A h \in OsPages : /\ OsWalk(table, Name(p, PGD, 0), h) = ToHuge(h)
                           /\ GetUserPte(table, Name(p, PGD, 0), h * FAN) = Empty
    BY <2>2, <2>3, OsWalkFacts
  <2> QED BY <2>1, <2>4, <2>5 DEF PageEntry, M
<1> QED BY <1>1, TreesInvHolds, PTL

\* An entry of u leads to t.
Leads(T, u, t) == \E i \in Entries : IsTable(T[u][i]) /\ T[u][i].to = t

\* One level further down.
LEMMA ReachFacts ==
  ASSUME NEW T, NEW ts
  PROVE  \A t : t \in Reach(T, ts) <=> t \in ts \/ \E u \in ts : Leads(T, u, t)
<1> SUFFICES ASSUME NEW t
             PROVE  t \in Reach(T, ts) <=> t \in ts \/ \E u \in ts : Leads(T, u, t)
  OBVIOUS
<1> DEFINE To(u) == {T[u][i].to : i \in Leading(T, u, Entries)}
<1>1. \A u : t \in To(u) <=> Leads(T, u, t)
  BY DEF Leads, Leading
<1>2. Reach(T, ts) = ts \cup UNION {To(u) : u \in ts}
  BY DEF Reach
<1> HIDE DEF To
<1> QED BY <1>1, <1>2

\* Where the entries of the upper levels lead.
LEMMA LeadsFacts ==
  ASSUME NEW T, NEW p, NEW k, NEW M, HasTree(T, p, k, M, Low(OsPages)),
         KernelTables(T, OsPages)
  PROVE  /\ \A t : Leads(T, Name(p, PGD, 0), t) <=> t = Pud(p, k)
         /\ \A t : Leads(T, Pud(p, k), t) <=>
              /\ t \in DOMAIN T
              /\ (\E b \in UserSlots : t = Name(p, PMD, b)) \/ KernelPmd(t)
         /\ \A b \in UserSlots : Name(p, PMD, b) \in DOMAIN T =>
              \A t : Leads(T, Name(p, PMD, b), t) <=>
                t \in DOMAIN T /\ \E j \in Entries : t = Name(p, PTE, b * FAN + j)
         /\ \A u \in DOMAIN T : \A t : KernelPmd(u) => ~ Leads(T, u, t)
<1>1. ASSUME NEW t PROVE Leads(T, Name(p, PGD, 0), t) <=> t = Pud(p, k)
  <2>1. T[Name(p, PGD, 0)] = PgdRow(Pud(p, k))
    BY DEF HasTree
  <2>2. \A i \in Entries : T[Name(p, PGD, 0)][i] = IF i = 0 THEN UserTable(Pud(p, k)) ELSE Empty
    BY <2>1 DEF PgdRow
  <2> QED BY <2>2, EntryFacts, FanFacts DEF Leads
<1>2. ASSUME NEW u
      PROVE  /\ IsTable(Lead(T, u)) <=> u \in DOMAIN T
             /\ u \in DOMAIN T => Lead(T, u).to = u
  <2>1. CASE u \in DOMAIN T
    <3>1. Lead(T, u) = UserTable(u)
      BY <2>1 DEF Lead, UserTable
    <3> QED BY <2>1, <3>1, EntryFacts
  <2>2. CASE u \notin DOMAIN T
    <3>1. Lead(T, u) = Empty
      BY <2>2 DEF Lead
    <3> QED BY <2>2, <3>1, EntryFacts
  <2> QED BY <2>1, <2>2
<1>3. ASSUME NEW b \in KernelSlots, NEW u, u = Name(FirstProc, PMD, b)
      PROVE  /\ IsTable(T[Pud(p, k)][b]) <=> u \in DOMAIN T
             /\ u \in DOMAIN T => T[Pud(p, k)][b].to = u
  <2>1. T[Pud(p, k)][b] = Low(OsPages)[b]
    BY TreeRows
  <2>2. u \in DOMAIN T <=> \E h \in OsPages : h \div FAN = b
    BY <1>3 DEF KernelTables
  <2>3. CASE u \in DOMAIN T
    <3>1. Low(OsPages)[b] = KernelTable(u)
      BY <1>3, <2>2, <2>3 DEF Low, KernelTable
    <3> QED BY <2>1, <2>3, <3>1, EntryFacts
  <2>4. CASE u \notin DOMAIN T
    <3>1. Low(OsPages)[b] = Empty
      BY <2>2, <2>4 DEF Low
    <3> QED BY <2>1, <2>4, <3>1, EntryFacts
  <2> QED BY <2>3, <2>4
<1>4. ASSUME NEW t
      PROVE  Leads(T, Pud(p, k), t) <=>
               /\ t \in DOMAIN T
               /\ (\E b \in UserSlots : t = Name(p, PMD, b)) \/ KernelPmd(t)
  <2>1. ASSUME NEW i \in UserSlots
        PROVE  IsTable(T[Pud(p, k)][i]) /\ T[Pud(p, k)][i].to = t
                 <=> t \in DOMAIN T /\ t = Name(p, PMD, i)
    <3>1. T[Pud(p, k)][i] = Lead(T, Name(p, PMD, i))
      BY TreeRows
    <3> QED BY <3>1, <1>2
  <2>2. ASSUME NEW i \in KernelSlots
        PROVE  IsTable(T[Pud(p, k)][i]) /\ T[Pud(p, k)][i].to = t
                 <=> t \in DOMAIN T /\ t = Name(FirstProc, PMD, i)
    BY <1>3
  <2>3. Leads(T, Pud(p, k), t) <=>
          \/ \E i \in UserSlots : IsTable(T[Pud(p, k)][i]) /\ T[Pud(p, k)][i].to = t
          \/ \E i \in KernelSlots : IsTable(T[Pud(p, k)][i]) /\ T[Pud(p, k)][i].to = t
    BY SlotsOfPud DEF Leads
  <2> QED BY <2>1, <2>2, <2>3 DEF KernelPmd
<1>5. ASSUME NEW b \in UserSlots, Name(p, PMD, b) \in DOMAIN T, NEW t
      PROVE  Leads(T, Name(p, PMD, b), t) <=>
               t \in DOMAIN T /\ \E j \in Entries : t = Name(p, PTE, b * FAN + j)
  <2>1. ASSUME NEW j \in Entries
        PROVE  IsTable(T[Name(p, PMD, b)][j]) /\ T[Name(p, PMD, b)][j].to = t
                 <=> t \in DOMAIN T /\ t = Name(p, PTE, b * FAN + j)
    <3>1. T[Name(p, PMD, b)][j] = Lead(T, Name(p, PTE, b * FAN + j))
      BY <1>5, TreeRows
    <3> QED BY <3>1, <1>2
  <2> QED BY <2>1 DEF Leads
<1>6. ASSUME NEW u \in DOMAIN T, NEW t, KernelPmd(u) PROVE ~ Leads(T, u, t)
  <2>1. PICK b \in KernelSlots : u = Name(FirstProc, PMD, b)
    BY <1>6 DEF KernelPmd
  <2>2. T[u] = KernelRow(OsPages, b)
    BY <2>1 DEF KernelTables
  <2>3. \A i \in Entries : ~ IsTable(T[u][i])
    BY <2>2, EntryFacts DEF KernelRow
  <2> QED BY <2>3 DEF Leads
<1> QED BY <1>1, <1>4, <1>5, <1>6

\* The tables in the tree of p.
InTree(T, p, k, t) ==
  \/ t = Name(p, PGD, 0) \/ t = Pud(p, k)
  \/ t \in DOMAIN T /\ \/ \E b \in UserSlots : t = Name(p, PMD, b)
                       \/ KernelPmd(t)
                       \/ \E c \in Nat : t = Name(p, PTE, c)

\* The tables a process reaches are its top, its PUD, its PMDs, their tables and
\* those of the kernel.
LEMMA TreeIs ==
  ASSUME NEW T, NEW p, NEW k, NEW M, HasTree(T, p, k, M, Low(OsPages)),
         KernelTables(T, OsPages)
  PROVE  \A t : t \in Tree(T, Name(p, PGD, 0)) <=> InTree(T, p, k, t)
<1> DEFINE top == Name(p, PGD, 0)
           pud == Pud(p, k)
           r1 == Reach(T, {top})
           r2 == Reach(T, r1)
           r3 == Reach(T, r2)
           Pmd(t) == t \in DOMAIN T /\ \E b \in UserSlots : t = Name(p, PMD, b)
           Os(t) == t \in DOMAIN T /\ KernelPmd(t)
           Pte(t) == t \in DOMAIN T /\ \E c \in Nat : t = Name(p, PTE, c)
<1>1. \A t : Leads(T, top, t) <=> t = pud
  BY LeadsFacts
<1>2. \A t : Leads(T, pud, t) <=> Pmd(t) \/ Os(t)
  BY LeadsFacts
<1>3. \A u, t : Pmd(u) /\ Leads(T, u, t) => Pte(t)
  <2> SUFFICES ASSUME NEW b \in UserSlots, Name(p, PMD, b) \in DOMAIN T, NEW t,
                      Leads(T, Name(p, PMD, b), t)
               PROVE  Pte(t)
    OBVIOUS
  <2>1. t \in DOMAIN T /\ \E j \in Entries : t = Name(p, PTE, b * FAN + j)
    BY LeadsFacts
  <2>2. \A j \in Entries : b * FAN + j \in Nat
    BY DivisionIs, SlotsOfPud
  <2> QED BY <2>1, <2>2
<1>4. \A t : Pte(t) => \E u : Pmd(u) /\ Leads(T, u, t)
  <2> SUFFICES ASSUME NEW c \in Nat, Name(p, PTE, c) \in DOMAIN T
               PROVE  \E u : Pmd(u) /\ Leads(T, u, Name(p, PTE, c))
    OBVIOUS
  <2> DEFINE b == c \div FAN
             j == c % FAN
  <2>1. b \in UserSlots /\ j \in Entries /\ c = b * FAN + j /\ Name(p, PMD, b) \in DOMAIN T
    BY OwnTables, Division
  <2> HIDE DEF b, j
  <2>2. Leads(T, Name(p, PMD, b), Name(p, PTE, c))
    BY <2>1, LeadsFacts
  <2> QED BY <2>1, <2>2
<1>5. \A u, t : Os(u) => ~ Leads(T, u, t)
  BY LeadsFacts
<1> HIDE DEF top, pud, Pmd, Os, Pte
<1>6. \A t : t \in r1 <=> t = top \/ t = pud
  <2>1. \A t : t \in Reach(T, {top}) <=> t \in {top} \/ \E u \in {top} : Leads(T, u, t)
    BY ReachFacts
  <2> QED BY <2>1, <1>1
<1> HIDE DEF r1
<1>7. \A t : t \in r2 <=> t = top \/ t = pud \/ Pmd(t) \/ Os(t)
  <2>1. \A t : t \in Reach(T, r1) <=> t \in r1 \/ \E u \in r1 : Leads(T, u, t)
    BY ReachFacts
  <2> QED BY <2>1, <1>1, <1>2, <1>6
<1> HIDE DEF r2
<1>8. \A t : t \in r3 <=> t = top \/ t = pud \/ Pmd(t) \/ Os(t) \/ Pte(t)
  <2>1. \A t : t \in Reach(T, r2) <=> t \in r2 \/ \E u \in r2 : Leads(T, u, t)
    BY ReachFacts
  <2>2. ASSUME NEW t
        PROVE  (\E u \in r2 : Leads(T, u, t)) <=> t = pud \/ Pmd(t) \/ Os(t) \/ Pte(t)
    BY <1>1, <1>2, <1>3, <1>4, <1>5, <1>7
  <2> QED BY <2>1, <2>2, <1>7
<1> HIDE DEF r3
<1>9. Tree(T, top) = r3
  BY DEF Tree, r3, r2, r1
<1> QED BY <1>8, <1>9 DEF InTree, top, pud, Pmd, Os, Pte

\* Processes share only tables of the kernel, what they can reach is there, and
\* what nobody reaches are the PUDs that exits leave behind.
THEOREM TablesOwnedHolds == Spec => []TablesOwned
<1>1. ASSUME TreesInv PROVE TablesOwned
  <2>0. /\ KernelTables(table, OsPages) /\ DOMAIN pgd \subseteq Procs
        /\ \A t \in DOMAIN table : t.proc \in Procs
        /\ \A p \in Procs \ DOMAIN pgd : Gone(table, p)
    BY <1>1 DEF TreesInv
  <2>1. \A p \in DOMAIN pgd : \E k \in Nat :
          /\ Name(p, PGD, 0) \in DOMAIN table /\ Pud(p, k) \in DOMAIN table
          /\ \A t \in Own(table, p) : InTree(table, p, k, t) \/ PudLike(p, t)
          /\ \A t : t \in Tree(table, pgd[p]) <=> InTree(table, p, k, t)
    <3> SUFFICES ASSUME NEW p \in DOMAIN pgd
                 PROVE  \E k \in Nat :
                          /\ Name(p, PGD, 0) \in DOMAIN table /\ Pud(p, k) \in DOMAIN table
                          /\ \A t \in Own(table, p) : InTree(table, p, k, t) \/ PudLike(p, t)
                          /\ \A t : t \in Tree(table, pgd[p]) <=> InTree(table, p, k, t)
      OBVIOUS
    <3> DEFINE M == mapped[p]
    <3>1. pgd[p] = Name(p, PGD, 0)
      BY <1>1 DEF TreesInv
    <3>2. PICK k \in Nat : HasTree(table, p, k, M, Low(OsPages))
      BY <1>1 DEF TreesInv
    <3> HIDE DEF M
    <3>3. \A t : t \in Tree(table, Name(p, PGD, 0)) <=> InTree(table, p, k, t)
      BY <2>0, <3>2, TreeIs
    <3>4. ASSUME NEW t \in Own(table, p) PROVE InTree(table, p, k, t) \/ PudLike(p, t)
      <4>1. t = Name(p, PGD, 0) \/ PudLike(p, t) \/ PmdOf(p, t) \/ PteOf(table, p, t)
        BY <3>2 DEF HasTree
      <4>2. t \in DOMAIN table
        BY DEF Own
      <4> QED BY <4>1, <4>2 DEF InTree, PmdOf, PteOf
    <3>5. Name(p, PGD, 0) \in DOMAIN table /\ Pud(p, k) \in DOMAIN table
      BY <3>2 DEF HasTree
    <3> QED BY <3>1, <3>3, <3>4, <3>5
  <2>2. ASSUME NEW t \in DOMAIN table, KernelPmd(t) PROVE t \in OsTables
    <3>1. PICK b \in KernelSlots : t = Name(FirstProc, PMD, b)
      BY <2>2 DEF KernelPmd
    <3>2. table[t] = KernelRow(OsPages, b) /\ \E h \in OsPages : h \div FAN = b
      BY <2>0, <2>2, <3>1 DEF KernelTables
    <3>3. PICK h \in OsPages : h \div FAN = b
      BY <3>2
    <3>4. h % FAN \in Entries /\ h = b * FAN + (h % FAN)
      BY <3>3, OsPageFacts, HugeFacts
    <3>5. table[t][h % FAN] = ToHuge(h)
      BY <3>2, <3>4 DEF KernelRow
    <3>6. \E i \in Entries : IsHuge(table[t][i])
      BY <3>4, <3>5, EntryFacts
    <3> QED BY <3>6 DEF OsTables
  <2>3. Trees(table, pgd) \subseteq DOMAIN table
    <3> SUFFICES ASSUME NEW p \in DOMAIN pgd, NEW t \in Tree(table, pgd[p]) PROVE t \in DOMAIN table
      BY DEF Trees
    <3> QED BY <2>1 DEF InTree
  <2>4. ASSUME NEW p \in Procs, NEW q \in Procs, p # q, Alive(p), Alive(q),
               NEW t \in Tree(table, pgd[p]), t \in Tree(table, pgd[q])
        PROVE  t \in OsTables
    <3>1. PICK k \in Nat : InTree(table, p, k, t)
      BY <2>1, <2>4 DEF Alive
    <3>2. PICK j \in Nat : InTree(table, q, j, t)
      BY <2>1, <2>4 DEF Alive
    <3>3. t \in DOMAIN table
      BY <2>3, <2>4 DEF Trees, Alive
    <3>4. t.proc = p \/ KernelPmd(t)
      BY <3>1, OwnNames DEF InTree
    <3>5. t.proc = q \/ KernelPmd(t)
      BY <3>2, OwnNames DEF InTree
    <3> QED BY <2>2, <2>4, <3>3, <3>4, <3>5
  <2>5. ASSUME NEW t \in Left(table, pgd)
        PROVE  t.level = PUD \/ t \in OsTables
    <3>1. t \in DOMAIN table /\ \A p \in DOMAIN pgd : t \notin Tree(table, pgd[p])
      BY DEF Left, Trees
    <3>2. CASE KernelPmd(t)
      BY <2>2, <3>1, <3>2
    <3>3. CASE ~ KernelPmd(t)
      <4> DEFINE p == t.proc
      <4>1. p \in Procs /\ t \in Own(table, p)
        BY <2>0, <3>1, <3>3 DEF Own
      <4> HIDE DEF p
      <4>2. PudLike(p, t)
        <5>1. CASE p \in DOMAIN pgd
          BY <5>1, <2>1, <3>1, <4>1
        <5>2. CASE p \notin DOMAIN pgd
          BY <5>2, <2>0, <4>1 DEF Gone
        <5> QED BY <5>1, <5>2
      <4> QED BY <4>2, NameFacts DEF PudLike
    <3> QED BY <3>2, <3>3
  <2> QED BY <2>3, <2>4, <2>5 DEF TablesOwned
<1> QED BY <1>1, TreesInvHolds, PTL
=============================================================================

