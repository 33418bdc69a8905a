------------------------ MODULE PhysAllocatorProofs ------------------------
(***************************************************************************)
(* Proofs about PhysAllocator, for a bitmap and a managed range of any     *)
(* size and any set of owners.                                             *)
(*                                                                         *)
(* The inductive invariant joins the partition of the managed pages into   *)
(* free and held ones with the exactness of the counter: the partition     *)
(* makes a freed page a page whose bit is clear, which keeps the counter   *)
(* exact, and an exact counter makes its decrements stay in Nat.           *)
(***************************************************************************)
EXTENDS PhysAllocator, FiniteSetTheorems, TLAPS

IInv ==
    /\ TypeOK
    /\ NoPageHandedOutTwice
    /\ NoPageLost
    /\ CountIsExact
    /\ total_pages = Cardinality(Managed)

-----------------------------------------------------------------------------
(* The product of two positive sizes: the bitmap has at least one page. *)
LEMMA MaxPagesType == MaxPages \in Nat
  BY SizeAssumption DEF MaxPages

(* Any set of pages is finite, so its cardinality is a number. *)
LEMMA PagesFinite ==
  ASSUME NEW S, S \subseteq Pages
  PROVE  IsFiniteSet(S) /\ Cardinality(S) \in Nat
<1>1. IsFiniteSet(Pages)
  BY MaxPagesType, FS_Interval DEF Pages
<1>2. IsFiniteSet(S)
  BY <1>1, FS_Subset
<1> QED
  BY <1>2, FS_CardinalityType

(* init's arithmetic: total_pages is the number of the bits it set. *)
LEMMA ManagedCount ==
  Cardinality(Managed) = Smaller(NumPages, MaxPages - StartPage)
<1> DEFINE last == StartPage + Smaller(NumPages, MaxPages - StartPage) - 1
<1>1. /\ Smaller(NumPages, MaxPages - StartPage) \in Nat
      /\ last \in Int
  BY SizeAssumption, MaxPagesType DEF Smaller
<1>2. Managed = StartPage .. last
  BY SizeAssumption, MaxPagesType DEF Managed, Pages, Smaller
<1>3. \A b \in Int : Cardinality(StartPage .. b)
                       = IF StartPage > b THEN 0 ELSE b - StartPage + 1
  BY SizeAssumption, FS_Interval
<1> QED
  BY <1>1, <1>2, <1>3, SizeAssumption

(* Taking a run of count free pages leaves count pages fewer. *)
LEMMA RemoveRun ==
  ASSUME NEW S \in SUBSET Pages, NEW s \in Nat, NEW count \in Nat,
         (s .. s + count - 1) \subseteq S
  PROVE  Cardinality(S \ (s .. s + count - 1)) = Cardinality(S) - count
<1> DEFINE run == s .. s + count - 1
<1>1. IsFiniteSet(S)
  BY PagesFinite
<1>2. /\ IsFiniteSet(run)
      /\ Cardinality(run) = count
  BY FS_Interval
<1>3. Cardinality(S \ run) = Cardinality(S) - Cardinality(S \cap run)
  BY <1>1, <1>2, FS_Difference, Zenon
<1>4. S \cap run = run
  OBVIOUS
<1> QED
  BY <1>2, <1>3, <1>4, Zenon

-----------------------------------------------------------------------------
(* The invariant holds after init(start, size). *)
LEMMA InitInv == Init => IInv
<1> SUFFICES ASSUME Init PROVE IInv
  OBVIOUS
<1> USE DEF Init
<1>1. Managed \subseteq Pages
  BY DEF Managed
<1>2. total_pages = Cardinality(Managed) /\ total_pages \in Nat
  BY <1>1, ManagedCount, PagesFinite
<1>3. TypeOK
  BY <1>1, <1>2, SizeAssumption, MaxPagesType DEF TypeOK
<1>4. NoPageHandedOutTwice
  BY DEF NoPageHandedOutTwice
<1>5. NoPageLost
  BY DEF NoPageLost, AllHeld
<1> QED
  BY <1>2, <1>3, <1>4, <1>5 DEF IInv, CountIsExact

(***************************************************************************)
(* Handing a set of free pages to an owner keeps the partition; both       *)
(* allocation operations are of this form.                                 *)
(***************************************************************************)
LEMMA GiveKeepsPartition ==
  ASSUME IInv, NEW o \in Owners, NEW S \in SUBSET bitmap,
         bitmap' = bitmap \ S,
         held' = [held EXCEPT ![o] = @ \cup S]
  PROVE  /\ bitmap' \subseteq Pages
         /\ held' \in [Owners -> SUBSET Pages]
         /\ NoPageHandedOutTwice'
         /\ NoPageLost'
<1> USE DEF IInv, TypeOK
<1>1. \A x \in Owners : held'[x] = IF x = o THEN held[o] \cup S ELSE held[x]
  OBVIOUS
<1>2. bitmap' \subseteq Pages /\ held' \in [Owners -> SUBSET Pages]
  OBVIOUS
<1>3. NoPageHandedOutTwice'
  BY <1>1 DEF NoPageHandedOutTwice
<1>4. NoPageLost'
  BY <1>1 DEF NoPageLost, AllHeld
<1> QED
  BY <1>2, <1>3, <1>4

(* Every operation preserves the invariant. *)
LEMMA NextInv == IInv /\ [Next]_vars => IInv'
<1> SUFFICES ASSUME IInv, [Next]_vars PROVE IInv'
  OBVIOUS
<1>0. Managed' = Managed
  BY DEF Managed
<1>1. ASSUME NEW o \in Owners, AllocPage(o) PROVE IInv'
  <2>1. PICK p \in bitmap : /\ bitmap' = bitmap \ {p}
                            /\ free_pages' = free_pages - 1
                            /\ next_free' = p + 1
                            /\ held' = [held EXCEPT ![o] = @ \cup {p}]
    BY <1>1, Zenon DEF AllocPage, Reached
  <2>2. /\ bitmap' \subseteq Pages
        /\ held' \in [Owners -> SUBSET Pages]
        /\ NoPageHandedOutTwice'
        /\ NoPageLost'
    BY <2>1, GiveKeepsPartition, Zenon
  <2>3. Cardinality(bitmap') = Cardinality(bitmap) - 1
    BY <2>1, PagesFinite, FS_RemoveElement DEF IInv, TypeOK
  <2>4. CountIsExact' /\ free_pages' \in Nat
    BY <2>1, <2>2, <2>3, PagesFinite DEF IInv, CountIsExact
  <2>5. total_pages' = total_pages
    BY <1>1 DEF AllocPage
  <2>6. next_free' \in 0 .. MaxPages
    BY <2>1, MaxPagesType DEF IInv, TypeOK, Pages
  <2> QED
    BY <1>0, <2>2, <2>4, <2>5, <2>6 DEF IInv, TypeOK
<1>2. ASSUME NEW o \in Owners, NEW p \in held[o], FreePage(o, p) PROVE IInv'
  <2>1. p \in Pages /\ p \notin bitmap
    BY DEF IInv, TypeOK, NoPageHandedOutTwice
  <2>2. /\ bitmap' = bitmap \cup {p}
        /\ free_pages' = free_pages + 1
        /\ next_free' = Smaller(p, next_free)
        /\ held' = [held EXCEPT ![o] = @ \ {p}]
        /\ total_pages' = total_pages
    BY <1>2, <2>1 DEF FreePage
  <2>3. TypeOK'
    BY <2>1, <2>2, MaxPagesType DEF IInv, TypeOK, Pages, Smaller
  <2>4. \A x \in Owners : held'[x] = IF x = o THEN held[o] \ {p} ELSE held[x]
    BY <2>2 DEF IInv, TypeOK
  <2>5. NoPageHandedOutTwice'
    BY <2>2, <2>4 DEF IInv, NoPageHandedOutTwice
  <2>6. NoPageLost'
    BY <2>2, <2>4 DEF IInv, NoPageLost, AllHeld
  <2>7. CountIsExact'
    BY <2>1, <2>2, PagesFinite, FS_AddElement DEF IInv, TypeOK, CountIsExact
  <2> QED
    BY <1>0, <2>2, <2>3, <2>5, <2>6, <2>7 DEF IInv
<1>3. ASSUME NEW o \in Owners, NEW count \in 0 .. MaxRun,
             AllocContiguous(o, count)
      PROVE  IInv'
  <2>0. count \in Nat
    BY SizeAssumption
  <2>1. PICK s \in bitmap :
          /\ (s .. s + count - 1) \subseteq bitmap
          /\ bitmap' = bitmap \ (s .. s + count - 1)
          /\ held' = [held EXCEPT ![o] = @ \cup (s .. s + count - 1)]
    BY <1>3, Zenon DEF AllocContiguous, IsRun
  <2>2. /\ bitmap' \subseteq Pages
        /\ held' \in [Owners -> SUBSET Pages]
        /\ NoPageHandedOutTwice'
        /\ NoPageLost'
    BY <2>1, GiveKeepsPartition, Zenon
  <2>3. s \in Nat
    BY <2>1, MaxPagesType DEF IInv, TypeOK, Pages
  <2>4. Cardinality(bitmap') = Cardinality(bitmap) - count
    BY <2>0, <2>1, <2>3, RemoveRun, Zenon DEF IInv, TypeOK
  <2>5. /\ free_pages' = free_pages - count
        /\ total_pages' = total_pages
        /\ next_free' = next_free
    BY <1>3 DEF AllocContiguous
  <2>6. CountIsExact' /\ free_pages' \in Nat
    BY <2>2, <2>4, <2>5, PagesFinite DEF IInv, CountIsExact
  <2> QED
    BY <1>0, <2>2, <2>5, <2>6 DEF IInv, TypeOK
<1>4. ASSUME UNCHANGED vars PROVE IInv'
  BY <1>0, <1>4 DEF vars, IInv, TypeOK, NoPageHandedOutTwice, NoPageLost,
                    AllHeld, CountIsExact
<1> QED
  BY <1>1, <1>2, <1>3, <1>4 DEF Next, AllocPageNone, AllocContiguousNone

(* Quotient and remainder, as the provers need them. *)
LEMMA Division ==
  ASSUME NEW n \in Nat \ {0}, NEW x \in Int
  PROVE  /\ x \div n \in Int /\ x % n \in 0 .. n - 1
         /\ x % n = x - (x \div n) * n
         /\ (x \div n) * n <= x /\ x < (x \div n) * n + n
  OBVIOUS

(* A number between two multiples of n has the remainder it looks to have. *)
LEMMA Remainder ==
  ASSUME NEW n \in Nat \ {0}, NEW q \in Int, NEW r \in 0 .. n - 1
  PROVE  (q * n + r) % n = r
<1> DEFINE x == q * n + r
<1>1. x \in Int
  OBVIOUS
<1>2. PICK d \in Int, m \in 0 .. n - 1 : d = x \div n /\ m = x % n /\ x = d * n + m
  BY <1>1, Division
<1>3. (q - d) * n = m - r
  BY <1>2
<1>4. ~(q - d >= 1)
  <2> SUFFICES ASSUME q - d >= 1 PROVE FALSE
    OBVIOUS
  <2>1. (q - d) * n >= n
    OBVIOUS
  <2> QED
    BY <1>3, <2>1
<1>5. ~(q - d <= -1)
  <2> SUFFICES ASSUME q - d <= -1 PROVE FALSE
    OBVIOUS
  <2>1. (q - d) * n <= -n
    OBVIOUS
  <2> QED
    BY <1>3, <2>1
<1>6. q = d
  BY <1>4, <1>5
<1> QED
  BY <1>2, <1>3, <1>6

(* The scan wraps round: it starts at any hint and passes over no word. *)
LEMMA ScanIsWhole ==
  ASSUME NEW w \in 0 .. BitmapSize - 1, next_free \in Nat
  PROVE  w \in ScannedWords
<1>1. PICK n \in Nat \ {0} : n = BitmapSize
  BY SizeAssumption
<1>2. PICK h \in Int : h = next_free \div WordBits
  BY SizeAssumption, Division
<1>3. PICK d \in Int, m \in 0 .. n - 1 : h = d * n + m
  <2>1. PICK d \in Int : d = h \div n
    OBVIOUS
  <2>2. PICK e \in Int : e = d * n
    OBVIOUS
  <2>3. e <= h /\ h < e + n
    BY <2>1, <2>2, Division, Zenon
  <2>4. h = e + (h - e) /\ h - e \in 0 .. n - 1
    BY <2>3
  <2> QED
    BY <2>2, <2>4, Zenon
<1>4. w \in 0 .. n - 1
  BY <1>1
<1>5. \E i \in 0 .. n - 1 : (h + i) % n = w
  <2>1. CASE m <= w
    <3>1. h + (w - m) = d * n + w /\ w - m \in 0 .. n - 1
      BY <1>3, <1>4, <2>1
    <3>2. (d * n + w) % n = w
      BY <1>4, Remainder
    <3> QED
      BY <3>1, <3>2, Zenon
  <2>2. CASE w < m
    <3>1. h + (w - m + n) = (d + 1) * n + w /\ w - m + n \in 0 .. n - 1
      BY <1>3, <1>4, <2>2
    <3>2. ((d + 1) * n + w) % n = w
      BY <1>4, Remainder
    <3> QED
      BY <3>1, <3>2, Zenon
  <2> QED
    BY <1>3, <1>4, <2>1, <2>2
<1> QED
  BY <1>1, <1>2, <1>5 DEF ScannedWords

(* The word of a page is one of the bitmap. *)
LEMMA WordOfPage ==
  ASSUME NEW p \in Pages
  PROVE  p \div WordBits \in 0 .. BitmapSize - 1
<1>1. PICK b \in Nat \ {0}, n \in Nat \ {0} : b = WordBits /\ n = BitmapSize
  BY SizeAssumption
<1>2. p \in Int /\ 0 <= p /\ p < n * b
  BY <1>1, MaxPagesType DEF Pages, MaxPages
<1>3. PICK q \in Int : q = p \div b
  BY <1>2
<1>4. q * b <= p /\ p < q * b + b
  BY <1>2, <1>3, Division, Zenon
<1>5. q >= 0
  <2> SUFFICES ASSUME q <= -1 PROVE FALSE
    BY <1>3
  <2>1. q * b <= -b
    OBVIOUS
  <2> QED
    BY <1>2, <1>4, <2>1
<1>6. q < n
  <2> SUFFICES ASSUME q >= n PROVE FALSE
    BY <1>3
  <2>1. q * b >= n * b
    OBVIOUS
  <2> QED
    BY <1>2, <1>4, <2>1
<1> QED
  BY <1>1, <1>3, <1>5, <1>6

(* The partition gives the two facts that clients and stats() rely on. *)
LEMMA InvImplies == IInv => NoneOnlyWhenExhausted /\ UsedIsHeld
<1> SUFFICES ASSUME IInv PROVE NoneOnlyWhenExhausted /\ UsedIsHeld
  OBVIOUS
<1>1. IsFiniteSet(bitmap) /\ IsFiniteSet(Managed)
  BY PagesFinite DEF IInv, TypeOK, Managed
<1>2. NoneOnlyWhenExhausted
  <2>1. free_pages = 0 => bitmap = {}
    BY <1>1, FS_EmptySet, Zenon DEF IInv, CountIsExact
  <2>2. Reached = bitmap
    <3>1. next_free \in Nat
      BY MaxPagesType DEF IInv, TypeOK
    <3>2. \A p \in bitmap : p \div WordBits \in ScannedWords
      BY <3>1, ScanIsWhole, WordOfPage DEF IInv, TypeOK
    <3> QED
      BY <3>2 DEF Reached
  <2> QED
    BY <2>1, <2>2 DEF IInv, NoneOnlyWhenExhausted, NoPageFound, NoPageLost
<1>3. UsedIsHeld
  <2>1. AllHeld = Managed \ bitmap /\ Managed \cap bitmap = bitmap
    BY DEF IInv, NoPageLost, NoPageHandedOutTwice, AllHeld
  <2>2. Cardinality(Managed \ bitmap)
          = Cardinality(Managed) - Cardinality(Managed \cap bitmap)
    BY <1>1, FS_Difference
  <2> QED
    BY <2>1, <2>2 DEF IInv, UsedIsHeld, UsedPages, CountIsExact
<1> QED
  BY <1>2, <1>3

-----------------------------------------------------------------------------
(* The inductive invariant is an invariant of the allocator. *)
THEOREM Invariance == Spec => []IInv
  BY InitInv, NextInv, PTL DEF Spec

(* The allocator's variables always have their types. *)
THEOREM TypeCorrect == Spec => []TypeOK
<1>1. IInv => TypeOK
  BY DEF IInv
<1> QED
  BY <1>1, Invariance, PTL

(* alloc_page and alloc_contiguous never hand out a page that is in use. *)
THEOREM ExclusivePages == Spec => []NoPageHandedOutTwice
<1>1. IInv => NoPageHandedOutTwice
  BY DEF IInv
<1> QED
  BY <1>1, Invariance, PTL

(* Every managed page is free or held; none leaks, whatever is freed when. *)
THEOREM NoLeak == Spec => []NoPageLost
<1>1. IInv => NoPageLost
  BY DEF IInv
<1> QED
  BY <1>1, Invariance, PTL

(* free_pages is exact, None means exhausted, and used_pages is right. *)
THEOREM Accounting ==
  Spec => [](CountIsExact /\ NoneOnlyWhenExhausted /\ UsedIsHeld)
<1>1. IInv => CountIsExact
  BY DEF IInv
<1> QED
  BY <1>1, InvImplies, Invariance, PTL
=============================================================================
