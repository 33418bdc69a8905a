---------------------------- MODULE PhysAllocator ----------------------------
(***************************************************************************)
(* The bitmap allocator of physical pages (crates/core/mem/src/phys.rs).   *)
(*                                                                         *)
(* The bitmap is the set of the page numbers whose bit is 1 (free); the    *)
(* code's words matter only for the order of the search, which goes from   *)
(* the word of the next_free hint round the whole bitmap and takes the     *)
(* lowest set bit of the first non-zero word.  Every operation runs under  *)
(* the one spin lock PHYS_ALLOCATOR and is one atomic action.              *)
(*                                                                         *)
(* held is not a variable of the code: it records which owner (a           *)
(* ProcessPageTable, which tracks its pages and frees each once when it is *)
(* dropped) was handed which pages.                                        *)
(***************************************************************************)
EXTENDS Integers, FiniteSets

CONSTANTS
    WordBits,    \* pages per bitmap word (64 in the code)
    BitmapSize,  \* words in the bitmap
    StartPage,   \* first page of the range given to init
    NumPages,    \* pages in the range given to init
    Owners,      \* the clients that hold pages
    MaxRun       \* largest count given to alloc_contiguous

MaxPages == BitmapSize * WordBits
Pages == 0 .. MaxPages - 1

(***************************************************************************)
(* init computes MAX_PAGES - start_page in unsigned arithmetic, so the     *)
(* range must start inside the bitmap; it may run past its end.            *)
(***************************************************************************)
ASSUME SizeAssumption ==
    /\ WordBits \in Nat \ {0}
    /\ BitmapSize \in Nat \ {0}
    /\ StartPage \in Nat
    /\ StartPage <= MaxPages
    /\ NumPages \in Nat
    /\ MaxRun \in Nat

Smaller(a, b) == IF a <= b THEN a ELSE b

VARIABLES
    bitmap,       \* the pages whose bit is set: the free pages
    total_pages,
    free_pages,
    next_free,    \* the hint: page at whose word the search starts
    held          \* owner -> pages it was given and has not freed

vars == <<bitmap, total_pages, free_pages, next_free, held>>

(* Mutant: init does not clamp the range to the bitmap. *)
ManagedUnclamped == StartPage .. StartPage + NumPages - 1

(***************************************************************************)
(* The state after init(start, size).                                      *)
(***************************************************************************)
Managed == {p \in Pages : StartPage <= p /\ p < StartPage + NumPages}

(* Mutant: total_pages is not clamped, free_pages is. *)
InitTotalUnclamped ==
    /\ bitmap = Managed
    /\ total_pages = NumPages
    /\ free_pages = Smaller(NumPages, MaxPages - StartPage)
    /\ next_free = StartPage
    /\ held = [o \in Owners |-> {}]

Init ==
    /\ bitmap = Managed
    /\ total_pages = Smaller(NumPages, MaxPages - StartPage)
    /\ free_pages = total_pages
    /\ next_free = StartPage
    /\ held = [o \in Owners |-> {}]

-----------------------------------------------------------------------------
(* Mutant: the scan takes up behind the word of the hint. *)
ScannedWordsBehindHint ==
    {(next_free \div WordBits + i) % BitmapSize : i \in 1 .. BitmapSize - 1}

(***************************************************************************)
(* The scan of alloc_page visits word (next_free / 64 + i) mod BITMAP_SIZE *)
(* for i = 0, 1, ...; it comes across the free pages of these words, and   *)
(* Visit(p) is the i at which it reaches p's word.                         *)
(***************************************************************************)
ScannedWords ==
    {(next_free \div WordBits + i) % BitmapSize : i \in 0 .. BitmapSize - 1}

Reached == {p \in bitmap : p \div WordBits \in ScannedWords}

Visit(p) == (p \div WordBits - next_free \div WordBits) % BitmapSize

FoundFirst(p) ==
    \A q \in Reached : \/ Visit(p) < Visit(q)
                       \/ Visit(p) = Visit(q) /\ p <= q

AllocPage(o) ==
    /\ free_pages # 0
    /\ \E p \in Reached :
          /\ FoundFirst(p)
          /\ bitmap' = bitmap \ {p}
          /\ free_pages' = free_pages - 1
          /\ next_free' = p + 1
          /\ held' = [held EXCEPT ![o] = @ \cup {p}]
    /\ UNCHANGED total_pages

(* alloc_page returns None: the count is zero, or the scan met no set bit. *)
NoPageFound == free_pages = 0 \/ Reached = {}

AllocPageNone == NoPageFound /\ UNCHANGED vars

(* Mutant: the bit is set but free_pages is not incremented. *)
FreePageUncounted(o, p) ==
    /\ p \in held[o]
    /\ held' = [held EXCEPT ![o] = @ \ {p}]
    /\ bitmap' = bitmap \cup {p}
    /\ next_free' = Smaller(p, next_free)
    /\ UNCHANGED <<total_pages, free_pages>>

(* Mutant: the hint stays where it is. *)
FreePageKeepsHint(o, p) ==
    /\ p \in held[o]
    /\ held' = [held EXCEPT ![o] = @ \ {p}]
    /\ bitmap' = bitmap \cup {p}
    /\ free_pages' = free_pages + 1
    /\ UNCHANGED <<total_pages, next_free>>

(* Mutant: a page at or above the hint is taken for free already. *)
FreePageBelowHint(o, p) ==
    /\ p \in held[o]
    /\ held' = [held EXCEPT ![o] = @ \ {p}]
    /\ IF p < next_free - 1
         THEN /\ bitmap' = bitmap \cup {p}
              /\ free_pages' = free_pages + 1
              /\ next_free' = p
         ELSE UNCHANGED <<bitmap, free_pages, next_free>>
    /\ UNCHANGED total_pages

(***************************************************************************)
(* free_page(p).  The client frees a page it holds; a page whose bit is    *)
(* already set and an address beyond the bitmap leave everything as it is. *)
(***************************************************************************)
FreePage(o, p) ==
    /\ p \in held[o]
    /\ held' = [held EXCEPT ![o] = @ \ {p}]
    /\ IF p \in Pages \ bitmap
         THEN /\ bitmap' = bitmap \cup {p}
              /\ free_pages' = free_pages + 1
              /\ next_free' = Smaller(p, next_free)
         ELSE UNCHANGED <<bitmap, free_pages, next_free>>
    /\ UNCHANGED total_pages

(***************************************************************************)
(* alloc_contiguous(count): the first run of count free pages, in page     *)
(* order.  The hint is left where it was.                                  *)
(***************************************************************************)
IsRun(s, count) == s .. s + count - 1 \subseteq bitmap

(* Mutant: the loop that clears the bits stops one page short. *)
AllocContiguousShort(o, count) ==
    /\ count # 0
    /\ count <= free_pages
    /\ \E s \in bitmap :
          /\ IsRun(s, count)
          /\ \A t \in bitmap : t < s => ~IsRun(t, count)
          /\ bitmap' = bitmap \ (s .. s + count - 2)
          /\ held' = [held EXCEPT ![o] = @ \cup (s .. s + count - 1)]
    /\ free_pages' = free_pages - count
    /\ UNCHANGED <<total_pages, next_free>>

AllocContiguous(o, count) ==
    /\ count # 0
    /\ count <= free_pages
    /\ \E s \in bitmap :
          /\ IsRun(s, count)
          /\ \A t \in bitmap : t < s => ~IsRun(t, count)
          /\ bitmap' = bitmap \ (s .. s + count - 1)
          /\ held' = [held EXCEPT ![o] = @ \cup (s .. s + count - 1)]
    /\ free_pages' = free_pages - count
    /\ UNCHANGED <<total_pages, next_free>>

AllocContiguousNone(count) ==
    /\ \/ count = 0
       \/ free_pages < count
       \/ \A s \in bitmap : ~IsRun(s, count)
    /\ UNCHANGED vars

Next ==
    \/ \E o \in Owners : AllocPage(o)
    \/ AllocPageNone
    \/ \E o \in Owners : \E p \in held[o] : FreePage(o, p)
    \/ \E o \in Owners, count \in 0 .. MaxRun : AllocContiguous(o, count)
    \/ \E count \in 0 .. MaxRun : AllocContiguousNone(count)

Spec == Init /\ [][Next]_vars

-----------------------------------------------------------------------------
(* stats(): total_pages - free_pages, in unsigned arithmetic. *)
UsedPages == total_pages - free_pages

AllHeld == UNION {held[o] : o \in Owners}

(* The variables have their types. *)
TypeOK ==
    /\ bitmap \subseteq Pages
    /\ total_pages \in Nat
    /\ free_pages \in Nat
    /\ next_free \in 0 .. MaxPages
    /\ held \in [Owners -> SUBSET Pages]

(***************************************************************************)
(* No page is handed out twice: a page an owner holds is not free in the   *)
(* bitmap and is held by no other owner (alloc_page, alloc_contiguous and  *)
(* free_page together, whatever the hint).                                 *)
(***************************************************************************)
NoPageHandedOutTwice ==
    /\ \A o \in Owners : held[o] \cap bitmap = {}
    /\ \A o1, o2 \in Owners : o1 # o2 => held[o1] \cap held[o2] = {}

(***************************************************************************)
(* No page is lost and none is invented: at every moment the free and the  *)
(* held pages are exactly the pages of the range given to init.            *)
(***************************************************************************)
NoPageLost == bitmap \cup AllHeld = Managed

(***************************************************************************)
(* The counter that alloc_page and alloc_contiguous trust before they look *)
(* at the bitmap is the number of set bits.                                *)
(***************************************************************************)
CountIsExact == free_pages = Cardinality(bitmap)

(***************************************************************************)
(* alloc_page says None only when every managed page is held: its scan,    *)
(* which starts at the hint and wraps round, passes over no word.          *)
(***************************************************************************)
NoneOnlyWhenExhausted == NoPageFound => AllHeld = Managed

(***************************************************************************)
(* The hint is never above a free page, although only free_page lowers it  *)
(* and alloc_contiguous leaves it alone: the search of alloc_page never    *)
(* has to wrap round, and it returns the lowest free page.                 *)
(***************************************************************************)
HintBelowFree == \A p \in bitmap : next_free <= p

(***************************************************************************)
(* stats() reports in used_pages the pages that are held, and its unsigned *)
(* subtraction never underflows.                                           *)
(***************************************************************************)
UsedIsHeld == UsedPages = Cardinality(AllHeld)

=============================================================================
