------------------------------- MODULE CoHeap ------------------------------
(***************************************************************************)
(* The kernel heap of CoOS (kernelHeap.c): used blocks (UMB) and free ones *)
(* (FMB) lie one after the other and are linked to their neighbours; the   *)
(* free ones are also on a list, by address.  Addresses and sizes are in   *)
(* words.  Bit 0 of a link says what it points at and is modelled by the   *)
(* first member of a pair.  Both calls run under the scheduler lock.  With *)
(* the partitions (mm.c) it is all the memory the kernel gives out, which  *)
(* is why their module is extended: what is promised of both is said once. *)
(***************************************************************************)
EXTENDS Integers, Sequences, FiniteSets, SequencesExt, CoMemory

CONSTANTS KHEAP_SIZE, HeapSizes, NULL

UmbHead == 2    \* nextMB, preMB
FmbHead == 3    \* nextFMB, nextUMB, preUMB

ASSUME HeapAssumption ==
  /\ KHEAP_SIZE \in Nat /\ KHEAP_SIZE >= FmbHead /\ HeapSizes \subseteq Nat \ {0}
  /\ NULL \notin 0 .. KHEAP_SIZE /\ \A a \in 0 .. KHEAP_SIZE : NULL \notin {<<"U", a>>, <<"F", a>>}

VARIABLES
  umb, fmb,     \* the headers in memory, by address
  FMBlist,      \* the first free block
  asked         \* history: what was asked for in each block handed out

heapVars == <<umb, fmb, FMBlist, asked>>

UMB(a) == <<"U", a>>
FMB(a) == <<"F", a>>
At(p) == p[2]
IsUMB(p) == p # NULL /\ p[1] = "U"
IsFMB(p) == p # NULL /\ p[1] = "F"

CoCreateKheap ==
  /\ umb = <<>> /\ fmb = [a \in {0} |-> [nextFMB |-> NULL, nextUMB |-> NULL, preUMB |-> NULL]]
  /\ FMBlist = FMB(0) /\ asked = <<>>

FreeSize(a) == (IF fmb[a].nextUMB = NULL THEN KHEAP_SIZE ELSE At(fmb[a].nextUMB)) - a

\* The free list as the sequence of its addresses.
Chain(blocks, first) ==
  LET from[p \in {FMB(a) : a \in DOMAIN blocks} \union {NULL}] ==
        IF p = NULL THEN <<>> ELSE <<At(p)>> \o from[blocks[At(p)].nextFMB]
  IN from[first]
FreeList == Chain(fmb, FMBlist)

\* A slip to rule out: only the neighbour above is told.
TellNext(blocks, pre, next, here) ==
  IF IsUMB(next) THEN [blocks EXCEPT ![At(next)].preMB = here] ELSE blocks

\* The neighbours of a block are told what lies beside them now.
Tell(blocks, pre, next, here) ==
  LET told == IF IsUMB(pre) THEN [blocks EXCEPT ![At(pre)].nextMB = here] ELSE blocks
  IN IF IsUMB(next) THEN [told EXCEPT ![At(next)].preMB = here] ELSE told

Without(f, S) == [x \in DOMAIN f \ S |-> f[x]]
With(f, a, header) == [x \in DOMAIN f \union {a} |-> IF x = a THEN header ELSE f[x]]

\* The free blocks with one link of their list set: that of a block, or the first.
SetLink(blocks, pre, next) == IF pre = NULL THEN blocks ELSE [blocks EXCEPT ![At(pre)].nextFMB = next]
SetFirst(pre, next) == IF pre = NULL THEN next ELSE FMBlist

---------------------------------------------------------------------------
(* CoKmalloc: the first block that fits, whole or split *)

Fits(size) == SelectInSeq(FreeList, LAMBDA a : FreeSize(a) >= size)
Before(i) == IF i = 1 THEN NULL ELSE FMB(FreeList[i - 1])

\* Too little is left for the header of a free block: it is given along.
Whole(a, size) == FreeSize(a) - size < FmbHead

TakeWhole(i, a) ==
  LET pre == Before(i)
      free == fmb[a]
      used == [nextMB |-> free.nextUMB, preMB |-> free.preUMB]
  IN /\ fmb' = Without(SetLink(fmb, pre, free.nextFMB), {a})
     /\ FMBlist' = SetFirst(pre, free.nextFMB)
     /\ umb' = With(Tell(umb, free.preUMB, free.nextUMB, UMB(a)), a, used)

SplitBlock(i, a, size) ==
  LET pre == Before(i)
      free == fmb[a]
      rest == FMB(a + size)
      used == [nextMB |-> rest, preMB |-> free.preUMB]
      told == Tell(umb, NULL, free.nextUMB, rest)
  IN /\ fmb' = With(Without(SetLink(fmb, pre, rest), {a}), a + size, [free EXCEPT !.preUMB = UMB(a)])
     /\ FMBlist' = SetFirst(pre, rest)
     /\ umb' = With(Tell(told, free.preUMB, NULL, UMB(a)), a, used)

CoKmalloc(words) ==
  LET size == words + UmbHead
      i == Fits(size)
      a == FreeList[i]
  IN /\ i # 0
     /\ asked' = With(asked, a, words)
     /\ IF Whole(a, size) THEN TakeWhole(i, a) ELSE SplitBlock(i, a, size)

---------------------------------------------------------------------------
(* CoKfree *)

\* The blocks its check of the pointer finds: back from the first free block,
\* or on from it.
Walk(hop, first) ==
  LET from[a \in DOMAIN hop] == {a} \union (IF IsUMB(hop[a]) THEN from[At(hop[a])] ELSE {})
  IN IF IsUMB(first) THEN from[At(first)] ELSE {}
BackFrom(first) == Walk([a \in DOMAIN umb |-> umb[a].preMB], first)
OnFrom(first) ==
  Walk([a \in DOMAIN umb |-> IF IsFMB(umb[a].nextMB) THEN fmb[At(umb[a].nextMB)].nextUMB ELSE umb[a].nextMB],
       first)
InHeap(a) ==
  IF FMBlist # NULL /\ a < At(FMBlist) THEN a \in BackFrom(fmb[At(FMBlist)].preUMB)
  ELSE a \in OnFrom(IF FMBlist = NULL THEN UMB(0) ELSE fmb[At(FMBlist)].nextUMB)

\* The free block before a used one.
GetPreFMB(a) ==
  LET from[b \in DOMAIN umb] ==
        IF IsUMB(umb[b].preMB) THEN from[At(umb[b].preMB)] ELSE umb[b].preMB
  IN from[a]

\* What CoKfree makes of block a: the free block it ends up in, that block's
\* header, the free block it swallows, and the one whose list link is set to it.
Freed(cur, head, gone, link) == [cur |-> cur, head |-> head, gone |-> gone, link |-> link]
Listing == TRUE
NotListed == FALSE

Header(nextFMB, nextUMB, preUMB) == [nextFMB |-> nextFMB, nextUMB |-> nextUMB, preUMB |-> preUMB]

BetweenFree(a) ==
  LET next == umb[a].nextMB
      pre == umb[a].preMB
      swallowed == IF next = NULL THEN Header(NULL, NULL, NULL) ELSE fmb[At(next)]
      gone == IF next = NULL THEN {} ELSE {At(next)}
  IN IF pre = NULL
     THEN Freed(a, [swallowed EXCEPT !.preUMB = NULL], gone, Listing)
     ELSE Freed(At(pre), [swallowed EXCEPT !.preUMB = fmb[At(pre)].preUMB], gone, NotListed)

AfterFree(a) ==
  LET next == umb[a].nextMB
      pre == umb[a].preMB
  IN IF pre = NULL
     THEN Freed(a, Header(FMBlist, next, NULL), {}, Listing)
     ELSE Freed(At(pre), [fmb[At(pre)] EXCEPT !.nextUMB = next], {}, NotListed)

NextFMB(a) == IF GetPreFMB(a) = NULL THEN FMBlist ELSE fmb[At(GetPreFMB(a))].nextFMB

BeforeFree(a) ==
  LET next == NextFMB(a)
      pre == umb[a].preMB
  IN IF next = NULL
     THEN Freed(a, Header(NULL, NULL, pre), {}, Listing)
     ELSE Freed(a, [fmb[At(next)] EXCEPT !.preUMB = pre], {At(next)}, Listing)

BetweenUsed(a) == Freed(a, Header(NextFMB(a), umb[a].nextMB, umb[a].preMB), {}, Listing)

Outcome(a) ==
  IF ~IsUMB(umb[a].nextMB) /\ ~IsUMB(umb[a].preMB) THEN BetweenFree(a)
  ELSE IF ~IsUMB(umb[a].preMB) THEN AfterFree(a)
  ELSE IF ~IsUMB(umb[a].nextMB) THEN BeforeFree(a)
  ELSE BetweenUsed(a)

CoKfree(a) ==
  LET out == Outcome(a)
      link == GetPreFMB(a)
      kept == Without(fmb, out.gone)
      linked == IF out.link = Listing /\ link # NULL
                THEN [kept EXCEPT ![At(link)].nextFMB = FMB(a)] ELSE kept
  IN /\ a \in DOMAIN asked /\ InHeap(a)
     /\ fmb' = With(linked, out.cur, out.head)
     /\ FMBlist' = IF out.link = Listing /\ link = NULL THEN FMB(a) ELSE FMBlist
     /\ umb' = Tell(Without(umb, {a}), out.head.preUMB, out.head.nextUMB, FMB(out.cur))
     /\ asked' = Without(asked, {a})

HeapNext == (\E words \in HeapSizes : CoKmalloc(words)) \/ (\E a \in DOMAIN umb : CoKfree(a))
HeapSpec == CoCreateKheap /\ [][HeapNext]_heapVars

---------------------------------------------------------------------------
Blocks == DOMAIN umb \union DOMAIN fmb
Link(a) == IF a \in DOMAIN umb THEN UMB(a) ELSE FMB(a)
After(a) ==
  LET later == {b \in Blocks : b > a}
  IN IF later = {} THEN NULL ELSE CHOOSE b \in later : \A c \in later : b <= c
Extent(a) == (IF After(a) = NULL THEN KHEAP_SIZE ELSE After(a)) - a

\* The blocks fill the heap without a gap or an overlap, each with room for what
\* was asked of it; the links are those of the neighbours, free blocks never lie
\* side by side and are all on the list, by address; and every block handed out
\* passes CoKfree's check.
HeapTiles ==
  /\ 0 \in Blocks /\ DOMAIN umb \intersect DOMAIN fmb = {} /\ DOMAIN asked = DOMAIN umb
  /\ Range(FreeList) = DOMAIN fmb /\ \A i, j \in DOMAIN FreeList : i < j => FreeList[i] < FreeList[j]
  /\ \A a \in DOMAIN umb : Extent(a) >= asked[a] + UmbHead /\ InHeap(a)
  /\ \A a \in DOMAIN fmb : Extent(a) >= FmbHead
  /\ \A a \in Blocks :
       LET b == After(a) IN
       IF b = NULL
       THEN IF a \in DOMAIN umb THEN umb[a].nextMB = NULL ELSE fmb[a].nextUMB = NULL
       ELSE /\ IF a \in DOMAIN umb THEN umb[a].nextMB = Link(b) ELSE fmb[a].nextUMB = UMB(b)
            /\ IF b \in DOMAIN umb THEN umb[b].preMB = Link(a) ELSE fmb[b].preUMB = UMB(a)

\* The two parts of the kernel's own memory, with nothing lost or given twice: the
\* heap's blocks tile it (kernelHeap.c), and every block of a partition is free once
\* or in one hand (mm.c).
MemoryExact == HeapTiles /\ PartitionsExact
=============================================================================
