----------------------------- MODULE MemPoolProofs -----------------------------
(***************************************************************************)
(* Whatever is allocated, rewound and reset, the blocks in use lie in the  *)
(* pool and do not overlap, for a pool of any address and size.            *)
(***************************************************************************)
EXTENDS MemPool, RemainderLemmas

(* MEM_ALIGN rounds up to a multiple, by less than the alignment.          *)
LEMMA AlignUp ==
    ASSUME NEW addr \in Nat, NEW align \in Nat \ {0}
    PROVE  /\ MEM_ALIGN(addr, align) \in Nat
           /\ addr <= MEM_ALIGN(addr, align)
           /\ MEM_ALIGN(addr, align) < addr + align
           /\ MEM_ALIGN(addr, align) % align = 0
  <1>1. addr % align \in 0 .. align - 1
    BY RemainderRange
  <1>2. align - (addr % align) \in Nat
    BY <1>1
  <1>3. (align - (addr % align)) % align \in 0 .. align - 1
    BY <1>2, RemainderRange
  <1>4. MEM_ALIGN(addr, align) % align = 0
    BY RoundUpIsMultiple DEF MEM_ALIGN
  <1> QED
    BY <1>3, <1>4 DEF MEM_ALIGN
-----------------------------------------------------------------------------
(* The blocks in use are below the bump pointer, and so is every address   *)
(* the user can rewind to below the top of the pool.                       *)
BlocksBelow == \A b \in blocks : b.hi <= currAddr

PoolInv == TypeOK /\ BlocksInPool /\ BlocksDisjoint /\ BlocksBelow

(* While the pool has not been reset nothing was handed out, and a mark    *)
(* taken afterwards is an address of the pool.                             *)
Started == IF HasBeenReset THEN {currAddr, mark} \subseteq Bottom .. Top
                           ELSE blocks = {}

LEMMA PoolInit == Init => PoolInv /\ Started
  BY PoolAssumption
     DEF Init, PoolInv, Started, TypeOK, BlocksInPool, BlocksDisjoint, BlocksBelow,
         HasBeenReset, Bottom, Top

(* Where a block that fits comes to lie.                                   *)
LEMMA Placement ==
    ASSUME PoolInv, Started, NEW s \in Sizes, NEW a \in Aligns,
           HasBeenReset, Fits(s, a)
    PROVE  /\ Aligned(a) \in Nat
           /\ currAddr <= Aligned(a)
           /\ (Aligned(a) + s) % AddrMod = Aligned(a) + s
           /\ Aligned(a) + s <= Top
           /\ Aligned(a) % a = 0
  <1>1. /\ PoolAddr \in Nat \ {0} /\ PoolSize \in Nat /\ AddrMod \in Nat
        /\ s \in Nat /\ a \in Nat \ {0} /\ PoolAddr + PoolSize + s + a < AddrMod
    BY PoolAssumption
  <1>2. currAddr \in Nat /\ currAddr <= PoolAddr + PoolSize
    BY <1>1 DEF Started, Bottom, Top
  <1>3. /\ MEM_ALIGN(currAddr, a) \in Nat
        /\ currAddr <= MEM_ALIGN(currAddr, a)
        /\ MEM_ALIGN(currAddr, a) < currAddr + a
        /\ MEM_ALIGN(currAddr, a) % a = 0
    BY <1>1, <1>2, AlignUp
  <1>4. Aligned(a) = MEM_ALIGN(currAddr, a)
    <2>1. MEM_ALIGN(currAddr, a) < AddrMod
      BY <1>1, <1>2, <1>3
    <2> QED
      BY <1>1, <1>3, <2>1, RemainderOfSmall DEF Aligned
  <1>5. (Aligned(a) + s) % AddrMod = Aligned(a) + s
    <2>1. Aligned(a) + s \in Nat /\ Aligned(a) + s < AddrMod
      BY <1>1, <1>2, <1>3, <1>4
    <2> QED
      BY <1>1, <2>1, RemainderOfSmall
  <1>6. Top % AddrMod = Top
    <2>1. Top \in Nat /\ Top < AddrMod
      BY <1>1 DEF Top
    <2> QED
      BY <1>1, <2>1, RemainderOfSmall
  <1> QED
    BY <1>3, <1>4, <1>5, <1>6 DEF Fits

LEMMA PoolNext == PoolInv /\ Started /\ [Next]_pvars => PoolInv' /\ Started'
  <1> SUFFICES ASSUME PoolInv, Started, [Next]_pvars PROVE PoolInv' /\ Started'
    OBVIOUS
  <1> USE PoolAssumption DEF Bottom, Top, HasBeenReset, Block
  <1>1. CASE MemPoolReset
    BY <1>1 DEF MemPoolReset, PoolInv, Started, TypeOK, BlocksInPool, BlocksDisjoint,
                BlocksBelow
  <1>2. CASE MemPoolGet
    BY <1>2 DEF MemPoolGet, PoolInv, Started, TypeOK, BlocksInPool, BlocksDisjoint,
                BlocksBelow
  <1>3. CASE MemPoolSet
    BY <1>3 DEF MemPoolSet, PoolInv, Started, TypeOK, BlocksInPool, BlocksDisjoint,
                BlocksBelow, Usable, MaxOf
  <1>4. ASSUME NEW s \in Sizes, NEW a \in Aligns, MemPoolAlloc(s, a)
        PROVE  PoolInv' /\ Started'
    <2> DEFINE lo == Aligned(a)
               new == [lo |-> lo, hi |-> lo + s, align |-> a]
    <2>1. /\ lo \in Nat /\ currAddr <= lo
          /\ (lo + s) % AddrMod = lo + s /\ lo + s <= Top
      BY <1>4, Placement DEF MemPoolAlloc
    <2>2. /\ currAddr' = lo + s /\ blocks' = blocks \cup {new}
          /\ maxCurrAddr' = MaxOf(currAddr', maxCurrAddr) /\ mark' = mark
      BY <1>4, <2>1 DEF MemPoolAlloc, Hand
    <2>3. /\ currAddr \in Bottom .. Top /\ mark \in Bottom .. Top
          /\ s \in Nat /\ a \in Nat \ {0}
      BY <1>4 DEF MemPoolAlloc, Started
    <2>4. currAddr' \in Bottom .. Top
      BY <2>1, <2>2, <2>3
    <2>5. \A b \in blocks : b \in Block /\ b.hi <= currAddr
      BY DEF PoolInv, TypeOK, BlocksBelow
    <2> HIDE DEF lo
    <2>6. TypeOK'
      <3>1. new \in Block
        BY <2>1, <2>3
      <3>2. blocks' \subseteq Block
        BY <2>2, <3>1 DEF PoolInv, TypeOK
      <3> QED
        BY <2>2, <2>3, <2>4, <3>2 DEF PoolInv, TypeOK, MaxOf
    <2>7. BlocksInPool'
      BY <2>1, <2>2, <2>3 DEF PoolInv, BlocksInPool
    <2>8. BlocksDisjoint'
      BY <2>1, <2>2, <2>3, <2>5 DEF PoolInv, BlocksDisjoint
    <2>9. BlocksBelow'
      BY <2>1, <2>2, <2>3, <2>5 DEF BlocksBelow
    <2> QED
      BY <2>2, <2>3, <2>4, <2>6, <2>7, <2>8, <2>9 DEF PoolInv, Started
  <1>5. CASE UNCHANGED pvars
    BY <1>5 DEF pvars, PoolInv, Started, TypeOK, BlocksInPool, BlocksDisjoint,
                BlocksBelow
  <1> QED
    BY <1>1, <1>2, <1>3, <1>4, <1>5 DEF Next

(* Blocks in use lie in the pool, for every pool and every sequence of     *)
(* operations (mem_pool.c:59-74).                                          *)
THEOREM AllocationsStayInPool == Spec => []BlocksInPool
  <1>1. PoolInv => BlocksInPool
    BY DEF PoolInv
  <1> QED
    BY <1>1, PoolInit, PoolNext, PTL DEF Spec

(* No two blocks in use overlap (mem_pool.c:59-74): the FFT window and     *)
(* the radar cube never share a byte with another allocation.              *)
THEOREM AllocationsDisjoint == Spec => []BlocksDisjoint
  <1>1. PoolInv => BlocksDisjoint
    BY DEF PoolInv
  <1> QED
    BY <1>1, PoolInit, PoolNext, PTL DEF Spec

(* Every block starts at a multiple of the alignment it was asked for with *)
(* (mem_pool.c:65), also for an alignment that is no power of two.         *)
THEOREM AllocationsAligned == Spec => []BlocksAligned
  <1>1. Init => BlocksAligned
    BY DEF Init, BlocksAligned
  <1>2. PoolInv /\ Started /\ BlocksAligned /\ [Next]_pvars => BlocksAligned'
    <2> SUFFICES ASSUME PoolInv, Started, BlocksAligned, [Next]_pvars
                 PROVE  BlocksAligned'
      OBVIOUS
    <2>1. CASE MemPoolReset \/ MemPoolGet \/ MemPoolSet \/ UNCHANGED pvars
      BY <2>1 DEF MemPoolReset, MemPoolGet, MemPoolSet, pvars, BlocksAligned
    <2>2. ASSUME NEW s \in Sizes, NEW a \in Aligns, MemPoolAlloc(s, a)
          PROVE  BlocksAligned'
      <3> DEFINE new == [lo |-> Aligned(a), hi |-> Aligned(a) + s, align |-> a]
      <3>1. Aligned(a) % a = 0
        BY <2>2, Placement DEF MemPoolAlloc
      <3>2. blocks' = blocks \cup {new}
        BY <2>2 DEF MemPoolAlloc, Hand
      <3>3. new.lo % new.align = 0
        BY <3>1
      <3> HIDE DEF new
      <3> QED
        BY <3>2, <3>3 DEF BlocksAligned
    <2> QED
      BY <2>1, <2>2 DEF Next
  <1> QED
    BY <1>1, <1>2, PoolInit, PoolNext, PTL DEF Spec

(* The addresses stay in the pool and the blocks keep their form.          *)
THEOREM PoolTyped == Spec => []TypeOK
  <1>1. PoolInv => TypeOK
    BY DEF PoolInv
  <1> QED
    BY <1>1, PoolInit, PoolNext, PTL DEF Spec
-----------------------------------------------------------------------------
(* The running maximum is never below the bump pointer: with BlocksBelow   *)
(* it covers every block in use.                                           *)
Covered == /\ currAddr <= maxCurrAddr
           /\ HasBeenReset => maxCurrAddr \in Bottom .. Top

LEMMA CoveredInit == Init => Covered
  BY DEF Init, Covered, HasBeenReset

LEMMA CoveredNext ==
    PoolInv /\ Started /\ PoolInv' /\ Started' /\ Covered /\ [Next]_pvars => Covered'
  <1> SUFFICES ASSUME PoolInv, Started, PoolInv', Started', Covered, [Next]_pvars
               PROVE  Covered'
    OBVIOUS
  <1> USE PoolAssumption DEF Bottom, Top, HasBeenReset, Covered, PoolInv, TypeOK, Started
  <1>1. CASE MemPoolReset
    BY <1>1 DEF MemPoolReset
  <1>2. CASE MemPoolGet
    BY <1>2 DEF MemPoolGet
  <1>3. CASE MemPoolSet
    BY <1>3 DEF MemPoolSet, MaxOf
  <1>4. ASSUME NEW s \in Sizes, NEW a \in Aligns, MemPoolAlloc(s, a)
        PROVE  Covered'
    <2>1. currAddr # 0 /\ maxCurrAddr' = MaxOf(currAddr', maxCurrAddr)
      BY <1>4 DEF MemPoolAlloc
    <2>2. currAddr' \in {0} \cup PoolAddr .. PoolAddr + PoolSize
          /\ maxCurrAddr \in PoolAddr .. PoolAddr + PoolSize
      BY <2>1
    <2> QED
      BY <2>1, <2>2 DEF MaxOf
  <1>5. CASE UNCHANGED pvars
    BY <1>5 DEF pvars
  <1> QED
    BY <1>1, <1>2, <1>3, <1>4, <1>5 DEF Next

(* The usage figure covers every block in use and never exceeds the pool,  *)
(* whatever was rewound in between (mem_pool.c:46-57).                     *)
THEOREM UsageIsAnUpperBound == Spec => []UsageCoversBlocks
  <1>1. PoolInv /\ Started /\ Covered => UsageCoversBlocks
    <2> SUFFICES ASSUME PoolInv, Started, Covered PROVE UsageCoversBlocks
      OBVIOUS
    <2> USE PoolAssumption DEF PoolInv, TypeOK, BlocksBelow, Started, Covered,
                               HasBeenReset, MemPoolGetMaxUsage, Bottom, Top, Block
    <2>1. HasBeenReset => MemPoolGetMaxUsage \in 0 .. PoolSize
      OBVIOUS
    <2>2. ASSUME NEW b \in blocks PROVE b.hi - PoolAddr <= MemPoolGetMaxUsage
      <3>1. b \in Block /\ b.hi \in Nat /\ b.hi <= currAddr
        OBVIOUS
      <3>2. currAddr \in Nat /\ maxCurrAddr \in Nat
        OBVIOUS
      <3> QED
        BY <3>1, <3>2
    <2> QED
      BY <2>1, <2>2 DEF UsageCoversBlocks
  <1> QED
    BY <1>1, PoolInit, PoolNext, CoveredInit, CoveredNext, PTL DEF Spec

(* Only a reset lowers the running maximum (mem_pool.c:41-49).             *)
THEOREM OnlyResetLowersTheMark == Spec => HighWaterMark
  <1>1. PoolInv /\ Started /\ PoolInv' /\ Started' /\ [Next]_pvars
          => [maxCurrAddr' < maxCurrAddr => currAddr' = PoolAddr /\ blocks' = {}]_pvars
    <2> SUFFICES ASSUME PoolInv, PoolInv', Next, maxCurrAddr' < maxCurrAddr
                 PROVE  currAddr' = PoolAddr /\ blocks' = {}
      OBVIOUS
    <2>1. {currAddr', maxCurrAddr, maxCurrAddr'} \subseteq Nat
      BY PoolAssumption DEF PoolInv, TypeOK, Bottom, Top
    <2>2. MemPoolReset \/ maxCurrAddr' = maxCurrAddr
                       \/ maxCurrAddr' = MaxOf(currAddr', maxCurrAddr)
      BY DEF Next, MemPoolGet, MemPoolSet, MemPoolAlloc
    <2> QED
      BY <2>1, <2>2 DEF MemPoolReset, MaxOf
  <1> QED
    BY <1>1, PoolInit, PoolNext, PTL DEF Spec, HighWaterMark
=============================================================================
