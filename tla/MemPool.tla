------------------------------- MODULE MemPool -------------------------------
(***************************************************************************)
(* mem_pool.c: the bump allocator behind the two memory pools (L3 for the  *)
(* radar cube, core local for the FFT window).  Addresses are numbers, as  *)
(* uintptr_t is, and wrap at AddrMod.  The blocks handed out and not       *)
(* rewound since are a ghost.                                              *)
(***************************************************************************)
EXTENDS Naturals

CONSTANTS
    PoolAddr, PoolSize,  \* pool->cfg.addr, pool->cfg.size
    Sizes, Aligns,       \* what the callers ask for
    AddrMod              \* 2^32

(* No request is so large that an address wraps: the two callers ask for a *)
(* window and for a cube, of a few kilobytes.                              *)
ASSUME PoolAssumption ==
    /\ PoolAddr \in Nat \ {0} /\ PoolSize \in Nat
    /\ AddrMod \in Nat
    /\ Sizes \subseteq Nat /\ Aligns \subseteq Nat \ {0}
    /\ \A s \in Sizes, a \in Aligns : PoolAddr + PoolSize + s + a < AddrMod

VARIABLES
    currAddr, maxCurrAddr,  \* the pool object
    mark,                   \* an address the user got from MemPoolGet
    blocks                  \* blocks in use: [lo, hi) and their alignment

pvars == <<currAddr, maxCurrAddr, mark, blocks>>

MaxOf(a, b) == IF a > b THEN a ELSE b

MEM_ALIGN(addr, align) == addr + ((align - (addr % align)) % align)

Usable(b, addr) == b.hi <= addr
-----------------------------------------------------------------------------
(* Static storage is zero; dpcTask resets both pools before it allocates.  *)
Init ==
    /\ currAddr = 0 /\ maxCurrAddr = 0 /\ mark = 0
    /\ blocks = {}

HasBeenReset == currAddr # 0

MemPoolReset ==
    /\ currAddr' = PoolAddr
    /\ maxCurrAddr' = PoolAddr
    /\ blocks' = {}
    /\ mark' = PoolAddr

MemPoolGet ==
    /\ HasBeenReset
    /\ mark' = currAddr
    /\ UNCHANGED <<currAddr, maxCurrAddr, blocks>>

(* Rewinding gives up the blocks above the address.  The firmware allocates*)
(* twice and never rewinds; Get and Set are the pool's other operations.   *)
MemPoolSet_NoMax ==
    /\ HasBeenReset
    /\ currAddr' = mark
    /\ maxCurrAddr' = currAddr'
    /\ blocks' = {b \in blocks : Usable(b, mark)}
    /\ UNCHANGED mark

MemPoolSet ==
    /\ HasBeenReset
    /\ currAddr' = mark
    /\ maxCurrAddr' = MaxOf(currAddr', maxCurrAddr)
    /\ blocks' = {b \in blocks : Usable(b, mark)}
    /\ UNCHANGED mark

Bottom == PoolAddr
Top    == PoolAddr + PoolSize
Aligned(align) == MEM_ALIGN(currAddr, align) % AddrMod

Fits_BeforeAlign(size, align) == (currAddr + size) % AddrMod <= Top % AddrMod

Fits(size, align) == (Aligned(align) + size) % AddrMod <= Top % AddrMod

(* The block, and where the pool continues.                                *)
Hand(lo, size, align, curr) ==
    /\ currAddr' = curr
    /\ blocks' = blocks \cup {[lo |-> lo, hi |-> lo + size, align |-> align]}

MemPoolAlloc_Unaligned(size, align) ==
    /\ HasBeenReset /\ Fits(size, align)
    /\ Hand(currAddr, size, align, (currAddr + size) % AddrMod)
    /\ maxCurrAddr' = MaxOf(currAddr', maxCurrAddr)
    /\ UNCHANGED mark

MemPoolAlloc_ForgetsPadding(size, align) ==
    /\ HasBeenReset /\ Fits(size, align)
    /\ Hand(Aligned(align), size, align, (currAddr + size) % AddrMod)
    /\ maxCurrAddr' = MaxOf(currAddr', maxCurrAddr)
    /\ UNCHANGED mark

MemPoolAlloc_NoMax(size, align) ==
    /\ HasBeenReset /\ Fits(size, align)
    /\ Hand(Aligned(align), size, align, (Aligned(align) + size) % AddrMod)
    /\ UNCHANGED <<mark, maxCurrAddr>>

(* A block that does not fit is refused (NULL) and changes nothing, so a   *)
(* refusal is no step of this module.                                      *)
MemPoolAlloc(size, align) ==
    /\ HasBeenReset /\ Fits(size, align)
    /\ Hand(Aligned(align), size, align, (Aligned(align) + size) % AddrMod)
    /\ maxCurrAddr' = MaxOf(currAddr', maxCurrAddr)
    /\ UNCHANGED mark

MemPoolGetMaxUsage == maxCurrAddr - PoolAddr

Next ==
    \/ MemPoolReset \/ MemPoolGet \/ MemPoolSet
    \/ \E s \in Sizes, a \in Aligns : MemPoolAlloc(s, a)

Spec == Init /\ [][Next]_pvars
-----------------------------------------------------------------------------
(* Properties *)

Block == [lo : Nat, hi : Nat, align : Nat \ {0}]

TypeOK ==
    /\ \A a \in {currAddr, maxCurrAddr, mark} : a = 0 \/ a \in Bottom .. Top
    /\ blocks \subseteq Block

(* A block handed out lies in the pool, and no two blocks in use overlap,  *)
(* whatever sequence of allocations, rewinds and resets came before: the   *)
(* HWA and the EDMA write to these addresses without any check.            *)
BlocksInPool ==
    \A b \in blocks : Bottom <= b.lo /\ b.lo <= b.hi /\ b.hi <= Top

BlocksDisjoint ==
    \A b, c \in blocks : b = c \/ b.hi <= c.lo \/ c.hi <= b.lo

(* Every block starts at a multiple of the alignment that was asked for.   *)
BlocksAligned == \A b \in blocks : b.lo % b.align = 0

(* GetMaxUsage covers every block in use, never exceeds the pool, and only *)
(* a reset makes it smaller: rewinding does not hide what was used.        *)
UsageCoversBlocks ==
    /\ \A b \in blocks : b.hi - PoolAddr <= MemPoolGetMaxUsage
    /\ HasBeenReset => MemPoolGetMaxUsage \in 0 .. PoolSize
HighWaterMark ==
    [][maxCurrAddr' < maxCurrAddr => currAddr' = PoolAddr /\ blocks' = {}]_pvars
=============================================================================
