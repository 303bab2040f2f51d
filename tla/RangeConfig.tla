---------------------------- MODULE RangeConfig ------------------------------
(***************************************************************************)
(* RangeProc_config (rangeproc_dpc.c) and the resets before it: what the   *)
(* dpc task makes of the configuration compiled into defines.h - sizes and *)
(* buffers - until it hands it to the range DPU.  The two pools are the    *)
(* allocator of module MemPool.                                            *)
(*                                                                         *)
(* X_Something is X with a plausible mistake; it is used nowhere here.     *)
(***************************************************************************)
EXTENDS Integers, FiniteSets

CONSTANTS
    CoreAddr, CoreSize,  \* gMmwCoreLocMem
    L3Addr, L3Size,      \* gMmwL3
    AddrMod              \* addresses wrap here; beyond every address used

ASSUME RangeAssumption ==
    /\ {CoreAddr, L3Addr} \subseteq Nat \ {0}
    /\ {CoreSize, L3Size, AddrMod} \subseteq Nat

VARIABLES
    fpc,      \* where the dpc task is; "off" until the firmware is built
    defines,  \* the header the firmware was built with
    dpu,      \* gSysContext.rangeProcDpuCfg
    coreCurr, coreMax, coreMark, coreBlocks,  \* CoreLocalRamObj
    l3Curr, l3Max, l3Mark, l3Blocks           \* L3RamObj

coreVars == <<coreCurr, coreMax, coreMark, coreBlocks>>
l3Vars   == <<l3Curr, l3Max, l3Mark, l3Blocks>>
fvars    == <<fpc, defines, dpu, coreVars, l3Vars>>

CorePool == INSTANCE MemPool WITH
    PoolAddr <- CoreAddr, PoolSize <- CoreSize, Sizes <- Nat, Aligns <- {4},
    currAddr <- coreCurr, maxCurrAddr <- coreMax, mark <- coreMark,
    blocks <- coreBlocks
L3Pool == INSTANCE MemPool WITH
    PoolAddr <- L3Addr, PoolSize <- L3Size, Sizes <- Nat, Aligns <- {4},
    currAddr <- l3Curr, maxCurrAddr <- l3Max, mark <- l3Mark,
    blocks <- l3Blocks
-----------------------------------------------------------------------------
(* The macros of defines.h and the antenna counts in gSysContext           *)

CLI_NUM_ADC_SAMPLES == defines["chirpComnCfg"].samples
CLI_MIMO_SEL        == defines["chirpComnCfg"].mimo
NumTxAntennas       == Cardinality(defines["channelCfg"].tx)
NumRxAntennas       == Cardinality(defines["channelCfg"].rx)
NumChirpsPerFrame   == defines["frameCfg"].bursts * defines["frameCfg"].chirps

(* mathUtils_pow2roundup: the next power of two; uint32_t.                 *)
PowersOf2 == {2^k : k \in 0 .. 30}
Pow2Roundup(n) == CHOOSE p \in PowersOf2 :
                    p >= n /\ \A q \in PowersOf2 : q >= n => p <= q

CLI_NUM_RBINS_NoRoundup == CLI_NUM_ADC_SAMPLES \div 2

CLI_NUM_RBINS == Pow2Roundup(CLI_NUM_ADC_SAMPLES) \div 2

NULL == 0
SizeofCell == 4  \* cmplx16ReIm_t
MaxRx == 3

(* memset(&rangeProcDpuCfg, 0, ..): nothing is set.                        *)
Blank ==
    [numTx |-> 0, numVirtual |-> 0, bins |-> 0, chirps |-> 0, doppler |-> 0,
     bpm |-> FALSE, window |-> NULL, windowSize |-> 0, samples |-> 0,
     adcSize |-> 0, fftSize |-> 0,
     rxOffset |-> [c \in 0 .. MaxRx - 1 |-> 0],
     cubeSize |-> 0, cube |-> NULL]

FwInit ==
    /\ fpc = "off" /\ defines = << >> /\ dpu = Blank
    /\ CorePool!Init /\ L3Pool!Init
-----------------------------------------------------------------------------
(* dpcTask resets both pools, then calls RangeProc_config.                 *)
ResetPools ==
    /\ fpc = "reset"
    /\ CorePool!MemPoolReset /\ L3Pool!MemPoolReset
    /\ dpu' = Blank
    /\ fpc' = "sizes"
    /\ UNCHANGED defines

DopplerChirps == IF NumTxAntennas = 0 THEN 0
                 ELSE NumChirpsPerFrame \div NumTxAntennas

(* Sizes and the MIMO mode; exit(1) for an unknown one.                    *)
SetSizes ==
    /\ fpc = "sizes"
    /\ dpu' = [dpu EXCEPT
         !.numTx = NumTxAntennas, !.numVirtual = NumTxAntennas * NumRxAntennas,
         !.bins = CLI_NUM_RBINS, !.chirps = NumChirpsPerFrame,
         !.doppler = DopplerChirps, !.bpm = CLI_MIMO_SEL = 4]
    /\ fpc' = IF CLI_MIMO_SEL \in {0, 1, 4} THEN "window" ELSE "exited"
    /\ UNCHANGED <<defines, coreVars, l3Vars>>

(* With no TX antenna line 195 divides by zero: the core yields 0, or      *)
(* traps here if it was told to.                                           *)
DivisionTrap ==
    /\ fpc = "sizes" /\ NumTxAntennas = 0
    /\ fpc' = "halted"
    /\ UNCHANGED <<defines, dpu, coreVars, l3Vars>>

WindowSize == 4 * ((CLI_NUM_ADC_SAMPLES + 1) \div 2)

(* The window; if it does not fit, the function returns and the dpc task   *)
(* goes on with a DPU that was never configured.                           *)
AllocWindow ==
    /\ fpc = "window"
    /\ \/ /\ CorePool!MemPoolAlloc(WindowSize, 4)
          /\ dpu' = [dpu EXCEPT !.windowSize = WindowSize,
                                !.window = CorePool!Aligned(4)]
          /\ fpc' = "adc"
       \/ /\ ~CorePool!Fits(WindowSize, 4)
          /\ dpu' = [dpu EXCEPT !.windowSize = WindowSize]
          /\ fpc' = "unconfigured"
          /\ UNCHANGED coreVars
    /\ UNCHANGED <<defines, l3Vars>>

BytesPerRxChan_RoundDown == ((CLI_NUM_ADC_SAMPLES * 2) \div 16) * 16

BytesPerRxChan == ((CLI_NUM_ADC_SAMPLES * 2 + 15) \div 16) * 16

(* The ADC buffer: its size, the number of samples, the offset of each     *)
(* channel; then the size of the FFT.                                      *)
SetAdcBuffer ==
    /\ fpc = "adc"
    /\ dpu' = [dpu EXCEPT
         !.adcSize = CLI_NUM_ADC_SAMPLES * NumRxAntennas * 2 * 2,
         !.samples = CLI_NUM_ADC_SAMPLES,
         !.fftSize = CLI_NUM_ADC_SAMPLES,
         !.rxOffset = [c \in 0 .. MaxRx - 1 |->
                         IF c < NumRxAntennas THEN c * BytesPerRxChan ELSE 0]]
    /\ fpc' = "cube"
    /\ UNCHANGED <<defines, coreVars, l3Vars>>

AllocCube_FromWindowPool ==
    /\ fpc = "cube"
    /\ LET size == CLI_NUM_RBINS * dpu.numVirtual * SizeofCell * dpu.doppler
       IN  \/ /\ CorePool!MemPoolAlloc(size, 4)
              /\ dpu' = [dpu EXCEPT !.cubeSize = size, !.cube = CorePool!Aligned(4)]
           \/ /\ ~CorePool!Fits(size, 4)
              /\ dpu' = [dpu EXCEPT !.cubeSize = size]
              /\ UNCHANGED coreVars
    /\ fpc' = "configure"
    /\ UNCHANGED <<defines, l3Vars>>

CubeSize_InCells == CLI_NUM_RBINS * dpu.numVirtual * dpu.doppler

CubeSize == CLI_NUM_RBINS * dpu.numVirtual * SizeofCell * dpu.doppler

(* The radar cube; nobody looks whether it fitted.                         *)
AllocCube ==
    /\ fpc = "cube"
    /\ \/ /\ L3Pool!MemPoolAlloc(CubeSize, 4)
          /\ dpu' = [dpu EXCEPT !.cubeSize = CubeSize, !.cube = L3Pool!Aligned(4)]
       \/ /\ ~L3Pool!Fits(CubeSize, 4)
          /\ dpu' = [dpu EXCEPT !.cubeSize = CubeSize]
          /\ UNCHANGED l3Vars
    /\ fpc' = "configure"
    /\ UNCHANGED <<defines, coreVars>>

(* DPU_RangeProcHWA_config; an error stops the processor.                  *)
ConfigureDpu ==
    /\ fpc = "configure"
    /\ fpc' \in {"configured", "halted"}
    /\ UNCHANGED <<defines, dpu, coreVars, l3Vars>>

FwNext ==
    \/ ResetPools \/ SetSizes \/ DivisionTrap \/ AllocWindow \/ SetAdcBuffer
    \/ AllocCube \/ ConfigureDpu
-----------------------------------------------------------------------------
(* Properties *)

BufferSet == fpc \in {"cube", "configure", "configured"}
CubeAsked == fpc \in {"configure", "configured"}

(* For every number of samples and receive channels: the samples of one    *)
(* channel end before those of the next begin, and each channel starts at  *)
(* a multiple of 16 bytes (line 248).  The size declared for the buffer    *)
(* (line 230) is that of ping and pong without this rounding, and one      *)
(* chirp lies in one of them: its last channel ends within the half of the *)
(* size exactly when nothing was rounded up, or nothing comes after it.    *)
RxChannelsApart ==
    BufferSet =>
        \A c \in 0 .. NumRxAntennas - 1 :
            LET end == dpu.rxOffset[c] + 2 * dpu.samples
            IN  /\ dpu.rxOffset[c] % 16 = 0
                /\ c + 1 < NumRxAntennas => end <= dpu.rxOffset[c + 1]
                /\ c + 1 = NumRxAntennas =>
                     (end <= dpu.adcSize \div 2
                        <=> dpu.samples % 8 = 0 \/ NumRxAntennas = 1)

(* The pointer to the cube, which nobody checks, is NULL only for a cube   *)
(* that the whole of the L3 memory (less the padding of its start) cannot  *)
(* hold; otherwise all of the cube lies in that memory.                    *)
CubeNullOnlyWhenTooBig ==
    CubeAsked =>
        IF dpu.cube = NULL
        THEN dpu.cubeSize + 3 > L3Size
        ELSE /\ dpu.cube >= L3Addr
             /\ dpu.cube + dpu.cubeSize <= L3Addr + L3Size

(* Every word uart_transmit_loop reads (one per range bin, at an index of  *)
(* 8 bits) lies in the block that was allocated for the cube, for every    *)
(* configuration that yields a cube at all.  It does not for a frame of    *)
(* fewer chirps than TX antennas: the cube is empty, but not NULL.         *)
IndexMod == 256
UartReadsInCube ==
    (fpc = "configured" /\ dpu.cube # NULL /\ dpu.cubeSize > 0) =>
        \E b \in l3Blocks : \A i \in 0 .. dpu.bins - 1 :
            LET word == dpu.cube + SizeofCell * (i % IndexMod)
            IN  b.lo <= word /\ word + SizeofCell <= b.hi

(* rangeproc_dpc.c:190: the number of range bins is "half of the range FFT *)
(* size".                                                                  *)
BinsAreHalfTheFft == fpc = "configure" => 2 * dpu.bins = dpu.fftSize
=============================================================================
