------------------------- MODULE RadarPipelineProofs -------------------------
(***************************************************************************)
(* Theorems about RadarPipeline, for every number of chirps, antennas,     *)
(* range bins and frames, under any scheduling of the tasks and with every *)
(* external call allowed to fail, unless a theorem says otherwise.         *)
(***************************************************************************)
EXTENDS RadarPipeline, TLAPS

USE DEF Tasks, Sems, Slots, MainPc, DpcPc, UartPc, FaultKinds

(* A cell in the first row of the cube: whatever the range bin, the        *)
(* address that uart_transmit_loop computes stays in Cube[0].              *)
LEMMA CellInFirstRow ==
    ASSUME NEW i \in 0 .. Bins - 1
    PROVE  TxCell(i) \in Nat /\ TxCell(i) \div RowCells = 0
<1> USE PipelineAssumption
<1>1. i % IndexMod \in Nat /\ i % IndexMod <= i
  BY SMT
<1>2. TxCell(i) = i % IndexMod
  BY <1>1, SMT DEF TxCell, AddressOffset
<1>3. RowCells \in Nat \ {0} /\ Bins <= RowCells
  BY SMT DEF RowCells
<1>4. TxCell(i) \in Nat /\ TxCell(i) < RowCells
  BY <1>1, <1>2, <1>3, SMT
<1> HIDE DEF RowCells, TxCell
<1>5. QED
  BY <1>3, <1>4, SMT

LEMMA StampOfTxCell ==
    ASSUME NEW i \in 0 .. Bins - 1
    PROVE  StampAt(TxCell(i)) = cube[0]
BY CellInFirstRow, PipelineAssumption, SMT DEF StampAt

LEMMA SlotZero == 0 \in Slots /\ ChirpsPerFrame \in Nat /\ ChirpsPerFrame > 0
BY PipelineAssumption, SMT
-----------------------------------------------------------------------------
(* The type invariant alone is not inductive: that a chirp finds a free    *)
(* slot in the cube depends on the DPU being armed, and that there are     *)
(* three registrations depends on where the dpc task is.                   *)
SlotFree == dpu = "armed" => slot < ChirpsPerFrame

RegisterOrder ==
    /\ pc["main"] = "createDpc" => pc["dpc"] = "none"
    /\ pc["dpc"] \in {"none", "reset", "config", "postCfg"} => irqs = 0
    /\ pc["dpc"] = "register" => irqs <= 2

TypeInv == TypeOK /\ SlotFree /\ RegisterOrder

LEMMA TasksTyped ==
    ASSUME TaskTypeOK, RegisterOrder, [Next]_vars
    PROVE  TaskTypeOK' /\ RegisterOrder'
<1> USE DEF TaskTypeOK, RegisterOrder, tvars, hvars, svars, cvars, uvars,
            kvars, At, Goto, Post, Pend
<1>1. CASE MainNext
  <2>1. CASE MainStartSensor
    BY <2>1, SMT DEF MainStartSensor
  <2>2. CASE MainCreateDpc
    BY <2>2, SMT DEF MainCreateDpc
  <2>3. CASE MainPendCfg
    BY <2>3, SMT DEF MainPendCfg
  <2>4. CASE MainCreateUart
    BY <2>4, SMT DEF MainCreateUart
  <2>5. QED
    BY <1>1, <2>1, <2>2, <2>3, <2>4 DEF MainNext
<1>2. CASE DpcReset \/ DpcPostCfg \/ DpcProcess \/ DpcPostStart \/ DpcPendDone
  BY <1>2, SMT DEF DpcReset, DpcPostCfg, DpcProcess, DpcPostStart, DpcPendDone
<1>3. CASE DpcConfig
  BY <1>3, SMT DEF DpcConfig
<1>4. CASE DpcRegister
  BY <1>4, SMT DEF DpcRegister
<1>5. CASE DpcTrigger \/ DpcRetrigger
  BY <1>5, SMT DEF DpcTrigger, DpcRetrigger, ArmDpu
<1>6. CASE UartNext
  BY <1>6, SMT DEF UartNext, UartCapture, UartPendStart, UartHeader, UartBin,
     UartFooter, UartPostDone
<1>7. CASE FrameStart \/ Chirp
  BY <1>7, SMT DEF FrameStart, Chirp
<1>8. CASE UNCHANGED vars
  BY <1>8, SMT DEF vars
<1>9. QED
  BY <1>1, <1>2, <1>3, <1>4, <1>5, <1>6, <1>7, <1>8 DEF Next, DpcNext

LEMMA CounterTyped ==
    ASSUME NEW n \in 0 .. CounterMod - 1
    PROVE  (n + 1) % CounterMod \in 0 .. CounterMod - 1
BY PipelineAssumption, SMT

LEMMA HardwareTyped ==
    ASSUME TypeOK, SlotFree, [Next]_vars
    PROVE  HardwareTypeOK' /\ SlotFree'
<1> USE PipelineAssumption
    DEF TypeOK, HardwareTypeOK, SlotFree, tvars, hvars, svars, cvars, uvars,
        kvars, Goto
<1>1. CASE MainNext
  <2>1. CASE MainStartSensor
    BY <2>1, SMT DEF MainStartSensor
  <2>2. CASE MainCreateDpc
    BY <2>2, SMT DEF MainCreateDpc
  <2>3. CASE MainPendCfg
    BY <2>3, SMT DEF MainPendCfg
  <2>4. CASE MainCreateUart
    BY <2>4, SMT DEF MainCreateUart
  <2>5. QED
    BY <1>1, <2>1, <2>2, <2>3, <2>4 DEF MainNext
<1>2. CASE DpcReset \/ DpcConfig \/ DpcPostCfg \/ DpcRegister \/ DpcProcess
           \/ DpcPostStart \/ DpcPendDone
  <2>1. CASE DpcReset
    BY <2>1, SMT DEF DpcReset
  <2>2. CASE DpcConfig
    BY <2>2, SMT DEF DpcConfig
  <2>3. CASE DpcPostCfg
    BY <2>3, SMT DEF DpcPostCfg
  <2>4. CASE DpcRegister
    BY <2>4, SMT DEF DpcRegister
  <2>5. CASE DpcProcess
    BY <2>5, SMT DEF DpcProcess
  <2>6. CASE DpcPostStart
    BY <2>6, SMT DEF DpcPostStart
  <2>7. CASE DpcPendDone
    BY <2>7, SMT DEF DpcPendDone
  <2>8. QED
    BY <1>2, <2>1, <2>2, <2>3, <2>4, <2>5, <2>6, <2>7
<1>3. CASE DpcTrigger \/ DpcRetrigger
  BY <1>3, SMT DEF DpcTrigger, DpcRetrigger, ArmDpu
<1>4. CASE UartNext
  BY <1>4, SMT DEF UartNext, UartCapture, UartPendStart, UartHeader, UartBin,
     UartFooter, UartPostDone
<1>5. CASE FrameStart
  BY <1>5, CounterTyped, SMT DEF FrameStart
<1>6. CASE Chirp
  <2>1. gChirpCount' \in 0 .. CounterMod - 1
    BY <1>6, CounterTyped, SMT DEF Chirp
  <2>2. CASE dpu = "armed" /\ configured
    <3>1. /\ slot \in Slots /\ cube' = [cube EXCEPT ![slot] = frame]
          /\ slot' = slot + 1
      BY <1>6, <2>2, SMT DEF Chirp
    <3>2. cube' \in [Slots -> 0 .. NumFrames]
      BY <3>1, SMT
    <3>3. captured' \in 0 .. NumFrames
      BY <1>6, <2>2, <3>2, SlotZero, SMT DEF Chirp
    <3>4. dpu' \in {"armed", "done"} /\ (dpu' = "armed" => slot + 1 # ChirpsPerFrame)
      BY <1>6, <2>2, SMT DEF Chirp
    <3>5. QED
      BY <1>6, <2>1, <2>2, <3>1, <3>2, <3>3, <3>4, SMT DEF Chirp
  <2>3. CASE ~(dpu = "armed" /\ configured)
    BY <1>6, <2>1, <2>3, SMT DEF Chirp
  <2>4. QED
    BY <2>2, <2>3
<1>7. CASE UNCHANGED vars
  BY <1>7, SMT DEF vars
<1>8. QED
  BY <1>1, <1>2, <1>3, <1>4, <1>5, <1>6, <1>7 DEF Next, DpcNext

LEMMA PacketTyped ==
    ASSUME TypeOK, [Next]_vars
    PROVE  PacketTypeOK'
<1> USE DEF TypeOK, PacketTypeOK, tvars, hvars, svars, cvars, uvars, kvars
<1>1. CASE MainNext \/ DpcNext \/ FrameStart \/ Chirp
  BY <1>1, SMT DEF MainNext, MainCreateDpc, MainPendCfg, MainCreateUart,
     MainStartSensor, DpcNext, DpcReset, DpcConfig, DpcPostCfg, DpcRegister,
     DpcTrigger, DpcRetrigger, ArmDpu, DpcProcess, DpcPostStart, DpcPendDone,
     FrameStart, Chirp
<1>2. CASE UartCapture \/ UartPostDone
  BY <1>2, SMT DEF UartCapture, UartPostDone
<1>3. CASE UartPendStart
  <2>1. NoPacket \in Packet
    BY SMT DEF NoPacket, Packet
  <2>2. QED
    BY <1>3, <2>1 DEF UartPendStart
<1>4. CASE UartHeader
  <2>1. PICK ok \in BOOLEAN : pkt' = [pkt EXCEPT !.header = ok]
    BY <1>4, Zenon DEF UartHeader, Outcomes
  <2>2. pkt' \in Packet
    BY <2>1, SMT DEF Packet
  <2>3. QED
    BY <1>4, <2>2, PipelineAssumption, SMT DEF UartHeader
<1>5. CASE UartBin
  <2>1. bin \in 0 .. Bins - 1 /\ bin' \in 0 .. Bins /\ packet' = packet
    BY <1>5, PipelineAssumption, SMT DEF UartBin
  <2>2. TxCell(bin) \in Nat /\ cube[0] \in Nat
    BY <2>1, CellInFirstRow, SlotZero, PipelineAssumption, SMT DEF HardwareTypeOK
  <2> DEFINE w == [cell |-> TxCell(bin), stamp |-> StampAt(TxCell(bin))]
  <2>3. w \in Word
    BY <2>1, <2>2, StampOfTxCell, SMT DEF Word
  <2>4. pkt' = pkt \/ pkt' = [pkt EXCEPT !.words = Append(@, w)]
    BY <1>5, Zenon DEF UartBin
  <2> HIDE DEF w
  <2>5. pkt' \in Packet
    BY <2>3, <2>4, SMT DEF Packet
  <2>6. QED
    BY <2>1, <2>5
<1>6. CASE UartFooter
  <2>1. PICK ok \in BOOLEAN : pkt' = [pkt EXCEPT !.footer = ok]
    BY <1>6, Zenon DEF UartFooter, Outcomes
  <2>2. pkt' \in Packet
    BY <2>1, SMT DEF Packet
  <2>3. QED
    BY <1>6, <2>2 DEF UartFooter
<1>7. CASE UNCHANGED vars
  BY <1>7, SMT DEF vars
<1>8. QED
  BY <1>1, <1>2, <1>3, <1>4, <1>5, <1>6, <1>7 DEF Next, UartNext

LEMMA FlagsTyped ==
    ASSUME FlagsTypeOK, [Next]_vars
    PROVE  FlagsTypeOK'
<1> USE DEF FlagsTypeOK, tvars, hvars, svars, cvars, uvars, kvars, Assert
<1>1. CASE MainStartSensor
  <2>1. sensorOn' \in BOOLEAN
    BY <1>1, Zenon DEF MainStartSensor, Outcomes
  <2>2. QED
    BY <1>1, <2>1, SMT DEF MainStartSensor
<1>2. CASE DpcConfig
  <2>1. PICK o \in ConfigOutcomes : /\ configured' = (o \in {"ok", "cube"})
                                   /\ halted' = ~(o # "dpu")
    BY <1>2, Zenon DEF DpcConfig
  <2>2. halted' \in BOOLEAN
    BY <2>1, SMT
  <2>3. configured' \in BOOLEAN
    BY <2>1, SMT
  <2>4. QED
    BY <1>2, <2>2, <2>3, SMT DEF DpcConfig
<1>3. CASE DpcRegister \/ DpcTrigger \/ DpcRetrigger \/ DpcProcess
  <2>1. halted' \in BOOLEAN
    BY <1>3, Zenon DEF DpcRegister, DpcTrigger, DpcRetrigger, ArmDpu, DpcProcess
  <2>2. QED
    BY <1>3, <2>1, SMT DEF DpcRegister, DpcTrigger, DpcRetrigger, ArmDpu, DpcProcess
<1>4. CASE MainCreateDpc \/ MainPendCfg \/ MainCreateUart \/ DpcReset
           \/ DpcPostCfg \/ DpcPostStart \/ DpcPendDone
  BY <1>4, SMT DEF MainCreateDpc, MainPendCfg, MainCreateUart, DpcReset,
     DpcPostCfg, DpcPostStart, DpcPendDone
<1>5. CASE UartNext \/ FrameStart \/ Chirp
  BY <1>5, SMT DEF UartNext, UartCapture, UartPendStart, UartHeader, UartBin,
     UartFooter, UartPostDone, FrameStart, Chirp
<1>6. CASE UNCHANGED vars
  BY <1>6, SMT DEF vars
<1>7. QED
  BY <1>1, <1>2, <1>3, <1>4, <1>5, <1>6 DEF Next, MainNext, DpcNext

LEMMA TypeInit == Init => TypeInv
<1> SUFFICES ASSUME Init PROVE TypeInv
  OBVIOUS
<1> USE PipelineAssumption DEF Init
<1>1. TaskTypeOK /\ RegisterOrder /\ SlotFree
  BY SMT DEF TaskTypeOK, RegisterOrder, SlotFree
<1>2. HardwareTypeOK
  BY SMT DEF HardwareTypeOK
<1>3. NoPacket \in Packet
  BY SMT DEF NoPacket, Packet
<1>4. PacketTypeOK
  BY <1>3, SMT DEF PacketTypeOK
<1>5. FlagsTypeOK
  BY Zenon DEF FlagsTypeOK
<1>6. QED
  BY <1>1, <1>2, <1>4, <1>5 DEF TypeInv, TypeOK

LEMMA TypeNext == TypeInv /\ [Next]_vars => TypeInv'
BY TasksTyped, HardwareTyped, PacketTyped, FlagsTyped DEF TypeInv, TypeOK

(* Every variable of the firmware keeps its type, whatever the scheduler   *)
(* and the external calls do.                                              *)
THEOREM TypeInvariant == Spec => []TypeOK
<1>1. Spec => []TypeInv
  BY TypeInit, TypeNext, PTL DEF Spec
<1>2. TypeInv => TypeOK
  BY DEF TypeInv
<1>3. QED
  BY <1>1, <1>2, PTL
-----------------------------------------------------------------------------
(* The handshake.  The dpc and the uart task hand one token back and forth *)
(* through two binary semaphores: while the dpc task is not waiting in     *)
(* SemaphoreP_pend(&uart_tx_done_sem) both semaphores are empty and the    *)
(* uart task is idle; while it waits the token is in exactly one of three  *)
(* places.  The DPU is armed only while the dpc task waits for it.         *)
UartIdle == pc["uart"] \in {"none", "capture", "pendStart"}

Handshake ==
    /\ pc["dpc"] # "pendDone" =>
         sem["txStart"] = 0 /\ sem["txDone"] = 0 /\ UartIdle
    /\ pc["dpc"] = "pendDone" =>
         \/ sem["txStart"] = 1 /\ sem["txDone"] = 0 /\ UartIdle
         \/ /\ sem["txStart"] = 0 /\ sem["txDone"] = 0
            /\ Sending \/ pc["uart"] = "postDone"
         \/ sem["txStart"] = 0 /\ sem["txDone"] = 1 /\ pc["uart"] = "pendStart"
    /\ dpu # "idle" => pc["dpc"] = "process"

(* The start-up: the main task creates the uart task and starts the sensor *)
(* after it has consumed the one post of dpcCfgDoneSemHandle.              *)
Startup ==
    /\ pc["main"] = "createDpc" => pc["dpc"] = "none"
    /\ pc["main"] \in {"createDpc", "pendCfg", "createUart"} =>
         pc["uart"] = "none" /\ ~sensorOn
    /\ pc["dpc"] \in {"none", "reset", "config", "postCfg", "exited"} =>
         sem["cfgDone"] = 0 /\ pc["main"] \in {"createDpc", "pendCfg"}

LEMMA HandshakeInit == Init => Handshake /\ Startup
BY SMT DEF Init, Handshake, Startup, UartIdle

LEMMA HandshakeNext ==
    ASSUME TypeInv, Handshake, Startup, [Next]_vars
    PROVE  Handshake' /\ Startup'
<1> USE DEF TypeInv, TypeOK, TaskTypeOK, Handshake, Startup, UartIdle, Sending,
            tvars, hvars, svars, cvars, uvars, kvars, At, Goto, Post, Pend
<1>1. CASE MainCreateDpc
  BY <1>1, SMT DEF MainCreateDpc
<1>2. CASE MainPendCfg
  BY <1>2, SMT DEF MainPendCfg
<1>3. CASE MainCreateUart
  BY <1>3, SMT DEF MainCreateUart
<1>4. CASE MainStartSensor
  BY <1>4, SMT DEF MainStartSensor
<1>5. CASE DpcReset
  BY <1>5, SMT DEF DpcReset
<1>6. CASE DpcConfig
  BY <1>6, SMT DEF DpcConfig
<1>7. CASE DpcPostCfg
  BY <1>7, SMT DEF DpcPostCfg
<1>8. CASE DpcRegister
  BY <1>8, SMT DEF DpcRegister
<1>9. CASE DpcTrigger \/ DpcRetrigger
  BY <1>9, SMT DEF DpcTrigger, DpcRetrigger, ArmDpu
<1>10. CASE DpcProcess
  BY <1>10, SMT DEF DpcProcess
<1>11. CASE DpcPostStart
  BY <1>11, SMT DEF DpcPostStart
<1>12. CASE DpcPendDone
  BY <1>12, SMT DEF DpcPendDone
<1>13. CASE UartCapture
  BY <1>13, SMT DEF UartCapture
<1>14. CASE UartPendStart
  BY <1>14, SMT DEF UartPendStart
<1>15. CASE UartHeader
  BY <1>15, SMT DEF UartHeader
<1>16. CASE UartBin
  BY <1>16, SMT DEF UartBin
<1>17. CASE UartFooter
  BY <1>17, SMT DEF UartFooter
<1>18. CASE UartPostDone
  BY <1>18, SMT DEF UartPostDone
<1>19. CASE FrameStart
  BY <1>19, SMT DEF FrameStart
<1>20. CASE Chirp
  BY <1>20, SMT DEF Chirp
<1>21. CASE UNCHANGED vars
  BY <1>21, SMT DEF vars
<1>22. QED
  BY <1>1, <1>2, <1>3, <1>4, <1>5, <1>6, <1>7, <1>8, <1>9, <1>10, <1>11,
     <1>12, <1>13, <1>14, <1>15, <1>16, <1>17, <1>18, <1>19, <1>20, <1>21
     DEF Next, MainNext, DpcNext, UartNext

HandshakeInv == TypeInv /\ Handshake /\ Startup

LEMMA HandshakeInvariant == Spec => []HandshakeInv
<1>1. Init => HandshakeInv
  BY TypeInit, HandshakeInit DEF HandshakeInv
<1>2. HandshakeInv /\ [Next]_vars => HandshakeInv'
  BY TypeNext, HandshakeNext DEF HandshakeInv
<1>3. QED
  BY <1>1, <1>2, PTL DEF Spec

(* No post of a binary semaphore is lost.                                  *)
THEOREM NoPostIsLost == Spec => []NoLostPost
<1>1. HandshakeInv => NoLostPost
  BY SMT DEF HandshakeInv, TypeInv, TypeOK, TaskTypeOK, Handshake, Startup,
     UartIdle, Sending, NoLostPost
<1>2. QED
  BY <1>1, HandshakeInvariant, PTL

(* The pointer that the uart task copied is that of the configured cube:   *)
(* it is copied after RangeProc_config has set it, and an evaluation that  *)
(* is complete was one of a configured DPU.                                *)
Pointer ==
    /\ pc["uart"] \notin {"none", "capture"} => uartPtr = cubePtr
    /\ dpu = "done" \/ pc["dpc"] \in {"postStart", "pendDone"} => configured

LEMMA PointerNext ==
    ASSUME HandshakeInv, Pointer, [Next]_vars
    PROVE  Pointer'
<1> USE DEF HandshakeInv, TypeInv, TypeOK, TaskTypeOK, Startup, Pointer,
            tvars, hvars, svars, cvars, uvars, kvars, At, Goto
<1>1. CASE MainNext
  <2>1. CASE MainCreateDpc \/ MainPendCfg \/ MainStartSensor
    BY <2>1, SMT DEF MainCreateDpc, MainPendCfg, MainStartSensor
  <2>2. CASE MainCreateUart
    BY <2>2, SMT DEF MainCreateUart
  <2>3. QED
    BY <1>1, <2>1, <2>2 DEF MainNext
<1>2. CASE DpcReset \/ DpcPostCfg \/ DpcPostStart \/ DpcPendDone \/ DpcRegister
  BY <1>2, SMT DEF DpcReset, DpcPostCfg, DpcPostStart, DpcPendDone, DpcRegister
<1>3. CASE DpcConfig
  BY <1>3, SMT DEF DpcConfig, Handshake
<1>4. CASE DpcTrigger \/ DpcRetrigger
  BY <1>4, SMT DEF DpcTrigger, DpcRetrigger, ArmDpu
<1>5. CASE DpcProcess
  BY <1>5, SMT DEF DpcProcess, CanRun, Blocked
<1>6. CASE UartCapture
  BY <1>6, SMT DEF UartCapture
<1>7. CASE UartPendStart \/ UartHeader \/ UartBin \/ UartFooter \/ UartPostDone
  BY <1>7, SMT DEF UartPendStart, UartHeader, UartBin, UartFooter, UartPostDone
<1>8. CASE FrameStart
  BY <1>8, SMT DEF FrameStart
<1>9. CASE Chirp
  BY <1>9, SMT DEF Chirp
<1>10. CASE UNCHANGED vars
  BY <1>10, SMT DEF vars
<1>11. QED
  BY <1>1, <1>2, <1>3, <1>4, <1>5, <1>6, <1>7, <1>8, <1>9, <1>10
     DEF Next, DpcNext, UartNext

(* Whatever the scheduler does and whichever call fails, the uart task     *)
(* sends the cube that the DPU was configured with (uart_transmit.c:54).   *)
THEOREM CubeSentIsConfigured == Spec => []SendsTheConfiguredCube
<1>1. Init => Pointer
  BY SMT DEF Init, Pointer
<1>2. HandshakeInv /\ Pointer => SendsTheConfiguredCube
  BY SMT DEF HandshakeInv, Handshake, UartIdle, Sending, Pointer,
     SendsTheConfiguredCube
<1>3. QED
  BY <1>1, <1>2, PointerNext, HandshakeInvariant, PTL DEF Spec

(* The radar cube stands still from the post of uart_tx_start_sem to the   *)
(* last byte of the packet.                                                *)
THEOREM CubeStandsStill == Spec => CubeFrozenWhileSent
<1>1. HandshakeInv /\ [Next]_vars
        => [sem["txStart"] = 1 \/ Sending => UNCHANGED cube]_vars
  <2> SUFFICES ASSUME HandshakeInv, Next, sem["txStart"] = 1 \/ Sending
               PROVE  UNCHANGED cube
    OBVIOUS
  <2>1. dpu = "idle"
    BY SMT DEF HandshakeInv, TypeInv, TypeOK, TaskTypeOK, Handshake, UartIdle,
       Sending
  <2>2. CASE Chirp
    BY <2>1, <2>2, SMT DEF Chirp, hvars
  <2>3. CASE MainNext \/ DpcNext
    BY <2>3, SMT DEF hvars, MainNext, MainCreateDpc, MainPendCfg, MainCreateUart,
       MainStartSensor, DpcNext, DpcReset, DpcConfig, DpcPostCfg, DpcRegister,
       DpcTrigger, DpcRetrigger, ArmDpu, DpcProcess, DpcPostStart, DpcPendDone
  <2>4. CASE UartNext \/ FrameStart
    BY <2>4, SMT DEF hvars, UartNext, UartCapture, UartPendStart, UartHeader,
       UartBin, UartFooter, UartPostDone, FrameStart
  <2>5. QED
    BY <2>2, <2>3, <2>4 DEF Next
<1>2. QED
  BY <1>1, HandshakeInvariant, PTL DEF Spec, CubeFrozenWhileSent
-----------------------------------------------------------------------------
(* What is in the cube.  An evaluation takes ChirpsPerFrame consecutive    *)
(* chirps, so the frame that filled slot 0 is over before the next         *)
(* evaluation can begin: captures come in strictly increasing order even   *)
(* when the DPU is armed in the middle of a frame.                         *)
Order ==
    /\ captured <= frame
    /\ frame > 0 /\ frame = captured => chirp = ChirpsPerFrame
    /\ dpu = "armed" /\ slot >= 1 =>
         /\ captured < cube[0] /\ cube[0] <= frame
         /\ frame = cube[0] => chirp >= slot

Snapshot ==
    /\ dpu = "done" \/ pc["dpc"] \in {"postStart", "pendDone"} => cube[0] = captured
    /\ Sending => \A i \in DOMAIN pkt.words : pkt.words[i].stamp = captured

CaptureInv == HandshakeInv /\ Order /\ Snapshot

LEMMA CaptureInit == Init => Order /\ Snapshot
BY SlotZero, SMT DEF Init, Order, Snapshot, Sending

(* The actions that touch neither the cube, nor the DPU, nor the packet.   *)
LEMMA CaptureQuiet ==
    ASSUME TypeInv, Handshake, Order, Snapshot,
           UNCHANGED <<hvars, svars, uvars>>,
           Sending' => Sending,
           pc'["dpc"] \in {"postStart", "pendDone"} =>
             pc["dpc"] \in {"postStart", "pendDone"} \/ dpu = "done"
    PROVE  Order' /\ Snapshot'
BY SMT DEF TypeInv, TypeOK, TaskTypeOK, HardwareTypeOK, Order, Snapshot, hvars,
   svars, uvars, Handshake

LEMMA ChirpKeepsOrder ==
    ASSUME TypeInv, Handshake, Order, Snapshot, Chirp
    PROVE  Order' /\ Snapshot'
<1> USE PipelineAssumption, SlotZero
<1>1. /\ frame' = frame /\ chirp' = chirp + 1 /\ chirp < ChirpsPerFrame
      /\ frame > 0 /\ pc' = pc /\ pkt' = pkt
      /\ frame \in Nat /\ chirp \in Nat /\ slot \in Nat /\ captured \in Nat
      /\ cube \in [Slots -> Nat]
  BY SMT DEF Chirp, tvars, uvars, TypeInv, TypeOK, HardwareTypeOK
<1>2. captured < frame
  BY <1>1, SMT DEF Order
<1>3. CASE dpu = "armed" /\ configured
  <2>1. /\ slot \in Slots /\ cube' = [cube EXCEPT ![slot] = frame]
        /\ slot' = slot + 1
    BY <1>1, <1>3, SMT DEF Chirp, TypeInv, SlotFree
  <2>2. ~Sending /\ ~Sending' /\ pc["dpc"] = "process"
    BY <1>1, <1>3, SMT DEF Handshake, UartIdle, Sending
  <2>3. /\ captured < cube'[0] /\ cube'[0] <= frame
        /\ frame = cube'[0] => chirp + 1 >= slot + 1
    <3>1. CASE slot = 0
      BY <1>1, <1>2, <2>1, <3>1, SMT
    <3>2. CASE slot # 0
      <4>1. cube'[0] = cube[0]
        BY <1>1, <2>1, <3>2, SMT
      <4>2. QED
        BY <1>1, <1>3, <3>2, <4>1, SMT DEF Order
    <3>3. QED
      BY <3>1, <3>2
  <2>4. CASE slot + 1 = ChirpsPerFrame
    <3>1. dpu' = "done" /\ captured' = cube'[0]
      BY <1>3, <2>4, SMT DEF Chirp
    <3>2. cube'[0] = frame => chirp' = ChirpsPerFrame
      BY <1>1, <2>3, <2>4, SMT
    <3>3. cube'[0] <= frame
      BY <2>3
    <3>4. Order'
      BY <1>1, <3>1, <3>2, <3>3, SMT DEF Order
    <3>5. QED
      BY <2>2, <3>1, <3>4 DEF Snapshot
  <2>5. CASE slot + 1 # ChirpsPerFrame
    <3>1. dpu' = dpu /\ captured' = captured
      BY <1>3, <2>5, SMT DEF Chirp
    <3>2. Order'
      BY <1>1, <1>2, <2>1, <2>3, <3>1, SMT DEF Order
    <3>3. QED
      BY <1>1, <1>3, <2>2, <3>1, <3>2, SMT DEF Snapshot
  <2>6. QED
    BY <2>4, <2>5
<1>4. CASE ~(dpu = "armed" /\ configured)
  <2>1. UNCHANGED hvars
    BY <1>4, SMT DEF Chirp
  <2>2. Snapshot'
    BY <1>1, <2>1, SMT DEF Snapshot, Sending, hvars
  <2>3. Order'
    BY <1>1, <1>2, <2>1, SMT DEF Order, hvars
  <2>4. QED
    BY <2>2, <2>3
<1>5. QED
  BY <1>3, <1>4

LEMMA UartBinKeepsSnapshot ==
    ASSUME TypeInv, Handshake, Order, Snapshot, UartBin
    PROVE  Order' /\ Snapshot'
<1>1. /\ Sending /\ UNCHANGED <<hvars, svars>> /\ bin \in 0 .. Bins - 1
      /\ pc'["dpc"] = pc["dpc"]
  BY PipelineAssumption, SMT DEF UartBin, At, Goto, Sending, TypeInv, TypeOK,
     PacketTypeOK, TaskTypeOK
<1>2. pc["dpc"] = "pendDone"
  BY <1>1, SMT DEF Handshake, UartIdle, Sending
<1>3. cube[0] = captured /\ \A i \in DOMAIN pkt.words : pkt.words[i].stamp = captured
  BY <1>1, <1>2 DEF Snapshot
<1> DEFINE w == [cell |-> TxCell(bin), stamp |-> StampAt(TxCell(bin))]
<1>4. w.stamp = captured
  BY <1>1, <1>3, StampOfTxCell
<1>5. pkt' = pkt \/ pkt' = [pkt EXCEPT !.words = Append(@, w)]
  BY Zenon DEF UartBin
<1>6. w \in Word /\ pkt.words \in Seq(Word) /\ pkt = [pkt EXCEPT !.words = pkt.words]
  <2>1. TxCell(bin) \in Nat /\ cube[0] \in Nat
    BY <1>1, CellInFirstRow, SlotZero, PipelineAssumption, SMT
       DEF TypeInv, TypeOK, HardwareTypeOK
  <2>2. QED
    BY <1>1, <2>1, StampOfTxCell, SMT DEF Word, TypeInv, TypeOK, PacketTypeOK, Packet
<1> HIDE DEF w
<1>7. CASE pkt' = pkt
  BY <1>1, <1>3, <1>7, SMT DEF Snapshot, Order, hvars, svars
<1>8. CASE pkt' = [pkt EXCEPT !.words = Append(@, w)]
  <2>1. pkt'.words = Append(pkt.words, w)
    BY <1>8, <1>6, SMT DEF TypeInv, TypeOK, PacketTypeOK, Packet
  <2>2. \A i \in DOMAIN pkt'.words : pkt'.words[i].stamp = captured
    BY <1>3, <1>4, <1>6, <2>1, SMT
  <2>3. QED
    BY <1>1, <1>3, <2>2, SMT DEF Snapshot, Order, hvars, svars
<1>9. QED
  BY <1>5, <1>7, <1>8

LEMMA CaptureNext ==
    ASSUME TypeInv, Handshake, Order, Snapshot, [Next]_vars
    PROVE  Order' /\ Snapshot'
<1> USE DEF tvars, hvars, svars, cvars, uvars, kvars, At, Goto, Post, Pend,
            TypeInv, TypeOK, TaskTypeOK
<1>1. CASE MainCreateDpc \/ MainPendCfg \/ MainCreateUart
  BY <1>1, CaptureQuiet, SMT DEF MainCreateDpc, MainPendCfg, MainCreateUart, Sending
<1>2. CASE MainStartSensor
  BY <1>2, SMT DEF MainStartSensor, Order, Snapshot, Sending
<1>3. CASE DpcReset \/ DpcPostCfg \/ DpcPostStart \/ DpcPendDone
  BY <1>3, CaptureQuiet, SMT DEF DpcReset, DpcPostCfg, DpcPostStart, DpcPendDone,
     Sending
<1>4. CASE DpcConfig
  BY <1>4, CaptureQuiet, SMT DEF DpcConfig, Sending
<1>5. CASE DpcRegister
  BY <1>5, CaptureQuiet, SMT DEF DpcRegister, Sending
<1>6. CASE DpcTrigger \/ DpcRetrigger
  BY <1>6, SMT DEF DpcTrigger, DpcRetrigger, ArmDpu, Order, Snapshot, Sending,
     Handshake, UartIdle
<1>7. CASE DpcProcess
  <2>1. dpu = "done"
    BY <1>7, SMT DEF DpcProcess, CanRun, Blocked
  <2>2. QED
    BY <1>7, <2>1, SMT DEF DpcProcess, Order, Snapshot, Sending
<1>8. CASE UartCapture \/ UartPostDone
  BY <1>8, CaptureQuiet, SMT DEF UartCapture, UartPostDone, Sending
<1>9. CASE UartPendStart
  BY <1>9, SMT DEF UartPendStart, Order, Snapshot, Sending, NoPacket
<1>10. CASE UartHeader
  <2>1. PICK ok \in BOOLEAN : pkt' = [pkt EXCEPT !.header = ok]
    BY <1>10, Zenon DEF UartHeader, Outcomes
  <2>2. pkt'.words = pkt.words
    BY <2>1, SMT DEF PacketTypeOK, Packet
  <2>3. QED
    BY <1>10, <2>2, SMT DEF UartHeader, Order, Snapshot, Sending
<1>11. CASE UartBin
  BY <1>11, UartBinKeepsSnapshot
<1>12. CASE UartFooter
  BY <1>12, SMT DEF UartFooter, Order, Snapshot, Sending
<1>13. CASE FrameStart
  <2>1. cube[0] \in Nat /\ captured \in Nat /\ frame \in Nat
    BY PipelineAssumption, SlotZero, SMT DEF HardwareTypeOK
  <2>2. frame' = frame + 1 /\ UNCHANGED <<hvars, pc, pkt>>
    BY <1>13 DEF FrameStart
  <2>3. Order'
    BY <2>1, <2>2, SMT DEF Order
  <2>4. QED
    BY <2>2, <2>3, SMT DEF Snapshot, Sending
<1>14. CASE Chirp
  BY <1>14, ChirpKeepsOrder
<1>15. CASE UNCHANGED vars
  BY <1>15, SMT DEF vars, Order, Snapshot, Sending
<1>16. QED
  BY <1>1, <1>2, <1>3, <1>4, <1>5, <1>6, <1>7, <1>8, <1>9, <1>10, <1>11,
     <1>12, <1>13, <1>14, <1>15 DEF Next, MainNext, DpcNext, UartNext

LEMMA CaptureInvariant == Spec => []CaptureInv
<1>1. Init => CaptureInv
  BY TypeInit, HandshakeInit, CaptureInit DEF CaptureInv, HandshakeInv
<1>2. CaptureInv /\ [Next]_vars => CaptureInv'
  BY TypeNext, HandshakeNext, CaptureNext DEF CaptureInv, HandshakeInv
<1>3. QED
  BY <1>1, <1>2, PTL DEF Spec

(* The words of a packet come from one evaluation of the DPU.              *)
THEOREM OneSnapshotPerPacket == Spec => []PacketIsOneSnapshot
<1>1. CaptureInv => PacketIsOneSnapshot
  BY DEF CaptureInv, Snapshot, PacketIsOneSnapshot
<1>2. QED
  BY <1>1, CaptureInvariant, PTL
-----------------------------------------------------------------------------
(* What has been written of a packet.  As long as no write fails, the loop *)
(* has appended one word per range bin it has passed, and the index of     *)
(* 8 bits does not wrap while there are at most IndexMod range bins.       *)
BinsWritten(p, n) ==
    /\ p.header /\ Len(p.words) = n
    /\ \A i \in 1 .. n : p.words[i].cell = i - 1

Written ==
    "uart" \notin Faults =>
      /\ pc["uart"] = "header" => pkt.words = << >>
      /\ pc["uart"] \in {"bins", "footer"} => BinsWritten(pkt, bin)
      /\ pc["uart"] = "bins" => bin < Bins
      /\ pc["uart"] = "footer" => bin = Bins
      /\ pc["uart"] = "postDone" => packet.footer /\ BinsWritten(packet, Bins)

LEMMA WrittenInit == Init => Written
BY SMT DEF Init, Written

(* Appending the word of range bin n to a packet with n words.             *)
LEMMA OneMoreBin ==
    ASSUME NEW n \in Nat, NEW p \in Packet, BinsWritten(p, n),
           NEW w \in Word, w.cell = n
    PROVE  BinsWritten([p EXCEPT !.words = Append(@, w)], n + 1)
<1> DEFINE q == [p EXCEPT !.words = Append(@, w)]
<1>1. p.words \in Seq(Word) /\ Len(p.words) = n /\ p.header
  BY SMT DEF Packet, BinsWritten
<1>2. q.header = p.header /\ q.words = Append(p.words, w)
  BY SMT DEF Packet
<1> HIDE DEF q
<1>3. Len(q.words) = n + 1
  BY <1>1, <1>2, SMT
<1>4. ASSUME NEW i \in 1 .. n + 1
      PROVE  q.words[i].cell = i - 1
  <2>1. CASE i = n + 1
    BY <1>1, <1>2, <2>1, SMT
  <2>2. CASE i # n + 1
    <3>1. i \in 1 .. n /\ q.words[i] = p.words[i]
      BY <1>1, <1>2, <2>2, SMT
    <3>2. QED
      BY <3>1 DEF BinsWritten
  <2>3. QED
    BY <2>1, <2>2
<1>5. BinsWritten(q, n + 1)
  BY <1>1, <1>2, <1>3, <1>4 DEF BinsWritten
<1>6. QED
  BY <1>5 DEF q

LEMMA WrittenNext ==
    ASSUME TypeInv, Written, Bins <= IndexMod, [Next]_vars
    PROVE  Written'
<1> SUFFICES ASSUME "uart" \notin Faults PROVE Written'
  BY DEF Written
<1> USE DEF tvars, hvars, svars, cvars, uvars, kvars, At, Goto, Post, Pend,
            TypeInv, TypeOK, TaskTypeOK, PacketTypeOK
<1>1. CASE UNCHANGED uvars /\ pc'["uart"] \in {pc["uart"], "none", "capture", "pendStart"}
  BY <1>1, SMT DEF Written, BinsWritten
<1>2. CASE MainNext \/ FrameStart \/ Chirp \/ UartCapture \/ UartPostDone
  <2>1. UNCHANGED uvars /\ pc'["uart"] \in {pc["uart"], "none", "capture", "pendStart"}
    BY <1>2, SMT DEF MainNext, MainCreateDpc, MainPendCfg, MainCreateUart,
       MainStartSensor, FrameStart, Chirp, UartCapture, UartPostDone
  <2>2. QED
    BY <1>1, <2>1
<1>3. CASE DpcNext
  <2>1. UNCHANGED uvars /\ pc'["uart"] = pc["uart"]
    BY <1>3, SMT DEF DpcNext, DpcReset, DpcConfig, DpcPostCfg, DpcRegister,
       DpcTrigger, DpcRetrigger, ArmDpu, DpcProcess, DpcPostStart, DpcPendDone
  <2>2. QED
    BY <1>1, <2>1
<1>4. CASE UartPendStart
  BY <1>4, SMT DEF UartPendStart, Written, NoPacket
<1>5. CASE UartHeader
  <2>1. pkt' = [pkt EXCEPT !.header = TRUE] /\ bin' = 0 /\ pc'["uart"] = "bins"
    BY <1>5, Zenon DEF UartHeader, Outcomes
  <2>2. pkt.words = << >>
    BY <1>5, SMT DEF UartHeader, Written
  <2>3. pkt'.header /\ pkt'.words = << >>
    BY <2>1, <2>2, SMT DEF Packet
  <2>4. BinsWritten(pkt', bin')
    BY <2>1, <2>3, SMT DEF BinsWritten
  <2>5. bin' < Bins
    BY <2>1, PipelineAssumption, SMT
  <2>6. QED
    BY <2>1, <2>4, <2>5, SMT DEF Written
<1>6. CASE UartBin
  <2>1. /\ bin \in 0 .. Bins - 1 /\ bin' = bin + 1 /\ packet' = packet
        /\ pc["uart"] = "bins"
        /\ pc'["uart"] = IF bin + 1 = Bins THEN "footer" ELSE "bins"
    BY <1>6, PipelineAssumption, SMT DEF UartBin
  <2> DEFINE w == [cell |-> TxCell(bin), stamp |-> StampAt(TxCell(bin))]
  <2>2. pkt' = [pkt EXCEPT !.words = Append(@, w)]
    BY <1>6, Zenon DEF UartBin, Outcomes
  <2>3. TxCell(bin) = bin
    BY <2>1, PipelineAssumption, SMT DEF TxCell, AddressOffset
  <2>4. cube[0] \in Nat
    BY SlotZero, PipelineAssumption, SMT DEF HardwareTypeOK
  <2>5. w \in Word /\ w.cell = bin
    BY <2>1, <2>3, <2>4, StampOfTxCell, SMT DEF Word
  <2> HIDE DEF w
  <2>6. BinsWritten(pkt, bin)
    BY <2>1 DEF Written
  <2>7. BinsWritten(pkt', bin')
    <3>1. bin \in Nat /\ pkt \in Packet
      BY <2>1, SMT
    <3>2. BinsWritten([pkt EXCEPT !.words = Append(@, w)], bin + 1)
      BY <2>5, <2>6, <3>1, OneMoreBin, Zenon
    <3>3. QED
      BY <2>1, <2>2, <3>2, Zenon
  <2>8. QED
    BY <2>1, <2>7, PipelineAssumption, SMT DEF Written
<1>7. CASE UartFooter
  <2>1. pkt' = [pkt EXCEPT !.footer = TRUE] /\ packet' = pkt' /\ pc'["uart"] = "postDone"
    BY <1>7, Zenon DEF UartFooter, Outcomes
  <2>2. BinsWritten(pkt, Bins)
    BY <1>7, SMT DEF UartFooter, Written
  <2>3. pkt'.footer /\ pkt'.header = pkt.header /\ pkt'.words = pkt.words
    BY <2>1, SMT DEF Packet
  <2>4. packet'.footer /\ BinsWritten(packet', Bins)
    BY <2>1, <2>2, <2>3 DEF BinsWritten
  <2>5. QED
    BY <2>1, <2>4, SMT DEF Written
<1>8. CASE UNCHANGED vars
  BY <1>1, <1>8, SMT DEF vars
<1>9. QED
  BY <1>2, <1>3, <1>4, <1>5, <1>6, <1>7, <1>8 DEF Next, UartNext

(* A packet carries every range bin once and in order (uart_transmit.c:    *)
(* 76-97), for every number of bins that the uint8_t index can count.      *)
THEOREM PacketsAreComplete ==
    ASSUME Bins <= IndexMod
    PROVE  Spec => []PacketHasEveryBin
<1>1. Init => TypeInv /\ Written
  BY TypeInit, WrittenInit
<1>2. TypeInv /\ Written /\ [Next]_vars => (TypeInv /\ Written)'
  BY TypeNext, WrittenNext
<1>3. Written => PacketHasEveryBin
  BY DEF Written, BinsWritten, PacketHasEveryBin
<1>4. QED
  BY <1>1, <1>2, <1>3, PTL DEF Spec
-----------------------------------------------------------------------------
(* Refinement: a step either completes an evaluation (Capture), or writes  *)
(* the footer of a packet (Deliver), or is invisible on the serial line.   *)
Stamps == {packet.words[i].stamp : i \in DOMAIN packet.words}

LEMMA CaptureStep ==
    ASSUME CaptureInv, CaptureInv', Chirp
    PROVE  Stream!Capture \/ UNCHANGED Stream!fvars
<1> USE DEF CaptureInv, HandshakeInv
<1>1. pc' = pc /\ sem' = sem /\ packet' = packet
  BY SMT DEF Chirp, tvars, uvars
<1>2. CASE dpu' # dpu
  <2>1. /\ dpu = "armed" /\ dpu' = "done" /\ configured
        /\ slot + 1 = ChirpsPerFrame /\ captured' = cube'[0]
        /\ cube' = [cube EXCEPT ![slot] = frame] /\ slot \in Slots
    BY <1>2, SMT DEF Chirp, hvars, TypeInv, SlotFree, TypeOK, HardwareTypeOK
  <2>2. captured < captured'
    <3>1. CASE slot = 0
      <4>1. captured' = frame
        BY <2>1, <3>1, SlotZero, SMT DEF TypeInv, TypeOK, HardwareTypeOK
      <4>2. captured < frame
        BY PipelineAssumption, SMT DEF Order, Chirp, TypeInv, TypeOK, HardwareTypeOK
      <4>3. QED
        BY <4>1, <4>2
    <3>2. CASE slot # 0
      <4>1. captured' = cube[0]
        BY <2>1, <3>2, SlotZero, SMT DEF TypeInv, TypeOK, HardwareTypeOK
      <4>2. QED
        BY <2>1, <3>2, <4>1, PipelineAssumption, SMT DEF Order
    <3>3. QED
      BY <3>1, <3>2
  <2>3. ~InFlight
    BY <2>1, SMT DEF Handshake, UartIdle, Sending, InFlight
  <2>4. InFlight'
    BY <2>1 DEF InFlight
  <2>5. captured' > captured
    BY <2>2, PipelineAssumption, SMT DEF TypeInv, TypeOK, HardwareTypeOK
  <2>6. QED
    BY <1>1, <2>3, <2>4, <2>5 DEF Stream!Capture
<1>3. CASE dpu' = dpu
  <2>1. captured' = captured
    BY <1>3, SMT DEF Chirp, hvars
  <2>2. InFlight' = InFlight
    BY <1>1, <1>3 DEF InFlight, Sending
  <2>3. QED
    BY <1>1, <2>1, <2>2 DEF Stream!fvars
<1>4. QED
  BY <1>2, <1>3

LEMMA DeliverStep ==
    ASSUME CaptureInv, CaptureInv', UartFooter
    PROVE  Stream!Deliver
<1> USE DEF CaptureInv, HandshakeInv, TypeInv, TypeOK, TaskTypeOK, PacketTypeOK
<1>1. /\ Sending /\ captured' = captured /\ dpu' = dpu /\ sem' = sem
      /\ packet' = pkt' /\ pc' = [pc EXCEPT !["uart"] = "postDone"]
  BY SMT DEF UartFooter, hvars, Sending, At, Goto
<1>2. pc["dpc"] = "pendDone" /\ dpu = "idle" /\ sem["txStart"] = 0
  BY <1>1, SMT DEF Handshake, UartIdle, Sending
<1>3. InFlight /\ ~InFlight'
  BY <1>1, <1>2, SMT DEF InFlight, Sending
<1>4. PICK ok \in BOOLEAN : pkt' = [pkt EXCEPT !.footer = ok]
  BY Zenon DEF UartFooter, Outcomes
<1>5. pkt'.words = pkt.words
  BY <1>4, SMT DEF Packet
<1>6. \A i \in DOMAIN packet'.words : packet'.words[i].stamp = captured
  BY <1>1, <1>5 DEF Snapshot
<1>7. Stamps' \subseteq {captured}
  BY <1>6 DEF Stamps
<1>8. QED
  BY <1>1, <1>3, <1>7 DEF Stream!Deliver, Stamps

LEMMA InvisibleStep ==
    ASSUME CaptureInv, CaptureInv', [Next]_vars, ~Chirp, ~UartFooter
    PROVE  UNCHANGED Stream!fvars
<1> USE DEF tvars, hvars, svars, cvars, uvars, kvars, At, Goto, Post, Pend,
            CaptureInv, HandshakeInv, TypeInv, TypeOK, TaskTypeOK
<1> SUFFICES packet' = packet /\ captured' = captured /\ InFlight' = InFlight
  BY DEF Stream!fvars
<1>1. CASE MainCreateDpc \/ MainPendCfg \/ MainCreateUart \/ MainStartSensor
  BY <1>1, SMT DEF MainCreateDpc, MainPendCfg, MainCreateUart, MainStartSensor,
     InFlight, Sending, Handshake, UartIdle, Startup
<1>2. CASE DpcReset \/ DpcConfig \/ DpcPostCfg \/ DpcRegister
  BY <1>2, SMT DEF DpcReset, DpcConfig, DpcPostCfg, DpcRegister, InFlight, Sending
<1>3. CASE DpcTrigger \/ DpcRetrigger
  BY <1>3, SMT DEF DpcTrigger, DpcRetrigger, ArmDpu, InFlight, Sending,
     Handshake, UartIdle
<1>4. CASE DpcProcess
  <2>1. dpu = "done"
    BY <1>4, SMT DEF DpcProcess, CanRun, Blocked
  <2>2. QED
    BY <1>4, <2>1, SMT DEF DpcProcess, InFlight, Sending
<1>5. CASE DpcPostStart \/ DpcPendDone
  BY <1>5, SMT DEF DpcPostStart, DpcPendDone, InFlight, Sending, Handshake, UartIdle
<1>6. CASE UartCapture \/ UartPendStart \/ UartPostDone
  BY <1>6, SMT DEF UartCapture, UartPendStart, UartPostDone, InFlight, Sending
<1>7. CASE UartHeader \/ UartBin
  BY <1>7, SMT DEF UartHeader, UartBin, InFlight, Sending
<1>8. CASE FrameStart
  BY <1>8, SMT DEF FrameStart, InFlight, Sending
<1>9. CASE UNCHANGED vars
  BY <1>9, SMT DEF vars, InFlight, Sending
<1>10. QED
  BY <1>1, <1>2, <1>3, <1>4, <1>5, <1>6, <1>7, <1>8, <1>9
     DEF Next, MainNext, DpcNext, UartNext

(* The firmware implements the one-place buffer: captures leave in order,  *)
(* none twice, and no packet mixes two of them.                            *)
THEOREM RefinesFrameStream == Spec => ImplementsFrameStream
<1>1. Init => Stream!FInit
  BY SMT DEF Init, Stream!FInit, InFlight, Sending, NoPacket
<1>2. CaptureInv /\ CaptureInv' /\ [Next]_vars => [Stream!FNext]_(Stream!fvars)
  BY CaptureStep, DeliverStep, InvisibleStep DEF Stream!FNext
<1>3. QED
  BY <1>1, <1>2, CaptureInvariant, PTL DEF Spec, ImplementsFrameStream, Stream!FSpec
=============================================================================
