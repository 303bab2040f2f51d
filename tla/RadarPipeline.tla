---------------------------- MODULE RadarPipeline ----------------------------
(***************************************************************************)
(* The running firmware: the three FreeRTOS tasks of main.c (main, dpc and *)
(* uart) from the moment main creates the dpc task, the binary semaphores  *)
(* between them, the interrupt handlers that count frames and chirps, and  *)
(* the hardware they drive (the front end that chirps by itself once it is *)
(* started, and the range FFT in the HWA, which fills the radar cube chirp *)
(* by chirp once the dpc task has armed it).                               *)
(*                                                                         *)
(* One action is one statement of a task that touches something another    *)
(* task, an interrupt handler or the hardware can see.  An operator named  *)
(* X_Something is X with a plausible mistake; nothing here uses it, it     *)
(* shows that a property can tell the mistake from the code.               *)
(***************************************************************************)
EXTENDS Naturals, Sequences

CONSTANTS
    ChirpsPerFrame,  \* CLI_NUM_BURSTS_PER_FRAME * CLI_NUM_CHIRPS_PER_BURST
    NumTx,           \* gSysContext.numTxAntennas: chirps that make one cube row
    NumRx,           \* gSysContext.numRxAntennas
    Bins,            \* CLI_NUM_RBINS
    NumFrames,       \* frames the front end emits before it stops
    IndexMod,        \* 2^8: uint8_t rangebin_index
    CounterMod,      \* 2^32: uint32_t gFrameCount, gChirpCount
    Preemptive,      \* TRUE: FreeRTOS runs the ready task of highest priority;
                     \* FALSE: any ready task may run
    Overrun,         \* TRUE: the frame period is too short for the serial line
    Faults           \* the external calls that may fail

FaultKinds == {"window", "cube", "dpu", "mimo", "irq", "trigger", "process",
               "uart", "sensor"}

ASSUME PipelineAssumption ==
    /\ ChirpsPerFrame \in Nat \ {0}
    /\ NumTx \in 1 .. ChirpsPerFrame
    /\ NumRx \in Nat \ {0}
    /\ Bins \in Nat \ {0}
    /\ NumFrames \in Nat
    /\ IndexMod \in Nat \ {0}
    /\ CounterMod \in Nat \ {0}
    /\ Preemptive \in BOOLEAN
    /\ Overrun \in BOOLEAN
    /\ Faults \subseteq FaultKinds

VARIABLES
    pc,           \* where each task is
    sem,          \* the binary semaphores
    dpu,          \* the range FFT: idle, armed, or done with an evaluation
    configured,   \* DPU_RangeProcHWA_config has succeeded
    slot,         \* chirps of the current evaluation already in the cube
    cube,         \* chirp slot |-> frame whose chirp filled it
    cubePtr,      \* hwRes.radarCube.data
    uartPtr,      \* the copy of it that uart_transmit_loop holds
    sensorOn,     \* the front end emits frames
    frame, chirp, \* frames begun, chirps emitted in the current one
    irqs,         \* interrupt handlers registered so far
    gFrameCount, gChirpCount,
    bin,          \* i of the loop over range bins
    pkt,          \* the packet being written to the line
    packet,       \* the packet that was completed last
    captured,     \* cube[0] when the last evaluation was complete
    halted        \* DebugP_assert(0) has stopped the processor

tvars == <<pc, sem, halted>>
hvars == <<dpu, slot, cube, captured>>
svars == <<sensorOn, frame, chirp>>
cvars == <<irqs, gFrameCount, gChirpCount>>
uvars == <<bin, pkt, packet>>
kvars == <<configured, cubePtr, uartPtr>>
vars  == <<tvars, hvars, svars, cvars, uvars, kvars>>

Tasks == {"main", "dpc", "uart"}
Sems  == {"cfgDone", "txStart", "txDone", "main"}
Slots == 0 .. ChirpsPerFrame - 1
NoPacket == [header |-> FALSE, words |-> << >>, footer |-> FALSE]

MainPc == {"createDpc", "pendCfg", "createUart", "startSensor", "pendForever",
           "exited"}
DpcPc  == {"none", "reset", "config", "postCfg", "register", "trigger",
           "process", "postStart", "pendDone", "retrigger", "exited"}
UartPc == {"none", "capture", "pendStart", "header", "bins", "footer",
           "postDone"}
Sending == pc["uart"] \in {"header", "bins", "footer"}
-----------------------------------------------------------------------------
(* Scheduling *)

Priority_MainHighest == [t \in Tasks |-> CASE t = "main" -> 31
                                           [] t = "dpc"  -> 5
                                           [] t = "uart" -> 10]

Priority == [t \in Tasks |-> CASE t = "main" -> 1
                               [] t = "dpc"  -> 5
                               [] t = "uart" -> 10]

(* A task blocks in SemaphoreP_pend on an empty semaphore, or in           *)
(* DPU_RangeProcHWA_process until the evaluation is complete.  A task that *)
(* called exit() spins, and the UART driver polls: both stay ready.        *)
Blocked_ProcessReturns(t) ==
    \/ pc[t] \in {"none", "pendForever"}
    \/ pc[t] = "pendCfg"   /\ sem["cfgDone"] = 0
    \/ pc[t] = "pendStart" /\ sem["txStart"] = 0
    \/ pc[t] = "pendDone"  /\ sem["txDone"] = 0

Blocked(t) ==
    \/ pc[t] \in {"none", "pendForever"}
    \/ pc[t] = "pendCfg"   /\ sem["cfgDone"] = 0
    \/ pc[t] = "pendStart" /\ sem["txStart"] = 0
    \/ pc[t] = "pendDone"  /\ sem["txDone"] = 0
    \/ pc[t] = "process"   /\ dpu # "done"

CanRun(t) ==
    /\ ~halted
    /\ ~Blocked(t)
    /\ Preemptive =>
         \A u \in Tasks : Priority[u] > Priority[t] => Blocked(u)

At(t, l)     == pc[t] = l /\ CanRun(t)
Goto(t, l)   == pc' = [pc EXCEPT ![t] = l]
Post(s)      == sem' = [sem EXCEPT ![s] = 1]
Pend(s)      == sem[s] = 1 /\ sem' = [sem EXCEPT ![s] = 0]
Outcomes(f)  == IF f \in Faults THEN BOOLEAN ELSE {TRUE}
Assert(ok)   == halted' = ~ok
-----------------------------------------------------------------------------
(* The main task, from the creation of the dpc task *)

MainCreateDpc_NoPend ==
    /\ At("main", "createDpc")
    /\ pc' = [pc EXCEPT !["main"] = "createUart", !["dpc"] = "reset"]
    /\ UNCHANGED <<sem, halted, hvars, svars, cvars, uvars, kvars>>

MainCreateDpc ==
    /\ At("main", "createDpc")
    /\ pc' = [pc EXCEPT !["main"] = "pendCfg", !["dpc"] = "reset"]
    /\ UNCHANGED <<sem, halted, hvars, svars, cvars, uvars, kvars>>

MainPendCfg ==
    /\ At("main", "pendCfg")
    /\ Pend("cfgDone")
    /\ Goto("main", "createUart")
    /\ UNCHANGED <<halted, hvars, svars, cvars, uvars, kvars>>

MainCreateUart ==
    /\ At("main", "createUart")
    /\ pc' = [pc EXCEPT !["main"] = "startSensor", !["uart"] = "capture"]
    /\ UNCHANGED <<sem, halted, hvars, svars, cvars, uvars, kvars>>

MainStartSensor ==
    /\ At("main", "startSensor")
    /\ \E ok \in Outcomes("sensor") :
         /\ sensorOn' = ok
         /\ Goto("main", IF ok THEN "pendForever" ELSE "exited")
    /\ UNCHANGED <<sem, halted, frame, chirp, hvars, cvars, uvars, kvars>>
-----------------------------------------------------------------------------
(* The dpc task *)

DpcReset ==
    /\ At("dpc", "reset")
    /\ Goto("dpc", "config")
    /\ gFrameCount' = 0 /\ gChirpCount' = 0
    /\ UNCHANGED <<sem, halted, hvars, svars, irqs, uvars, kvars>>

(* RangeProc_config: no memory for the window makes it return early with   *)
(* the configuration zeroed; no memory for the cube goes unnoticed; a      *)
(* refusal of the DPU stops the processor; an unknown MIMO mode calls      *)
(* exit().                                                                 *)
ConfigOutcomes == {"ok"} \cup (Faults \cap {"window", "cube", "dpu", "mimo"})

DpcConfig ==
    /\ At("dpc", "config")
    /\ \E o \in ConfigOutcomes :
         /\ configured' = (o \in {"ok", "cube"})
         /\ cubePtr' = IF o \in {"ok", "dpu"} THEN "cube" ELSE "null"
         /\ Assert(o # "dpu")
         /\ Goto("dpc", IF o = "mimo" THEN "exited" ELSE "postCfg")
    /\ UNCHANGED <<sem, hvars, svars, cvars, uvars, uartPtr>>

DpcPostCfg ==
    /\ At("dpc", "postCfg")
    /\ Post("cfgDone")
    /\ Goto("dpc", "register")
    /\ UNCHANGED <<halted, hvars, svars, cvars, uvars, kvars>>

(* Frame start, chirp start and chirp available, in this order.            *)
DpcRegister_NotLast ==
    /\ At("dpc", "register")
    /\ \E ok \in Outcomes("irq") :
         /\ Assert(ok)
         /\ irqs' = IF ok THEN irqs + 1 ELSE irqs
         /\ Goto("dpc", IF irqs = 1 THEN "trigger" ELSE "register")
    /\ UNCHANGED <<sem, gFrameCount, gChirpCount, hvars, svars, uvars, kvars>>

DpcRegister ==
    /\ At("dpc", "register")
    /\ \E ok \in Outcomes("irq") :
         /\ Assert(ok)
         /\ irqs' = IF ok THEN irqs + 1 ELSE irqs
         /\ Goto("dpc", IF irqs = 2 THEN "trigger" ELSE "register")
    /\ UNCHANGED <<sem, gFrameCount, gChirpCount, hvars, svars, uvars, kvars>>

(* DPU_RangeProcHWA_control(triggerProc): the HWA waits for the next       *)
(* ChirpsPerFrame chirps, whichever they are.                              *)
ArmDpu_KeepSlot ==
    /\ \E ok \in Outcomes("trigger") :
         /\ Assert(ok)
         /\ dpu' = IF ok THEN "armed" ELSE dpu
    /\ Goto("dpc", "process")
    /\ UNCHANGED <<sem, slot, cube, captured, svars, cvars, uvars, kvars>>

ArmDpu ==
    /\ \E ok \in Outcomes("trigger") :
         /\ Assert(ok)
         /\ dpu' = IF ok THEN "armed" ELSE dpu
    /\ slot' = 0
    /\ Goto("dpc", "process")
    /\ UNCHANGED <<sem, cube, captured, svars, cvars, uvars, kvars>>

DpcTrigger == At("dpc", "trigger") /\ ArmDpu

DpcProcess ==
    /\ At("dpc", "process")
    /\ \E ok \in Outcomes("process") : Assert(ok)
    /\ dpu' = "idle"
    /\ Goto("dpc", "postStart")
    /\ UNCHANGED <<sem, slot, cube, captured, svars, cvars, uvars, kvars>>

DpcPostStart_NoWait ==
    /\ At("dpc", "postStart")
    /\ Post("txStart")
    /\ Goto("dpc", "retrigger")
    /\ UNCHANGED <<halted, hvars, svars, cvars, uvars, kvars>>

DpcPostStart ==
    /\ At("dpc", "postStart")
    /\ Post("txStart")
    /\ Goto("dpc", "pendDone")
    /\ UNCHANGED <<halted, hvars, svars, cvars, uvars, kvars>>

DpcPendDone ==
    /\ At("dpc", "pendDone")
    /\ Pend("txDone")
    /\ Goto("dpc", "retrigger")
    /\ UNCHANGED <<halted, hvars, svars, cvars, uvars, kvars>>

DpcRetrigger == At("dpc", "retrigger") /\ ArmDpu
-----------------------------------------------------------------------------
(* The uart task *)

UartCapture ==
    /\ At("uart", "capture")
    /\ uartPtr' = cubePtr
    /\ Goto("uart", "pendStart")
    /\ UNCHANGED <<sem, halted, hvars, svars, cvars, uvars, configured, cubePtr>>

UartPendStart ==
    /\ At("uart", "pendStart")
    /\ Pend("txStart")
    /\ pkt' = NoPacket
    /\ Goto("uart", "header")
    /\ UNCHANGED <<halted, bin, packet, hvars, svars, cvars, kvars>>

UartHeader_KeepBin ==
    /\ At("uart", "header")
    /\ \E ok \in Outcomes("uart") : pkt' = [pkt EXCEPT !.header = ok]
    /\ Goto("uart", "bins")
    /\ UNCHANGED <<sem, halted, bin, packet, hvars, svars, cvars, kvars>>

UartHeader_PostsDone ==
    /\ At("uart", "header")
    /\ \E ok \in Outcomes("uart") : pkt' = [pkt EXCEPT !.header = ok]
    /\ bin' = 0
    /\ Post("txDone")
    /\ Goto("uart", "bins")
    /\ UNCHANGED <<halted, packet, hvars, svars, cvars, kvars>>

UartHeader ==
    /\ At("uart", "header")
    /\ \E ok \in Outcomes("uart") : pkt' = [pkt EXCEPT !.header = ok]
    /\ bin' = 0
    /\ Goto("uart", "bins")
    /\ UNCHANGED <<sem, halted, packet, hvars, svars, cvars, kvars>>

(* The address that uart_transmit_loop computes for range bin i, with      *)
(* chirp_index = 1 and antenna_index = 0.                                  *)
AddressOffset(c, a, b) == (c * a * b) + (a * b) + b
TxCell_OffByOne(i) == AddressOffset(1, 0, (i + 1) % IndexMod)
TxCell(i)  == AddressOffset(1, 0, i % IndexMod)

(* The cube is laid out Cube[chirp][antenna][range], a row per NumTx       *)
(* chirps; a cell belongs to the frame of the first chirp of its row.      *)
RowCells    == NumTx * NumRx * Bins
StampAt(c)  == cube[NumTx * (c \div RowCells)]

UartBin ==
    /\ At("uart", "bins")
    /\ bin < Bins
    /\ bin' = bin + 1
    /\ \E ok \in Outcomes("uart") :
         pkt' = IF ~ok THEN pkt
                ELSE LET w == [cell |-> TxCell(bin), stamp |-> StampAt(TxCell(bin))]
                     IN [pkt EXCEPT !.words = Append(@, w)]
    /\ Goto("uart", IF bin + 1 = Bins THEN "footer" ELSE "bins")
    /\ UNCHANGED <<sem, halted, packet, hvars, svars, cvars, kvars>>

UartFooter ==
    /\ At("uart", "footer")
    /\ \E ok \in Outcomes("uart") : pkt' = [pkt EXCEPT !.footer = ok]
    /\ packet' = pkt'
    /\ Goto("uart", "postDone")
    /\ UNCHANGED <<sem, halted, bin, hvars, svars, cvars, kvars>>

UartPostDone_IfAllSent ==
    /\ At("uart", "postDone")
    /\ IF packet.header /\ packet.footer /\ Len(packet.words) = Bins
       THEN Post("txDone") ELSE UNCHANGED sem
    /\ Goto("uart", "pendStart")
    /\ UNCHANGED <<halted, hvars, svars, cvars, uvars, kvars>>

(* uart_tx_done_sem is posted whether the writes succeeded or not.         *)
UartPostDone ==
    /\ At("uart", "postDone")
    /\ Post("txDone")
    /\ Goto("uart", "pendStart")
    /\ UNCHANGED <<halted, hvars, svars, cvars, uvars, kvars>>
-----------------------------------------------------------------------------
(* The front end and the interrupt handlers *)

(* A frame begins when the previous one has emitted all its chirps.  With  *)
(* ~Overrun the frame period also leaves the dpc task the time to send the *)
(* packet and to arm the DPU again; nothing but the period ensures this,   *)
(* and nothing at all is assumed of the first frame.                       *)
FrameStart ==
    /\ ~halted /\ sensorOn
    /\ frame < NumFrames
    /\ frame > 0 => chirp = ChirpsPerFrame /\ (Overrun \/ dpu = "armed")
    /\ frame' = frame + 1
    /\ chirp' = 0
    /\ gFrameCount' = IF irqs >= 1 THEN (gFrameCount + 1) % CounterMod
                                   ELSE gFrameCount
    /\ UNCHANGED <<tvars, sensorOn, irqs, gChirpCount, hvars, uvars, kvars>>

(* A chirp: its samples reach the HWA only while an evaluation is armed,   *)
(* and the last slot completes the evaluation.                             *)
Chirp ==
    /\ ~halted /\ sensorOn
    /\ frame > 0 /\ chirp < ChirpsPerFrame
    /\ chirp' = chirp + 1
    /\ gChirpCount' = IF irqs >= 3 THEN (gChirpCount + 1) % CounterMod
                                   ELSE gChirpCount
    /\ IF dpu = "armed" /\ configured
       THEN /\ cube' = [cube EXCEPT ![slot] = frame]
            /\ slot' = slot + 1
            /\ IF slot + 1 = ChirpsPerFrame
               THEN dpu' = "done" /\ captured' = cube'[0]
               ELSE UNCHANGED <<dpu, captured>>
       ELSE UNCHANGED hvars
    /\ UNCHANGED <<tvars, sensorOn, frame, irqs, gFrameCount, uvars, kvars>>
-----------------------------------------------------------------------------
Init ==
    /\ pc = [t \in Tasks |-> IF t = "main" THEN "createDpc" ELSE "none"]
    /\ sem = [s \in Sems |-> 0]
    /\ dpu = "idle" /\ configured = FALSE /\ slot = 0
    /\ cube = [s \in Slots |-> 0]
    /\ cubePtr = "null" /\ uartPtr = "null"
    /\ sensorOn = FALSE /\ frame = 0 /\ chirp = 0
    /\ irqs = 0 /\ gFrameCount = 0 /\ gChirpCount = 0
    /\ bin = 0 /\ pkt = NoPacket /\ packet = NoPacket /\ captured = 0
    /\ halted = FALSE

MainNext == MainCreateDpc \/ MainPendCfg \/ MainCreateUart \/ MainStartSensor
DpcNext  == \/ DpcReset \/ DpcConfig \/ DpcPostCfg \/ DpcRegister
            \/ DpcTrigger \/ DpcProcess \/ DpcPostStart \/ DpcPendDone
            \/ DpcRetrigger
UartNext == \/ UartCapture \/ UartPendStart \/ UartHeader \/ UartBin
            \/ UartFooter \/ UartPostDone
Next     == MainNext \/ DpcNext \/ UartNext \/ FrameStart \/ Chirp

Spec == Init /\ [][Next]_vars

(* The scheduler runs the ready task of highest priority, and the front    *)
(* end emits its frames and chirps by itself.                              *)
Fairness == /\ WF_vars(MainNext) /\ WF_vars(DpcNext) /\ WF_vars(UartNext)
            /\ WF_vars(FrameStart) /\ WF_vars(Chirp)

FairSpec == Spec /\ Fairness
-----------------------------------------------------------------------------
(* Properties *)

Word   == [cell : Nat, stamp : Nat]
Packet == [header : BOOLEAN, words : Seq(Word), footer : BOOLEAN]

TaskTypeOK ==
    /\ pc \in [Tasks -> MainPc \cup DpcPc \cup UartPc]
    /\ pc["main"] \in MainPc /\ pc["dpc"] \in DpcPc /\ pc["uart"] \in UartPc
    /\ sem \in [Sems -> {0, 1}]
    /\ cubePtr \in {"null", "cube"} /\ uartPtr \in {"null", "cube"}
    /\ irqs \in 0 .. 3

HardwareTypeOK ==
    /\ dpu \in {"idle", "armed", "done"}
    /\ slot \in 0 .. ChirpsPerFrame
    /\ cube \in [Slots -> 0 .. NumFrames]
    /\ captured \in 0 .. NumFrames
    /\ frame \in 0 .. NumFrames
    /\ chirp \in 0 .. ChirpsPerFrame
    /\ gFrameCount \in 0 .. CounterMod - 1
    /\ gChirpCount \in 0 .. CounterMod - 1

PacketTypeOK == bin \in 0 .. Bins /\ pkt \in Packet /\ packet \in Packet

FlagsTypeOK == configured \in BOOLEAN /\ sensorOn \in BOOLEAN /\ halted \in BOOLEAN

TypeOK == TaskTypeOK /\ HardwareTypeOK /\ PacketTypeOK /\ FlagsTypeOK

(* No SemaphoreP_post of the firmware meets a semaphore that is already    *)
(* given: the semaphores are binary, such a post would be lost and with it *)
(* a packet, or a re-arming of the DPU (rangeproc_dpc.c:104,144 and        *)
(* uart_transmit.c:107).                                                   *)
NoLostPost ==
    /\ pc["dpc"] = "postCfg"    => sem["cfgDone"] = 0
    /\ pc["dpc"] = "postStart"  => sem["txStart"] = 0
    /\ pc["uart"] = "postDone"  => sem["txDone"] = 0

(* The radar cube does not change from the moment the uart task is told to *)
(* send it until the last byte of the packet is written, however late the  *)
(* uart task gets to run: the dpc task arms the DPU only after             *)
(* uart_tx_done_sem, so the HWA's writes and the UART's reads of the       *)
(* shared cube never overlap.                                              *)
CubeFrozenWhileSent ==
    [][sem["txStart"] = 1 \/ Sending => UNCHANGED cube]_vars

(* The words of a packet all come from one evaluation of the DPU, the one  *)
(* that was completed last, even when the front end keeps chirping into    *)
(* the next frames while the packet is written.                            *)
PacketIsOneSnapshot ==
    \A i \in DOMAIN pkt.words : Sending => pkt.words[i].stamp = captured

(* When no write fails, the packet of uart_transmit_loop carries every     *)
(* range bin once and in order.  The uint8_t index of the loop makes this  *)
(* depend on the number of range bins.                                     *)
PacketHasEveryBin ==
    ("uart" \notin Faults /\ pc["uart"] = "postDone") =>
        /\ packet.header /\ packet.footer
        /\ Len(packet.words) = Bins
        /\ \A i \in 1 .. Bins : packet.words[i].cell = i - 1

(* The pointer to the cube that the uart task copies once, before its loop *)
(* (uart_transmit.c:54), is the one the DPU writes through: the task is    *)
(* created only after the dpc task posted dpcCfgDoneSemHandle.             *)
SendsTheConfiguredCube == Sending => uartPtr = cubePtr /\ configured

(* The front end is started only when the first evaluation is armed and    *)
(* the three interrupt handlers are registered, although main.c waits for  *)
(* neither: it waits for dpcCfgDoneSemHandle, which the dpc task posts     *)
(* first.  Only the priority of the main task, lower than that of the dpc  *)
(* task, delays MMWave_start.                                              *)
SensorStartsArmed == (sensorOn /\ frame = 0) => (dpu = "armed" /\ irqs = 3)

(* The counters of the interrupt handlers agree with what the front end    *)
(* did, modulo the width of the counters.                                  *)
InterruptsCounted ==
    sensorOn => /\ gFrameCount = frame % CounterMod
                /\ frame > 0 =>
                     gChirpCount = ((frame - 1) * ChirpsPerFrame + chirp) % CounterMod

(* A complete cube holds the chirps of a single frame, all of them, each   *)
(* in the slot of its own index: triggering the DPU mid-frame would mix    *)
(* two frames in one cube for good.                                        *)
WholeFrameCaptured ==
    dpu = "done" => chirp = ChirpsPerFrame /\ \A s \in Slots : cube[s] = frame

(* Nothing but time separates an evaluation that is complete from the end  *)
(* of its packet on the line, nor that from the next evaluation: no task   *)
(* waits for another that waits for it, even after failed writes.          *)
InFlight == dpu = "done" \/ pc["dpc"] = "postStart" \/ sem["txStart"] = 1 \/ Sending
EveryCaptureLeaves ==
    /\ (dpu = "done") ~> (pc["uart"] = "postDone")
    /\ (pc["uart"] = "postDone") ~> (dpu = "armed")

(* Every frame of the front end ends up in a packet that carries its first *)
(* chirp and both markers.                                                 *)
EveryFrameDelivered ==
    \A f \in 1 .. NumFrames :
        <>(/\ packet.header /\ packet.footer /\ packet.words # << >>
           /\ packet.words[1].stamp = f)

(* The firmware implements the one-place buffer of FrameStream.            *)
Stream == INSTANCE FrameStream WITH
              full   <- InFlight,
              stamp  <- captured,
              packet <- {packet.words[i].stamp : i \in DOMAIN packet.words}
ImplementsFrameStream == Stream!FSpec

(* What the comments of uart_transmit.c:81-84 say of the address: the word *)
(* sent for range bin i is Cube[chirp_index][antenna_index][i], with       *)
(* chirp_index = 1 and antenna_index = 0.                                  *)
DocumentedCell(c, a, b) == (c * NumTx * NumRx + a) * Bins + b
SendsDocumentedCell ==
    \A i \in DOMAIN pkt.words :
        \E b \in 0 .. Bins - 1 : pkt.words[i].cell = DocumentedCell(1, 0, b)
=============================================================================
