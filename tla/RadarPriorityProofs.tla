-------------------------- MODULE RadarPriorityProofs --------------------------
(***************************************************************************)
(* What the task priorities buy.  Nothing in main.c waits until the DPU is *)
(* armed and the interrupts are registered; that MMWave_start comes after  *)
(* both rests on the main task having the lowest priority.  The theorems   *)
(* assume Preemptive scheduling, and let every external call fail.         *)
(***************************************************************************)
EXTENDS RadarPipelineProofs, RemainderLemmas

USE DEF Tasks, Sems, Slots, MainPc, DpcPc, UartPc, FaultKinds

(* Where the dpc task is from the first arming of the DPU on.              *)
Loop == {"process", "postStart", "pendDone", "retrigger"}

(* The main task runs only while the dpc and the uart task are blocked.    *)
LEMMA MainRunsLast ==
    ASSUME Preemptive, NEW l, At("main", l)
    PROVE  Blocked("dpc") /\ Blocked("uart") /\ ~halted
<1>1. Priority["main"] = 1 /\ Priority["dpc"] = 5 /\ Priority["uart"] = 10
  BY SMT DEF Priority
<1>2. QED
  BY <1>1, SMT DEF At, CanRun
-----------------------------------------------------------------------------
(* The processor stops when a registration or an arming of the DPU fails,  *)
(* so a running dpc task that is past them has made all of them; before    *)
(* the first frame no evaluation is complete, so the dpc task is blocked   *)
(* in its first evaluation when the sensor is started.                     *)
Armed ==
    ~halted => /\ pc["dpc"] = "process" => dpu # "idle"
               /\ pc["dpc"] \in Loop \cup {"trigger"} => irqs = 3

FirstEvaluation ==
    /\ pc["main"] # "pendForever" => ~sensorOn
    /\ ~sensorOn => frame = 0
    /\ frame = 0 => /\ dpu # "done" /\ slot = 0 /\ chirp = 0
                    /\ pc["dpc"] \notin Loop \ {"process"}
    /\ sensorOn => irqs = 3 /\ pc["dpc"] \in Loop
    /\ sensorOn /\ frame = 0 => dpu = "armed"

StartInv == HandshakeInv /\ Armed /\ FirstEvaluation

LEMMA ArmedNext ==
    ASSUME HandshakeInv, Armed, [Next]_vars
    PROVE  Armed'
<1> USE DEF HandshakeInv, TypeInv, TypeOK, TaskTypeOK, FlagsTypeOK, RegisterOrder, Handshake,
            Armed, Loop, tvars, hvars, svars, cvars, uvars, kvars, At, Goto, Post, Pend
<1>1. CASE MainNext
  <2>1. UNCHANGED <<halted, dpu, irqs>>
    BY <1>1, SMT DEF MainNext, MainCreateDpc, MainPendCfg, MainCreateUart, MainStartSensor
  <2>2. pc'["dpc"] \in {pc["dpc"], "reset"}
    BY <1>1, SMT DEF MainNext, MainCreateDpc, MainPendCfg, MainCreateUart, MainStartSensor
  <2>3. QED
    BY <2>1, <2>2, SMT
<1>2. CASE DpcReset \/ DpcPostCfg \/ DpcPostStart \/ DpcPendDone
  BY <1>2, SMT DEF DpcReset, DpcPostCfg, DpcPostStart, DpcPendDone, CanRun
<1>3. CASE DpcConfig
  BY <1>3, SMT DEF DpcConfig
<1>4. CASE DpcRegister
  <2>1. PICK ok \in BOOLEAN : halted' = ~ok /\ irqs' = IF ok THEN irqs + 1 ELSE irqs
    BY <1>4, Zenon DEF DpcRegister, Outcomes, Assert
  <2>2. ~halted' => irqs' = irqs + 1
    BY <2>1, Zenon
  <2>3. /\ pc'["dpc"] = IF irqs = 2 THEN "trigger" ELSE "register"
        /\ irqs \in 0 .. 2
    BY <1>4, SMT DEF DpcRegister
  <2>4. QED
    BY <2>2, <2>3, SMT
<1>5. CASE DpcTrigger \/ DpcRetrigger
  <2>1. PICK ok \in BOOLEAN : halted' = ~ok /\ dpu' = IF ok THEN "armed" ELSE dpu
    BY <1>5, Zenon DEF DpcTrigger, DpcRetrigger, ArmDpu, Outcomes, Assert
  <2>2. /\ irqs' = irqs /\ ~halted /\ pc["dpc"] \in {"trigger", "retrigger"}
        /\ pc'["dpc"] = "process"
    BY <1>5, SMT DEF DpcTrigger, DpcRetrigger, ArmDpu, CanRun
  <2>3. ~halted' => dpu' = "armed"
    BY <2>1, Zenon
  <2>4. QED
    BY <2>2, <2>3, SMT
<1>6. CASE DpcProcess
  BY <1>6, SMT DEF DpcProcess, CanRun
<1>7. CASE UartNext
  <2>1. UNCHANGED <<halted, dpu, irqs>> /\ pc'["dpc"] = pc["dpc"]
    BY <1>7, SMT DEF UartNext, UartCapture, UartPendStart, UartHeader, UartBin,
       UartFooter, UartPostDone
  <2>2. QED
    BY <2>1, SMT
<1>8. CASE FrameStart
  BY <1>8, SMT DEF FrameStart
<1>9. CASE Chirp
  <2>1. /\ UNCHANGED <<halted, irqs, pc>>
        /\ dpu' = dpu \/ dpu' = "done"
    BY <1>9, SMT DEF Chirp
  <2>2. QED
    BY <2>1, SMT
<1>10. CASE UNCHANGED vars
  BY <1>10, SMT DEF vars
<1>11. QED
  BY <1>1, <1>2, <1>3, <1>4, <1>5, <1>6, <1>7, <1>8, <1>9, <1>10 DEF Next, DpcNext

LEMMA FirstEvaluationNext ==
    ASSUME Preemptive, StartInv, [Next]_vars
    PROVE  FirstEvaluation'
<1> USE DEF StartInv, HandshakeInv, TypeInv, TypeOK, TaskTypeOK, FlagsTypeOK, HardwareTypeOK, RegisterOrder,
            Handshake, FirstEvaluation, Loop, tvars, hvars, svars, cvars, uvars,
            kvars, At, Goto, Post, Pend
<1>1. CASE MainCreateDpc \/ MainPendCfg \/ MainCreateUart
  BY <1>1, SMT DEF MainCreateDpc, MainPendCfg, MainCreateUart, Startup
<1>2. CASE MainStartSensor
  <2>1. Blocked("dpc") /\ ~halted /\ pc["main"] = "startSensor"
    BY <1>2, MainRunsLast DEF MainStartSensor
  <2>2. pc["dpc"] \notin {"none", "pendCfg", "pendForever", "pendStart"}
    BY <2>1, SMT DEF Startup
  <2>3. pc["dpc"] = "process" \/ pc["dpc"] = "pendDone"
    BY <2>1, <2>2, SMT DEF Blocked
  <2>4. pc["dpc"] = "process" => dpu = "armed"
    BY <2>1, <2>3, SMT DEF Blocked, Armed
  <2>5. irqs = 3
    BY <2>1, <2>3, SMT DEF Armed
  <2>6. /\ UNCHANGED <<dpu, slot, frame, chirp, irqs>> /\ pc'["dpc"] = pc["dpc"]
        /\ ~sensorOn
    BY <1>2, SMT DEF MainStartSensor
  <2>7. PICK ok \in BOOLEAN : /\ sensorOn' = ok
                              /\ pc' = [pc EXCEPT !["main"] = IF ok THEN "pendForever" ELSE "exited"]
    BY <1>2, Zenon DEF MainStartSensor, Outcomes
  <2>8. pc'["main"] # "pendForever" => ~sensorOn'
    BY <2>7, SMT
  <2>9. frame' = 0 /\ pc'["dpc"] = "process" /\ dpu' = "armed" /\ irqs' = 3
    BY <2>3, <2>4, <2>5, <2>6, SMT
  <2>10. QED
    BY <2>6, <2>8, <2>9, SMT
<1>3. CASE DpcReset \/ DpcConfig \/ DpcPostCfg
  BY <1>3, SMT DEF DpcReset, DpcConfig, DpcPostCfg
<1>4. CASE DpcRegister
  BY <1>4, SMT DEF DpcRegister
<1>5. CASE DpcTrigger \/ DpcRetrigger
  <2>1. UNCHANGED <<sensorOn, frame, chirp, irqs>>
    BY <1>5, SMT DEF DpcTrigger, DpcRetrigger, ArmDpu
  <2>2. slot' = 0 /\ pc'["dpc"] = "process" /\ pc'["main"] = pc["main"]
    BY <1>5, SMT DEF DpcTrigger, DpcRetrigger, ArmDpu
  <2>3. dpu' \in {dpu, "armed"}
    BY <1>5, Zenon DEF DpcTrigger, DpcRetrigger, ArmDpu
  <2>4. QED
    BY <2>1, <2>2, <2>3, SMT
<1>6. CASE DpcProcess
  BY <1>6, SMT DEF DpcProcess, CanRun, Blocked
<1>7. CASE DpcPostStart \/ DpcPendDone
  BY <1>7, SMT DEF DpcPostStart, DpcPendDone
<1>8. CASE UartNext
  <2>1. UNCHANGED <<dpu, slot, sensorOn, frame, chirp, irqs>>
    BY <1>8, SMT DEF UartNext, UartCapture, UartPendStart, UartHeader, UartBin,
       UartFooter, UartPostDone
  <2>2. pc'["dpc"] = pc["dpc"] /\ pc'["main"] = pc["main"]
    BY <1>8, SMT DEF UartNext, UartCapture, UartPendStart, UartHeader, UartBin,
       UartFooter, UartPostDone
  <2>3. QED
    BY <2>1, <2>2, SMT
<1>9. CASE FrameStart
  BY <1>9, SMT DEF FrameStart
<1>10. CASE Chirp
  <2>1. /\ UNCHANGED <<pc, sensorOn, frame, irqs>> /\ frame > 0
    BY <1>10, SMT DEF Chirp
  <2>2. QED
    BY <2>1, SMT
<1>11. CASE UNCHANGED vars
  BY <1>11, SMT DEF vars
<1>12. QED
  BY <1>1, <1>2, <1>3, <1>4, <1>5, <1>6, <1>7, <1>8, <1>9, <1>10, <1>11
     DEF Next, MainNext, DpcNext

LEMMA StartInit == Init => Armed /\ FirstEvaluation
BY SMT DEF Init, Armed, FirstEvaluation, Loop

LEMMA StartInvariant ==
    ASSUME Preemptive
    PROVE  Spec => []StartInv
<1>1. Init => StartInv
  BY TypeInit, HandshakeInit, StartInit DEF StartInv, HandshakeInv
<1>2. StartInv /\ [Next]_vars => StartInv'
  BY TypeNext, HandshakeNext, ArmedNext, FirstEvaluationNext DEF StartInv, HandshakeInv
<1>3. QED
  BY <1>1, <1>2, PTL DEF Spec

(* MMWave_start is called when the DPU waits for its first frame and the   *)
(* three handlers are registered, whichever call fails: main.c:203-219     *)
(* against rangeproc_dpc.c:104-130.                                        *)
THEOREM SensorStartsLast ==
    ASSUME Preemptive
    PROVE  Spec => []SensorStartsArmed
<1>1. StartInv => SensorStartsArmed
  BY DEF StartInv, FirstEvaluation, SensorStartsArmed
<1>2. QED
  BY <1>1, StartInvariant, PTL
-----------------------------------------------------------------------------
(* The counters of the interrupt handlers: what they count begins after    *)
(* the registrations and after dpcTask has set them to 0.                  *)
ChirpsSoFar == (frame - 1) * ChirpsPerFrame + chirp

Counted ==
    /\ frame = 0 => gFrameCount = 0 /\ gChirpCount = 0
    /\ frame > 0 => /\ gFrameCount = frame % CounterMod
                    /\ gChirpCount = ChirpsSoFar % CounterMod

LEMMA ChirpsSoFarTyped ==
    ASSUME TypeOK, frame > 0
    PROVE  ChirpsSoFar \in Nat
<1>1. frame - 1 \in Nat /\ chirp \in Nat /\ ChirpsPerFrame \in Nat
  BY PipelineAssumption, SMT DEF TypeOK, HardwareTypeOK
<1>2. (frame - 1) * ChirpsPerFrame \in Nat
  BY <1>1, SMT
<1>3. QED
  BY <1>1, <1>2, SMT DEF ChirpsSoFar

LEMMA CountedNext ==
    ASSUME StartInv, Counted, [Next]_vars
    PROVE  Counted'
<1> USE PipelineAssumption
    DEF StartInv, HandshakeInv, TypeInv, TypeOK, HardwareTypeOK
<1>1. CASE UNCHANGED <<svars, gFrameCount, gChirpCount>>
  BY <1>1, SMT DEF svars, Counted, ChirpsSoFar
<1>2. CASE MainNext \/ UartNext \/ UNCHANGED vars
  <2>1. UNCHANGED <<frame, chirp, gFrameCount, gChirpCount>>
    BY <1>2, SMT DEF svars, cvars, vars, MainNext, MainCreateDpc, MainPendCfg,
       MainCreateUart, MainStartSensor, UartNext, UartCapture, UartPendStart,
       UartHeader, UartBin, UartFooter, UartPostDone
  <2>2. QED
    BY <2>1, SMT DEF Counted, ChirpsSoFar
<1>3. CASE DpcConfig \/ DpcPostCfg \/ DpcRegister \/ DpcTrigger \/ DpcProcess
           \/ DpcPostStart \/ DpcPendDone \/ DpcRetrigger
  <2>1. UNCHANGED <<svars, gFrameCount, gChirpCount>>
    BY <1>3, SMT DEF cvars, DpcConfig, DpcPostCfg, DpcRegister, DpcTrigger, ArmDpu,
       DpcProcess, DpcPostStart, DpcPendDone, DpcRetrigger
  <2>2. QED
    BY <1>1, <2>1
<1>4. CASE DpcReset
  <2>1. pc["dpc"] = "reset" /\ UNCHANGED svars
    BY <1>4 DEF DpcReset, At
  <2>2. frame = 0
    BY <2>1, SMT DEF FirstEvaluation, Loop
  <2>3. QED
    BY <1>4, <2>1, <2>2, SMT DEF DpcReset, svars, Counted
<1>5. CASE FrameStart
  <2>1. /\ frame' = frame + 1 /\ chirp' = 0 /\ gChirpCount' = gChirpCount
        /\ frame \in Nat /\ irqs = 3
        /\ gFrameCount' = (gFrameCount + 1) % CounterMod
    BY <1>5, SMT DEF FrameStart, FirstEvaluation
  <2>2. gFrameCount = frame % CounterMod
    <3>1. CASE frame = 0
      BY <3>1, RemainderOfSmall, SMT DEF Counted
    <3>2. CASE frame > 0
      BY <3>2 DEF Counted
    <3>3. QED
      BY <2>1, <3>1, <3>2, SMT
  <2>3. gFrameCount' = frame' % CounterMod
    BY <2>1, <2>2, RemainderOfNext
  <2>4. gChirpCount' = ChirpsSoFar' % CounterMod
    <3>1. CASE frame = 0
      <4>1. gChirpCount' = 0 /\ ChirpsSoFar' = 0
        BY <2>1, <3>1, SMT DEF Counted, ChirpsSoFar
      <4>2. QED
        BY <4>1, RemainderOfSmall, SMT
    <3>2. CASE frame > 0
      <4>1. chirp = ChirpsPerFrame
        BY <1>5, <3>2, SMT DEF FrameStart
      <4>2. frame * ChirpsPerFrame = (frame - 1) * ChirpsPerFrame + ChirpsPerFrame
        BY <2>1, SMT
      <4>3. ChirpsSoFar' = ChirpsSoFar
        BY <2>1, <4>1, <4>2, SMT DEF ChirpsSoFar
      <4>4. QED
        BY <2>1, <3>2, <4>3 DEF Counted
    <3>3. QED
      BY <2>1, <3>1, <3>2, SMT
  <2>5. QED
    <3>1. frame' # 0
      BY <2>1, SMT
    <3>2. QED
      BY <2>3, <2>4, <3>1, Zenon DEF Counted
<1>6. CASE Chirp
  <2>1. /\ frame' = frame /\ chirp' = chirp + 1 /\ gFrameCount' = gFrameCount
        /\ frame > 0 /\ irqs = 3
        /\ gChirpCount' = (gChirpCount + 1) % CounterMod
    BY <1>6, SMT DEF Chirp, FirstEvaluation
  <2>2. ChirpsSoFar \in Nat
    BY <2>1, ChirpsSoFarTyped
  <2>3. ChirpsSoFar' = ChirpsSoFar + 1
    <3> DEFINE k == (frame - 1) * ChirpsPerFrame
    <3>1. k \in Int
      BY SMT
    <3>2. ChirpsSoFar = k + chirp /\ ChirpsSoFar' = k + chirp'
      BY <2>1 DEF ChirpsSoFar
    <3> HIDE DEF k
    <3>3. QED
      BY <2>1, <3>1, <3>2, SMT
  <2>4. gChirpCount = ChirpsSoFar % CounterMod
    BY <2>1 DEF Counted
  <2>5. gChirpCount' = ChirpsSoFar' % CounterMod
    BY <2>1, <2>2, <2>3, <2>4, RemainderOfNext
  <2>6. QED
    <3>1. frame' # 0
      BY <2>1, SMT
    <3>2. gFrameCount' = frame' % CounterMod
      BY <2>1 DEF Counted
    <3>3. QED
      BY <2>5, <3>1, <3>2, Zenon DEF Counted
<1>7. QED
  BY <1>2, <1>3, <1>4, <1>5, <1>6 DEF Next, DpcNext

(* The counters agree with what the front end did from its first frame on, *)
(* for counters of any width: no frame or chirp precedes the registration  *)
(* of its handler (rangeproc_dpc.c:353-462).                               *)
THEOREM CountersAgree ==
    ASSUME Preemptive
    PROVE  Spec => []InterruptsCounted
<1>1. Init => Counted
  BY SMT DEF Init, Counted
<1>2. StartInv /\ Counted /\ [Next]_vars => Counted'
  BY CountedNext
<1>3. StartInv /\ Counted => InterruptsCounted
  <2> SUFFICES ASSUME StartInv, Counted, sensorOn
               PROVE  /\ gFrameCount = frame % CounterMod
                      /\ frame > 0 => gChirpCount = ChirpsSoFar % CounterMod
    BY DEF InterruptsCounted, ChirpsSoFar
  <2>1. frame \in Nat /\ CounterMod \in Nat /\ 0 < CounterMod
    BY PipelineAssumption, SMT
       DEF StartInv, HandshakeInv, TypeInv, TypeOK, HardwareTypeOK
  <2>2. CASE frame = 0
    BY <2>1, <2>2, RemainderOfSmall, SMT DEF Counted
  <2>3. CASE frame > 0
    BY <2>3 DEF Counted
  <2>4. QED
    BY <2>1, <2>2, <2>3, SMT
<1>4. QED
  BY <1>1, <1>2, <1>3, StartInvariant, PTL DEF Spec
-----------------------------------------------------------------------------
(* How far an evaluation is and how far the frame is.  While the DPU is    *)
(* armed, either the frame is over and the evaluation has not begun, or    *)
(* the slots filled so far are the chirps so far; while it is not armed    *)
(* the front end is between two frames.                                    *)
Synchronous ==
    frame > 0 /\ configured =>
      /\ dpu = "armed" =>
           \/ slot = 0 /\ chirp = ChirpsPerFrame
           \/ slot = chirp /\ \A s \in 0 .. slot - 1 : cube[s] = frame
      /\ dpu # "armed" => chirp = ChirpsPerFrame
      /\ dpu = "done" => \A s \in Slots : cube[s] = frame

LEMMA SynchronousChirp ==
    ASSUME StartInv, Synchronous, Chirp
    PROVE  Synchronous'
<1> USE PipelineAssumption DEF StartInv, HandshakeInv, TypeInv, TypeOK, HardwareTypeOK
<1>1. /\ frame' = frame /\ chirp' = chirp + 1 /\ chirp < ChirpsPerFrame /\ frame > 0
      /\ configured' = configured
  BY SMT DEF Chirp, kvars
<1>2. CASE ~configured
  BY <1>1, <1>2 DEF Synchronous
<1>3. CASE configured
  <2>1. dpu = "armed"
    BY <1>1, <1>3, SMT DEF Synchronous
  <2>2. slot = chirp /\ \A s \in 0 .. slot - 1 : cube[s] = frame
    BY <1>1, <1>3, <2>1, SMT DEF Synchronous
  <2>3. /\ slot \in Slots /\ cube' = [cube EXCEPT ![slot] = frame]
        /\ slot' = slot + 1
        /\ dpu' = IF slot + 1 = ChirpsPerFrame THEN "done" ELSE dpu
    BY <1>3, <2>1, SMT DEF Chirp, SlotFree
  <2>4. \A s \in 0 .. slot' - 1 : cube'[s] = frame'
    <3> SUFFICES ASSUME NEW s \in 0 .. slot PROVE cube'[s] = frame
      BY <1>1, <2>3, SMT
    <3>1. s \in Slots /\ (s # slot => s \in 0 .. slot - 1)
      BY <2>3, SMT
    <3>2. QED
      BY <2>2, <2>3, <3>1, SMT
  <2>5. CASE slot + 1 = ChirpsPerFrame
    <3>1. dpu' = "done" /\ chirp' = ChirpsPerFrame
      BY <1>1, <2>2, <2>3, <2>5, SMT
    <3>2. \A s \in Slots : cube'[s] = frame'
      BY <2>3, <2>4, <2>5, SMT
    <3>3. QED
      BY <3>1, <3>2, SMT DEF Synchronous
  <2>6. CASE slot + 1 # ChirpsPerFrame
    <3>1. dpu' = "armed" /\ slot' = chirp'
      BY <1>1, <2>1, <2>2, <2>3, <2>6, SMT
    <3>2. QED
      BY <2>4, <3>1, SMT DEF Synchronous
  <2>7. QED
    BY <2>5, <2>6
<1>4. QED
  BY <1>2, <1>3

LEMMA SynchronousNext ==
    ASSUME ~Overrun, StartInv, Synchronous, [Next]_vars
    PROVE  Synchronous'
<1> USE PipelineAssumption
    DEF StartInv, HandshakeInv, TypeInv, TypeOK, TaskTypeOK, HardwareTypeOK
<1>1. CASE UNCHANGED <<hvars, frame, chirp, configured>>
  BY <1>1, SMT DEF hvars, Synchronous
<1>2. CASE MainNext \/ UartNext \/ DpcReset \/ DpcPostCfg \/ DpcRegister
           \/ DpcPostStart \/ DpcPendDone \/ UNCHANGED vars
  <2>1. UNCHANGED <<hvars, frame, chirp, configured>>
    BY <1>2, SMT DEF svars, kvars, vars, MainNext, MainCreateDpc, MainPendCfg,
       MainCreateUart, MainStartSensor, UartNext, UartCapture, UartPendStart,
       UartHeader, UartBin, UartFooter, UartPostDone, DpcReset, DpcPostCfg,
       DpcRegister, DpcPostStart, DpcPendDone
  <2>2. QED
    BY <1>1, <2>1
<1>3. CASE DpcConfig
  <2>1. pc["dpc"] = "config" /\ frame' = frame
    BY <1>3 DEF DpcConfig, At, svars
  <2>2. frame = 0
    BY <2>1, SMT DEF FirstEvaluation, Loop
  <2>3. QED
    BY <2>1, <2>2, SMT DEF Synchronous
<1>4. CASE DpcTrigger \/ DpcRetrigger
  <2>1. /\ slot' = 0 /\ UNCHANGED <<cube, frame, chirp, configured>>
        /\ dpu' \in {dpu, "armed"}
    BY <1>4, Zenon DEF DpcTrigger, DpcRetrigger, ArmDpu, svars, kvars
  <2>2. dpu = "idle"
    BY <1>4, SMT DEF DpcTrigger, DpcRetrigger, At, Handshake
  <2>3. QED
    BY <2>1, <2>2, SMT DEF Synchronous
<1>5. CASE DpcProcess
  <2>1. /\ dpu = "done" /\ dpu' = "idle"
        /\ UNCHANGED <<slot, cube, frame, chirp, configured>>
    BY <1>5, SMT DEF DpcProcess, At, CanRun, Blocked, svars, kvars
  <2>2. QED
    BY <2>1, SMT DEF Synchronous
<1>6. CASE FrameStart
  <2>1. /\ UNCHANGED <<dpu, slot, cube, configured>> /\ chirp' = 0 /\ sensorOn
        /\ frame > 0 => chirp = ChirpsPerFrame /\ dpu = "armed"
    BY <1>6, SMT DEF FrameStart, hvars, kvars
  <2>2. dpu = "armed"
    BY <2>1, SMT DEF FirstEvaluation
  <2>3. configured => slot = 0
    BY <2>1, <2>2, SMT DEF FirstEvaluation, SlotFree, Synchronous
  <2>4. QED
    BY <2>1, <2>2, <2>3, SMT DEF Synchronous
<1>7. CASE Chirp
  BY <1>7, SynchronousChirp
<1>8. QED
  BY <1>2, <1>3, <1>4, <1>5, <1>6, <1>7 DEF Next, DpcNext

(* A complete cube is one whole frame, each chirp in its own slot          *)
(* (rangeproc_dpc.c:123-155), for every number of chirps and frames, if    *)
(* the frame period leaves the firmware the time to send a packet.         *)
THEOREM FramesCapturedWhole ==
    ASSUME Preemptive, ~Overrun
    PROVE  Spec => []WholeFrameCaptured
<1>1. Init => Synchronous /\ Pointer
  BY SMT DEF Init, Synchronous, Pointer
<1>2. StartInv /\ Synchronous /\ [Next]_vars => Synchronous'
  BY SynchronousNext
<1>3. StartInv /\ Pointer /\ [Next]_vars => Pointer'
  BY PointerNext DEF StartInv
<1>4. StartInv /\ Synchronous /\ Pointer => WholeFrameCaptured
  <2> SUFFICES ASSUME StartInv, Synchronous, Pointer, dpu = "done"
               PROVE  chirp = ChirpsPerFrame /\ \A s \in Slots : cube[s] = frame
    BY DEF WholeFrameCaptured
  <2>1. configured /\ frame > 0
    BY SMT DEF Pointer, StartInv, FirstEvaluation, HandshakeInv, TypeInv, TypeOK,
       HardwareTypeOK
  <2>2. QED
    BY <2>1, SMT DEF Synchronous
<1>5. QED
  BY <1>1, <1>2, <1>3, <1>4, StartInvariant, PTL DEF Spec
=============================================================================
