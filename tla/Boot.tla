-------------------------------- MODULE Boot ---------------------------------
(***************************************************************************)
(* freertos_main: the initialisation and configuration sequence of the     *)
(* main task, up to the start of the sensor, with every call that can      *)
(* fail.  An action is one function that freertos_main calls.              *)
(*                                                                         *)
(* X_Something is X with a plausible mistake; it is used nowhere here.     *)
(*                                                                         *)
(* The front end is driven through the mmWave control module of the SDK,   *)
(* which has a life cycle of its own (init, open, config, start); flash,   *)
(* HWA and RF power are external too.  Antenna masks are sets of channels. *)
(* Between the creation of the dpc task and the start of the sensor the    *)
(* other tasks run: that is module RadarPipeline.                          *)
(***************************************************************************)
EXTENDS Naturals, FiniteSets

CONSTANTS
    RxMasks, TxMasks,  \* values of CLI_CHA_CFG_RX_BITMASK, .._TX_BITMASK
    SampleCounts,      \* values of CLI_NUM_ADC_SAMPLES
    Faults             \* the external calls that may fail

RxChannels == 0 .. 2   \* SYS_COMMON_NUM_RX_CHANNEL
TxChannels == 0 .. 1   \* SYS_COMMON_NUM_TX_ANTENNAS

FaultKinds == {"init", "hwa", "dpu", "rf", "trim", "open", "profile", "chirp",
               "config", "flash", "magic", "factoryCalib", "start"}

ASSUME BootAssumption ==
    /\ RxMasks \subseteq SUBSET RxChannels
    /\ TxMasks \subseteq SUBSET TxChannels
    /\ SampleCounts \subseteq Nat \ {0}
    /\ Faults \subseteq FaultKinds

VARIABLES
    rxMask, txMask, samples,  \* the configuration compiled into defines.h
    pc,           \* the next call of freertos_main
    ctrl,         \* life cycle of the mmWave control module
    pools,        \* mempool_init has set the addresses of the pools
    hwa, dpu,     \* handles of the HWA and of the range DPU are not NULL
    rfOn,         \* rl_fecssRfPwrOnOff has succeeded
    channelCfg,   \* gSysContext.channelCfg: the two masks
    numTx, numRx, \* gSysContext.numTxAntennas, numRxAntennas
    adc,          \* the ADC buffer registers: channel enabled, its address
    profile,      \* gSysContext.profileComCfg and profileTimeCfg
    added,        \* what was added to the control configuration
    cal           \* the factory calibration handed to the front end

config == <<rxMask, txMask, samples>>
bvars  == <<config, pc, ctrl, pools, hwa, dpu, rfOn, channelCfg, numTx, numRx,
            adc, profile, added, cal>>

Outcomes(f) == IF f \in Faults THEN BOOLEAN ELSE {TRUE}
NoCal == [state |-> "none", valid |-> FALSE, freq |-> 0, masks |-> <<{}, {}>>]

Init ==
    /\ rxMask \in RxMasks /\ txMask \in TxMasks /\ samples \in SampleCounts
    /\ pc = "mempool"
    /\ ctrl = "null" /\ pools = FALSE /\ hwa = FALSE /\ dpu = FALSE
    /\ rfOn = FALSE
    /\ channelCfg = [rx |-> {}, tx |-> {}] /\ numTx = 0 /\ numRx = 0
    /\ adc = [c \in RxChannels |-> [on |-> FALSE, addr |-> 0]]
    /\ profile = [samples |-> 0, freqStart |-> 0]
    /\ added = {}
    /\ cal = NoCal

(* exit(1) unless the call succeeded                                       *)
ContinueOrExit(ok, next) == pc' = IF ok THEN next ELSE "exited"
-----------------------------------------------------------------------------
MempoolInit ==
    /\ pc = "mempool"
    /\ pools' = TRUE
    /\ pc' = "initSensor"
    /\ UNCHANGED <<config, ctrl, hwa, dpu, rfOn, channelCfg, numTx, numRx, adc,
                   profile, added, cal>>

MmwaveInitSensor ==
    /\ pc = "initSensor"
    /\ \E ok \in Outcomes("init") :
         /\ ctrl' = IF ok THEN "init" ELSE ctrl
         /\ ContinueOrExit(ok, "hwaOpen")
    /\ UNCHANGED <<config, pools, hwa, dpu, rfOn, channelCfg, numTx, numRx, adc,
                   profile, added, cal>>

(* A failure stops the processor in DebugP_assert(0), before exit(1).      *)
HwaOpenHandler ==
    /\ pc = "hwaOpen"
    /\ \E ok \in Outcomes("hwa") :
         hwa' = ok /\ pc' = IF ok THEN "dpuInit" ELSE "halted"
    /\ UNCHANGED <<config, ctrl, pools, dpu, rfOn, channelCfg, numTx, numRx, adc,
                   profile, added, cal>>

RangeProcDpuInit_Unchecked ==
    /\ pc = "dpuInit"
    /\ \E ok \in Outcomes("dpu") : dpu' = ok
    /\ pc' = "channelCfg"
    /\ UNCHANGED <<config, ctrl, pools, hwa, rfOn, channelCfg, numTx, numRx, adc,
                   profile, added, cal>>

RangeProcDpuInit ==
    /\ pc = "dpuInit"
    /\ \E ok \in Outcomes("dpu") :
         dpu' = ok /\ pc' = IF ok THEN "channelCfg" ELSE "halted"
    /\ UNCHANGED <<config, ctrl, pools, hwa, rfOn, channelCfg, numTx, numRx, adc,
                   profile, added, cal>>

MMWavePopulateChannelCfg_Swapped ==
    /\ pc = "channelCfg"
    /\ channelCfg' = [rx |-> txMask, tx |-> rxMask]
    /\ numTx' = Cardinality(channelCfg'.tx)
    /\ numRx' = Cardinality(channelCfg'.rx)
    /\ pc' = "rfPower"
    /\ UNCHANGED <<config, ctrl, pools, hwa, dpu, rfOn, adc, profile, added, cal>>

MMWavePopulateChannelCfg ==
    /\ pc = "channelCfg"
    /\ channelCfg' = [rx |-> rxMask, tx |-> txMask]
    /\ numTx' = Cardinality(channelCfg'.tx \cap TxChannels)
    /\ numRx' = Cardinality(channelCfg'.rx \cap RxChannels)
    /\ pc' = "rfPower"
    /\ UNCHANGED <<config, ctrl, pools, hwa, dpu, rfOn, adc, profile, added, cal>>

RfPowerOn ==
    /\ pc = "rfPower"
    /\ \E ok \in Outcomes("rf") : rfOn' = ok /\ ContinueOrExit(ok, "trim")
    /\ UNCHANGED <<config, ctrl, pools, hwa, dpu, channelCfg, numTx, numRx, adc,
                   profile, added, cal>>

TrimCheck ==
    /\ pc = "trim"
    /\ \E ok \in Outcomes("trim") : ContinueOrExit(ok, "open")
    /\ UNCHANGED <<config, ctrl, pools, hwa, dpu, rfOn, channelCfg, numTx, numRx,
                   adc, profile, added, cal>>

MmwaveOpenSensor ==
    /\ pc = "open"
    /\ \E ok \in Outcomes("open") :
         /\ ctrl' = IF ok THEN "open" ELSE ctrl
         /\ ContinueOrExit(ok, "config")
    /\ UNCHANGED <<config, pools, hwa, dpu, rfOn, channelCfg, numTx, numRx, adc,
                   profile, added, cal>>
-----------------------------------------------------------------------------
(* Mmwave_ADCBufConfig: all channels are disabled; the enabled ones follow *)
(* each other, in units of 16 bytes.                                       *)
ADCBufConfig(mask, chanDataSize) ==
    [c \in RxChannels |->
        IF c \in mask
        THEN [on   |-> TRUE,
              addr |-> (chanDataSize * Cardinality({d \in mask : d < c}) % 2^16) \div 16]
        ELSE [on |-> FALSE, addr |-> adc[c].addr]]

PopulatedProfile == [samples |-> samples, freqStart |-> 1]

(* Mmwave_populateDefaultChirpControlCfg: the ADC buffer is laid out with  *)
(* the profile as it was, then the profile is populated.  A profile or a   *)
(* chirp that cannot be added makes the function return early and quietly. *)
PopulateChirpControlCfg ==
    /\ adc' = ADCBufConfig(channelCfg.rx, profile.samples * 2)
    /\ profile' = PopulatedProfile
    /\ \E okProfile \in Outcomes("profile"), okChirp \in Outcomes("chirp") :
         added' = CASE ~okProfile -> {}
                    [] okProfile /\ ~okChirp -> {"profile"}
                    [] OTHER -> {"profile", "chirp", "frame"}

(* mmwave_configSensor: populate the control configuration, then apply it, *)
(* complete or not.                                                        *)
MmwaveConfigSensor ==
    /\ pc = "config"
    /\ PopulateChirpControlCfg
    /\ \E ok \in Outcomes("config") :
         /\ ctrl' = IF ok THEN "config" ELSE ctrl
         /\ ContinueOrExit(ok, "restoreCal")
    /\ UNCHANGED <<config, pools, hwa, dpu, rfOn, channelCfg, numTx, numRx, cal>>

(* c_TxPwrCalTxEnaMask                                                     *)
TxPwrCalMasks(mask) ==
    CASE mask = {0, 1} -> <<{0, 1}, {0}>>
      [] mask = {0}    -> <<{0}, {0}>>
      [] mask = {1}    -> <<{1}, {1}>>
      [] OTHER         -> <<{}, {}>>

RestoreFactoryCal_NoMagic ==
    /\ pc = "restoreCal"
    /\ \E okFlash \in Outcomes("flash"), okMagic \in Outcomes("magic"),
          okApply \in Outcomes("factoryCalib") :
         cal' = IF okFlash /\ okApply
                THEN [state |-> "restored", valid |-> okMagic,
                      freq  |-> profile.freqStart,
                      masks |-> TxPwrCalMasks(channelCfg.tx)]
                ELSE [NoCal EXCEPT !.state = "failed"]
    /\ pc' = "createDpc"
    /\ UNCHANGED <<config, ctrl, pools, hwa, dpu, rfOn, channelCfg, numTx, numRx,
                   adc, profile, added>>

(* restoreFactoryCal: read, check the magic word, apply.  Its caller only  *)
(* logs a failure.                                                         *)
RestoreFactoryCal ==
    /\ pc = "restoreCal"
    /\ \E okFlash \in Outcomes("flash"), okMagic \in Outcomes("magic"),
          okApply \in Outcomes("factoryCalib") :
         cal' = IF okFlash /\ okMagic /\ okApply
                THEN [state |-> "restored", valid |-> okMagic,
                      freq  |-> profile.freqStart,
                      masks |-> TxPwrCalMasks(channelCfg.tx)]
                ELSE [NoCal EXCEPT !.state = "failed"]
    /\ pc' = "createDpc"
    /\ UNCHANGED <<config, ctrl, pools, hwa, dpu, rfOn, channelCfg, numTx, numRx,
                   adc, profile, added>>
-----------------------------------------------------------------------------
CreateDpcTask ==
    /\ pc = "createDpc"
    /\ pc' = "startSensor"
    /\ UNCHANGED <<config, ctrl, pools, hwa, dpu, rfOn, channelCfg, numTx, numRx,
                   adc, profile, added, cal>>

MmwaveStartSensor ==
    /\ pc = "startSensor"
    /\ \E ok \in Outcomes("start") :
         /\ ctrl' = IF ok THEN "start" ELSE ctrl
         /\ ContinueOrExit(ok, "pendForever")
    /\ UNCHANGED <<config, pools, hwa, dpu, rfOn, channelCfg, numTx, numRx, adc,
                   profile, added, cal>>

Next ==
    \/ MempoolInit \/ MmwaveInitSensor \/ HwaOpenHandler \/ RangeProcDpuInit
    \/ MMWavePopulateChannelCfg \/ RfPowerOn \/ TrimCheck \/ MmwaveOpenSensor
    \/ MmwaveConfigSensor \/ RestoreFactoryCal \/ CreateDpcTask
    \/ MmwaveStartSensor

Spec == Init /\ [][Next]_bvars
-----------------------------------------------------------------------------
(* Properties *)

TypeOK ==
    /\ rxMask \in RxMasks /\ txMask \in TxMasks /\ samples \in SampleCounts
    /\ pc \in {"mempool", "initSensor", "hwaOpen", "dpuInit", "channelCfg",
               "rfPower", "trim", "open", "config", "restoreCal", "createDpc",
               "startSensor", "pendForever", "exited", "halted"}
    /\ ctrl \in {"null", "init", "open", "config", "start"}
    /\ {pools, hwa, dpu, rfOn} \subseteq BOOLEAN
    /\ channelCfg.rx \subseteq RxChannels /\ channelCfg.tx \subseteq TxChannels
    /\ numTx \in 0 .. 2 /\ numRx \in 0 .. 3
    /\ \A c \in RxChannels : adc[c].on \in BOOLEAN /\ adc[c].addr \in 0 .. 4095
    /\ added \subseteq {"profile", "chirp", "frame"}
    /\ cal.state \in {"none", "restored", "failed"}

(* Whatever fails on the way, the dpc task is created only on a complete   *)
(* base: pools with addresses, HWA and DPU open, RF powered, the front end *)
(* configured, and the antenna counts that RangeProc_config divides by     *)
(* equal to the antennas that are enabled in the front end and in the ADC  *)
(* buffer.                                                                 *)
DpcBase ==
    pc \in {"startSensor", "pendForever"} =>
        /\ pools /\ hwa /\ dpu /\ rfOn
        /\ ctrl \in {"config", "start"}
        /\ numTx = Cardinality(txMask)
        /\ numRx = Cardinality({c \in RxChannels : adc[c].on})

(* Calibration data reaches the front end only if its header was valid,    *)
(* for the frequency of the profile that is configured, and for antennas   *)
(* that are enabled: restoreFactoryCal reads the context that              *)
(* mmwave_configSensor fills.                                              *)
CalibrationFitsProfile ==
    cal.state = "restored" =>
         /\ cal.valid
         /\ cal.freq = PopulatedProfile.freqStart
         /\ cal.masks[1] = txMask
         /\ cal.masks[2] \subseteq txMask
         /\ txMask # {} => cal.masks[2] # {}

(* README.md:31: "Factory calibration data is always restored from flash". *)
(* The front end never runs without its calibration.                       *)
StartsCalibrated == ctrl = "start" => cal.state = "restored"

(* mmwave_control_config.c:290: "chanDataSize  Size of data per channel".  *)
(* The samples of the enabled receive channels do not overlap in the ADC   *)
(* buffer when the front end runs.                                         *)
AdcChannelsDisjoint ==
    ctrl = "start" =>
        \A c, d \in RxChannels :
            (adc[c].on /\ adc[d].on /\ c < d) =>
                adc[d].addr * 16 >= adc[c].addr * 16 + samples * 2
=============================================================================
