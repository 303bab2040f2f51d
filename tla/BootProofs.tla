----------------------------- MODULE BootProofs ------------------------------
(***************************************************************************)
(* Theorems about Boot, for every set of masks, of sample counts and of    *)
(* calls that may fail.                                                    *)
(***************************************************************************)
EXTENDS Boot, TLAPS, FiniteSetTheorems

(* The places from which the calls before them have succeeded.             *)
Started    == {"startSensor", "pendForever"}
HasCal     == Started \cup {"createDpc"}
Configured == HasCal \cup {"restoreCal"}
HasRf      == Configured \cup {"trim", "open", "config"}
HasCounts  == HasRf \cup {"rfPower"}
HasDpu     == HasCounts \cup {"channelCfg"}
HasHwa     == HasDpu \cup {"dpuInit"}
HasPools   == HasHwa \cup {"hwaOpen", "initSensor"}

(* What the calls made so far have left behind; a call that fails leads to *)
(* "exited" or "halted", of which nothing is claimed.                      *)
Masks ==
    rxMask \in SUBSET RxChannels /\ txMask \in SUBSET TxChannels

Base ==
    /\ pc \in HasPools => pools
    /\ pc \in HasHwa => hwa
    /\ pc \in HasDpu => dpu
    /\ pc \in HasRf => rfOn
    /\ pc \in HasCounts => /\ channelCfg = [rx |-> rxMask, tx |-> txMask]
                           /\ numTx = Cardinality(txMask)
                           /\ numRx = Cardinality(rxMask)
    /\ pc \in Configured => /\ ctrl = IF pc = "pendForever" THEN "start" ELSE "config"
                            /\ {c \in RxChannels : adc[c].on} = rxMask
                            /\ profile = PopulatedProfile

CalFits == cal.state = "restored" => /\ cal.valid
                                     /\ cal.freq = PopulatedProfile.freqStart
                                     /\ cal.masks = TxPwrCalMasks(txMask)

Inv == Masks /\ Base /\ CalFits

LEMMA InvInit == Init => Inv
  BY BootAssumption
     DEF Init, Inv, Masks, Base, CalFits, NoCal, HasPools, HasHwa, HasDpu,
         HasCounts, HasRf, Configured, HasCal, Started

(* The counts are those of the masks, which have no other bits.            *)
LEMMA CountsKept == Masks => /\ txMask \cap TxChannels = txMask
                             /\ rxMask \cap RxChannels = rxMask
  BY DEF Masks

(* The registers of the channels in the mask are on, no others.            *)
LEMMA ChannelsOn ==
    ASSUME NEW mask \in SUBSET RxChannels, NEW size
    PROVE  LET layout == ADCBufConfig(mask, size)
           IN  {c \in RxChannels : layout[c].on} = mask
  <1> DEFINE layout == ADCBufConfig(mask, size)
  <1>1. \A c \in RxChannels : c \in mask => layout[c].on
    BY DEF ADCBufConfig
  <1>2. \A c \in RxChannels : c \notin mask => ~layout[c].on
    BY DEF ADCBufConfig
  <1> HIDE DEF layout
  <1>3. {c \in RxChannels : layout[c].on} = mask
    BY <1>1, <1>2
  <1> QED
    BY <1>3 DEF layout

LEMMA InvNext == Inv /\ [Next]_bvars => Inv'
  <1> SUFFICES ASSUME Inv, [Next]_bvars PROVE Inv'
    OBVIOUS
  <1>m. Masks'
    BY DEF Inv, Masks, Next, bvars, config, MempoolInit, MmwaveInitSensor,
           HwaOpenHandler, RangeProcDpuInit, MMWavePopulateChannelCfg, RfPowerOn,
           TrimCheck, MmwaveOpenSensor, MmwaveConfigSensor, RestoreFactoryCal,
           CreateDpcTask, MmwaveStartSensor
  <1> USE DEF Inv, Base, CalFits, config, ContinueOrExit, HasPools, HasHwa, HasDpu,
              HasCounts, HasRf, Configured, HasCal, Started, PopulatedProfile
  <1>1. CASE MempoolInit
    BY <1>1, <1>m DEF MempoolInit
  <1>2. CASE MmwaveInitSensor
    BY <1>2, <1>m DEF MmwaveInitSensor
  <1>3. CASE HwaOpenHandler
    BY <1>3, <1>m DEF HwaOpenHandler
  <1>4. CASE RangeProcDpuInit
    BY <1>4, <1>m DEF RangeProcDpuInit
  <1>5. CASE MMWavePopulateChannelCfg
    BY <1>5, <1>m, CountsKept DEF MMWavePopulateChannelCfg
  <1>6. CASE RfPowerOn
    BY <1>6, <1>m DEF RfPowerOn
  <1>7. CASE TrimCheck
    BY <1>7, <1>m DEF TrimCheck
  <1>8. CASE MmwaveOpenSensor
    BY <1>8, <1>m DEF MmwaveOpenSensor
  <1>9. CASE MmwaveConfigSensor
    <2>1. adc' = ADCBufConfig(rxMask, profile.samples * 2) /\ profile' = PopulatedProfile
      BY <1>9 DEF MmwaveConfigSensor, PopulateChirpControlCfg
    <2>2. {c \in RxChannels : adc'[c].on} = rxMask
      BY <2>1, ChannelsOn DEF Masks
    <2> QED
      BY <1>9, <1>m, <2>1, <2>2 DEF MmwaveConfigSensor
  <1>10. CASE RestoreFactoryCal
    <2> DEFINE r == [state |-> "restored", valid |-> TRUE,
                     freq |-> profile.freqStart, masks |-> TxPwrCalMasks(channelCfg.tx)]
    <2>1. channelCfg.tx = txMask
      BY <1>10 DEF RestoreFactoryCal
    <2>2. cal' = r \/ cal' = [NoCal EXCEPT !.state = "failed"]
      BY <1>10 DEF RestoreFactoryCal
    <2>3. CalFits'
      BY <1>10, <2>1, <2>2 DEF RestoreFactoryCal, NoCal, TxPwrCalMasks
    <2>4. Base'
      BY <1>10 DEF RestoreFactoryCal
    <2> QED
      BY <1>m, <2>3, <2>4
  <1>11. CASE CreateDpcTask
    BY <1>11, <1>m DEF CreateDpcTask
  <1>12. CASE MmwaveStartSensor
    BY <1>12, <1>m DEF MmwaveStartSensor
  <1>13. CASE UNCHANGED bvars
    BY <1>13, <1>m DEF bvars
  <1> QED
    BY <1>1, <1>2, <1>3, <1>4, <1>5, <1>6, <1>7, <1>8, <1>9, <1>10, <1>11, <1>12,
       <1>13 DEF Next

(* The dpc task is created only on a complete base, and the antenna count  *)
(* it divides by is that of the enabled antennas (main.c:146-201,          *)
(* rangeproc_dpc.c:195).                                                   *)
THEOREM DpcStartsOnBase == Spec => []DpcBase
  <1>1. Inv => DpcBase
    BY DEF Inv, Base, DpcBase, HasPools, HasHwa, HasDpu, HasCounts, HasRf,
           Configured, HasCal, Started
  <1> QED
    BY <1>1, InvInit, InvNext, PTL DEF Spec

(* Calibration data that reaches the front end is valid and fits the       *)
(* frequency and the antennas that are configured (factory_cal.c:70-183).  *)
THEOREM CalibrationFits == Spec => []CalibrationFitsProfile
  <1>1. ASSUME Masks
        PROVE  /\ TxPwrCalMasks(txMask)[1] = txMask
               /\ TxPwrCalMasks(txMask)[2] \subseteq txMask
               /\ txMask # {} => TxPwrCalMasks(txMask)[2] # {}
    <2>0. \A x \in txMask : x = 0 \/ x = 1
      BY <1>1 DEF Masks, TxChannels
    <2>1. txMask = {} \/ txMask = {0} \/ txMask = {1} \/ txMask = {0, 1}
      BY <2>0, Zenon
    <2> QED
      BY <2>1 DEF TxPwrCalMasks
  <1>2. Inv => CalibrationFitsProfile
    BY <1>1 DEF Inv, CalFits, CalibrationFitsProfile
  <1> QED
    BY <1>2, InvInit, InvNext, PTL DEF Spec
-----------------------------------------------------------------------------
(* A mask of n channels has at most n antennas.                            *)
LEMMA MaskSize ==
    ASSUME NEW n \in Nat \ {0}, NEW mask \in SUBSET (0 .. n - 1)
    PROVE  Cardinality(mask) \in 0 .. n
  <1> DEFINE S == 0 .. n - 1
  <1>1. 0 \in Int /\ n - 1 \in Int /\ ~(0 > n - 1) /\ n - 1 - 0 + 1 = n
    OBVIOUS
  <1>2. IsFiniteSet(S) /\ Cardinality(S) = n
    <2>1. /\ IsFiniteSet(S)
          /\ Cardinality(S) = IF 0 > n - 1 THEN 0 ELSE n - 1 - 0 + 1
      BY <1>1, FS_Interval, Zenon
    <2> QED
      BY <1>1, <2>1
  <1> HIDE DEF S
  <1>3. mask \in SUBSET S
    BY DEF S
  <1>4. IsFiniteSet(mask) /\ Cardinality(mask) <= Cardinality(S)
    BY <1>2, <1>3, FS_Subset, Zenon
  <1>5. Cardinality(mask) \in Nat
    BY <1>4, FS_CardinalityType, Zenon
  <1> QED
    BY <1>2, <1>4, <1>5

LEMMA AntennaCounts ==
    ASSUME NEW tx \in SUBSET TxChannels, NEW rx \in SUBSET RxChannels
    PROVE  Cardinality(tx) \in 0 .. 2 /\ Cardinality(rx) \in 0 .. 3
  <1>1. TxChannels = 0 .. 2 - 1 /\ RxChannels = 0 .. 3 - 1
    BY DEF TxChannels, RxChannels
  <1> QED
    BY <1>1, MaskSize

(* An address of the ADC buffer is a 16-bit number of bytes in units of 16.*)
AdcUnits == 0 .. 4095
Register == [on : BOOLEAN, addr : AdcUnits]

AdcRegisters(regs) == \A c \in RxChannels : regs[c] \in Register

LEMMA RegisterFields ==
    ASSUME NEW r \in Register
    PROVE  r.on \in BOOLEAN /\ r.addr \in AdcUnits
  BY SMT DEF Register

LEMMA RegisterOf ==
    ASSUME NEW addr \in AdcUnits
    PROVE  /\ [on |-> TRUE, addr |-> addr] \in Register
           /\ [on |-> FALSE, addr |-> addr] \in Register
  BY SMT DEF Register

LEMMA AdcLayoutTyped ==
    ASSUME NEW mask \in SUBSET RxChannels, NEW size \in Nat, AdcRegisters(adc)
    PROVE  AdcRegisters(ADCBufConfig(mask, size))
  <1> DEFINE regs == ADCBufConfig(mask, size)
  <1>1. ASSUME NEW c \in RxChannels
        PROVE  regs[c] \in Register
    <2> DEFINE below == {d \in mask : d < c}
               bytes == size * Cardinality(below)
               addr == (bytes % 2^16) \div 16
    <2>1. below \in SUBSET RxChannels
      OBVIOUS
    <2>2. regs[c] = IF c \in mask THEN [on |-> TRUE, addr |-> addr]
                                  ELSE [on |-> FALSE, addr |-> adc[c].addr]
      BY Zenon DEF ADCBufConfig
    <2> HIDE DEF below, regs
    <2>3. Cardinality(below) \in Nat
      BY <2>1, AntennaCounts
    <2>4. bytes \in Nat
      BY <2>3
    <2> HIDE DEF bytes
    <2>5. 2^16 = 65536 /\ (bytes % 65536) \div 16 \in 0 .. 4095
      BY <2>4
    <2>6. addr \in AdcUnits
      BY <2>5 DEF AdcUnits
    <2>7. adc[c].addr \in AdcUnits
      BY RegisterFields, Zenon DEF AdcRegisters
    <2> HIDE DEF addr
    <2> QED
      BY <2>2, <2>6, <2>7, RegisterOf, Zenon
  <1> HIDE DEF regs
  <1>2. AdcRegisters(regs)
    BY <1>1, Zenon DEF AdcRegisters
  <1> QED
    BY <1>2 DEF regs

(* The parts of the type invariant, by what they speak of.                 *)
Flags == {pools, hwa, dpu, rfOn} \subseteq BOOLEAN

Places ==
    /\ pc \in {"mempool", "initSensor", "hwaOpen", "dpuInit", "channelCfg",
               "rfPower", "trim", "open", "config", "restoreCal", "createDpc",
               "startSensor", "pendForever", "exited", "halted"}
    /\ ctrl \in {"null", "init", "open", "config", "start"}
    /\ added \subseteq {"profile", "chirp", "frame"}
    /\ cal.state \in {"none", "restored", "failed"}

Numbers ==
    /\ rxMask \in RxMasks /\ txMask \in TxMasks /\ samples \in SampleCounts
    /\ channelCfg.rx \subseteq RxChannels /\ channelCfg.tx \subseteq TxChannels
    /\ numTx \in 0 .. 2 /\ numRx \in 0 .. 3
    /\ profile.samples \in Nat

Typed == Flags /\ Places /\ Numbers /\ AdcRegisters(adc)

LEMMA TypedInit == Init => Typed
  <1> SUFFICES ASSUME Init PROVE Typed
    OBVIOUS
  <1>1. Flags
    BY Zenon DEF Init, Flags
  <1>2. Places
    BY DEF Init, Places, NoCal
  <1>3. Numbers
    BY DEF Init, Numbers
  <1>4. ASSUME NEW c \in RxChannels
        PROVE  adc[c] = [on |-> FALSE, addr |-> 0]
    BY Zenon DEF Init
  <1>5. 0 \in AdcUnits
    BY DEF AdcUnits
  <1>6. AdcRegisters(adc)
    BY <1>4, <1>5, RegisterOf, Zenon DEF AdcRegisters
  <1> QED
    BY <1>1, <1>2, <1>3, <1>6 DEF Typed

LEMMA FlagsNext == Flags /\ [Next]_bvars => Flags'
  <1> SUFFICES ASSUME Flags, [Next]_bvars
               PROVE  pools' \in BOOLEAN /\ hwa' \in BOOLEAN /\ dpu' \in BOOLEAN
                      /\ rfOn' \in BOOLEAN
    BY DEF Flags
  <1>0. pools \in BOOLEAN /\ hwa \in BOOLEAN /\ dpu \in BOOLEAN /\ rfOn \in BOOLEAN
    BY DEF Flags
  <1>1. CASE MempoolInit \/ MmwaveInitSensor \/ MMWavePopulateChannelCfg \/ TrimCheck
             \/ MmwaveOpenSensor
    BY <1>0, <1>1, Zenon DEF MempoolInit, MmwaveInitSensor, MMWavePopulateChannelCfg,
       TrimCheck, MmwaveOpenSensor
  <1>2. CASE MmwaveConfigSensor \/ RestoreFactoryCal \/ CreateDpcTask
             \/ MmwaveStartSensor
    BY <1>0, <1>2, Zenon DEF MmwaveConfigSensor, RestoreFactoryCal, CreateDpcTask,
       MmwaveStartSensor
  <1>3. CASE HwaOpenHandler \/ RangeProcDpuInit \/ RfPowerOn
    BY <1>0, <1>3, Zenon DEF HwaOpenHandler, RangeProcDpuInit, RfPowerOn, Outcomes
  <1>4. CASE UNCHANGED bvars
    BY <1>0, <1>4, Zenon DEF bvars
  <1> QED
    BY <1>1, <1>2, <1>3, <1>4 DEF Next

LEMMA PlacesNext == Places /\ [Next]_bvars => Places'
  <1> SUFFICES ASSUME Places, [Next]_bvars PROVE Places'
    OBVIOUS
  <1> USE DEF Places, ContinueOrExit
  <1>1. CASE MempoolInit \/ MmwaveInitSensor \/ HwaOpenHandler \/ RangeProcDpuInit
    BY <1>1 DEF MempoolInit, MmwaveInitSensor, HwaOpenHandler, RangeProcDpuInit
  <1>2. CASE MMWavePopulateChannelCfg \/ RfPowerOn \/ TrimCheck \/ MmwaveOpenSensor
    BY <1>2 DEF MMWavePopulateChannelCfg, RfPowerOn, TrimCheck, MmwaveOpenSensor
  <1>3. CASE MmwaveConfigSensor
    BY <1>3 DEF MmwaveConfigSensor, PopulateChirpControlCfg
  <1>4. CASE RestoreFactoryCal
    BY <1>4 DEF RestoreFactoryCal, NoCal
  <1>5. CASE CreateDpcTask \/ MmwaveStartSensor \/ UNCHANGED bvars
    BY <1>5 DEF CreateDpcTask, MmwaveStartSensor, bvars
  <1> QED
    BY <1>1, <1>2, <1>3, <1>4, <1>5 DEF Next

LEMMA NumbersNext == Numbers /\ Inv /\ [Next]_bvars => Numbers'
  <1> SUFFICES ASSUME Numbers, Inv, [Next]_bvars PROVE Numbers'
    OBVIOUS
  <1> USE DEF Numbers, config
  <1>1. CASE MMWavePopulateChannelCfg
    <2>1. channelCfg' = [rx |-> rxMask, tx |-> txMask]
          /\ numTx' = Cardinality(txMask) /\ numRx' = Cardinality(rxMask)
      BY <1>1, CountsKept DEF MMWavePopulateChannelCfg, Inv
    <2>2. txMask \in SUBSET TxChannels /\ rxMask \in SUBSET RxChannels
      BY DEF Inv, Masks
    <2>3. numTx' \in 0 .. 2 /\ numRx' \in 0 .. 3
      BY <2>1, <2>2, AntennaCounts
    <2> QED
      BY <1>1, <2>1, <2>2, <2>3 DEF MMWavePopulateChannelCfg
  <1>2. CASE MmwaveConfigSensor
    BY <1>2, BootAssumption DEF MmwaveConfigSensor, PopulateChirpControlCfg, PopulatedProfile
  <1>3. CASE ~MMWavePopulateChannelCfg /\ ~MmwaveConfigSensor
    <2>1. UNCHANGED <<config, channelCfg, numTx, numRx, profile>>
      BY <1>3 DEF Next, bvars, MempoolInit, MmwaveInitSensor, HwaOpenHandler,
         RangeProcDpuInit, RfPowerOn, TrimCheck, MmwaveOpenSensor, RestoreFactoryCal,
         CreateDpcTask, MmwaveStartSensor
    <2> QED
      BY <2>1
  <1> QED
    BY <1>1, <1>2, <1>3

LEMMA RegistersNext ==
    AdcRegisters(adc) /\ Numbers /\ [Next]_bvars => AdcRegisters(adc')
  <1> SUFFICES ASSUME AdcRegisters(adc), Numbers, [Next]_bvars
               PROVE  AdcRegisters(adc')
    OBVIOUS
  <1>1. CASE MmwaveConfigSensor
    <2>1. adc' = ADCBufConfig(channelCfg.rx, profile.samples * 2)
      BY <1>1, Zenon DEF MmwaveConfigSensor, PopulateChirpControlCfg
    <2>2. channelCfg.rx \in SUBSET RxChannels /\ profile.samples * 2 \in Nat
      BY DEF Numbers
    <2> QED
      BY <2>1, <2>2, AdcLayoutTyped
  <1>2. CASE ~MmwaveConfigSensor
    <2>1. adc' = adc
      BY <1>2 DEF Next, bvars, MempoolInit, MmwaveInitSensor, HwaOpenHandler,
         RangeProcDpuInit, MMWavePopulateChannelCfg, RfPowerOn, TrimCheck,
         MmwaveOpenSensor, RestoreFactoryCal, CreateDpcTask, MmwaveStartSensor
    <2> QED
      BY <2>1
  <1> QED
    BY <1>1, <1>2

LEMMA TypedNext == Typed /\ Inv /\ [Next]_bvars => Typed'
  <1> SUFFICES ASSUME Typed, Inv, [Next]_bvars PROVE Typed'
    OBVIOUS
  <1>1. Flags' /\ Places' /\ Numbers' /\ AdcRegisters(adc')
    BY FlagsNext, PlacesNext, NumbersNext, RegistersNext DEF Typed
  <1> QED
    BY <1>1, Zenon DEF Typed, AdcRegisters

(* The antenna counts stay within the device and the addresses written to  *)
(* the ADC buffer registers within their 12 bits, whatever fails           *)
(* (mmwave_control_config.c:238-350).                                      *)
THEOREM BootTyped == Spec => []TypeOK
  <1>1. Typed => TypeOK
    <2> SUFFICES ASSUME Typed PROVE TypeOK
      OBVIOUS
    <2>0. \A c \in RxChannels : adc[c].on \in BOOLEAN /\ adc[c].addr \in AdcUnits
      BY RegisterFields, Zenon DEF Typed, AdcRegisters
    <2>1. \A c \in RxChannels : adc[c].on \in BOOLEAN /\ adc[c].addr \in 0 .. 4095
      BY <2>0, Zenon DEF AdcUnits
    <2> QED
      BY <2>1, Zenon DEF Typed, Flags, Places, Numbers, TypeOK
  <1> QED
    BY <1>1, InvInit, InvNext, TypedInit, TypedNext, PTL DEF Spec
=============================================================================
