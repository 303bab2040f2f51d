------------------------ MODULE ConfigurationProofs --------------------------
(***************************************************************************)
(* Theorems about Configuration, for every set of input files, of headers  *)
(* that lie about, and of configurations compiled into the firmware.       *)
(***************************************************************************)
EXTENDS Configuration, TLAPS, FiniteSetTheorems
-----------------------------------------------------------------------------
(* Headers *)

HeadersTyped == DOMAIN headers = Places /\ HeadersComplete

LEMMA HeadersInit == Init => HeadersTyped
  BY ConfigurationAssumption DEF Init, HeadersTyped, HeadersComplete

LEMMA HeadersNext == HeadersTyped /\ [Next]_vars => HeadersTyped'
  <1> SUFFICES ASSUME HeadersTyped, [Next]_vars PROVE HeadersTyped'
    OBVIOUS
  <1>1. CASE GenerateDefinesFile
    BY <1>1 DEF GenerateDefinesFile, HeadersTyped, HeadersComplete
  <1>2. CASE headers' = headers /\ tpc # "crash"
    BY <1>2 DEF HeadersTyped, HeadersComplete
  <1>3. CASE UNCHANGED <<headers, dest, tpc, data>>
    BY <1>3 DEF HeadersTyped, HeadersComplete
  <1>4. \/ GenerateDefinesFile
        \/ headers' = headers /\ tpc # "crash"
        \/ UNCHANGED <<headers, dest, tpc, data>>
    BY DEF Next, ToolNext, FwNext, Build, Start, ParseUnsupported, ParseCfgLine,
           ParseJson, Parsed, ChooseOutput, AskOverwrite, PrintBasicConfigInfo,
           vars, tvars
  <1> QED
    BY <1>1, <1>2, <1>3, <1>4

(* However the input is broken and wherever the tool stops, it leaves no   *)
(* header incomplete (chirp_config_to_defines.py:120-200).                 *)
THEOREM HeadersStayComplete == Spec => []HeadersComplete
  <1>1. HeadersTyped => HeadersComplete
    BY DEF HeadersTyped
  <1> QED
    BY <1>1, HeadersInit, HeadersNext, PTL DEF Spec
-----------------------------------------------------------------------------
(* Overwriting *)

(* What main() has made sure of on its way to the write.                   *)
Cleared ==
    /\ tpc \in {"output", "ask", "generate"} => rest = << >>
    /\ tpc = "generate" => headers[dest] = Absent \/ asked = "y" \/ Fallback

LEMMA ClearedInit == Init => Cleared
  BY DEF Init, Cleared

LEMMA ClearedNext == Cleared /\ [Next]_vars => Cleared'
  <1> SUFFICES ASSUME Cleared, [Next]_vars PROVE Cleared'
    OBVIOUS
  <1> USE DEF Cleared, Fallback
  <1>1. CASE ToolNext
    <2>1. CASE Start \/ ParseUnsupported \/ ParseJson
      BY <2>1 DEF Start, ParseUnsupported, ParseJson
    <2>2. CASE ParseCfgLine
      BY <2>2 DEF ParseCfgLine
    <2>3. CASE Parsed
      BY <2>3 DEF Parsed
    <2>4. CASE ChooseOutput
      BY <2>4 DEF ChooseOutput
    <2>5. CASE AskOverwrite
      BY <2>5 DEF AskOverwrite
    <2>6. CASE GenerateDefinesFile \/ PrintBasicConfigInfo
      BY <2>6 DEF GenerateDefinesFile, PrintBasicConfigInfo
    <2> QED
      BY <1>1, <2>1, <2>2, <2>3, <2>4, <2>5, <2>6 DEF ToolNext
  <1>2. CASE UNCHANGED tvars
    BY <1>2 DEF tvars
  <1>3. ToolNext \/ UNCHANGED tvars
    BY DEF Next, Build, vars
  <1> QED
    BY <1>1, <1>2, <1>3

(* A header on the requested path is replaced only after "y"; the fallback *)
(* is the only other way (chirp_config_to_defines.py:262-271).             *)
THEOREM NoSilentOverwrite == Spec => OverwritesOnlyWhenAllowed
  <1>1. HeadersTyped /\ Cleared /\ [Next]_vars =>
          [\A p \in Places : headers'[p] # headers[p] =>
             /\ tpc = "generate" /\ p = dest /\ rest = << >>
             /\ \/ headers[p] = Absent
                \/ asked = "y"
                \/ Fallback]_tvars
    <2> SUFFICES ASSUME HeadersTyped, Cleared, [Next]_vars
                 PROVE  \A p \in Places : headers'[p] # headers[p] =>
                          /\ tpc = "generate" /\ p = dest /\ rest = << >>
                          /\ \/ headers[p] = Absent
                             \/ asked = "y"
                             \/ Fallback
      OBVIOUS
    <2>1. CASE headers' = headers
      BY <2>1
    <2>2. CASE GenerateDefinesFile
      <3>1. tpc = "generate" /\ rest = << >>
            /\ (headers[dest] = Absent \/ asked = "y" \/ Fallback)
        BY <2>2 DEF GenerateDefinesFile, Cleared
      <3>2. \A p \in Places : p # dest => headers'[p] = headers[p]
        BY <2>2 DEF GenerateDefinesFile, HeadersTyped
      <3> QED
        BY <3>1, <3>2
    <2>3. headers' = headers \/ GenerateDefinesFile
      BY DEF Next, ToolNext, FwNext, Build, Start, ParseUnsupported, ParseCfgLine,
             ParseJson, Parsed, ChooseOutput, AskOverwrite, PrintBasicConfigInfo,
             vars, tvars
    <2> QED
      BY <2>1, <2>2, <2>3
  <1> QED
    BY <1>1, HeadersInit, HeadersNext, ClearedInit, ClearedNext, PTL
       DEF Spec, OverwritesOnlyWhenAllowed
-----------------------------------------------------------------------------
(* The layout of the ADC buffer *)

(* Rounding up to 16 bytes leaves room for the samples of a channel, and   *)
(* changes nothing exactly when they are a multiple of 8.                  *)
LEMMA RoundedUp ==
    ASSUME NEW n \in Nat
    PROVE  LET b == ((n * 2 + 15) \div 16) * 16
           IN  b \in Nat /\ b % 16 = 0 /\ 2 * n <= b /\ (b = 2 * n <=> n % 8 = 0)
  <1> DEFINE q == (n * 2 + 15) \div 16
  <1>1. q \in Nat /\ 16 * q <= n * 2 + 15 /\ n * 2 + 15 < 16 * q + 16
    OBVIOUS
  <1> HIDE DEF q
  <1>2. q * 16 \in Nat /\ (q * 16) % 16 = 0 /\ 2 * n <= q * 16
    BY <1>1
  <1>3. q * 16 = 2 * n => n % 8 = 0
    BY <1>1
  <1>4. n % 8 = 0 => q * 16 = 2 * n
    BY <1>1
  <1> QED
    BY <1>2, <1>3, <1>4 DEF q

(* Up to three channels one after the other, b bytes apart, against one    *)
(* half of a buffer for 2 n bytes of each channel in each half.            *)
LEMMA ThreeChannels ==
    ASSUME NEW n \in Nat, NEW b \in Nat, b % 16 = 0, 2 * n <= b,
           NEW rx \in 0 .. 3, NEW c \in 0 .. rx - 1
    PROVE  /\ (c * b) % 16 = 0
           /\ c * b + 2 * n <= (c + 1) * b
           /\ c + 1 = rx => (c * b + 2 * n <= (n * rx * 2 * 2) \div 2
                                <=> b = 2 * n \/ rx = 1)
  <1>1. c \in {0, 1, 2} /\ rx \in {1, 2, 3} /\ c < rx
    OBVIOUS
  <1>2. CASE c = 0
    <2>1. c * b = 0 /\ (c + 1) * b = b
      BY <1>2
    <2>2. c + 1 = rx => rx = 1 /\ (n * rx * 2 * 2) \div 2 = 2 * n
      BY <1>1, <1>2
    <2> QED
      BY <2>1, <2>2
  <1>3. CASE c = 1
    <2>1. c * b = b /\ (c + 1) * b = 2 * b
      BY <1>3
    <2>2. c + 1 = rx => rx = 2 /\ (n * rx * 2 * 2) \div 2 = 4 * n
      BY <1>1, <1>3
    <2> QED
      BY <2>1, <2>2
  <1>4. CASE c = 2
    <2>1. c * b = 2 * b /\ (c + 1) * b = 3 * b /\ (2 * b) % 16 = 0
      BY <1>4
    <2>2. c + 1 = rx => rx = 3 /\ (n * rx * 2 * 2) \div 2 = 6 * n
      BY <1>1, <1>4
    <2> QED
      BY <2>1, <2>2
  <1> QED
    BY <1>1, <1>2, <1>3, <1>4

(* The firmware runs what compiled, and from SetAdcBuffer on the layout is *)
(* that of the header.                                                     *)
Layout ==
    /\ fpc # "off" => Compiles(defines)
    /\ DOMAIN dpu = DOMAIN Blank
    /\ BufferSet =>
         /\ dpu.samples = CLI_NUM_ADC_SAMPLES
         /\ dpu.adcSize = CLI_NUM_ADC_SAMPLES * NumRxAntennas * 2 * 2
         /\ dpu.rxOffset = [c \in 0 .. MaxRx - 1 |->
                              IF c < NumRxAntennas THEN c * BytesPerRxChan ELSE 0]

LEMMA LayoutInit == Init => Layout
  BY DEF Init, FwInit, Layout, BufferSet

LEMMA LayoutNext == Layout /\ [Next]_vars => Layout'
  <1> SUFFICES ASSUME Layout, [Next]_vars PROVE Layout'
    OBVIOUS
  <1> USE DEF Layout, BufferSet, CLI_NUM_ADC_SAMPLES, NumRxAntennas, BytesPerRxChan
  <1>1. CASE Build
    BY <1>1 DEF Build
  <1>2. CASE UNCHANGED fvars
    BY <1>2 DEF fvars
  <1>3. CASE FwNext
    <2>1. CASE ResetPools
      BY <2>1 DEF ResetPools
    <2>2. CASE SetSizes
      BY <2>2 DEF SetSizes
    <2>3. CASE DivisionTrap \/ ConfigureDpu
      BY <2>3 DEF DivisionTrap, ConfigureDpu
    <2>4. CASE AllocWindow
      BY <2>4 DEF AllocWindow
    <2>5. CASE SetAdcBuffer
      BY <2>5 DEF SetAdcBuffer, Blank
    <2>6. CASE AllocCube
      BY <2>6 DEF AllocCube, Blank
    <2> QED
      BY <1>3, <2>1, <2>2, <2>3, <2>4, <2>5, <2>6 DEF FwNext
  <1> QED
    BY <1>1, <1>2, <1>3 DEF Next, vars

LEMMA AntennaCount ==
    ASSUME NEW rx, rx \subseteq 0 .. MaxRx - 1
    PROVE  Cardinality(rx) \in 0 .. 3
  <1> DEFINE S == 0 .. MaxRx - 1
  <1>1. 0 \in Int /\ MaxRx - 1 \in Int /\ ~(0 > MaxRx - 1) /\ MaxRx - 1 - 0 + 1 = 3
    BY DEF MaxRx
  <1>2. IsFiniteSet(S) /\ Cardinality(S) = 3
    <2>1. /\ IsFiniteSet(S)
          /\ Cardinality(S) = IF 0 > MaxRx - 1 THEN 0 ELSE MaxRx - 1 - 0 + 1
      BY <1>1, FS_Interval, Zenon
    <2> QED
      BY <1>1, <2>1
  <1> HIDE DEF S
  <1>3. rx \in SUBSET S
    BY DEF S
  <1>4. IsFiniteSet(rx) /\ Cardinality(rx) <= Cardinality(S)
    BY <1>2, <1>3, FS_Subset, Zenon
  <1>5. Cardinality(rx) \in Nat
    BY <1>4, FS_CardinalityType, Zenon
  <1> QED
    BY <1>2, <1>4, <1>5

(* For every number of samples and every mask of receive channels, the     *)
(* channels lie apart and aligned, and one chirp fits the half of the size *)
(* declared for the buffer exactly when the rounding adds nothing or there *)
(* is one channel (rangeproc_dpc.c:221-254).                               *)
THEOREM ChannelsApart == Spec => []RxChannelsApart
  <1>1. Layout => RxChannelsApart
    <2> SUFFICES ASSUME Layout, BufferSet,
                        NEW c \in 0 .. NumRxAntennas - 1
                 PROVE  LET end == dpu.rxOffset[c] + 2 * dpu.samples
                        IN  /\ dpu.rxOffset[c] % 16 = 0
                            /\ c + 1 < NumRxAntennas => end <= dpu.rxOffset[c + 1]
                            /\ c + 1 = NumRxAntennas =>
                                 (end <= dpu.adcSize \div 2
                                    <=> dpu.samples % 8 = 0 \/ NumRxAntennas = 1)
      BY Zenon DEF RxChannelsApart
    <2> DEFINE n == CLI_NUM_ADC_SAMPLES
               rx == NumRxAntennas
               b == BytesPerRxChan
    <2>1. n \in Nat /\ rx \in 0 .. 3
      BY AntennaCount DEF Layout, BufferSet, Compiles, CLI_NUM_ADC_SAMPLES, NumRxAntennas
    <2>2. b \in Nat /\ b % 16 = 0 /\ 2 * n <= b /\ (b = 2 * n <=> n % 8 = 0)
      BY <2>1, RoundedUp DEF BytesPerRxChan
    <2>3. /\ dpu.samples = n /\ dpu.adcSize = n * rx * 2 * 2
          /\ dpu.rxOffset = [k \in 0 .. MaxRx - 1 |-> IF k < rx THEN k * b ELSE 0]
      BY DEF Layout
    <2> HIDE DEF n, rx, b
    <2>4. dpu.rxOffset[c] = c * b
      BY <2>1, <2>3 DEF MaxRx, rx
    <2>5. c + 1 < rx => dpu.rxOffset[c + 1] = (c + 1) * b
      BY <2>1, <2>3 DEF MaxRx, rx
    <2>6. /\ (c * b) % 16 = 0
          /\ c * b + 2 * n <= (c + 1) * b
          /\ c + 1 = rx => (c * b + 2 * n <= (n * rx * 2 * 2) \div 2
                               <=> b = 2 * n \/ rx = 1)
      BY <2>1, <2>2, ThreeChannels DEF rx
    <2> QED
      BY <2>2, <2>3, <2>4, <2>5, <2>6 DEF rx
  <1> QED
    BY <1>1, LayoutInit, LayoutNext, PTL DEF Spec
=============================================================================
