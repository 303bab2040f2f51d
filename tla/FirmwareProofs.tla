--------------------------- MODULE FirmwareProofs ----------------------------
(***************************************************************************)
(* Theorems about the way from a configuration file to the DPU: what the   *)
(* tool says of the header it wrote is true of the firmware built with it, *)
(* and what the dpc task derives from that header: the sizes, and where    *)
(* its two buffers come to lie.                                            *)
(***************************************************************************)
EXTENDS ConfigurationProofs, RemainderLemmas, WellFoundedInduction
-----------------------------------------------------------------------------
(* mathUtils_pow2roundup *)

Powers ==
    {1, 2, 4, 8, 16, 32, 64, 128, 256, 512, 1024, 2048, 4096, 8192, 16384,
     32768, 65536, 131072, 262144, 524288, 1048576, 2097152, 4194304, 8388608,
     16777216, 33554432, 67108864, 134217728, 268435456, 536870912, 1073741824}

LEMMA PowersAreNumbers == PowersOf2 = Powers
  <1>1. 2^0 = 1 /\ 2^1 = 2 /\ 2^2 = 4 /\ 2^3 = 8 /\ 2^4 = 16 /\ 2^5 = 32
       /\ 2^6 = 64 /\ 2^7 = 128 /\ 2^8 = 256 /\ 2^9 = 512 /\ 2^10 = 1024
       /\ 2^11 = 2048 /\ 2^12 = 4096 /\ 2^13 = 8192 /\ 2^14 = 16384
       /\ 2^15 = 32768 /\ 2^16 = 65536 /\ 2^17 = 131072 /\ 2^18 = 262144
       /\ 2^19 = 524288 /\ 2^20 = 1048576 /\ 2^21 = 2097152
       /\ 2^22 = 4194304 /\ 2^23 = 8388608 /\ 2^24 = 16777216
       /\ 2^25 = 33554432 /\ 2^26 = 67108864 /\ 2^27 = 134217728
       /\ 2^28 = 268435456 /\ 2^29 = 536870912 /\ 2^30 = 1073741824
    OBVIOUS
  <1>2. ASSUME NEW p \in PowersOf2
        PROVE  p \in Powers
    <2>1. PICK k \in 0 .. 30 : p = 2^k
      BY Zenon DEF PowersOf2
    <2>2. k = 0 \/ k = 1 \/ k = 2 \/ k = 3 \/ k = 4 \/ k = 5 \/ k = 6
         \/ k = 7 \/ k = 8 \/ k = 9 \/ k = 10 \/ k = 11 \/ k = 12 \/ k = 13
         \/ k = 14 \/ k = 15 \/ k = 16 \/ k = 17 \/ k = 18 \/ k = 19
         \/ k = 20 \/ k = 21 \/ k = 22 \/ k = 23 \/ k = 24 \/ k = 25
         \/ k = 26 \/ k = 27 \/ k = 28 \/ k = 29 \/ k = 30
      BY <2>1
    <2>3. p = 2^0 \/ p = 2^1 \/ p = 2^2 \/ p = 2^3 \/ p = 2^4 \/ p = 2^5
         \/ p = 2^6 \/ p = 2^7 \/ p = 2^8 \/ p = 2^9 \/ p = 2^10
         \/ p = 2^11 \/ p = 2^12 \/ p = 2^13 \/ p = 2^14 \/ p = 2^15
         \/ p = 2^16 \/ p = 2^17 \/ p = 2^18 \/ p = 2^19 \/ p = 2^20
         \/ p = 2^21 \/ p = 2^22 \/ p = 2^23 \/ p = 2^24 \/ p = 2^25
         \/ p = 2^26 \/ p = 2^27 \/ p = 2^28 \/ p = 2^29 \/ p = 2^30
      BY <2>1, <2>2, Zenon
    <2> QED
      BY <1>1, <2>3 DEF Powers
  <1>3. ASSUME NEW p \in Powers
        PROVE  p \in PowersOf2
    <2>1. 2^0 \in PowersOf2 /\ 2^1 \in PowersOf2 /\ 2^2 \in PowersOf2
         /\ 2^3 \in PowersOf2 /\ 2^4 \in PowersOf2 /\ 2^5 \in PowersOf2
         /\ 2^6 \in PowersOf2 /\ 2^7 \in PowersOf2 /\ 2^8 \in PowersOf2
         /\ 2^9 \in PowersOf2 /\ 2^10 \in PowersOf2 /\ 2^11 \in PowersOf2
         /\ 2^12 \in PowersOf2 /\ 2^13 \in PowersOf2 /\ 2^14 \in PowersOf2
         /\ 2^15 \in PowersOf2 /\ 2^16 \in PowersOf2 /\ 2^17 \in PowersOf2
         /\ 2^18 \in PowersOf2 /\ 2^19 \in PowersOf2 /\ 2^20 \in PowersOf2
         /\ 2^21 \in PowersOf2 /\ 2^22 \in PowersOf2 /\ 2^23 \in PowersOf2
         /\ 2^24 \in PowersOf2 /\ 2^25 \in PowersOf2 /\ 2^26 \in PowersOf2
         /\ 2^27 \in PowersOf2 /\ 2^28 \in PowersOf2 /\ 2^29 \in PowersOf2
         /\ 2^30 \in PowersOf2
      BY DEF PowersOf2
    <2> QED
      BY <1>1, <2>1 DEF Powers
  <1> QED
    BY <1>2, <1>3, Zenon

(* Up to 2^30 there is a next power, so the number of bins is a number, at *)
(* most 64 or more than that.                                              *)
LEMMA NextPowerExists ==
    ASSUME NEW n \in Nat, n <= 2^30
    PROVE  Pow2Roundup(n) \in Powers /\ Pow2Roundup(n) >= n
  <1>1. n <= 1073741824
    OBVIOUS
  <1>2. \E p \in Powers : p >= n /\ \A q \in Powers : q >= n => p <= q
    BY <1>1 DEF Powers
  <1> QED
    BY <1>2, PowersAreNumbers, Zenon DEF Pow2Roundup

LEMMA HalfPowers ==
    ASSUME NEW p \in Powers
    PROVE  p \div 2 \in Nat /\ (p \div 2 \in {0, 1, 2, 4, 8, 16, 32, 64} \/ p \div 2 > 64)
  BY DEF Powers
-----------------------------------------------------------------------------
(* What RangeProc_config has written by the time it reaches each place.    *)

FromWindow == fpc \in {"window", "adc", "cube", "configure", "configured",
                       "unconfigured"}

SizesSet ==
    /\ dpu.numTx = NumTxAntennas
    /\ dpu.numVirtual = NumTxAntennas * NumRxAntennas
    /\ dpu.bins = CLI_NUM_RBINS
    /\ dpu.chirps = NumChirpsPerFrame
    /\ dpu.doppler = DopplerChirps
    /\ dpu.bpm = (CLI_MIMO_SEL = 4)

Derived ==
    /\ DOMAIN dpu = DOMAIN Blank
    /\ fpc \in FwPlaces
    /\ FromWindow => SizesSet

LEMMA DerivedInit == Init => Derived
  BY DEF Init, FwInit, Derived, FromWindow, FwPlaces

(* What is derived from the header alone changes only with the header.     *)
HeaderValues == <<NumTxAntennas, NumRxAntennas, NumChirpsPerFrame, CLI_MIMO_SEL,
                  DopplerChirps, CLI_NUM_RBINS, CLI_NUM_ADC_SAMPLES>>

LEMMA HeaderValuesKept == defines' = defines => HeaderValues' = HeaderValues
  BY Zenon DEF HeaderValues, NumTxAntennas, NumRxAntennas, NumChirpsPerFrame,
     CLI_MIMO_SEL, DopplerChirps, CLI_NUM_RBINS, CLI_NUM_ADC_SAMPLES

LEMMA DerivedNext == Derived /\ [Next]_vars => Derived'
  <1> SUFFICES ASSUME Derived, [Next]_vars PROVE Derived'
    OBVIOUS
  <1> USE DEF Derived, FromWindow, SizesSet, FwPlaces
  <1>0. defines' = defines =>
          /\ NumTxAntennas' = NumTxAntennas /\ NumRxAntennas' = NumRxAntennas
          /\ NumChirpsPerFrame' = NumChirpsPerFrame /\ CLI_MIMO_SEL' = CLI_MIMO_SEL
          /\ DopplerChirps' = DopplerChirps /\ CLI_NUM_RBINS' = CLI_NUM_RBINS
    BY HeaderValuesKept DEF HeaderValues
  <1>1. CASE Build
    BY <1>1 DEF Build
  <1>2. CASE UNCHANGED fvars
    <2>1. UNCHANGED <<fpc, defines, dpu>>
      BY <1>2 DEF fvars
    <2> QED
      BY <1>0, <2>1
  <1>3. CASE ResetPools
    BY <1>3 DEF ResetPools
  <1>4. CASE SetSizes
    BY <1>0, <1>4 DEF SetSizes, Blank
  <1>5. CASE DivisionTrap \/ ConfigureDpu
    BY <1>0, <1>5 DEF DivisionTrap, ConfigureDpu
  <1>6. CASE AllocWindow
    BY <1>0, <1>6 DEF AllocWindow, Blank
  <1>7. CASE SetAdcBuffer
    BY <1>0, <1>7 DEF SetAdcBuffer, Blank
  <1>8. CASE AllocCube
    BY <1>0, <1>8 DEF AllocCube, Blank
  <1> QED
    BY <1>1, <1>2, <1>3, <1>4, <1>5, <1>6, <1>7, <1>8 DEF Next, FwNext, vars
-----------------------------------------------------------------------------
(* The file *)

LEMMA LastLineIs ==
    ASSUME NEW S, NEW lines \in Seq(S), NEW c, NEW i \in DOMAIN lines,
           lines[i].cmd = c, \A j \in DOMAIN lines : lines[j].cmd = c => j <= i
    PROVE  LastLine(lines, c) = lines[i]
  <1> DEFINE Last(k) == lines[k].cmd = c /\ \A j \in DOMAIN lines : lines[j].cmd = c => j <= k
             k == CHOOSE l \in DOMAIN lines : Last(l)
  <1>1. Last(i)
    OBVIOUS
  <1>2. k \in DOMAIN lines /\ Last(k)
    BY <1>1, Zenon
  <1>3. k = i
    <2>1. k <= i /\ i <= k /\ k \in Int /\ i \in Int
      BY <1>1, <1>2
    <2> QED
      BY <2>1
  <1>4. LastLine(lines, c) = lines[k]
    BY Zenon DEF LastLine
  <1> QED
    BY <1>3, <1>4

(* data holds, for each command it has, the values of the last of the      *)
(* first n lines that has this command.                                    *)
LastOfFirst(n) ==
    \A c \in DOMAIN data : \E i \in 1 .. n :
        /\ file.lines[i].cmd = c /\ data[c] = file.lines[i].val
        /\ \A j \in 1 .. n : file.lines[j].cmd = c => j <= i

(* The rest of the file starts after its first n lines.                    *)
RestAfter(n) ==
    /\ n \in 0 .. Len(file.lines)
    /\ Len(rest) = Len(file.lines) - n
    /\ \A j \in 1 .. Len(rest) : rest[j] = file.lines[n + j]

DataIsFile == \A c \in DOMAIN data : data[c] = LastLine(file.lines, c).val

(* How far the tool has got.                                               *)
Lines == {file.lines[i] : i \in DOMAIN file.lines}
Parsing ==
    /\ file.lines \in Seq(Lines) /\ rest \in Seq(Lines)
    /\ DOMAIN data \subseteq CONFIG_STRUCTURE
    /\ tpc \in {"start", "notRun"} => data = << >>
    /\ tpc = "parse" /\ file.ext = "cfg" => \E n \in Nat : RestAfter(n) /\ LastOfFirst(n)
    /\ tpc = "parse" /\ file.ext = "json" =>
         \/ rest = << >> /\ DataIsFile
         \/ rest = file.lines /\ DOMAIN data = {}
    /\ tpc \in {"output", "ask", "generate", "info", "exit0", "crash"} => DataIsFile

LEMMA ParsingInit == Init => Parsing
  <1> SUFFICES ASSUME Init PROVE Parsing
    OBVIOUS
  <1>1. data = << >> /\ rest = << >> /\ tpc \in {"start", "notRun"}
    BY DEF Init
  <1>2. file.lines \in Seq(Lines)
    <2>1. CASE file \in Files
      BY <2>1, ToolAssumption, Zenon DEF Lines
    <2>2. CASE file = [ext |-> "none", lines |-> << >>]
      BY <2>2
    <2> QED
      BY <2>1, <2>2 DEF Init
  <1>3. DOMAIN data = {} /\ rest \in Seq(Lines)
    BY <1>1
  <1> QED
    BY <1>1, <1>2, <1>3 DEF Parsing

(* A file read to its end gives each command the values of its last line.  *)
LEMMA WholeFileRead ==
    ASSUME NEW S, file.lines \in Seq(S), NEW n \in Nat, RestAfter(n), LastOfFirst(n),
           Len(rest) = 0
    PROVE  DataIsFile
  <1>1. n = Len(file.lines) /\ DOMAIN file.lines = 1 .. n
    BY DEF RestAfter
  <1>2. ASSUME NEW c \in DOMAIN data
        PROVE  data[c] = LastLine(file.lines, c).val
    <2>1. PICK i \in 1 .. n :
            /\ file.lines[i].cmd = c /\ data[c] = file.lines[i].val
            /\ \A j \in 1 .. n : file.lines[j].cmd = c => j <= i
      BY DEF LastOfFirst
    <2>2. LastLine(file.lines, c) = file.lines[i]
      BY <1>1, <2>1, LastLineIs
    <2> QED
      BY <2>1, <2>2
  <1> QED
    BY <1>2 DEF DataIsFile

LEMMA OneMoreLine ==
    ASSUME Parsing, ParseCfgLine, tpc' = "parse"
    PROVE  \E n \in Nat : RestAfter(n)' /\ LastOfFirst(n)'
  <1> DEFINE lines == file.lines
             line == Head(rest)
  <1>1. /\ tpc = "parse" /\ file.ext = "cfg" /\ rest # << >>
        /\ rest' = Tail(rest) /\ file' = file
        /\ data' = IF line.cmd \in CONFIG_STRUCTURE /\ line.ok
                   THEN With(data, line.cmd, line.val) ELSE data
        /\ ~(line.cmd \in CONFIG_STRUCTURE /\ ~line.ok)
    BY DEF ParseCfgLine
  <1>2. PICK n \in Nat : RestAfter(n) /\ LastOfFirst(n)
    BY <1>1 DEF Parsing
  <1>3. lines \in Seq(Lines) /\ rest \in Seq(Lines) /\ DOMAIN data \subseteq CONFIG_STRUCTURE
    BY DEF Parsing
  <1>4. Len(rest) \in Nat \ {0} /\ line = rest[1] /\ rest[1] = lines[n + 1]
    BY <1>1, <1>2, <1>3 DEF RestAfter
  <1>5. RestAfter(n + 1)'
    BY <1>1, <1>2, <1>3, <1>4 DEF RestAfter
  <1>6. ASSUME NEW c \in DOMAIN data'
        PROVE  \E i \in 1 .. n + 1 :
                 /\ lines[i].cmd = c /\ data'[c] = lines[i].val
                 /\ \A j \in 1 .. n + 1 : lines[j].cmd = c => j <= i
    <2>1. CASE c = line.cmd
      <3>1. line.cmd \in CONFIG_STRUCTURE /\ line.ok
        BY <1>1, <1>3, <2>1
      <3>2. data'[c] = line.val
        BY <1>1, <2>1, <3>1 DEF With
      <3> QED
        BY <1>4, <2>1, <3>2
    <2>2. CASE c # line.cmd
      <3>1. c \in DOMAIN data /\ data'[c] = data[c]
        BY <1>1, <2>2 DEF With
      <3>2. PICK i \in 1 .. n :
              /\ lines[i].cmd = c /\ data[c] = lines[i].val
              /\ \A j \in 1 .. n : lines[j].cmd = c => j <= i
        BY <1>2, <3>1 DEF LastOfFirst
      <3>3. \A j \in 1 .. n + 1 : j \in 1 .. n \/ j = n + 1
        OBVIOUS
      <3> QED
        BY <1>4, <2>2, <3>1, <3>2, <3>3
    <2> QED
      BY <2>1, <2>2
  <1>7. LastOfFirst(n + 1)'
    BY <1>1, <1>6 DEF LastOfFirst
  <1> QED
    BY <1>5, <1>7

LEMMA ParsingNext == Parsing /\ [Next]_vars => Parsing'
  <1> SUFFICES ASSUME Parsing, [Next]_vars PROVE Parsing'
    OBVIOUS
  <1>0. file' = file
    BY DEF Next, ToolNext, Build, Start, ParseUnsupported, ParseCfgLine, ParseJson,
           Parsed, ChooseOutput, AskOverwrite, GenerateDefinesFile,
           PrintBasicConfigInfo, vars, tvars
  <1>1. Lines' = Lines
    BY <1>0 DEF Lines
  <1>2. CASE Start
    <2>1. /\ rest' = file.lines /\ data' = data /\ tpc' \in {"exit0", "parse"}
          /\ DOMAIN data = {} /\ file.lines \in Seq(Lines)
      BY <1>2 DEF Start, Parsing
    <2>2. RestAfter(0)' /\ LastOfFirst(0)' /\ DataIsFile'
      BY <1>0, <2>1 DEF RestAfter, LastOfFirst, DataIsFile
    <2> QED
      BY <1>0, <1>1, <2>1, <2>2 DEF Parsing
  <1>3. CASE ParseCfgLine
    <2>1. /\ tpc = "parse" /\ tpc' \in {"parse", "exit1"} /\ file.ext = "cfg"
          /\ rest # << >> /\ rest' = Tail(rest)
      BY <1>3 DEF ParseCfgLine
    <2>2. rest' \in Seq(Lines)
      BY <2>1 DEF Parsing
    <2>3. DOMAIN data' \subseteq CONFIG_STRUCTURE
      BY <1>3 DEF ParseCfgLine, Parsing, With
    <2>4. tpc' = "parse" => \E n \in Nat : RestAfter(n)' /\ LastOfFirst(n)'
      BY <1>3, OneMoreLine
    <2> QED
      BY <1>0, <1>1, <2>1, <2>2, <2>3, <2>4 DEF Parsing
  <1>4. CASE ParseJson
    <2>1. /\ tpc = "parse" /\ tpc' \in {"parse", "exit1"} /\ file.ext = "json"
          /\ rest # << >> /\ rest' = << >>
      BY <1>4 DEF ParseJson
    <2>2. rest = file.lines /\ DOMAIN data = {}
      BY <2>1 DEF Parsing
    <2>3. \/ data' = [c \in Given(file.lines) |-> LastLine(file.lines, c).val]
          \/ data' = data
      BY <1>4, <2>2 DEF ParseJson
    <2>4. DOMAIN data' \subseteq CONFIG_STRUCTURE /\ DataIsFile'
      BY <1>0, <2>2, <2>3 DEF DataIsFile, Given
    <2> QED
      BY <1>0, <1>1, <2>1, <2>4 DEF Parsing
  <1>5. CASE Parsed
    <2>1. /\ tpc = "parse" /\ tpc' \in {"output", "exit1"}
          /\ file.ext \in {"cfg", "json"} /\ rest = << >>
          /\ rest' = rest /\ data' = data
      BY <1>5 DEF Parsed
    <2>2. DataIsFile
      <3>1. CASE file.ext = "cfg"
        <4>1. PICK n \in Nat : RestAfter(n) /\ LastOfFirst(n)
          BY <2>1, <3>1 DEF Parsing
        <4>2. Len(rest) = 0 /\ file.lines \in Seq(Lines)
          BY <2>1 DEF Parsing
        <4> QED
          BY <4>1, <4>2, WholeFileRead
      <3>2. CASE file.ext = "json"
        BY <2>1, <3>2 DEF Parsing, DataIsFile
      <3> QED
        BY <2>1, <3>1, <3>2
    <2>3. DataIsFile'
      BY <1>0, <2>1, <2>2 DEF DataIsFile
    <2> QED
      BY <1>0, <1>1, <2>1, <2>3 DEF Parsing
  <1>6. CASE ParseUnsupported
    BY <1>0, <1>1, <1>6 DEF ParseUnsupported, Parsing
  <1>7. CASE ChooseOutput \/ AskOverwrite \/ GenerateDefinesFile \/ PrintBasicConfigInfo
    <2>1. /\ rest' = rest /\ data' = data
          /\ tpc \in {"output", "ask", "generate", "info"}
          /\ tpc' \in {"ask", "generate", "info", "exit0", "exit1", "crash"}
      BY <1>7 DEF ChooseOutput, AskOverwrite, GenerateDefinesFile, PrintBasicConfigInfo
    <2>2. DataIsFile'
      BY <1>0, <2>1 DEF Parsing, DataIsFile
    <2> QED
      BY <1>0, <1>1, <2>1, <2>2 DEF Parsing
  <1>8. CASE UNCHANGED tvars
    <2>1. UNCHANGED <<file, rest, data, tpc>>
      BY <1>8 DEF tvars
    <2>2. DataIsFile' = DataIsFile
          /\ \A n : RestAfter(n)' = RestAfter(n) /\ LastOfFirst(n)' = LastOfFirst(n)
      BY <2>1 DEF DataIsFile, RestAfter, LastOfFirst
    <2> QED
      BY <1>1, <2>1, <2>2 DEF Parsing
  <1> QED
    BY <1>2, <1>3, <1>4, <1>5, <1>6, <1>7, <1>8 DEF Next, ToolNext, Build, vars

(* What a tool wrote that got as far as the header, and what the firmware was      *)
(* built with after it had ended.                                          *)
Told ==
    /\ DOMAIN headers = Places
    /\ dest \in Places
    /\ tpc = "info" => headers[dest] = data
    /\ Generated => headers[dest] = data
    /\ fpc # "off" =>
         /\ tpc \in Ended
         /\ Complete(defines)
         /\ Generated /\ dest = "include" => defines = data

LEMMA ToldInit == Init => Told
  BY ConfigurationAssumption DEF Init, FwInit, Told, Generated, Places

LEMMA DesiredPlaces ==
    ASSUME NEW o \in OutputArgs
    PROVE  Desired(o) \in {"include", "other", "nowhere"}
  <1>1. CASE o \in {"none", "includeDir"}
    BY <1>1 DEF Desired
  <1>2. CASE o = "otherPath"
    BY <1>2 DEF Desired
  <1>3. CASE o \in {"bareName", "missingDir"}
    BY <1>3 DEF Desired
  <1> QED
    BY <1>1, <1>2, <1>3 DEF OutputArgs

LEMMA ToldNext == Told /\ Parsing /\ [Next]_vars => Told'
  <1> SUFFICES ASSUME Told, Parsing, [Next]_vars PROVE Told'
    OBVIOUS
  <1> USE DEF Told, Generated
  <1>1. CASE ToolNext /\ UNCHANGED fvars
    <2>1. tpc \notin Ended /\ fpc = "off" /\ fpc' = "off"
      BY <1>1 DEF ToolNext, Ended, fvars, Start, ParseUnsupported, ParseCfgLine, ParseJson,
         Parsed, ChooseOutput, AskOverwrite, GenerateDefinesFile, PrintBasicConfigInfo
    <2>2. CASE Start
      <3>1. data = << >>
        BY <2>2 DEF Start, Parsing
      <3> QED
        BY <2>1, <2>2, <3>1 DEF Start
    <2>3. CASE ParseUnsupported \/ ParseCfgLine \/ ParseJson \/ Parsed \/ AskOverwrite
      BY <2>1, <2>3 DEF ParseUnsupported, ParseCfgLine, ParseJson, Parsed, AskOverwrite
    <2>4. CASE ChooseOutput
      <3>1. /\ out' \in OutputArgs
            /\ \E cwd \in {"work", "include"} :
                 dest' = IF Desired(out') = "nowhere" THEN cwd ELSE Desired(out')
            /\ tpc' \in {"generate", "ask"} /\ headers' = headers
        BY <2>4 DEF ChooseOutput, Fallback
      <3>2. Desired(out') \in {"include", "other", "nowhere"}
        BY <3>1, DesiredPlaces
      <3>3. dest' \in Places
        BY <3>1, <3>2 DEF Places
      <3> QED
        BY <2>1, <3>1, <3>3
    <2>5. CASE GenerateDefinesFile
      BY <2>1, <2>5 DEF GenerateDefinesFile
    <2>6. CASE PrintBasicConfigInfo
      BY <2>1, <2>6 DEF PrintBasicConfigInfo
    <2> QED
      BY <1>1, <2>2, <2>3, <2>4, <2>5, <2>6 DEF ToolNext
  <1>2. CASE Build
    BY <1>2 DEF Build, tvars, Compiles
  <1>3. CASE FwNext /\ UNCHANGED tvars
    <2>1. defines' = defines /\ fpc # "off"
      BY <1>3 DEF FwNext, ResetPools, SetSizes, DivisionTrap, AllocWindow, SetAdcBuffer,
         AllocCube, ConfigureDpu
    <2> QED
      BY <1>3, <2>1 DEF tvars
  <1>4. CASE UNCHANGED vars
    BY <1>4 DEF vars, tvars, fvars
  <1> QED
    BY <1>1, <1>2, <1>3, <1>4 DEF Next

(* When the tool wrote the header in include/, even if it ended with a     *)
(* traceback afterwards, the DPU is configured with the values of the      *)
(* file, for a repeated command those of its last line (chirp_config_to_defines.py:51-106, 120-200, 236-270,     *)
(* rangeproc_dpc.c:186-254).                                               *)
THEOREM FirmwareRunsFile == Spec => []FirmwareRunsTheFile
  <1>1. Told /\ Parsing /\ Derived /\ Layout => FirmwareRunsTheFile
    <2> SUFFICES ASSUME Told, Parsing, Derived, Layout,
                        Generated, dest = "include", CubeAsked
                 PROVE  /\ dpu.samples = Asked("chirpComnCfg").samples
                        /\ dpu.numTx = Cardinality(Asked("channelCfg").tx)
                        /\ dpu.numVirtual = dpu.numTx * Cardinality(Asked("channelCfg").rx)
                        /\ dpu.chirps = Asked("frameCfg").bursts * Asked("frameCfg").chirps
                        /\ dpu.bpm = (Asked("chirpComnCfg").mimo = 4)
      BY DEF FirmwareRunsTheFile
    <2>1. fpc # "off" /\ FromWindow /\ BufferSet
      BY DEF CubeAsked, FromWindow, BufferSet
    <2>2. defines = data /\ CONFIG_STRUCTURE \subseteq DOMAIN data
      BY <2>1 DEF Told, Complete
    <2>3. DataIsFile
      BY DEF Generated, Parsing
    <2>4. \A c \in CONFIG_STRUCTURE : defines[c] = Asked(c)
      BY <2>2, <2>3 DEF DataIsFile, Asked
    <2>5. /\ defines["chirpComnCfg"] = Asked("chirpComnCfg")
          /\ defines["channelCfg"] = Asked("channelCfg")
          /\ defines["frameCfg"] = Asked("frameCfg")
      BY <2>4 DEF CONFIG_STRUCTURE
    <2>6. dpu.samples = CLI_NUM_ADC_SAMPLES /\ SizesSet
      BY <2>1 DEF Layout, Derived
    <2> QED
      BY <2>5, <2>6 DEF SizesSet, CLI_NUM_ADC_SAMPLES, NumTxAntennas, NumRxAntennas,
         NumChirpsPerFrame, CLI_MIMO_SEL
  <1> QED
    BY <1>1, ToldInit, ToldNext, ParsingInit, ParsingNext, DerivedInit, DerivedNext,
       LayoutInit, LayoutNext, PTL DEF Spec
-----------------------------------------------------------------------------
(* The values in the headers *)

LEMMA LeastExists ==
    ASSUME NEW S, S \subseteq Nat, S # {}
    PROVE  \E m \in S : \A n \in S : m <= n
  <1> DEFINE R == OpToRel(<, Nat)
  <1>1. PICK m \in S : \A n \in S : ~ (<<n, m>> \in R)
    BY NatLessThanWellFounded, WFMin, Zenon
  <1>2. \A n \in S : <<n, m>> \in R <=> n < m
    BY DEF OpToRel
  <1> HIDE DEF R
  <1>3. ASSUME NEW n \in S
        PROVE  m <= n
    <2>1. ~ (n < m)
      BY <1>1, <1>2
    <2>2. n \in Nat /\ m \in Nat
      OBVIOUS
    <2> QED
      BY <2>1, <2>2
  <1> QED
    BY <1>3

(* A file that gives a command has a last line that does.                  *)
LEMMA LastLineExists ==
    ASSUME NEW S, NEW lines \in Seq(S), NEW c \in Given(lines)
    PROVE  \E i \in DOMAIN lines : lines[i].cmd = c /\ LastLine(lines, c) = lines[i]
  <1>1. PICK k \in DOMAIN lines : lines[k].cmd = c
    BY DEF Given
  <1>2. PICK n \in Nat : n = Len(lines) /\ DOMAIN lines = 1 .. n
    OBVIOUS
  <1> DEFINE D == {d \in 0 .. n : n - d \in DOMAIN lines /\ lines[n - d].cmd = c}
  <1>3. n - k \in D
    <2>1. n - k \in 0 .. n /\ n - (n - k) = k
      BY <1>1, <1>2
    <2> QED
      BY <1>1, <2>1
  <1>4. D \subseteq Nat /\ D # {}
    BY <1>2, <1>3
  <1>5. PICK d \in D : \A e \in D : d <= e
    <2> HIDE DEF D
    <2> QED
      BY <1>4, LeastExists
  <1>6. PICK i \in DOMAIN lines : i = n - d /\ lines[i].cmd = c
    BY <1>5
  <1>7. ASSUME NEW j \in DOMAIN lines, lines[j].cmd = c
        PROVE  j <= i
    <2>1. n - j \in 0 .. n /\ n - (n - j) = j
      BY <1>2, <1>7
    <2>2. n - j \in D
      BY <1>7, <2>1
    <2>3. d <= n - j
      BY <1>5, <2>2
    <2> QED
      BY <1>2, <1>6, <2>1, <2>3
  <1> HIDE DEF D
  <1>8. LastLine(lines, c) = lines[i]
    BY <1>6, <1>7, LastLineIs
  <1> QED
    BY <1>6, <1>8

LEMMA FileValue ==
    ASSUME NEW f \in Files, NEW i \in DOMAIN f.lines
    PROVE  f.lines[i].val \in CommandValues(f.lines[i].cmd)
  <1>1. f.lines[i].val \in ValuesInFile(f, f.lines[i].cmd)
    BY Zenon DEF ValuesInFile
  <1> QED
    BY <1>1, Zenon DEF CommandValues

LEMMA OldValue ==
    ASSUME NEW old \in OldHeaders, NEW p \in Places, old[p] # Absent, NEW c
    PROVE  old[p][c] \in CommandValues(c)
  <1>1. old[p][c] \in ValuesOnDisk(old, c)
    BY Zenon DEF ValuesOnDisk
  <1> QED
    BY <1>1, Zenon DEF CommandValues

(* Every value in a header is one of a file or of an older header.         *)
Known(h) == \A c \in CONFIG_STRUCTURE \cap DOMAIN h : h[c] \in CommandValues(c)

Sourced ==
    /\ tpc # "notRun" => file \in Files
    /\ Known(data)
    /\ \A p \in Places : headers[p] # Absent => Known(headers[p])
    /\ fpc # "off" => Known(defines)

LEMMA SourcedInit == Init => Sourced
  <1> SUFFICES ASSUME Init PROVE Sourced
    OBVIOUS
  <1>1. Known(data) /\ fpc = "off" /\ (tpc # "notRun" => file \in Files)
    BY DEF Init, FwInit, Known
  <1>2. CASE headers \in OldHeaders
    BY <1>1, <1>2, OldValue DEF Sourced, Known
  <1>3. CASE headers \in {[p \in Places |-> h] : h \in HandHeaders}
    <2>1. PICK h \in HandHeaders : headers = [p \in Places |-> h]
      BY <1>3
    <2>2. \A c : h[c] \in CommandValues(c)
      BY Zenon DEF CommandValues
    <2> QED
      BY <1>1, <2>1, <2>2 DEF Sourced, Known
  <1> QED
    BY <1>2, <1>3 DEF Init

LEMMA SourcedNext == Sourced /\ Parsing /\ Told /\ [Next]_vars => Sourced'
  <1> SUFFICES ASSUME Sourced, Parsing, Told, [Next]_vars PROVE Sourced'
    OBVIOUS
  <1>1. file' = file /\ (tpc' # "notRun" => tpc # "notRun")
    BY DEF Next, ToolNext, Build, Start, ParseUnsupported, ParseCfgLine, ParseJson,
           Parsed, ChooseOutput, AskOverwrite, GenerateDefinesFile,
           PrintBasicConfigInfo, vars, tvars
  <1>2. ASSUME NEW c, NEW i \in DOMAIN file.lines, file.lines[i].cmd = c, tpc = "parse"
        PROVE  file.lines[i].val \in CommandValues(c)
    <2>1. file \in Files
      BY <1>2 DEF Sourced
    <2> QED
      BY <1>2, <2>1, FileValue, Zenon
  <1>3. CASE ParseCfgLine /\ UNCHANGED fvars
    <2> DEFINE line == Head(rest)
    <2>1. /\ tpc = "parse" /\ rest # << >> /\ headers' = headers /\ UNCHANGED <<fpc, defines>>
          /\ \/ data' = data
             \/ data' = With(data, line.cmd, line.val)
      BY <1>3 DEF ParseCfgLine, fvars
    <2>2. PICK i \in DOMAIN file.lines : line = file.lines[i]
      BY <2>1 DEF Parsing, Lines
    <2> HIDE DEF line
    <2>3. line.val \in CommandValues(line.cmd)
      BY <1>2, <2>1, <2>2
    <2>4. Known(data')
      BY <2>1, <2>3 DEF Sourced, Known, With
    <2> QED
      BY <1>1, <2>1, <2>4 DEF Sourced
  <1>4. CASE ParseJson /\ UNCHANGED fvars
    <2>1. /\ tpc = "parse" /\ headers' = headers /\ UNCHANGED <<fpc, defines>>
          /\ rest = file.lines /\ file.lines \in Seq(Lines)
          /\ \/ data' = data
             \/ data' = [c \in Given(rest) |-> LastLine(rest, c).val]
      BY <1>4 DEF ParseJson, Parsing, fvars
    <2>2. \A c \in Given(rest) : LastLine(rest, c).val \in CommandValues(c)
      BY <1>2, <2>1, LastLineExists
    <2>3. Known(data')
      BY <2>1, <2>2 DEF Sourced, Known
    <2> QED
      BY <1>1, <2>1, <2>3 DEF Sourced
  <1>5. CASE GenerateDefinesFile /\ UNCHANGED fvars
    <2>1. /\ data' = data /\ UNCHANGED <<fpc, defines>>
          /\ \E h \in {data, << >>} :
               headers' = headers \/ headers' = [headers EXCEPT ![dest] = h]
      BY <1>5 DEF GenerateDefinesFile, fvars
    <2>2. PICK h \in {data, << >>} :
                 headers' = headers \/ headers' = [headers EXCEPT ![dest] = h]
      BY <2>1
    <2>3. Known(data) /\ Known(<< >>) /\ \A p \in Places : headers[p] # Absent => Known(headers[p])
      BY DEF Sourced, Known
    <2>4. DOMAIN headers = Places
      BY DEF Told
    <2>5. \A p \in Places : headers'[p] \in {h, headers[p]}
      BY <2>2, <2>4
    <2>6. \A p \in Places : headers'[p] # Absent => Known(headers'[p])
      BY <2>2, <2>3, <2>5
    <2> QED
      BY <1>1, <2>1, <2>3, <2>6 DEF Sourced
  <1>6. CASE Build
    <2>1. /\ headers["include"] # Absent /\ "include" \in Places
          /\ defines' = headers["include"] /\ UNCHANGED <<data, headers>>
      BY <1>6 DEF Build, tvars, Places
    <2>2. Known(defines')
      BY <2>1 DEF Sourced
    <2> QED
      BY <1>1, <2>1, <2>2 DEF Sourced
  <1>7. CASE UNCHANGED <<data, headers, defines>> /\ (fpc' # "off" => fpc # "off")
    BY <1>1, <1>7 DEF Sourced
  <1>8. \/ ParseCfgLine /\ UNCHANGED fvars
        \/ ParseJson /\ UNCHANGED fvars
        \/ GenerateDefinesFile /\ UNCHANGED fvars
        \/ Build
        \/ UNCHANGED <<data, headers, defines>> /\ (fpc' # "off" => fpc # "off")
    BY DEF Next, ToolNext, FwNext, Start, ParseUnsupported, Parsed, ChooseOutput,
           AskOverwrite, PrintBasicConfigInfo, ResetPools, SetSizes, DivisionTrap,
           AllocWindow, SetAdcBuffer, AllocCube, ConfigureDpu, vars, tvars, fvars
  <1> QED
    BY <1>3, <1>4, <1>5, <1>6, <1>7, <1>8
-----------------------------------------------------------------------------
(* Numbers *)

(* The size of the cube that the header leads to.                          *)
HeaderCubeSize ==
    CLI_NUM_RBINS * (NumTxAntennas * NumRxAntennas) * SizeofCell * DopplerChirps

(* The configuration is one the firmware's numbers hold: a number of       *)
(* samples whose next power of two exists in 32 bits, and buffers so small *)
(* that no address wraps.                                                  *)
WithinRange ==
    fpc # "off" =>
        /\ CLI_NUM_ADC_SAMPLES <= 2^30
        /\ CoreAddr + CoreSize + WindowSize + 4 < AddrMod
        /\ L3Addr + L3Size + HeaderCubeSize + 4 < AddrMod

(* What the header derives to are numbers.                                 *)
LEMMA AntennaNumbers ==
    ASSUME NEW tx, tx \subseteq 0 .. 1
    PROVE  Cardinality(tx) \in Nat
  <1>1. tx \subseteq 0 .. MaxRx - 1
    BY DEF MaxRx
  <1>2. Cardinality(tx) \in 0 .. 3
    BY <1>1, AntennaCount, Zenon
  <1> QED
    BY <1>2

LEMMA ProductOfNaturals ==
    ASSUME NEW a \in Nat, NEW b \in Nat
    PROVE  a * b \in Nat
  OBVIOUS

LEMMA SizesAreNumbers ==
    ASSUME Compiles(defines), CLI_NUM_ADC_SAMPLES <= 2^30
    PROVE  /\ CLI_NUM_ADC_SAMPLES \in Nat /\ WindowSize \in Nat
           /\ CLI_NUM_RBINS \in Nat
           /\ \/ CLI_NUM_RBINS \in {0, 1, 2, 4, 8, 16, 32, 64}
              \/ CLI_NUM_RBINS > 64
           /\ NumTxAntennas \in Nat /\ NumRxAntennas \in 0 .. 3
           /\ DopplerChirps \in Nat
  <1>1. CLI_NUM_ADC_SAMPLES \in Nat
    BY DEF Compiles, CLI_NUM_ADC_SAMPLES
  <1>2. WindowSize \in Nat
    BY <1>1 DEF WindowSize
  <1>3. /\ CLI_NUM_RBINS \in Nat
        /\ CLI_NUM_RBINS \in {0, 1, 2, 4, 8, 16, 32, 64} \/ CLI_NUM_RBINS > 64
    <2> DEFINE p == Pow2Roundup(CLI_NUM_ADC_SAMPLES)
    <2>1. p \in Powers
      BY <1>1, NextPowerExists
    <2>2. CLI_NUM_RBINS = p \div 2
      BY DEF CLI_NUM_RBINS
    <2> HIDE DEF p
    <2> QED
      BY <2>1, <2>2, HalfPowers
  <1>4. NumTxAntennas \in Nat /\ NumRxAntennas \in 0 .. 3
    BY AntennaCount, AntennaNumbers, Zenon DEF Compiles, NumTxAntennas, NumRxAntennas
  <1>5. NumChirpsPerFrame \in Nat
    BY ProductOfNaturals DEF Compiles, NumChirpsPerFrame
  <1>6. DopplerChirps \in Nat
    BY <1>4, <1>5 DEF DopplerChirps
  <1> QED
    BY <1>1, <1>2, <1>3, <1>4, <1>6

(* Up to three receivers, and as many words per transmitter as it has      *)
(* chirps.                                                                 *)
LEMMA CubeBound ==
    ASSUME NEW bins \in Nat, NEW tx \in Nat, NEW rx \in 0 .. 3, NEW n \in Nat,
           NEW d \in Nat, tx * d <= n
    PROVE  bins * (tx * rx) * 4 * d <= 12 * (bins * n)
  <1>1. PICK w \in Nat : w = tx * d
    BY ProductOfNaturals
  <1>2. PICK r \in Nat : n = w + r
    <2>1. n - w \in Nat /\ n = w + (n - w)
      BY <1>1
    <2> QED
      BY <2>1
  <1>3. PICK u \in Nat, v \in Nat : u = bins * w /\ v = bins * r
    BY ProductOfNaturals
  <1>4. bins * n = u + v
    BY <1>2, <1>3
  <1>5. bins * (tx * rx) * 4 * d = 4 * (u * rx)
    <2>1. bins * (tx * rx) * 4 * d = 4 * ((bins * (tx * d)) * rx)
      OBVIOUS
    <2> QED
      BY <1>1, <1>3, <2>1
  <1>6. u * rx <= 3 * u
    <2>1. rx = 0 \/ rx = 1 \/ rx = 2 \/ rx = 3
      OBVIOUS
    <2> QED
      BY <2>1
  <1>7. u * rx \in Nat
    BY ProductOfNaturals
  <1> QED
    BY <1>4, <1>5, <1>6, <1>7

(* What compiles from known values is in range.                            *)
LEMMA InRange == Sourced /\ Layout => WithinRange
  <1> SUFFICES ASSUME Sourced, Layout, fpc # "off"
               PROVE  /\ CLI_NUM_ADC_SAMPLES <= 2^30
                      /\ CoreAddr + CoreSize + WindowSize + 4 < AddrMod
                      /\ L3Addr + L3Size + HeaderCubeSize + 4 < AddrMod
    BY DEF WithinRange
  <1>1. Compiles(defines) /\ Known(defines)
    BY DEF Sourced, Layout
  <1> DEFINE comn == defines["chirpComnCfg"]
             frame == defines["frameCfg"]
  <1>2. comn \in CommandValues("chirpComnCfg") /\ frame \in CommandValues("frameCfg")
    BY <1>1 DEF Known, Compiles, Complete, CONFIG_STRUCTURE
  <1>3. comn.samples \in Nat /\ frame.chirps \in Nat /\ frame.bursts \in Nat
    BY <1>1 DEF Compiles
  <1>4. /\ comn.samples <= 2^30
        /\ CoreAddr + CoreSize + 4 * ((comn.samples + 1) \div 2) + 4 < AddrMod
        /\ L3Addr + L3Size + 12 * ((Pow2Roundup(comn.samples) \div 2)
             * (frame.bursts * frame.chirps)) + 4 < AddrMod
    BY <1>2, <1>3, AddressAssumption, Zenon
  <1>5. /\ CLI_NUM_ADC_SAMPLES = comn.samples /\ NumChirpsPerFrame = frame.bursts * frame.chirps
        /\ CLI_NUM_RBINS = Pow2Roundup(comn.samples) \div 2
    BY DEF CLI_NUM_ADC_SAMPLES, NumChirpsPerFrame, CLI_NUM_RBINS
  <1> HIDE DEF comn, frame
  <1>6. CLI_NUM_ADC_SAMPLES <= 2^30 /\ CoreAddr + CoreSize + WindowSize + 4 < AddrMod
    BY <1>4, <1>5 DEF WindowSize
  <1>7. PICK bins \in Nat, tx \in Nat, rx \in 0 .. 3, d \in Nat, n \in Nat :
               /\ bins = CLI_NUM_RBINS /\ tx = NumTxAntennas /\ rx = NumRxAntennas
               /\ d = DopplerChirps /\ n = NumChirpsPerFrame
    BY <1>1, <1>3, <1>5, <1>6, SizesAreNumbers, ProductOfNaturals
  <1>8. tx * d <= n
    <2>1. CASE tx = 0
      BY <1>7, <2>1 DEF DopplerChirps
    <2>2. CASE tx # 0
      <3>1. d = n \div tx
        BY <1>7, <2>2 DEF DopplerChirps
      <3>2. n = tx * (n \div tx) + (n % tx) /\ n % tx \in Nat
        BY <2>2, Division, RemainderRange
      <3>3. tx * d \in Nat /\ n = tx * d + (n % tx)
        BY <3>1, <3>2, ProductOfNaturals
      <3> QED
        BY <3>2, <3>3
    <2> QED
      BY <2>1, <2>2
  <1>9. bins * (tx * rx) * 4 * d <= 12 * (bins * n)
    BY <1>8, CubeBound
  <1>10. PICK b \in Int, m \in Int :
               /\ b = bins * (tx * rx) * 4 * d /\ m = 12 * (bins * n)
               /\ b <= m /\ L3Addr + L3Size + m + 4 < AddrMod
    BY <1>4, <1>5, <1>7, <1>9
  <1>11. L3Addr + L3Size + b + 4 < AddrMod
    BY <1>10, RangeAssumption
  <1>12. HeaderCubeSize = b
    BY <1>7, <1>10 DEF HeaderCubeSize, SizeofCell
  <1> QED
    BY <1>6, <1>11, <1>12

LEMMA CubeSizeOfHeader == SizesSet => CubeSize = HeaderCubeSize
  BY DEF SizesSet, CubeSize, HeaderCubeSize

-----------------------------------------------------------------------------
(* Memory *)

(* Where the first block of a pool comes to lie, and when it fits.         *)
LEMMA FirstBlock ==
    ASSUME NEW addr \in Nat, NEW size \in Nat, NEW n \in Nat, NEW mod \in Nat,
           addr + size + n + 4 < mod
    PROVE  LET lo == (addr + ((4 - (addr % 4)) % 4)) % mod
           IN  /\ lo \in Nat /\ addr <= lo /\ lo <= addr + 3
               /\ (lo + n) % mod = lo + n
               /\ (addr + size) % mod = addr + size
  <1> DEFINE pad == (4 - (addr % 4)) % 4
             up == addr + pad
             lo == up % mod
  <1>1. pad \in 0 .. 3
    OBVIOUS
  <1> HIDE DEF pad
  <1>2. up \in Nat /\ addr <= up /\ up <= addr + 3 /\ up < mod
    BY <1>1
  <1> HIDE DEF up
  <1>3. lo = up
    BY <1>2, RemainderOfSmall
  <1> HIDE DEF lo
  <1>4. lo + n \in Nat /\ lo + n < mod /\ addr + size \in Nat /\ addr + size < mod
    BY <1>2, <1>3
  <1>5. (lo + n) % mod = lo + n /\ (addr + size) % mod = addr + size
    BY <1>4, RemainderOfSmall
  <1>6. /\ lo \in Nat /\ addr <= lo /\ lo <= addr + 3
        /\ (lo + n) % mod = lo + n /\ (addr + size) % mod = addr + size
    BY <1>2, <1>3, <1>5
  <1> QED
    BY <1>6 DEF lo, up, pad

(* The blocks that the two allocations find and leave.                     *)
BeforeCube == fpc \in {"sizes", "window", "adc", "cube"}

CubePlaced ==
    IF dpu.cube = NULL
    THEN dpu.cubeSize + 3 > L3Size
    ELSE /\ dpu.cube \in Nat /\ L3Addr <= dpu.cube
         /\ dpu.cube + dpu.cubeSize <= L3Addr + L3Size
         /\ \E b \in l3Blocks : b.lo = dpu.cube /\ b.hi = dpu.cube + dpu.cubeSize

Memory ==
    /\ BeforeCube => l3Curr = L3Addr /\ l3Blocks = {} /\ dpu.cube = NULL
    /\ CubeAsked => dpu.cubeSize = CubeSize /\ CubePlaced

LEMMA MemoryInit == Init => Memory
  BY DEF Init, FwInit, Memory, BeforeCube, CubeAsked

LEMMA CubeSizeIsNumber ==
    ASSUME Compiles(defines), CLI_NUM_ADC_SAMPLES <= 2^30, SizesSet
    PROVE  CubeSize \in Nat
  <1>1. /\ CLI_NUM_RBINS \in Nat /\ NumTxAntennas \in Nat /\ NumRxAntennas \in Nat
        /\ dpu.doppler \in Nat
    BY SizesAreNumbers DEF SizesSet
  <1>2. dpu.numVirtual \in Nat
    BY <1>1, ProductOfNaturals DEF SizesSet
  <1>3. CLI_NUM_RBINS * dpu.numVirtual \in Nat
    BY <1>1, <1>2, ProductOfNaturals
  <1>4. CLI_NUM_RBINS * dpu.numVirtual * SizeofCell \in Nat
    BY <1>3, ProductOfNaturals DEF SizeofCell
  <1> QED
    BY <1>1, <1>4, ProductOfNaturals DEF CubeSize

(* The cube goes to the bottom of the L3 memory, or is as large as that.   *)
LEMMA CubeIsPlaced ==
    ASSUME AllocCube, l3Curr = L3Addr, dpu.cube = NULL, DOMAIN dpu = DOMAIN Blank,
           CubeSize \in Nat, L3Addr + L3Size + CubeSize + 4 < AddrMod
    PROVE  dpu'.cubeSize = CubeSize /\ CubePlaced'
  <1> DEFINE lo == L3Pool!Aligned(4)
             n == CubeSize
  <1>1. L3Addr \in Nat \ {0} /\ L3Size \in Nat /\ AddrMod \in Nat
    BY RangeAssumption
  <1>2. /\ lo \in Nat /\ L3Addr <= lo /\ lo <= L3Addr + 3
        /\ (lo + n) % AddrMod = lo + n
        /\ (L3Addr + L3Size) % AddrMod = L3Addr + L3Size
    BY <1>1, FirstBlock DEF L3Pool!Aligned, L3Pool!MEM_ALIGN
  <1>3. L3Pool!Fits(n, 4) <=> lo + n <= L3Addr + L3Size
    BY <1>2 DEF L3Pool!Fits, L3Pool!Top
  <1> HIDE DEF lo, n
  <1>4. CASE L3Pool!MemPoolAlloc(n, 4) /\ dpu' = [dpu EXCEPT !.cubeSize = n, !.cube = lo]
    <2>1. dpu'.cubeSize = n /\ dpu'.cube = lo
      BY <1>4 DEF Blank
    <2>2. lo + n <= L3Addr + L3Size
      BY <1>3, <1>4 DEF L3Pool!MemPoolAlloc
    <2>3. [lo |-> lo, hi |-> lo + n, align |-> 4] \in l3Blocks'
      BY <1>4 DEF L3Pool!MemPoolAlloc, L3Pool!Hand, lo
    <2>4. \E b \in l3Blocks' : b.lo = lo /\ b.hi = lo + n
      BY <2>3
    <2>5. lo # NULL
      BY <1>1, <1>2 DEF NULL
    <2> QED
      BY <1>2, <2>1, <2>2, <2>4, <2>5 DEF CubePlaced, n
  <1>5. CASE ~L3Pool!Fits(n, 4) /\ dpu' = [dpu EXCEPT !.cubeSize = n]
    <2>1. dpu'.cubeSize = n /\ dpu'.cube = NULL
      BY <1>5 DEF Blank
    <2>2. n + 3 > L3Size
      <3>1. n \in Nat
        BY DEF n
      <3> QED
        BY <1>1, <1>2, <1>3, <1>5, <3>1
    <2> QED
      BY <2>1, <2>2 DEF CubePlaced, n
  <1> QED
    BY <1>4, <1>5 DEF AllocCube, lo, n

LEMMA MemoryNext == Memory /\ Derived /\ Layout /\ WithinRange /\ [Next]_vars => Memory'
  <1> SUFFICES ASSUME Memory, Derived, Layout, WithinRange, [Next]_vars PROVE Memory'
    OBVIOUS
  <1> USE DEF Memory, BeforeCube, CubeAsked
  <1>0. defines' = defines => CLI_NUM_RBINS' = CLI_NUM_RBINS
    BY HeaderValuesKept DEF HeaderValues
  <1>1. CASE Build
    BY <1>1 DEF Build
  <1>2. CASE UNCHANGED fvars \/ DivisionTrap \/ ConfigureDpu
    <2>1. /\ UNCHANGED <<defines, dpu, l3Vars>>
          /\ \/ fpc' \in {fpc, "halted"}
             \/ fpc = "configure" /\ fpc' = "configured"
      BY <1>2 DEF fvars, DivisionTrap, ConfigureDpu, l3Vars
    <2>2. CubeSize' = CubeSize /\ (CubePlaced <=> CubePlaced')
      BY <1>0, <2>1 DEF CubeSize, CubePlaced, l3Vars
    <2> QED
      BY <2>1, <2>2 DEF l3Vars
  <1>3. CASE ResetPools
    BY <1>3 DEF ResetPools, L3Pool!MemPoolReset, Blank, NULL
  <1>4. CASE SetSizes
    BY <1>4 DEF SetSizes, Derived, Blank, l3Vars
  <1>5. CASE AllocWindow
    BY <1>5 DEF AllocWindow, Derived, Blank, l3Vars
  <1>6. CASE SetAdcBuffer
    BY <1>6 DEF SetAdcBuffer, Derived, Blank, l3Vars
  <1>7. CASE AllocCube
    <2>1. fpc = "cube" /\ fpc' = "configure" /\ defines' = defines
      BY <1>7 DEF AllocCube
    <2>2. SizesSet /\ DOMAIN dpu = DOMAIN Blank
      BY <2>1 DEF Derived, FromWindow
    <2>3. CubeSize \in Nat
      BY <2>1, <2>2, CubeSizeIsNumber DEF Layout, WithinRange
    <2>4. dpu'.cubeSize = CubeSize /\ CubePlaced'
      BY <1>7, <2>1, <2>2, <2>3, CubeSizeOfHeader, CubeIsPlaced DEF WithinRange
    <2>5. dpu'.numVirtual = dpu.numVirtual /\ dpu'.doppler = dpu.doppler
      BY <1>7, <2>2 DEF AllocCube, Blank
    <2>6. CubeSize' = CubeSize
      BY <1>0, <2>1, <2>5 DEF CubeSize
    <2> QED
      BY <2>1, <2>4, <2>6
  <1> QED
    BY <1>1, <1>2, <1>3, <1>4, <1>5, <1>6, <1>7 DEF Next, FwNext, vars

(* The pointer to the cube, which nobody checks, is NULL only for a cube   *)
(* that the L3 memory cannot hold, and otherwise points to memory that     *)
(* holds all of it (rangeproc_dpc.c:304-314, mem_pool.c:59-74).            *)
THEOREM CubeInMemory == Spec => []CubeNullOnlyWhenTooBig
  <1>1. Memory => CubeNullOnlyWhenTooBig
    BY DEF Memory, CubePlaced, CubeNullOnlyWhenTooBig
  <1> QED
    BY <1>1, MemoryInit, MemoryNext, InRange, SourcedInit, SourcedNext, ToldInit, ToldNext, ParsingInit,
       ParsingNext, DerivedInit, DerivedNext, LayoutInit, LayoutNext, PTL
       DEF Spec

(* Word i of a cube of at least one word per bin.                          *)
LEMMA WordInCube ==
    ASSUME NEW bins \in Nat, NEW virtual \in Nat, NEW doppler \in Nat,
           bins * virtual * 4 * doppler > 0, NEW i \in 0 .. bins - 1
    PROVE  4 * (i % 256) + 4 <= bins * virtual * 4 * doppler
  <1>1. i % 256 <= i /\ i % 256 \in Nat
    OBVIOUS
  <1>2. 4 * (i % 256) + 4 <= 4 * bins
    BY <1>1
  <1>3. bins > 0
    OBVIOUS
  <1>4. virtual # 0 /\ doppler # 0
    <2>1. CASE virtual = 0
      BY <2>1
    <2>2. CASE doppler = 0
      <3>1. bins * virtual * 4 \in Nat
        BY ProductOfNaturals
      <3> QED
        BY <2>2, <3>1
    <2> QED
      BY <2>1, <2>2
  <1>5. bins * virtual \in Nat \ {0} /\ bins * virtual >= bins
    BY <1>3, <1>4, MultipleGrows, ProductOfNaturals
  <1>6. bins * virtual * 4 \in Nat \ {0} /\ bins * virtual * 4 >= 4 * bins
    BY <1>5
  <1>7. bins * virtual * 4 * doppler >= bins * virtual * 4
    BY <1>4, <1>6, MultipleGrows
  <1> QED
    BY <1>2, <1>6, <1>7

(* Every word that uart_transmit_loop reads lies in the block of the cube  *)
(* (rangeproc_dpc.c:304-314, uart_transmit.c:76-97).                       *)
THEOREM UartStaysInCube == Spec => []UartReadsInCube
  <1>1. Memory /\ Derived /\ Layout /\ WithinRange => UartReadsInCube
    <2> SUFFICES ASSUME Memory, Derived, Layout, WithinRange,
                        fpc = "configured", dpu.cube # NULL, dpu.cubeSize > 0
                 PROVE  \E b \in l3Blocks : \A i \in 0 .. dpu.bins - 1 :
                          /\ b.lo <= dpu.cube + SizeofCell * (i % IndexMod)
                          /\ dpu.cube + SizeofCell * (i % IndexMod) + SizeofCell <= b.hi
      BY Zenon DEF UartReadsInCube
    <2>1. /\ dpu.cube \in Nat /\ dpu.cubeSize = CubeSize
          /\ \E b \in l3Blocks : b.lo = dpu.cube /\ b.hi = dpu.cube + dpu.cubeSize
      BY DEF Memory, CubeAsked, CubePlaced
    <2>2. PICK b \in l3Blocks : b.lo = dpu.cube /\ b.hi = dpu.cube + dpu.cubeSize
      BY <2>1, Zenon
    <2>3. SizesSet /\ Compiles(defines) /\ CLI_NUM_ADC_SAMPLES <= 2^30
      BY DEF Derived, FromWindow, Layout, WithinRange
    <2>4. dpu.bins \in Nat /\ dpu.numVirtual \in Nat /\ dpu.doppler \in Nat
      BY <2>3, SizesAreNumbers, ProductOfNaturals DEF SizesSet
    <2>5. dpu.cubeSize = dpu.bins * dpu.numVirtual * 4 * dpu.doppler
      BY <2>1, <2>3 DEF CubeSize, SizeofCell, SizesSet
    <2>6. ASSUME NEW i \in 0 .. dpu.bins - 1
          PROVE  /\ b.lo <= dpu.cube + SizeofCell * (i % IndexMod)
                 /\ dpu.cube + SizeofCell * (i % IndexMod) + SizeofCell <= b.hi
      <3>1. i % 256 \in Nat
        BY <2>4
      <3>2. 4 * (i % 256) + 4 <= dpu.cubeSize
        BY <2>4, <2>5, WordInCube
      <3>3. dpu.cubeSize \in Nat
        BY <2>1, <2>3, CubeSizeIsNumber
      <3> QED
        BY <2>1, <2>2, <3>1, <3>2, <3>3 DEF SizeofCell, IndexMod
    <2> QED
      BY <2>2, <2>6, Zenon
  <1> QED
    BY <1>1, MemoryInit, MemoryNext, InRange, SourcedInit, SourcedNext, ToldInit, ToldNext, ParsingInit,
       ParsingNext, DerivedInit, DerivedNext, LayoutInit, LayoutNext, PTL
       DEF Spec
-----------------------------------------------------------------------------
(* The plotter *)

(* 256 bytes after a header, the byte that would have to start a footer is *)
(* at no multiple of the length of a packet from one, for any power of two *)
(* from 8 on but the plotter's own 64.                                     *)
LEMMA NoFooterThere ==
    ASSUME NEW b \in Nat, b \in {8, 16, 32} \/ b > 64
    PROVE  (256 - b * 4) % (b * 4 + 8) # 0
  <1>1. CASE b = 8 \/ b = 16 \/ b = 32
    BY <1>1
  <1>2. CASE b > 64
    <2> DEFINE m == b * 4 + 8
    <2>1. m \in Nat /\ m > 264 /\ 256 - b * 4 = 264 - m
      BY <1>2
    <2> HIDE DEF m
    <2>2. (264 - m) % m = 264
      BY <2>1
    <2> QED
      BY <2>1, <2>2 DEF m
  <1> QED
    BY <1>1, <1>2

(* A firmware with another number of bins, from 8 on, sends no stream in   *)
(* which the plotter finds a footer where it looks for one                 *)
(* (CLI_NUM_RBINS of defines.h:44, uart_transmit.c:68-105,                 *)
(* uart_range_plotter.py:32-56).                                           *)
THEOREM PacketsNeverMixed == Spec => []PlotterNeverMixesPackets
  <1>1. Derived /\ Layout /\ WithinRange => PlotterNeverMixesPackets
    <2> SUFFICES ASSUME Derived, Layout, WithinRange, fpc = "configured",
                        dpu.bins >= 8, dpu.bins * 4 # 64 * 4
                 PROVE  (64 * 4 - dpu.bins * 4) % (dpu.bins * 4 + 8) # 0
      BY DEF PlotterNeverMixesPackets, PayloadSize, FrameSize, DATA_LENGTH, SAMPLE_SIZE,
             SizeofCell
    <2>1. SizesSet /\ Compiles(defines) /\ CLI_NUM_ADC_SAMPLES <= 2^30
      BY DEF Derived, FromWindow, Layout, WithinRange
    <2>2. /\ dpu.bins \in Nat
          /\ dpu.bins \in {0, 1, 2, 4, 8, 16, 32, 64} \/ dpu.bins > 64
      BY <2>1, SizesAreNumbers DEF SizesSet
    <2>3. dpu.bins \in {8, 16, 32} \/ dpu.bins > 64
      BY <2>2
    <2>4. (256 - dpu.bins * 4) % (dpu.bins * 4 + 8) # 0
      BY <2>2, <2>3, NoFooterThere
    <2> QED
      BY <2>4
  <1> QED
    BY <1>1, InRange, SourcedInit, SourcedNext, ToldInit, ToldNext, ParsingInit,
       ParsingNext, DerivedInit, DerivedNext, LayoutInit, LayoutNext, PTL DEF Spec
-----------------------------------------------------------------------------
(* Types *)

ToolTyped ==
    /\ tpc \in Ended \cup {"start", "parse", "output", "ask", "generate", "info"}
    /\ out \in OutputArgs /\ asked \in {"none", "y", "n"}

LEMMA ToolTypedInit == Init => ToolTyped
  BY DEF Init, ToolTyped, Ended, OutputArgs

LEMMA ToolTypedNext == ToolTyped /\ [Next]_vars => ToolTyped'
  <1> SUFFICES ASSUME ToolTyped, [Next]_vars PROVE ToolTyped'
    OBVIOUS
  <1> USE DEF ToolTyped, Ended
  <1>1. CASE Start \/ ParseUnsupported \/ ParseCfgLine \/ ParseJson \/ Parsed
    BY <1>1 DEF Start, ParseUnsupported, ParseCfgLine, ParseJson, Parsed
  <1>2. CASE ChooseOutput
    BY <1>2 DEF ChooseOutput
  <1>3. CASE AskOverwrite
    BY <1>3 DEF AskOverwrite
  <1>4. CASE GenerateDefinesFile \/ PrintBasicConfigInfo
    BY <1>4 DEF GenerateDefinesFile, PrintBasicConfigInfo
  <1>5. CASE UNCHANGED tvars
    BY <1>5 DEF tvars
  <1> QED
    BY <1>1, <1>2, <1>3, <1>4, <1>5 DEF Next, ToolNext, Build, vars

DpuNumbers == {dpu.numTx, dpu.bins, dpu.doppler, dpu.cubeSize, dpu.cube} \subseteq Nat

Pools ==
    /\ CorePool!TypeOK /\ L3Pool!TypeOK
    /\ fpc \in {"sizes", "window"} => coreCurr = CoreAddr

LEMMA PoolsInit == Init => DpuNumbers /\ Pools
  BY DEF Init, FwInit, DpuNumbers, Blank, NULL, Pools, CorePool!Init, CorePool!TypeOK,
     L3Pool!Init, L3Pool!TypeOK

LEMMA DpuNumbersNext ==
    DpuNumbers /\ Memory /\ Derived /\ Layout /\ WithinRange /\ [Next]_vars /\ Memory'
      => DpuNumbers'
  <1> SUFFICES ASSUME DpuNumbers, Memory, Derived, Layout, WithinRange, [Next]_vars, Memory'
               PROVE  DpuNumbers'
    OBVIOUS
  <1>1. CASE dpu' = dpu
    BY <1>1 DEF DpuNumbers
  <1>2. CASE ResetPools
    BY <1>2 DEF ResetPools, DpuNumbers, Blank, NULL
  <1>3. CASE SetSizes
    <2>1. Compiles(defines) /\ CLI_NUM_ADC_SAMPLES <= 2^30
      BY <1>3 DEF SetSizes, Layout, WithinRange
    <2>2. NumTxAntennas \in Nat /\ CLI_NUM_RBINS \in Nat /\ DopplerChirps \in Nat
      BY <2>1, SizesAreNumbers
    <2>3. /\ dpu'.numTx = NumTxAntennas /\ dpu'.bins = CLI_NUM_RBINS
          /\ dpu'.doppler = DopplerChirps
          /\ dpu'.cubeSize = dpu.cubeSize /\ dpu'.cube = dpu.cube
      BY <1>3 DEF SetSizes, Derived, Blank
    <2> QED
      BY <2>2, <2>3 DEF DpuNumbers
  <1>4. CASE AllocWindow
    BY <1>4 DEF AllocWindow, Derived, Blank, DpuNumbers
  <1>5. CASE SetAdcBuffer
    BY <1>5 DEF SetAdcBuffer, Derived, Blank, DpuNumbers
  <1>6. CASE AllocCube
    <2>1. fpc = "cube" /\ fpc' = "configure"
      BY <1>6 DEF AllocCube
    <2>2. CubeSize \in Nat
      BY <2>1, CubeSizeIsNumber DEF Layout, WithinRange, Derived, FromWindow
    <2>3. /\ dpu'.numTx = dpu.numTx /\ dpu'.bins = dpu.bins /\ dpu'.doppler = dpu.doppler
          /\ dpu'.cubeSize = CubeSize
      BY <1>6 DEF AllocCube, Derived, Blank
    <2>4. dpu'.cube \in Nat
      BY <2>1 DEF Memory, CubeAsked, CubePlaced, NULL
    <2> QED
      BY <2>2, <2>3, <2>4 DEF DpuNumbers
  <1>7. dpu' = dpu \/ ResetPools \/ SetSizes \/ AllocWindow \/ SetAdcBuffer \/ AllocCube
    BY DEF Next, FwNext, Build, DivisionTrap, ConfigureDpu, vars, fvars
  <1> QED
    BY <1>1, <1>2, <1>3, <1>4, <1>5, <1>6, <1>7

LEMMA CoreAllocTyped ==
    ASSUME CorePool!TypeOK, NEW n \in Nat, coreCurr = CoreAddr,
           CoreAddr + CoreSize + n + 4 < AddrMod, CorePool!MemPoolAlloc(n, 4)
    PROVE  CorePool!TypeOK'
  <1> DEFINE lo == CorePool!Aligned(4)
  <1>1. CoreAddr \in Nat \ {0} /\ CoreSize \in Nat /\ AddrMod \in Nat
    BY RangeAssumption
  <1>2. /\ lo \in Nat /\ CoreAddr <= lo
        /\ (lo + n) % AddrMod = lo + n
        /\ (CoreAddr + CoreSize) % AddrMod = CoreAddr + CoreSize
    BY <1>1, FirstBlock DEF CorePool!Aligned, CorePool!MEM_ALIGN
  <1>3. lo + n <= CoreAddr + CoreSize
    BY <1>2 DEF CorePool!MemPoolAlloc, CorePool!Fits, CorePool!Top
  <1> HIDE DEF lo
  <1>4. /\ coreCurr' = lo + n
        /\ coreBlocks' = coreBlocks \cup {[lo |-> lo, hi |-> lo + n, align |-> 4]}
        /\ coreMax' = CorePool!MaxOf(coreCurr', coreMax) /\ coreMark' = coreMark
    BY <1>2 DEF CorePool!MemPoolAlloc, CorePool!Hand, lo
  <1>5. coreMax' \in {coreCurr', coreMax}
    BY <1>4 DEF CorePool!MaxOf
  <1>6. [lo |-> lo, hi |-> lo + n, align |-> 4] \in CorePool!Block
    BY <1>2 DEF CorePool!Block
  <1>7. coreCurr' \in CorePool!Bottom .. CorePool!Top
    BY <1>1, <1>2, <1>3, <1>4 DEF CorePool!Bottom, CorePool!Top
  <1> QED
    BY <1>4, <1>5, <1>6, <1>7 DEF CorePool!TypeOK

LEMMA L3AllocTyped ==
    ASSUME L3Pool!TypeOK, NEW n \in Nat, l3Curr = L3Addr,
           L3Addr + L3Size + n + 4 < AddrMod, L3Pool!MemPoolAlloc(n, 4)
    PROVE  L3Pool!TypeOK'
  <1> DEFINE lo == L3Pool!Aligned(4)
  <1>1. L3Addr \in Nat \ {0} /\ L3Size \in Nat /\ AddrMod \in Nat
    BY RangeAssumption
  <1>2. /\ lo \in Nat /\ L3Addr <= lo
        /\ (lo + n) % AddrMod = lo + n
        /\ (L3Addr + L3Size) % AddrMod = L3Addr + L3Size
    BY <1>1, FirstBlock DEF L3Pool!Aligned, L3Pool!MEM_ALIGN
  <1>3. lo + n <= L3Addr + L3Size
    BY <1>2 DEF L3Pool!MemPoolAlloc, L3Pool!Fits, L3Pool!Top
  <1> HIDE DEF lo
  <1>4. /\ l3Curr' = lo + n
        /\ l3Blocks' = l3Blocks \cup {[lo |-> lo, hi |-> lo + n, align |-> 4]}
        /\ l3Max' = L3Pool!MaxOf(l3Curr', l3Max) /\ l3Mark' = l3Mark
    BY <1>2 DEF L3Pool!MemPoolAlloc, L3Pool!Hand, lo
  <1>5. l3Max' \in {l3Curr', l3Max}
    BY <1>4 DEF L3Pool!MaxOf
  <1>6. [lo |-> lo, hi |-> lo + n, align |-> 4] \in L3Pool!Block
    BY <1>2 DEF L3Pool!Block
  <1>7. l3Curr' \in L3Pool!Bottom .. L3Pool!Top
    BY <1>1, <1>2, <1>3, <1>4 DEF L3Pool!Bottom, L3Pool!Top
  <1> QED
    BY <1>4, <1>5, <1>6, <1>7 DEF L3Pool!TypeOK

LEMMA PoolsNext ==
    Pools /\ Memory /\ Derived /\ Layout /\ WithinRange /\ [Next]_vars => Pools'
  <1> SUFFICES ASSUME Pools, Memory, Derived, Layout, WithinRange, [Next]_vars PROVE Pools'
    OBVIOUS
  <1>1. CASE UNCHANGED <<coreVars, l3Vars>> /\ (fpc' \notin {"sizes", "window"}
             \/ fpc \in {"sizes", "window"})
    BY <1>1 DEF Pools, coreVars, l3Vars, CorePool!TypeOK, L3Pool!TypeOK
  <1>2. CASE ResetPools
    <2>1. /\ coreCurr' = CoreAddr /\ coreMax' = CoreAddr /\ coreMark' = CoreAddr
          /\ coreBlocks' = {}
          /\ l3Curr' = L3Addr /\ l3Max' = L3Addr /\ l3Mark' = L3Addr /\ l3Blocks' = {}
      BY <1>2 DEF ResetPools, CorePool!MemPoolReset, L3Pool!MemPoolReset
    <2>2. CoreAddr \in CorePool!Bottom .. CorePool!Top /\ L3Addr \in L3Pool!Bottom .. L3Pool!Top
      BY RangeAssumption DEF CorePool!Bottom, CorePool!Top, L3Pool!Bottom, L3Pool!Top
    <2> QED
      BY <2>1, <2>2 DEF Pools, CorePool!TypeOK, L3Pool!TypeOK
  <1>3. CASE AllocWindow
    <2>1. fpc = "window" /\ fpc' \in {"adc", "unconfigured"} /\ UNCHANGED l3Vars
      BY <1>3 DEF AllocWindow
    <2>2. CASE CorePool!MemPoolAlloc(WindowSize, 4)
      <3>1. WindowSize \in Nat /\ CoreAddr + CoreSize + WindowSize + 4 < AddrMod
        BY <2>1, SizesAreNumbers DEF Layout, WithinRange
      <3>2. CorePool!TypeOK'
        BY <2>1, <2>2, <3>1, CoreAllocTyped DEF Pools
      <3> QED
        BY <2>1, <3>2 DEF Pools, l3Vars, L3Pool!TypeOK
    <2>3. CASE UNCHANGED coreVars
      BY <2>1, <2>3 DEF Pools, coreVars, l3Vars, CorePool!TypeOK, L3Pool!TypeOK
    <2> QED
      BY <1>3, <2>2, <2>3 DEF AllocWindow
  <1>4. CASE AllocCube
    <2>1. fpc = "cube" /\ fpc' = "configure" /\ UNCHANGED coreVars
      BY <1>4 DEF AllocCube
    <2>2. CASE L3Pool!MemPoolAlloc(CubeSize, 4)
      <3>1. CubeSize \in Nat /\ L3Addr + L3Size + CubeSize + 4 < AddrMod
        BY <2>1, CubeSizeIsNumber, CubeSizeOfHeader
           DEF Layout, WithinRange, Derived, FromWindow
      <3>2. L3Pool!TypeOK'
        BY <2>1, <2>2, <3>1, L3AllocTyped DEF Pools, Memory, BeforeCube
      <3> QED
        BY <2>1, <3>2 DEF Pools, coreVars, CorePool!TypeOK
    <2>3. CASE UNCHANGED l3Vars
      BY <2>1, <2>3 DEF Pools, coreVars, l3Vars, CorePool!TypeOK, L3Pool!TypeOK
    <2> QED
      BY <1>4, <2>2, <2>3 DEF AllocCube
  <1>5. \/ ResetPools \/ AllocWindow \/ AllocCube
        \/ UNCHANGED <<coreVars, l3Vars>> /\ (fpc' \notin {"sizes", "window"}
             \/ fpc \in {"sizes", "window"})
    BY DEF Next, FwNext, Build, SetSizes, DivisionTrap, SetAdcBuffer, ConfigureDpu,
       vars, fvars
  <1> QED
    BY <1>1, <1>2, <1>3, <1>4, <1>5

(* The tool's state, the numbers the DPU is given and both pools keep      *)
(* their types (chirp_config_to_defines.py:51-106, 221-273,                *)
(* rangeproc_dpc.c:177-346, mem_pool.c:41-74).                             *)
THEOREM ConfigurationTyped == Spec => []TypeOK
  <1>1. ToolTyped /\ Told /\ Parsing /\ Derived /\ DpuNumbers /\ Pools => TypeOK
    BY Zenon DEF ToolTyped, Told, Parsing, Derived, DpuNumbers, Pools, TypeOK
  <1> QED
    BY <1>1, InRange, SourcedInit, SourcedNext, ToolTypedInit, ToolTypedNext, ToldInit, ToldNext, ParsingInit, ParsingNext,
       DerivedInit, DerivedNext, PoolsInit, PoolsNext, DpuNumbersNext, MemoryInit,
       MemoryNext, LayoutInit, LayoutNext, PTL DEF Spec
=============================================================================
