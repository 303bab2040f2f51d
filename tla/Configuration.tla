--------------------------- MODULE Configuration -----------------------------
(***************************************************************************)
(* From a configuration file to what the hardware is told: the converter   *)
(* script writes defines.h (ConfigTool), the firmware is built with the    *)
(* header that lies in include/, and its dpc task derives sizes and        *)
(* buffers from it (RangeConfig).  The plotter at the other end has its    *)
(* own idea of the size of a frame.                                        *)
(***************************************************************************)
EXTENDS ConfigTool, RangeConfig

CONSTANTS
    OldHeaders,   \* what may lie in the three places before the tool runs
    HandHeaders   \* headers the firmware is built with without the tool

(* No header is half written to begin with.                                *)
ASSUME ConfigurationAssumption ==
    /\ \A old \in OldHeaders : /\ DOMAIN old = Places
                                /\ \A p \in Places : old[p] = Absent \/ Complete(old[p])
    /\ \A h \in HandHeaders : Complete(h)

(* The values that a header may give a command.                            *)
ValuesOnDisk(old, c) == {old[p][c] : p \in {q \in Places : old[q] # Absent}}

ValuesInFile(f, c) == {f.lines[i].val : i \in {j \in DOMAIN f.lines : f.lines[j].cmd = c}}

CommandValues(c) ==
    {h[c] : h \in HandHeaders}
      \cup (UNION {ValuesOnDisk(old, c) : old \in OldHeaders})
      \cup (UNION {ValuesInFile(f, c) : f \in Files})

(* AddrMod is beyond every address that a window or a cube of such values  *)
(* may reach, and the number of samples can be rounded up to a power of    *)
(* two.                                                                    *)
ASSUME AddressAssumption ==
    \A comn \in CommandValues("chirpComnCfg"), frame \in CommandValues("frameCfg") :
        comn.samples \in Nat /\ frame.chirps \in Nat /\ frame.bursts \in Nat =>
            LET bins == Pow2Roundup(comn.samples) \div 2
            IN  /\ comn.samples <= 2^30
                /\ CoreAddr + CoreSize + 4 * ((comn.samples + 1) \div 2) + 4 < AddrMod
                /\ L3Addr + L3Size + 12 * (bins * (frame.bursts * frame.chirps)) + 4
                     < AddrMod

vars == <<tvars, fvars>>

DATA_LENGTH == 64
SAMPLE_SIZE == 4

Init ==
    /\ FwInit
    /\ rest = << >> /\ data = << >>
    /\ out = "none" /\ dest = "include" /\ asked = "none"
    /\ \/ tpc = "start"  /\ file \in Files /\ headers \in OldHeaders
       \/ /\ tpc = "notRun" /\ file = [ext |-> "none", lines |-> << >>]
          /\ headers \in {[p \in Places |-> h] : h \in HandHeaders}

(* The code computes with these values; the masks are sets of channels.    *)
Compiles(h) ==
    /\ Complete(h)
    /\ h["chirpComnCfg"].samples \in Nat
    /\ h["channelCfg"].rx \subseteq 0 .. MaxRx - 1 /\ h["channelCfg"].tx \subseteq 0 .. 1
    /\ h["frameCfg"].chirps \in Nat /\ h["frameCfg"].bursts \in Nat
    /\ h["chirpTimingCfg"].slope # "text" /\ h["chirpComnCfg"].ramp # "text"

(* The firmware is built, flashed and started.  Without a header in        *)
(* include/, or with one whose values are no numbers, it does not compile. *)
Build ==
    /\ fpc = "off" /\ tpc \in Ended
    /\ headers["include"] # Absent /\ Compiles(headers["include"])
    /\ defines' = headers["include"]
    /\ fpc' = "reset"
    /\ UNCHANGED <<dpu, coreVars, l3Vars, tvars>>

Next ==
    \/ ToolNext /\ UNCHANGED fvars
    \/ Build
    \/ FwNext /\ UNCHANGED tvars

Spec == Init /\ [][Next]_vars
-----------------------------------------------------------------------------
(* Properties *)

FwPlaces == {"off", "reset", "sizes", "window", "adc", "cube",
             "configure", "configured", "unconfigured", "exited", "halted"}

TypeOK ==
    /\ tpc \in Ended \cup {"start", "parse", "output", "ask", "generate", "info"}
    /\ DOMAIN data \subseteq CONFIG_STRUCTURE
    /\ out \in OutputArgs /\ dest \in Places /\ asked \in {"none", "y", "n"}
    /\ fpc \in FwPlaces
    /\ DOMAIN dpu = DOMAIN Blank
    /\ {dpu.numTx, dpu.bins, dpu.doppler, dpu.cubeSize, dpu.cube} \subseteq Nat
    /\ CorePool!TypeOK /\ L3Pool!TypeOK

(* When the tool has written the header in include/, whether it ends well  *)
(* or with a traceback over the values it prints afterwards, a firmware    *)
(* built then is configured with the values of the file: for a command     *)
(* that the file repeats, those of its last line.                          *)
Generated ==
    /\ data # << >>
    /\ tpc = "exit0" \/ (tpc = "crash" /\ headers[dest] = data)
Asked(c) == LastLine(file.lines, c).val
FirmwareRunsTheFile ==
    (Generated /\ dest = "include" /\ CubeAsked) =>
        /\ dpu.samples = Asked("chirpComnCfg").samples
        /\ dpu.numTx = Cardinality(Asked("channelCfg").tx)
        /\ dpu.numVirtual = dpu.numTx * Cardinality(Asked("channelCfg").rx)
        /\ dpu.chirps = Asked("frameCfg").bursts * Asked("frameCfg").chirps
        /\ dpu.bpm = (Asked("chirpComnCfg").mimo = 4)

(* The plotter reads DATA_LENGTH samples after a header and shows them if  *)
(* a footer follows.  A firmware with another number of bins (from 8 on)   *)
(* sends a stream of packets, each 8 bytes of markers and its payload, in  *)
(* which no footer begins that many bytes after a header: the plotter      *)
(* shows nothing, rather than a frame put together from several packets.   *)
PayloadSize == dpu.bins * SizeofCell
FrameSize   == DATA_LENGTH * SAMPLE_SIZE
PlotterNeverMixesPackets ==
    (fpc = "configured" /\ dpu.bins >= 8 /\ PayloadSize # FrameSize) =>
        (FrameSize - PayloadSize) % (PayloadSize + 8) # 0
=============================================================================
