----------------------------- MODULE ConfigTool ------------------------------
(***************************************************************************)
(* scripts/chirp_config_to_defines.py: one call of the tool that turns a   *)
(* radar configuration into defines.h, on a file system where older        *)
(* headers may lie about.                                                  *)
(*                                                                         *)
(* An input file is [ext, lines]; a line is [cmd, ok, val]: the command,   *)
(* whether it has the right parameters, and their values as a record.  A   *)
(* header is the function from commands to values it was generated from.   *)
(* A number of samples is NoNumber where the text is none; of the slope    *)
(* and the ramp time, "zero", "number" or "text" is kept.                  *)
(* Command line arguments, answers and the outcome of system calls are     *)
(* chosen where the tool first uses them.                                  *)
(*                                                                         *)
(* X_Something is X with a plausible mistake; it is used nowhere here.     *)
(***************************************************************************)
EXTENDS Integers, Sequences

CONSTANTS
    Files,   \* the input files
    Absent   \* no header here

(* The lines of a file are a sequence.                                     *)
ASSUME ToolAssumption ==
    \A f \in Files : f.lines \in Seq({f.lines[i] : i \in DOMAIN f.lines})

CONFIG_STRUCTURE == {"channelCfg", "chirpComnCfg", "chirpTimingCfg", "frameCfg",
                     "factoryCalibCfg", "sensorStart"}

(* Where a defines.h can be: include/ of the firmware, which the build     *)
(* reads; another existing directory or file; the working directory.       *)
Places == {"include", "other", "work"}

VARIABLES
    file,    \* the input file
    rest,    \* its lines that are still to be parsed
    data,    \* commands parsed so far, with their values
    tpc,     \* where main() is
    out,     \* args.output
    dest,    \* final: the place the header goes to
    asked,   \* the answer to "overwrite?": "none", "y" or "n"
    headers  \* the file system: what defines.h holds in each place

tvars == <<file, rest, data, tpc, out, dest, asked, headers>>

Complete(h) == CONFIG_STRUCTURE \subseteq DOMAIN h
Ended == {"notRun", "exit0", "exit1", "crash"}
-----------------------------------------------------------------------------
(* main: the arguments.  Without an input file, or with -h, the usage is   *)
(* printed and that is all.                                                *)
Start ==
    /\ tpc = "start"
    /\ tpc' \in {"exit0", "parse"}
    /\ rest' = file.lines
    /\ UNCHANGED <<file, data, out, dest, asked, headers>>

(* parse_config_file: another extension, or a file that cannot be read.    *)
ParseUnsupported ==
    /\ tpc = "parse" /\ file.ext \notin {"cfg", "json"}
    /\ tpc' = "exit1"
    /\ UNCHANGED <<file, rest, data, out, dest, asked, headers>>

With(d, c, v) == [k \in DOMAIN d \cup {c} |-> IF k = c THEN v ELSE d[k]]

ParseCfgLine_FirstWins ==
    /\ tpc = "parse" /\ file.ext = "cfg" /\ rest # << >>
    /\ LET line == Head(rest)
           expected == line.cmd \in CONFIG_STRUCTURE
       IN  /\ data' = IF expected /\ line.ok /\ line.cmd \notin DOMAIN data
                      THEN With(data, line.cmd, line.val) ELSE data
           /\ tpc' = IF expected /\ ~line.ok THEN "exit1" ELSE tpc
    /\ rest' = Tail(rest)
    /\ UNCHANGED <<file, out, dest, asked, headers>>

ParseCfgLine_KeepsUnknown ==
    /\ tpc = "parse" /\ file.ext = "cfg" /\ rest # << >>
    /\ LET line == Head(rest)
       IN  /\ data' = IF line.ok THEN With(data, line.cmd, line.val) ELSE data
           /\ tpc' = IF ~line.ok THEN "exit1" ELSE tpc
    /\ rest' = Tail(rest)
    /\ UNCHANGED <<file, out, dest, asked, headers>>

(* parse_cfg_file, one line: comments and unknown commands are skipped, a  *)
(* wrong number of arguments ends the tool, a repeated command overrides.  *)
ParseCfgLine ==
    /\ tpc = "parse" /\ file.ext = "cfg" /\ rest # << >>
    /\ LET line == Head(rest)
           expected == line.cmd \in CONFIG_STRUCTURE
       IN  /\ data' = IF expected /\ line.ok
                      THEN With(data, line.cmd, line.val) ELSE data
           /\ tpc' = IF expected /\ ~line.ok THEN "exit1" ELSE tpc
    /\ rest' = Tail(rest)
    /\ UNCHANGED <<file, out, dest, asked, headers>>

Given(lines) == {lines[i].cmd : i \in DOMAIN lines} \cap CONFIG_STRUCTURE
LastLine(lines, c) ==
    lines[CHOOSE i \in DOMAIN lines :
            /\ lines[i].cmd = c
            /\ \A j \in DOMAIN lines : lines[j].cmd = c => j <= i]

(* parse_json_file: json.load keeps the last of repeated keys, so a wrong  *)
(* one before it is never seen.                                            *)
ParseJson ==
    /\ tpc = "parse" /\ file.ext = "json" /\ rest # << >>
    /\ IF \A c \in Given(rest) : LastLine(rest, c).ok
       THEN /\ data' = [c \in Given(rest) |-> LastLine(rest, c).val]
            /\ tpc' = tpc
       ELSE tpc' = "exit1" /\ data' = data
    /\ rest' = << >>
    /\ UNCHANGED <<file, out, dest, asked, headers>>

Parsed ==
    /\ tpc = "parse" /\ file.ext \in {"cfg", "json"} /\ rest = << >>
    /\ tpc' = IF DOMAIN data = {} THEN "exit1" ELSE "output"
    /\ UNCHANGED <<file, rest, data, out, dest, asked, headers>>
-----------------------------------------------------------------------------
(* The place -o asks for, "nowhere" when the directory part of the path is *)
(* no directory: a missing one, or the empty one of a bare file name.      *)
OutputArgs == {"none", "includeDir", "otherPath", "bareName", "missingDir"}

Desired(o) == CASE o \in {"none", "includeDir"}     -> "include"
                [] o = "otherPath"                  -> "other"
                [] o \in {"bareName", "missingDir"} -> "nowhere"
Fallback == Desired(out) = "nowhere"

ChooseOutput_NeverAsks ==
    /\ tpc = "output"
    /\ out' \in OutputArgs
    /\ \E cwd \in {"work", "include"} : dest' = IF Fallback' THEN cwd ELSE Desired(out')
    /\ tpc' = "generate"
    /\ UNCHANGED <<file, rest, data, asked, headers>>

(* The tool falls back to defines.h in the working directory, which may be *)
(* include/ itself; only on the requested path it asks before it           *)
(* overwrites.                                                             *)
ChooseOutput ==
    /\ tpc = "output"
    /\ out' \in OutputArgs
    /\ \E cwd \in {"work", "include"} : dest' = IF Fallback' THEN cwd ELSE Desired(out')
    /\ tpc' = IF Fallback' \/ headers[dest'] = Absent THEN "generate" ELSE "ask"
    /\ UNCHANGED <<file, rest, data, asked, headers>>

(* Anything but y is a no; the end of the input is a traceback.            *)
AskOverwrite ==
    /\ tpc = "ask"
    /\ asked' \in {"y", "n"}
    /\ tpc' \in IF asked' = "y" THEN {"generate"} ELSE {"exit1", "crash"}
    /\ UNCHANGED <<file, rest, data, out, dest, headers>>

GenerateDefinesFile_OpensFirst ==
    /\ tpc = "generate"
    /\ headers' = [headers EXCEPT ![dest] = IF Complete(data) THEN data ELSE << >>]
    /\ tpc' = IF Complete(data) THEN "info" ELSE "crash"
    /\ UNCHANGED <<file, rest, data, out, dest, asked>>

(* generate_defines_file: the text is made before the file is opened, so a *)
(* command that is missing (KeyError) or an open that fails leaves what is *)
(* there.  A write that fails after the open leaves an empty file.         *)
GenerateDefinesFile ==
    /\ tpc = "generate"
    /\ \/ /\ Complete(data)
          /\ \/ headers' = [headers EXCEPT ![dest] = data] /\ tpc' = "info"
             \/ headers' = [headers EXCEPT ![dest] = << >>] /\ tpc' = "crash"
       \/ headers' = headers /\ tpc' = "crash"
    /\ UNCHANGED <<file, rest, data, out, dest, asked>>

(* print_basic_config_info reads the slope, the ramp time and the number   *)
(* of samples as numbers, and divides by slope * ramp.  Otherwise the tool *)
(* ends with a traceback although the header is written.                   *)
NoNumber == -1
Printable(d) ==
    /\ d["chirpTimingCfg"].slope = "number" /\ d["chirpComnCfg"].ramp = "number"
    /\ d["chirpComnCfg"].samples # NoNumber

PrintBasicConfigInfo ==
    /\ tpc = "info"
    /\ tpc' = IF Printable(data) THEN "exit0" ELSE "crash"
    /\ UNCHANGED <<file, rest, data, out, dest, asked, headers>>

ToolNext ==
    \/ Start \/ ParseUnsupported \/ ParseCfgLine \/ ParseJson \/ Parsed
    \/ ChooseOutput \/ AskOverwrite \/ GenerateDefinesFile
    \/ PrintBasicConfigInfo
-----------------------------------------------------------------------------
(* Properties *)

(* Whatever the input misses and wherever the tool gives up, every header  *)
(* in the file system is absent or has all the commands the firmware is    *)
(* compiled with.  Only the operating system can cut one short, and only   *)
(* the one being written, from input that had everything.                  *)
HeadersComplete ==
    \A p \in Places : \/ headers[p] = Absent
                      \/ Complete(headers[p])
                      \/ p = dest /\ tpc = "crash" /\ Complete(data)

(* A call changes at most the one header it was directed to, once, after   *)
(* it has parsed the whole file; a header on the requested path is         *)
(* replaced only after the answer "y".  The fallback to the working        *)
(* directory is the one exception: it overwrites without asking.           *)
OverwritesOnlyWhenAllowed ==
    [][\A p \in Places : headers'[p] # headers[p] =>
          /\ tpc = "generate" /\ p = dest /\ rest = << >>
          /\ \/ headers[p] = Absent
             \/ asked = "y"
             \/ Fallback]_tvars
=============================================================================
