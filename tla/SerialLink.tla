----------------------------- MODULE SerialLink ------------------------------
(***************************************************************************)
(* The serial line from the firmware to scripts/uart_range_plotter.py: the *)
(* packets of uart_transmit_loop byte by byte, a line that may lose bytes, *)
(* and the thread of the plotter that looks for headers (read_frame).      *)
(*                                                                         *)
(* The values that matter are those of the two markers; "xx" is any other. *)
(* The firmware sends the samples as they are, so a payload may hold any   *)
(* of them, and whole markers.                                             *)
(*                                                                         *)
(* History, read by the properties only: a byte carries its position in    *)
(* its packet and how many bytes were lost before it, and headerGone is    *)
(* how many were lost before the header that the plotter found.            *)
(***************************************************************************)
EXTENDS Integers, Sequences

CONSTANTS
    PayloadLens,   \* bytes of payload the firmware may be built for
    DataLen,       \* DATA_LENGTH * SAMPLE_SIZE in the plotter
    PayloadBytes,  \* the values a payload byte takes, by its place modulo 4
    LineCap,       \* bytes the host may be behind (bound)
    MaxLoss,       \* bytes the line may lose (bound)
    LongPauses,    \* TRUE: the pause between two packets may exceed the 1 s
                   \* timeout of serial.Serial; FALSE: it never does
    AnyStart       \* TRUE: the plotter may start in the middle of a packet

HEADER == <<"AA", "BB", "CC", "DD">>
FOOTER == <<"DD", "CC", "BB", "AA">>

ASSUME LinkAssumption ==
    /\ PayloadLens \subseteq Nat \ {0} /\ DataLen \in Nat \ {0}
    /\ LineCap \in Nat \ {0} /\ MaxLoss \in Nat
    /\ PayloadBytes \in [0 .. 3 -> SUBSET {"xx", "AA", "BB", "CC", "DD"}]
    /\ LongPauses \in BOOLEAN /\ AnyStart \in BOOLEAN

VARIABLES
    payloadLen, \* CLI_NUM_RBINS * 4 of the firmware that runs
    tx,         \* bytes of the current packet already written by the firmware
    lost,       \* bytes lost so far
    line,       \* bytes that wait in the driver of the host
    host,       \* where read_frame is
    payload,    \* payload_bytes
    latest,     \* latest_frame
    headerGone  \* bytes lost before the header that the plotter found, or -1
                \* when it found none or one that ends inside a payload

PacketLen == payloadLen + 8

lvars == <<payloadLen, tx, lost, line, host, payload, latest,
           headerGone>>
rvars == <<host, payload, latest, headerGone>>

ByteAt(i, v) == [val |-> CASE i < 4 -> HEADER[i + 1]
                           [] i >= 4 + payloadLen -> FOOTER[i - 3 - payloadLen]
                           [] OTHER -> v,
                 pos |-> i, gone |-> lost]
PayloadAt(i) == IF i \in 4 .. 3 + payloadLen THEN PayloadBytes[i % 4] ELSE {"xx"}
Values(s) == [i \in DOMAIN s |-> s[i].val]

Init ==
    /\ payloadLen \in PayloadLens
    /\ tx \in IF AnyStart THEN 0 .. PacketLen ELSE {0}
    /\ lost = 0
    /\ line = << >>
    /\ host = "scan" /\ payload = << >> /\ latest = << >>
    /\ headerGone = -1
-----------------------------------------------------------------------------
(* The firmware and the line *)

SendByte ==
    /\ tx < PacketLen
    /\ Len(line) < LineCap
    /\ tx' = tx + 1
    /\ \E v \in PayloadAt(tx) : line' = Append(line, ByteAt(tx, v))
    /\ UNCHANGED <<payloadLen, lost, rvars>>

(* A byte that the line loses, or that a failed UART_write never sent.     *)
LoseByte ==
    /\ tx < PacketLen
    /\ lost < MaxLoss
    /\ lost' = lost + 1
    /\ tx' = tx + 1
    /\ UNCHANGED <<payloadLen, line, rvars>>

NextPacket ==
    /\ tx = PacketLen
    /\ tx' = 0
    /\ UNCHANGED <<payloadLen, lost, line, rvars>>
-----------------------------------------------------------------------------
(* read_frame: each call of ser.read takes what it asked for *)

Take(n) == Len(line) >= n /\ line' = SubSeq(line, n + 1, Len(line))
Taken(n) == SubSeq(line, 1, n)

HostScan_Drains ==
    /\ host = "scan"
    /\ Len(line) >= 1
    /\ line' = << >>
    /\ host' = IF line[1].val = HEADER[1] THEN "rest" ELSE "scan"
    /\ UNCHANGED <<payloadLen, tx, lost, payload, latest, headerGone>>

HostScan ==
    /\ host = "scan"
    /\ Take(1)
    /\ host' = IF line[1].val = HEADER[1] THEN "rest" ELSE "scan"
    /\ UNCHANGED <<payloadLen, tx, lost, payload, latest, headerGone>>

HostRest ==
    /\ host = "rest"
    /\ Take(3)
    /\ host' = IF Values(Taken(3)) = Tail(HEADER) THEN "payload" ELSE "scan"
    /\ headerGone' = IF host' = "payload" /\ line[3].pos = 3 THEN line[3].gone ELSE -1
    /\ UNCHANGED <<payloadLen, tx, lost, payload, latest>>

HostPayload_OneShort ==
    /\ host = "payload"
    /\ Take(DataLen - 1)
    /\ payload' = Taken(DataLen - 1)
    /\ host' = "footer"
    /\ UNCHANGED <<payloadLen, tx, lost, latest, headerGone>>

HostPayload ==
    /\ host = "payload"
    /\ Take(DataLen)
    /\ payload' = Taken(DataLen)
    /\ host' = "footer"
    /\ UNCHANGED <<payloadLen, tx, lost, latest, headerGone>>

(* The frame is returned, and serial_thread publishes it, only if the      *)
(* footer follows.                                                         *)
HostFooter_Unchecked ==
    /\ host = "footer"
    /\ Take(4)
    /\ host' = "scan"
    /\ latest' = payload
    /\ payload' = << >>
    /\ headerGone' = -1
    /\ UNCHANGED <<payloadLen, tx, lost>>

HostFooter ==
    /\ host = "footer"
    /\ Take(4)
    /\ host' = "scan"
    /\ latest' = IF Values(Taken(4)) = FOOTER THEN payload ELSE latest
    /\ payload' = << >>
    /\ headerGone' = -1
    /\ UNCHANGED <<payloadLen, tx, lost>>

(* A read that times out returns the bytes there are, fewer than asked     *)
(* for: no header, or no frame.                                            *)
Need == [scan |-> 1, rest |-> 3, payload |-> DataLen, footer |-> 4]

HostTimeout ==
    /\ host # "scan"
    /\ LongPauses /\ tx = PacketLen
    /\ Len(line) < Need[host]
    /\ line' = << >>
    /\ host' = "scan"
    /\ payload' = << >>
    /\ headerGone' = -1
    /\ UNCHANGED <<payloadLen, tx, lost, latest>>

HostNext == HostScan \/ HostRest \/ HostPayload \/ HostFooter \/ HostTimeout
Next == SendByte \/ LoseByte \/ NextPacket \/ HostNext

Spec == Init /\ [][Next]_lvars
FairSpec == Spec /\ WF_lvars(SendByte) /\ WF_lvars(NextPacket) /\ WF_lvars(HostNext)
-----------------------------------------------------------------------------
(* Properties *)

Byte == [val : {"xx", "AA", "BB", "CC", "DD"},
         pos : 0 .. PacketLen - 1, gone : 0 .. MaxLoss]

TypeOK ==
    /\ payloadLen \in PayloadLens
    /\ tx \in 0 .. PacketLen
    /\ lost \in 0 .. MaxLoss
    /\ Len(line) <= LineCap /\ \A i \in DOMAIN line : line[i] \in Byte
    /\ host \in DOMAIN Need
    /\ Len(payload) \in {0, DataLen} /\ Len(latest) \in {0, DataLen}
    /\ headerGone \in -1 .. MaxLoss

(* A frame shown after a header of the firmware, with "missing" bytes lost *)
(* between the two markers.                                                *)
Shows(missing) ==
    /\ latest' # latest
    /\ headerGone >= 0 /\ missing = line[1].gone - headerGone

Whole(frame) ==
    \A i \in DOMAIN frame :
        frame[i].pos = 3 + i /\ frame[i].gone = frame[1].gone

(* Whatever the payload holds, a frame that the plotter shows after a      *)
(* header is the payload of one packet, all of it and in order, as long as *)
(* fewer than seven bytes were lost on its way: one failed UART_write      *)
(* takes four.  (After the seventh the "DD" of the next header is where    *)
(* that of the footer should be.)                                          *)
FramesAreWhole ==
    [][\A missing \in 0 .. 6 :
          (payloadLen = DataLen /\ Shows(missing)) => Whole(latest')]_lvars

(* A plotter made for another number of bins shows nothing between a       *)
(* header and a footer of the firmware, unless DataLen bytes, with those   *)
(* that were lost, lead exactly to the footer of that or a later packet.   *)
(* Configuration states that without losses no number of bins from 8 on is *)
(* of that kind.                                                           *)
MismatchShowsNothing ==
    [][\A missing \in 0 .. MaxLoss :
          (/\ payloadLen # DataLen /\ Shows(missing)
           /\ line[1].pos = payloadLen + 4) =>
             /\ DataLen + missing >= payloadLen
             /\ (DataLen + missing - payloadLen) % PacketLen = 0]_lvars

(* The plotter is in step: what it will read next is what it looks for,    *)
(* and no byte is missing since.                                           *)
Awaited == [scan |-> 0, rest |-> 1, payload |-> 4, footer |-> 4 + DataLen]

InStep ==
    /\ payloadLen = DataLen
    /\ \A i \in DOMAIN line : line[i].gone = lost
    /\ (IF line = << >> THEN tx % PacketLen ELSE line[1].pos) = Awaited[host]

(* Once in step, only a lost byte brings the plotter out of it: no marker  *)
(* that a payload happens to hold and no time-out does.                    *)
StaysInStep == [][(InStep /\ lost' = lost) => InStep']_lvars

(* serial_thread "continuously reads frames and updates the shared         *)
(* latest_frame variable" (uart_range_plotter.py:65-66): whatever was lost *)
(* or missed at first, frames keep coming.                                 *)
GoodFrame == host = "footer" /\ Len(line) >= 4 /\ Values(Taken(4)) = FOOTER
KeepsReading == []<>GoodFrame

(* What is left of it: read_frame is in step again after every pause in    *)
(* which it has drained the line, and needs no more than such pauses.      *)
Quiet == line = << >> /\ host = "scan"
RecoversInPauses ==
    (payloadLen = DataLen /\ []<>(Quiet /\ tx = PacketLen)) => KeepsReading
=============================================================================
