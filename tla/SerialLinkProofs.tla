-------------------------- MODULE SerialLinkProofs ---------------------------
(***************************************************************************)
(* Theorems about SerialLink, for every length and every content of the    *)
(* payloads and every pattern of losses: what is shown after a header is   *)
(* whole as long as the losses are few, a plotter for another number of    *)
(* bins shows nothing, and a plotter in step stays in step.                *)
(***************************************************************************)
EXTENDS SerialLink, RemainderLemmas, SequenceTheorems
-----------------------------------------------------------------------------
(* Sequences *)

(* What is left of a sequence of which the first k elements were taken.    *)
LEMMA Dropped ==
    ASSUME NEW S, NEW s \in Seq(S), NEW k \in 0 .. Len(s)
    PROVE  LET r == SubSeq(s, k + 1, Len(s))
           IN  /\ r \in Seq(S) /\ Len(r) = Len(s) - k
               /\ \A i \in 1 .. Len(s) - k : r[i] = s[i + k]
  <1>1. Len(s) \in Nat /\ k + 1 \in Int /\ k \in Int
    BY LenProperties
  <1>2. \A i \in k + 1 .. Len(s) : s[i] \in S
    BY <1>1, ElementOfSeq
  <1>3. /\ SubSeq(s, k + 1, Len(s)) \in Seq(S)
        /\ Len(SubSeq(s, k + 1, Len(s))) = IF k + 1 <= Len(s) THEN Len(s) - (k + 1) + 1 ELSE 0
        /\ \A i \in 1 .. Len(s) - (k + 1) + 1 :
              SubSeq(s, k + 1, Len(s))[i] = s[k + 1 + i - 1]
    BY <1>1, <1>2, SubSeqProperties
  <1>4. \A i \in 1 .. Len(s) - k : k + 1 + i - 1 = i + k /\ i \in 1 .. Len(s) - (k + 1) + 1
    BY <1>1
  <1>5. \A i \in 1 .. Len(s) - k : SubSeq(s, k + 1, Len(s))[i] = s[i + k]
    BY <1>3, <1>4
  <1>6. Len(SubSeq(s, k + 1, Len(s))) = Len(s) - k
    BY <1>1, <1>3
  <1> QED
    BY <1>3, <1>5, <1>6

(* The first k elements of a sequence.                                     *)
LEMMA Prefix ==
    ASSUME NEW S, NEW s \in Seq(S), NEW k \in 0 .. Len(s)
    PROVE  LET r == SubSeq(s, 1, k)
           IN  /\ r \in Seq(S) /\ Len(r) = k
               /\ \A i \in 1 .. k : r[i] = s[i]
  <1>1. Len(s) \in Nat /\ k \in Int /\ 1 \in Int
    BY LenProperties
  <1>2. \A i \in 1 .. k : s[i] \in S
    BY <1>1, ElementOfSeq
  <1>3. /\ SubSeq(s, 1, k) \in Seq(S)
        /\ Len(SubSeq(s, 1, k)) = IF 1 <= k THEN k - 1 + 1 ELSE 0
        /\ \A i \in 1 .. k - 1 + 1 : SubSeq(s, 1, k)[i] = s[1 + i - 1]
    BY <1>1, <1>2, SubSeqProperties
  <1>4. \A i \in 1 .. k : SubSeq(s, 1, k)[i] = s[i]
    BY <1>1, <1>3
  <1>5. Len(SubSeq(s, 1, k)) = k
    BY <1>1, <1>3
  <1> QED
    BY <1>3, <1>4, <1>5
-----------------------------------------------------------------------------
(* Types *)

Typed ==
    /\ payloadLen \in PayloadLens
    /\ tx \in 0 .. PacketLen
    /\ lost \in 0 .. MaxLoss
    /\ line \in Seq(Byte) /\ Len(line) <= LineCap
    /\ payload \in Seq(Byte) /\ latest \in Seq(Byte)
    /\ host \in {"scan", "rest", "payload", "footer"}
    /\ Len(payload) = IF host = "footer" THEN DataLen ELSE 0
    /\ Len(latest) \in {0, DataLen}
    /\ headerGone \in -1 .. MaxLoss

LEMMA PayloadLenIs == Typed => payloadLen \in Nat \ {0} /\ PacketLen \in Nat /\ PacketLen >= 9
  BY LinkAssumption DEF Typed, PacketLen

LEMMA TypedInit == Init => Typed
  <1> SUFFICES ASSUME Init PROVE Typed
    OBVIOUS
  <1>1. payloadLen \in PayloadLens /\ payloadLen \in Nat
    BY LinkAssumption DEF Init
  <1>2. tx \in 0 .. PacketLen
    BY <1>1 DEF Init, PacketLen
  <1> QED
    BY <1>1, <1>2, LinkAssumption DEF Init, Typed

(* The byte that is sent next.                                             *)
LEMMA SentByte ==
    ASSUME Typed, tx < PacketLen,
           NEW v \in PayloadAt(tx)
    PROVE  /\ ByteAt(tx, v) \in Byte
           /\ ByteAt(tx, v).pos = tx /\ ByteAt(tx, v).gone = lost
           /\ ByteAt(tx, v).val = IF tx < 4 THEN HEADER[tx + 1]
                                  ELSE IF tx >= 4 + payloadLen THEN FOOTER[tx - 3 - payloadLen]
                                  ELSE v
  <1> DEFINE b == ByteAt(tx, v)
  <1>0. payloadLen \in Nat \ {0} /\ tx \in Nat /\ PacketLen = payloadLen + 8
    BY PayloadLenIs DEF Typed, PacketLen
  <1>1. /\ b.pos = tx /\ b.gone = lost
        /\ b = [val |-> b.val, pos |-> tx, gone |-> lost]
    BY DEF ByteAt
  <1>2. b.val = IF tx < 4 THEN HEADER[tx + 1]
                ELSE IF tx >= 4 + payloadLen THEN FOOTER[tx - 3 - payloadLen] ELSE v
    <2>1. CASE tx < 4
      BY <1>0, <2>1 DEF ByteAt
    <2>2. CASE tx >= 4 + payloadLen
      BY <1>0, <2>2 DEF ByteAt
    <2>3. CASE ~(tx < 4) /\ ~(tx >= 4 + payloadLen)
      BY <1>0, <2>3 DEF ByteAt
    <2> QED
      BY <2>1, <2>2, <2>3
  <1>3. b.val \in {"xx", "AA", "BB", "CC", "DD"}
    <2>1. CASE tx < 4
      BY <1>0, <1>2, <2>1 DEF HEADER
    <2>2. CASE tx >= 4 + payloadLen
      <3>1. tx - 3 - payloadLen \in {1, 2, 3, 4} /\ ~(tx < 4)
        BY <1>0, <2>2
      <3> QED
        BY <1>2, <2>2, <3>1 DEF FOOTER
    <2>3. CASE ~(tx < 4) /\ ~(tx >= 4 + payloadLen)
      <3>1. v \in PayloadBytes[tx % 4] /\ b.val = v
        BY <1>0, <1>2, <2>3 DEF PayloadAt
      <3>2. tx % 4 \in 0 .. 3
        BY <1>0
      <3> QED
        BY <3>1, <3>2, LinkAssumption
    <2> QED
      BY <2>1, <2>2, <2>3
  <1>4. tx \in 0 .. PacketLen - 1 /\ lost \in 0 .. MaxLoss
    BY <1>0 DEF Typed
  <1> HIDE DEF b
  <1>5. b \in Byte
    BY <1>1, <1>3, <1>4 DEF Byte
  <1> QED
    BY <1>1, <1>2, <1>5 DEF b

LEMMA TypedNext == Typed /\ [Next]_lvars => Typed'
  <1> SUFFICES ASSUME Typed, [Next]_lvars PROVE Typed'
    OBVIOUS
  <1>0. payloadLen' = payloadLen
    BY DEF Next, SendByte, LoseByte, NextPacket, HostNext, HostScan, HostRest, HostPayload,
           HostFooter, HostTimeout, lvars
  <1>1. PacketLen' = PacketLen /\ Byte' = Byte
    BY <1>0 DEF PacketLen, Byte
  <1>2. /\ PacketLen \in Nat /\ Len(line) \in Nat /\ lost \in Nat /\ tx \in Nat
        /\ DataLen \in Nat \ {0} /\ MaxLoss \in Nat
    BY PayloadLenIs, LinkAssumption DEF Typed
  <1>3. CASE SendByte
    <2>1. /\ tx < PacketLen /\ Len(line) < LineCap /\ tx' = tx + 1
          /\ UNCHANGED <<payloadLen, lost, host, payload, latest, headerGone>>
      BY <1>3 DEF SendByte, rvars
    <2>2. PICK v \in PayloadAt(tx) :
                 line' = Append(line, ByteAt(tx, v))
      BY <1>3, Zenon DEF SendByte
    <2>3. ByteAt(tx, v) \in Byte
      BY <2>1, SentByte
    <2>4. line \in Seq(Byte) /\ LineCap \in Nat
      BY LinkAssumption DEF Typed
    <2>5. line' \in Seq(Byte) /\ Len(line') = Len(line) + 1
      BY <2>2, <2>3, <2>4, AppendProperties
    <2>6. tx' \in 0 .. PacketLen
      BY <1>2, <2>1
    <2>7. Len(line') <= LineCap
      BY <1>2, <2>1, <2>4, <2>5
    <2> QED
      BY <1>1, <2>1, <2>5, <2>6, <2>7 DEF Typed
  <1>4. CASE LoseByte
    <2>1. /\ tx < PacketLen /\ lost < MaxLoss /\ lost' = lost + 1 /\ tx' = tx + 1
          /\ UNCHANGED <<payloadLen, line, host, payload, latest, headerGone>>
      BY <1>4 DEF LoseByte, rvars
    <2>2. tx' \in 0 .. PacketLen /\ lost' \in 0 .. MaxLoss
      BY <1>2, <2>1
    <2> QED
      BY <1>1, <2>1, <2>2 DEF Typed
  <1>5. CASE NextPacket
    <2>1. /\ tx' = 0
          /\ UNCHANGED <<payloadLen, lost, line, host, payload, latest, headerGone>>
      BY <1>5 DEF NextPacket, rvars
    <2>3. tx' \in 0 .. PacketLen
      BY <1>2, <2>1
    <2> QED
      BY <1>1, <2>1, <2>3 DEF Typed
  <1>6. ASSUME NEW k \in {1, 3, 4, DataLen}, Take(k)
        PROVE  line' \in Seq(Byte) /\ Len(line') <= LineCap
    <2>1. k \in 0 .. Len(line) /\ line \in Seq(Byte)
      BY <1>2, <1>6 DEF Take, Typed
    <2>2. line' \in Seq(Byte) /\ Len(line') = Len(line) - k
      BY <1>6, <2>1, Dropped DEF Take
    <2> QED
      BY <1>2, <2>1, <2>2, LinkAssumption DEF Typed
  <1>7. CASE HostScan
    <2>1. /\ Take(1) /\ host = "scan" /\ host' \in {"rest", "scan"}
          /\ UNCHANGED <<payloadLen, tx, lost, payload, latest, headerGone>>
      BY <1>7 DEF HostScan
    <2> QED
      BY <1>1, <1>6, <2>1 DEF Typed
  <1>8. CASE HostRest
    <2>1. /\ Take(3) /\ host = "rest" /\ host' \in {"payload", "scan"}
          /\ UNCHANGED <<payloadLen, tx, lost, payload, latest>>
          /\ headerGone' = IF host' = "payload" /\ line[3].pos = 3 THEN line[3].gone ELSE -1
      BY <1>8 DEF HostRest
    <2>2. line[3] \in Byte
      BY <1>2, <2>1 DEF Take, Typed
    <2>3. headerGone' \in -1 .. MaxLoss
      BY <1>2, <2>1, <2>2 DEF Byte
    <2> QED
      BY <1>1, <1>6, <2>1, <2>3 DEF Typed
  <1>9. CASE HostPayload
    <2>1. /\ Take(DataLen) /\ host' = "footer" /\ payload' = Taken(DataLen)
          /\ UNCHANGED <<payloadLen, tx, lost, latest, headerGone>>
      BY <1>9 DEF HostPayload
    <2>2. DataLen \in 0 .. Len(line) /\ line \in Seq(Byte)
      BY <1>2, <2>1 DEF Take, Typed
    <2>3. payload' \in Seq(Byte) /\ Len(payload') = DataLen
      BY <2>1, <2>2, Prefix DEF Taken
    <2> QED
      BY <1>1, <1>6, <2>1, <2>3 DEF Typed
  <1>10. CASE HostFooter
    <2>1. /\ Take(4) /\ host = "footer" /\ host' = "scan"
          /\ latest' \in {payload, latest} /\ payload' = << >> /\ headerGone' = -1
          /\ UNCHANGED <<payloadLen, tx, lost>>
      BY <1>10 DEF HostFooter
    <2>2. latest' \in Seq(Byte) /\ Len(latest') \in {0, DataLen}
      BY <2>1 DEF Typed
    <2> QED
      BY <1>1, <1>2, <1>6, <2>1, <2>2 DEF Typed
  <1>11. CASE HostTimeout
    <2>1. /\ host' = "scan" /\ line' = << >> /\ payload' = << >> /\ headerGone' = -1
          /\ UNCHANGED <<payloadLen, tx, lost, latest>>
      BY <1>11 DEF HostTimeout
    <2>2. << >> \in Seq(Byte) /\ Len(<< >>) = 0 /\ 0 <= LineCap
      BY LinkAssumption
    <2> QED
      BY <1>1, <1>2, <2>1, <2>2 DEF Typed
  <1>12. CASE UNCHANGED lvars
    BY <1>1, <1>12 DEF lvars, Typed
  <1> QED
    BY <1>3, <1>4, <1>5, <1>7, <1>8, <1>9, <1>10, <1>11, <1>12 DEF Next, HostNext

(* The bytes on their way and what the plotter has read keep their types,  *)
(* whatever is lost (uart_transmit.c:62-105, uart_range_plotter.py:32-73). *)
THEOREM LinkTyped == Spec => []TypeOK
  <1>1. Typed => TypeOK
    <2> SUFFICES ASSUME Typed PROVE TypeOK
      OBVIOUS
    <2>1. \A i \in DOMAIN line : line[i] \in Byte
      BY DEF Typed
    <2>2. host \in DOMAIN Need
      BY DEF Typed, Need
    <2>3. Len(payload) \in {0, DataLen}
      BY DEF Typed
    <2> QED
      BY <2>1, <2>2, <2>3 DEF Typed, TypeOK
  <1> QED
    BY <1>1, TypedInit, TypedNext, PTL DEF Spec
-----------------------------------------------------------------------------
(* Markers *)

(* A byte has the value of its position.                                   *)
Faithful(b) ==
    /\ b.pos < 4 => b.val = HEADER[b.pos + 1]
    /\ b.pos >= 4 + payloadLen => b.val = FOOTER[b.pos - 3 - payloadLen]

LineFaithful == \A i \in 1 .. Len(line) : Faithful(line[i])

LEMMA FaithfulInit == Init => LineFaithful
  BY DEF Init, LineFaithful

LEMMA FaithfulNext == LineFaithful /\ Typed /\ [Next]_lvars => LineFaithful'
  <1> SUFFICES ASSUME LineFaithful, Typed, [Next]_lvars PROVE LineFaithful'
    OBVIOUS
  <1>0. payloadLen' = payloadLen /\ line \in Seq(Byte)
    BY DEF Next, SendByte, LoseByte, NextPacket, HostNext, HostScan, HostRest, HostPayload,
           HostFooter, HostTimeout, lvars, Typed
  <1>1. CASE line' = line
    BY <1>0, <1>1 DEF LineFaithful, Faithful
  <1>2. ASSUME NEW k \in {1, 3, 4, DataLen}, Take(k)
        PROVE  LineFaithful'
    <2>1. k \in 0 .. Len(line)
      BY <1>0, <1>2, LinkAssumption DEF Take
    <2>2. Len(line') = Len(line) - k /\ \A i \in 1 .. Len(line) - k : line'[i] = line[i + k]
      BY <1>0, <1>2, <2>1, Dropped DEF Take
    <2>3. \A i \in 1 .. Len(line) - k : i + k \in 1 .. Len(line)
      BY <1>0, <2>1
    <2>4. \A i \in 1 .. Len(line') : Faithful(line'[i])
      BY <2>2, <2>3 DEF LineFaithful
    <2> QED
      BY <1>0, <2>4 DEF LineFaithful, Faithful
  <1>3. CASE SendByte
    <2>1. tx < PacketLen
      BY <1>3 DEF SendByte
    <2>2. PICK v \in PayloadAt(tx) : line' = Append(line, ByteAt(tx, v))
      BY <1>3, Zenon DEF SendByte
    <2> DEFINE b == ByteAt(tx, v)
    <2>3. /\ b \in Byte /\ b.pos = tx
          /\ b.val = IF tx < 4 THEN HEADER[tx + 1]
                     ELSE IF tx >= 4 + payloadLen THEN FOOTER[tx - 3 - payloadLen] ELSE v
      BY <2>1, SentByte
    <2> HIDE DEF b
    <2>4. Faithful(b)
      <3>1. payloadLen \in Nat \ {0} /\ tx \in Nat
        BY PayloadLenIs DEF Typed
      <3> QED
        BY <2>2, <2>3, <3>1 DEF Faithful
    <2>5. /\ Len(line') = Len(line) + 1 /\ line'[Len(line) + 1] = b
          /\ \A i \in 1 .. Len(line) : line'[i] = line[i]
      BY <1>0, <2>2, <2>3, AppendProperties DEF b
    <2>6. \A i \in 1 .. Len(line) + 1 : i \in 1 .. Len(line) \/ i = Len(line) + 1
      BY <1>0
    <2>7. \A i \in 1 .. Len(line') : Faithful(line'[i])
      BY <2>4, <2>5, <2>6 DEF LineFaithful
    <2> QED
      BY <1>0, <2>7 DEF LineFaithful, Faithful
  <1>4. CASE HostTimeout
    BY <1>4 DEF HostTimeout, LineFaithful
  <1>5. \/ line' = line \/ SendByte \/ HostTimeout
        \/ \E k \in {1, 3, 4, DataLen} : Take(k)
    BY DEF Next, LoseByte, NextPacket, HostNext, HostScan, HostRest, HostPayload,
           HostFooter, lvars
  <1> QED
    BY <1>1, <1>2, <1>3, <1>4, <1>5

(* The values of a position next to a marker.                              *)
LEMMA MarkerValues ==
    ASSUME Typed, NEW i \in 1 .. Len(line), LineFaithful
    PROVE  /\ line[i].pos \in 0 .. payloadLen + 7
           /\ line[i].pos = 0 => line[i].val = "AA"
           /\ line[i].pos = 1 => line[i].val = "BB"
           /\ line[i].pos = 2 => line[i].val = "CC"
           /\ line[i].pos = 3 => line[i].val = "DD"
           /\ line[i].pos = payloadLen + 4 => line[i].val = "DD"
           /\ line[i].pos = payloadLen + 5 => line[i].val = "CC"
           /\ line[i].pos = payloadLen + 6 => line[i].val = "BB"
           /\ line[i].pos = payloadLen + 7 => line[i].val = "AA"
  <1>1. PICK b \in Byte : b = line[i]
    BY ElementOfSeq DEF Typed
  <1>2. Faithful(b) /\ payloadLen \in Nat \ {0}
    BY <1>1, PayloadLenIs DEF LineFaithful
  <1>3. b.pos \in 0 .. payloadLen + 7
    BY <1>1, <1>2 DEF Byte, PacketLen
  <1>4. ASSUME NEW k \in {0, 1, 2, 3}, b.pos = k PROVE b.val = HEADER[k + 1]
    BY <1>2, <1>4 DEF Faithful
  <1>5. ASSUME NEW k \in {1, 2, 3, 4}, b.pos = payloadLen + k + 3 PROVE b.val = FOOTER[k]
    <2>1. b.pos >= 4 + payloadLen /\ b.pos - 3 - payloadLen = k
      BY <1>2, <1>5
    <2> QED
      BY <1>2, <2>1 DEF Faithful
  <1>6. /\ HEADER[0 + 1] = "AA" /\ HEADER[1 + 1] = "BB" /\ HEADER[2 + 1] = "CC"
        /\ HEADER[3 + 1] = "DD"
        /\ FOOTER[1] = "DD" /\ FOOTER[2] = "CC" /\ FOOTER[3] = "BB" /\ FOOTER[4] = "AA"
    BY DEF HEADER, FOOTER
  <1>7. /\ payloadLen + 1 + 3 = payloadLen + 4 /\ payloadLen + 2 + 3 = payloadLen + 5
        /\ payloadLen + 3 + 3 = payloadLen + 6 /\ payloadLen + 4 + 3 = payloadLen + 7
    BY <1>2
  <1>8. /\ b.pos = 0 => b.val = "AA"
        /\ b.pos = 1 => b.val = "BB"
        /\ b.pos = 2 => b.val = "CC"
        /\ b.pos = 3 => b.val = "DD"
    BY <1>4, <1>6
  <1>9. /\ b.pos = payloadLen + 4 => b.val = "DD"
        /\ b.pos = payloadLen + 5 => b.val = "CC"
        /\ b.pos = payloadLen + 6 => b.val = "BB"
        /\ b.pos = payloadLen + 7 => b.val = "AA"
    BY <1>5, <1>6, <1>7
  <1> QED
    BY <1>1, <1>3, <1>8, <1>9
-----------------------------------------------------------------------------
(* Places in the stream *)

(* Numbers that are equal modulo m stay so.                                *)
LEMMA RemainderShift ==
    ASSUME NEW m \in Nat \ {0}, NEW a \in Nat, NEW b \in Nat, NEW k \in Nat, a % m = b % m
    PROVE  (a + k) % m = (b + k) % m
  <1> DEFINE q == a \div m
             p == b \div m
             r == a % m
             t == (r + k) \div m
             s == (r + k) % m
  <1>0. b % m = r
    OBVIOUS
  <1>1. a = m * q + r /\ b = m * p + (b % m) /\ q \in Nat /\ p \in Nat /\ r \in 0 .. m - 1
    BY Division, RemainderRange, Zenon
  <1>2. r + k = m * t + s /\ t \in Nat /\ s \in 0 .. m - 1
    <2>1. r + k \in Nat
      BY <1>1
    <2> QED
      BY <2>1, Division, RemainderRange, Zenon
  <1> HIDE DEF q, p, r, t, s
  <1>3. q + t \in Nat /\ p + t \in Nat /\ a + k = m * (q + t) + s /\ b + k = m * (p + t) + s
    BY <1>0, <1>1, <1>2
  <1>4. (m * (q + t) + s) % m = s /\ (m * (p + t) + s) % m = s
    BY <1>2, <1>3, RemainderUnique
  <1> QED
    BY <1>3, <1>4

LEMMA RemainderOfSum ==
    ASSUME NEW m \in Nat \ {0}, NEW a \in Nat, NEW k \in Nat
    PROVE  (a + k) % m = ((a % m) + k) % m
  <1>1. a % m \in Nat /\ a % m < m
    BY RemainderRange
  <1>2. (a % m) % m = a % m
    BY <1>1, RemainderOfSmall
  <1> QED
    BY <1>1, <1>2, RemainderShift

(* The bytes of s are on the stream from place h + 1 on: each at the place *)
(* that its rank in s and the losses before it give.                       *)
Placed(s, h) ==
    /\ \A i \in 1 .. Len(s) : s[i].pos = (h + i + s[i].gone) % PacketLen
    /\ \A i, j \in 1 .. Len(s) : i <= j => s[i].gone <= s[j].gone
    /\ \A i \in 1 .. Len(s) : s[i].gone <= lost

(* A header of the firmware ended just before place h + 1, the losses      *)
(* before it included.                                                     *)
HeaderAt(h) ==
    headerGone >= 0 =>
        /\ host \in {"payload", "footer"}
        /\ (h + headerGone) % PacketLen = 3
        /\ headerGone <= lost
        /\ \A i \in 1 .. Len(payload) : headerGone <= payload[i].gone
        /\ \A i \in 1 .. Len(line) : headerGone <= line[i].gone

(* What the plotter holds, what waits for it and what the firmware sends   *)
(* next follow each other on the stream.                                   *)
StreamFrom(h) ==
    /\ Placed(payload, h) /\ Placed(line, h + Len(payload))
    /\ \A i \in 1 .. Len(payload), j \in 1 .. Len(line) : payload[i].gone <= line[j].gone
    /\ tx % PacketLen = (h + Len(payload) + Len(line) + 1 + lost) % PacketLen
    /\ HeaderAt(h)

Stream == \E h \in Nat : StreamFrom(h)

LEMMA StreamInit == Init => Stream
  <1> SUFFICES ASSUME Init PROVE Stream
    OBVIOUS
  <1>1. Typed
    BY TypedInit
  <1>2. /\ payload = << >> /\ line = << >> /\ Len(payload) = 0 /\ Len(line) = 0
        /\ lost = 0 /\ headerGone = -1
    BY DEF Init
  <1>3. PICK m \in Nat \ {0} : m = PacketLen
    BY <1>1, PayloadLenIs
  <1>4. PICK h \in Nat : h = tx + (m - 1)
    BY <1>1, <1>3 DEF Typed
  <1>5. tx \in Nat /\ 0 % m = 0 /\ m % m = 0
    <2>1. m = m * 1 + 0 /\ 0 \in 0 .. m - 1
      OBVIOUS
    <2>2. (m * 1 + 0) % m = 0
      BY RemainderUnique
    <2> QED
      BY <1>1, <1>3, <2>1, <2>2, RemainderOfSmall DEF Typed
  <1>6. (m + tx) % m = (0 + tx) % m
    <2>1. PICK t \in Nat : t = tx
      BY <1>5
    <2>2. PICK z \in Nat : z = 0
      OBVIOUS
    <2>3. m \in Nat /\ m % m = z % m
      BY <1>5, <2>2
    <2>4. (m + t) % m = (z + t) % m
      BY <2>3, RemainderShift, Zenon
    <2> QED
      BY <2>1, <2>2, <2>4
  <1>7. tx % PacketLen = (h + Len(payload) + Len(line) + 1 + lost) % PacketLen
    <2>1. h + 0 + 0 + 1 + 0 = m + tx /\ 0 + tx = tx
      BY <1>4, <1>5
    <2> QED
      BY <1>2, <1>3, <1>6, <2>1
  <1>8. Placed(payload, h) /\ Placed(line, h + Len(payload)) /\ HeaderAt(h)
    BY <1>2 DEF Placed, HeaderAt
  <1>9. \A i \in 1 .. Len(payload), j \in 1 .. Len(line) : payload[i].gone <= line[j].gone
    BY <1>2
  <1> QED
    BY <1>7, <1>8, <1>9 DEF Stream, StreamFrom

(* The firmware goes one place further, whether the line keeps the byte or *)
(* not.                                                                    *)
LEMMA FirmwareKeepsStream ==
    ASSUME Typed, NEW h \in Nat, StreamFrom(h), SendByte \/ LoseByte \/ NextPacket
    PROVE  StreamFrom(h)'
  <1>0. /\ UNCHANGED <<payloadLen, host, payload, latest, headerGone>>
        /\ PacketLen' = PacketLen
    BY DEF SendByte, LoseByte, NextPacket, rvars, PacketLen
  <1>1. PICK m \in Nat \ {0}, p \in Nat, n \in Nat, g \in Nat, t \in Nat :
               m = PacketLen /\ p = Len(payload) /\ n = Len(line) /\ g = lost /\ t = tx
    BY PayloadLenIs DEF Typed
  <1>2. /\ Placed(payload, h) /\ Placed(line, h + p) /\ HeaderAt(h)
        /\ \A i \in 1 .. p, j \in 1 .. n : payload[i].gone <= line[j].gone
        /\ t % m = (h + p + n + 1 + g) % m
    BY <1>1 DEF StreamFrom
  <1>3. ASSUME t < m
        PROVE  t = (h + p + n + 1 + g) % m /\ (t + 1) % m = (h + p + n + 2 + g) % m
    <2>1. t % m = t
      BY <1>3, RemainderOfSmall
    <2>2. PICK a \in Nat : a = h + p + n + 1 + g
      OBVIOUS
    <2>3. (t + 1) % m = (a + 1) % m
      <3>1. t % m = a % m
        BY <1>2, <2>2
      <3>2. ((t % m) + 1) % m = (t + 1) % m
        BY RemainderOfNext, Zenon
      <3>3. ((a % m) + 1) % m = (a + 1) % m
        BY RemainderOfNext, Zenon
      <3> QED
        BY <3>1, <3>2, <3>3
    <2>4. a + 1 = h + p + n + 2 + g
      BY <2>2
    <2> QED
      BY <1>2, <2>1, <2>3, <2>4
  <1>4. CASE SendByte
    <2>1. /\ t < m /\ tx' = t + 1 /\ lost' = lost
      BY <1>1, <1>4 DEF SendByte
    <2>2. PICK v \in PayloadAt(tx) : line' = Append(line, ByteAt(tx, v))
      BY <1>4, Zenon DEF SendByte
    <2>3. PICK b \in Byte : b = ByteAt(tx, v) /\ b.pos = tx /\ b.gone = lost
      BY <1>1, <2>1, SentByte
    <2>4. /\ Len(line') = n + 1 /\ line'[n + 1] = b
          /\ \A i \in 1 .. n : line'[i] = line[i]
      BY <1>1, <2>2, <2>3, AppendProperties DEF Typed
    <2>5. \A i \in 1 .. n + 1 : i \in 1 .. n \/ i = n + 1
      OBVIOUS
    <2>6. \A i \in 1 .. n + 1 : line'[i].pos = (h + p + i + line'[i].gone) % m
      <3>1. b.pos = (h + p + (n + 1) + b.gone) % m
        <4>1. h + p + (n + 1) + g = h + p + n + 1 + g
          OBVIOUS
        <4> QED
          BY <1>1, <1>3, <2>1, <2>3, <4>1
      <3>2. \A i \in 1 .. n : line[i].pos = (h + p + i + line[i].gone) % m
        BY <1>1, <1>2 DEF Placed
      <3> QED
        BY <2>4, <2>5, <3>1, <3>2
    <2>7. /\ \A i \in 1 .. n : line[i].gone <= g
          /\ \A i, j \in 1 .. n : i <= j => line[i].gone <= line[j].gone
          /\ \A i \in 1 .. p : payload[i].gone <= g
      BY <1>1, <1>2 DEF Placed
    <2>8. \A i \in 1 .. n + 1 : line'[i].gone <= g
      BY <1>1, <2>3, <2>4, <2>5, <2>7
    <2>9. \A i, j \in 1 .. n + 1 : i <= j => line'[i].gone <= line'[j].gone
      <3> SUFFICES ASSUME NEW i \in 1 .. n + 1, NEW j \in 1 .. n + 1, i <= j
                   PROVE  line'[i].gone <= line'[j].gone
        OBVIOUS
      <3>1. CASE j = n + 1
        BY <1>1, <2>3, <2>4, <2>8, <3>1
      <3>2. CASE j \in 1 .. n
        <4>1. i \in 1 .. n
          BY <3>2
        <4> QED
          BY <2>4, <2>7, <3>2, <4>1
      <3> QED
        BY <2>5, <3>1, <3>2
    <2>10. Placed(line, h + Len(payload))'
      BY <1>0, <1>1, <2>1, <2>4, <2>6, <2>8, <2>9 DEF Placed
    <2>11. Placed(payload, h)'
      BY <1>0, <1>2, <2>1 DEF Placed
    <2>12. \A i \in 1 .. Len(payload'), j \in 1 .. Len(line') :
              payload'[i].gone <= line'[j].gone
      BY <1>0, <1>1, <1>2, <2>3, <2>4, <2>5, <2>7
    <2>13. HeaderAt(h)'
      <3>1. headerGone >= 0 => \A i \in 1 .. n + 1 : headerGone <= line'[i].gone
        BY <1>1, <1>2, <2>3, <2>4, <2>5 DEF HeaderAt
      <3> QED
        BY <1>0, <1>2, <2>1, <2>4, <3>1 DEF HeaderAt
    <2>14. (tx % PacketLen = (h + Len(payload) + Len(line) + 1 + lost) % PacketLen)'
      <3>1. h + p + (n + 1) + 1 + g = h + p + n + 2 + g
        OBVIOUS
      <3> QED
        BY <1>0, <1>1, <1>3, <2>1, <2>4, <3>1
    <2> QED
      BY <2>10, <2>11, <2>12, <2>13, <2>14 DEF StreamFrom
  <1>5. CASE LoseByte
    <2>1. /\ t < m /\ tx' = t + 1 /\ lost' = g + 1 /\ line' = line
      BY <1>1, <1>5 DEF LoseByte
    <2>2. /\ \A i \in 1 .. n : line[i].gone <= g /\ line[i].gone \in Nat
          /\ \A i \in 1 .. p : payload[i].gone <= g /\ payload[i].gone \in Nat
      <3>1. \A i \in 1 .. n : line[i] \in Byte
        BY <1>1, ElementOfSeq DEF Typed
      <3>2. \A i \in 1 .. p : payload[i] \in Byte
        BY <1>1, ElementOfSeq DEF Typed
      <3>3. \A b \in Byte : b.gone \in Nat
        BY LinkAssumption DEF Byte
      <3> QED
        BY <1>1, <1>2, <3>1, <3>2, <3>3 DEF Placed
    <2>3. Placed(line, h + Len(payload))' /\ Placed(payload, h)'
      <3>1. \A i \in 1 .. n : line[i].gone <= g + 1
        BY <2>2
      <3>2. \A i \in 1 .. p : payload[i].gone <= g + 1
        BY <2>2
      <3> QED
        BY <1>0, <1>1, <1>2, <2>1, <3>1, <3>2 DEF Placed
    <2>4. HeaderAt(h)'
      <3>1. headerGone >= 0 => headerGone <= g + 1
        BY <1>1, <1>2 DEF HeaderAt, Typed
      <3> QED
        BY <1>0, <1>2, <2>1, <3>1 DEF HeaderAt
    <2>5. (tx % PacketLen = (h + Len(payload) + Len(line) + 1 + lost) % PacketLen)'
      <3>1. h + p + n + 1 + (g + 1) = h + p + n + 2 + g
        OBVIOUS
      <3> QED
        BY <1>0, <1>1, <1>3, <2>1, <3>1
    <2> QED
      BY <1>0, <1>1, <1>2, <2>1, <2>3, <2>4, <2>5 DEF StreamFrom
  <1>6. CASE NextPacket
    <2>1. /\ t = m /\ tx' = 0 /\ lost' = lost /\ line' = line
      BY <1>1, <1>6 DEF NextPacket
    <2>2. m % m = 0 % m
      <3>1. m = m * 1 + 0 /\ 0 \in 0 .. m - 1
        OBVIOUS
      <3>2. (m * 1 + 0) % m = 0 /\ 0 % m = 0
        BY <3>1, RemainderUnique, RemainderOfSmall
      <3> QED
        BY <3>1, <3>2
    <2>3. Placed(line, h + Len(payload))' /\ Placed(payload, h)' /\ HeaderAt(h)'
      BY <1>0, <1>1, <1>2, <2>1 DEF Placed, HeaderAt
    <2> QED
      BY <1>0, <1>1, <1>2, <2>1, <2>2, <2>3 DEF StreamFrom
  <1> QED
    BY <1>4, <1>5, <1>6

(* What is left of the line is placed as it was.                           *)
LEMMA TakingKeepsPlaces ==
    ASSUME Typed, NEW c \in Nat, Placed(line, c), NEW k \in 0 .. Len(line),
           line' = SubSeq(line, k + 1, Len(line)), UNCHANGED <<payloadLen, lost>>
    PROVE  /\ Placed(line, c + k)'
           /\ Len(line') = Len(line) - k
           /\ \A i \in 1 .. Len(line) - k : line'[i] = line[i + k]
  <1>1. PICK n \in Nat : n = Len(line)
    BY DEF Typed
  <1>2. /\ Len(line') = n - k
        /\ \A i \in 1 .. n - k : line'[i] = line[i + k] /\ i + k \in 1 .. n
    <2>1. line \in Seq(Byte)
      BY DEF Typed
    <2>2. Len(line') = n - k /\ \A i \in 1 .. n - k : line'[i] = line[i + k]
      BY <1>1, <2>1, Dropped
    <2>3. \A i \in 1 .. n - k : i + k \in 1 .. n
      BY <1>1
    <2> QED
      BY <2>2, <2>3
  <1>3. \A i \in 1 .. n - k : line'[i].pos = (c + k + i + line'[i].gone) % PacketLen
    <2> SUFFICES ASSUME NEW i \in 1 .. n - k
                 PROVE  line'[i].pos = (c + k + i + line'[i].gone) % PacketLen
      OBVIOUS
    <2>1. line[i + k].pos = (c + (i + k) + line[i + k].gone) % PacketLen
      BY <1>1, <1>2 DEF Placed
    <2>2. c + (i + k) = c + k + i
      BY <1>1
    <2> QED
      BY <1>2, <2>1, <2>2
  <1>4. \A i, j \in 1 .. n - k : i <= j => line'[i].gone <= line'[j].gone
    <2> SUFFICES ASSUME NEW i \in 1 .. n - k, NEW j \in 1 .. n - k, i <= j
                 PROVE  line'[i].gone <= line'[j].gone
      OBVIOUS
    <2>1. i + k <= j + k
      BY <1>1
    <2> QED
      BY <1>1, <1>2, <2>1 DEF Placed
  <1>5. \A i \in 1 .. n - k : line'[i].gone <= lost
    BY <1>1, <1>2 DEF Placed
  <1>6. PacketLen' = PacketLen
    BY DEF PacketLen
  <1> QED
    BY <1>1, <1>2, <1>3, <1>4, <1>5, <1>6 DEF Placed

(* The plotter takes bytes off the line and keeps what it has in place.    *)
LEMMA HostKeepsStream ==
    ASSUME Typed, NEW h \in Nat, StreamFrom(h), HostNext
    PROVE  Stream'
  <1>0. /\ UNCHANGED <<payloadLen, tx, lost>> /\ PacketLen' = PacketLen
        /\ DataLen \in Nat \ {0}
    BY LinkAssumption DEF HostNext, HostScan, HostRest, HostPayload, HostFooter, HostTimeout,
                          PacketLen
  <1>1. PICK m \in Nat \ {0}, p \in Nat, n \in Nat, g \in Nat :
               m = PacketLen /\ p = Len(payload) /\ n = Len(line) /\ g = lost
    BY PayloadLenIs DEF Typed
  <1>2. /\ Placed(payload, h) /\ Placed(line, h + p) /\ HeaderAt(h)
        /\ tx % m = (h + p + n + 1 + g) % m
    BY <1>1 DEF StreamFrom
  <1>3. /\ line \in Seq(Byte) /\ payload \in Seq(Byte) /\ headerGone \in Int
        /\ p = IF host = "footer" THEN DataLen ELSE 0
    BY <1>1, LinkAssumption DEF Typed
  <1>4. ASSUME NEW k \in 1 .. n, Take(k), Len(payload') = 0, HeaderAt(h + p + k)'
        PROVE  Stream'
    <2>1. PICK c \in Nat : c = h + p
      BY <1>1
    <2>2. /\ Placed(line, c + k)' /\ Len(line') = n - k
      BY <1>0, <1>1, <1>2, <1>4, <2>1, TakingKeepsPlaces DEF Take
    <2>3. PICK d \in Nat : d = c + k
      OBVIOUS
    <2>4. /\ Placed(line, d + Len(payload))' /\ HeaderAt(d)'
      <3>1. d + Len(payload') = c + k
        BY <1>4, <2>3
      <3> QED
        BY <1>4, <2>1, <2>2, <2>3, <3>1 DEF Placed, HeaderAt
    <2>5. Placed(payload, d)'
      BY <1>4 DEF Placed
    <2>6. d + 0 + (n - k) + 1 + g = h + p + n + 1 + g
      BY <2>1, <2>3
    <2>7. (tx % PacketLen = (d + Len(payload) + Len(line) + 1 + lost) % PacketLen)'
      BY <1>0, <1>1, <1>2, <1>4, <2>2, <2>6
    <2>8. \A i \in 1 .. Len(payload') : FALSE
      BY <1>4
    <2>9. StreamFrom(d)'
      BY <2>4, <2>5, <2>7, <2>8 DEF StreamFrom
    <2> QED
      BY <2>9 DEF Stream
  <1>5. CASE HostScan
    <2>1. Take(1) /\ host = "scan" /\ payload' = payload /\ headerGone' = headerGone
      BY <1>5 DEF HostScan
    <2>2. p = 0 /\ Len(line) >= 1
      BY <1>3, <2>1 DEF Take
    <2>3. 1 \in 1 .. n /\ Len(payload') = 0
      BY <1>1, <2>1, <2>2
    <2>4. HeaderAt(h + p + 1)'
      BY <1>2, <2>1 DEF HeaderAt
    <2> QED
      BY <1>4, <2>1, <2>3, <2>4
  <1>6. CASE HostRest
    <2>1. /\ Take(3) /\ host = "rest" /\ payload' = payload
          /\ headerGone' = IF host' = "payload" /\ line[3].pos = 3 THEN line[3].gone ELSE -1
      BY <1>6 DEF HostRest
    <2>2. p = 0 /\ Len(line) >= 3
      BY <1>3, <2>1 DEF Take
    <2>3. 3 \in 1 .. n /\ p = 0 /\ Len(payload') = 0 /\ n >= 3
      BY <1>1, <2>1, <2>2
    <2>4. /\ Len(line') = n - 3 /\ \A i \in 1 .. n - 3 : line'[i] = line[i + 3]
      BY <1>0, <1>1, <1>2, <2>1, <2>3, TakingKeepsPlaces DEF Take
    <2>5. ASSUME headerGone' >= 0
          PROVE  /\ host' = "payload" /\ headerGone' = line[3].gone
                 /\ (h + p + 3 + headerGone') % m = 3 /\ headerGone' <= g
                 /\ \A i \in 1 .. n - 3 : headerGone' <= line'[i].gone
      <3>1. host' = "payload" /\ line[3].pos = 3 /\ headerGone' = line[3].gone
        BY <2>1, <2>5
      <3>2. line[3].pos = (h + p + 3 + line[3].gone) % m /\ line[3].gone <= g
        BY <1>1, <1>2, <2>3 DEF Placed
      <3>3. \A i \in 1 .. n - 3 : line[3].gone <= line'[i].gone
        <4>1. \A i \in 1 .. n - 3 : i + 3 \in 1 .. n /\ 3 <= i + 3
          BY <2>3
        <4> QED
          BY <1>1, <1>2, <2>3, <2>4, <4>1 DEF Placed
      <3> QED
        BY <3>1, <3>2, <3>3
    <2>6. HeaderAt(h + p + 3)'
      BY <1>0, <1>1, <2>1, <2>3, <2>4, <2>5 DEF HeaderAt
    <2> QED
      BY <1>4, <2>1, <2>3, <2>6
  <1>7. CASE HostPayload
    <2>1. /\ Take(DataLen) /\ host = "payload" /\ host' = "footer"
          /\ payload' = Taken(DataLen) /\ headerGone' = headerGone
      BY <1>7 DEF HostPayload
    <2>2. PICK d \in Nat \ {0} : d = DataLen
      BY <1>0
    <2>3. d \in 1 .. n /\ d \in 0 .. Len(line) /\ p = 0
      BY <1>1, <1>3, <2>1, <2>2 DEF Take
    <2>4. Len(payload') = d /\ \A i \in 1 .. d : payload'[i] = line[i]
      BY <1>3, <2>1, <2>2, <2>3, Prefix DEF Taken
    <2>5. Placed(line, h)
      BY <1>2, <2>3
    <2>6. /\ Placed(line, h + d)' /\ Len(line') = n - d
          /\ \A i \in 1 .. n - d : line'[i] = line[i + d]
      BY <1>0, <1>1, <2>1, <2>2, <2>3, <2>5, TakingKeepsPlaces DEF Take
    <2>7. \A i \in 1 .. d : i \in 1 .. n
      BY <2>3
    <2>8. Placed(payload, h)'
      BY <1>0, <1>1, <2>4, <2>5, <2>7 DEF Placed
    <2>9. \A i \in 1 .. d, j \in 1 .. n - d : payload'[i].gone <= line'[j].gone
      <3> SUFFICES ASSUME NEW i \in 1 .. d, NEW j \in 1 .. n - d
                   PROVE  payload'[i].gone <= line'[j].gone
        OBVIOUS
      <3>1. j + d \in 1 .. n /\ i <= j + d
        BY <2>3
      <3> QED
        BY <1>1, <2>4, <2>5, <2>6, <2>7, <3>1 DEF Placed
    <2>10. HeaderAt(h)'
      <3>1. \A j \in 1 .. n - d : j + d \in 1 .. n
        BY <2>3
      <3> QED
        BY <1>0, <1>1, <1>2, <2>1, <2>4, <2>6, <2>7, <3>1 DEF HeaderAt
    <2>11. h + d + (n - d) + 1 + g = h + p + n + 1 + g
      BY <2>3
    <2>12. StreamFrom(h)'
      BY <1>0, <1>1, <1>2, <2>4, <2>6, <2>8, <2>9, <2>10, <2>11 DEF StreamFrom
    <2> QED
      BY <2>12 DEF Stream
  <1>8. CASE HostFooter
    <2>1. Take(4) /\ payload' = << >> /\ headerGone' = -1
      BY <1>8 DEF HostFooter
    <2>2. 4 \in 1 .. n /\ Len(payload') = 0
      BY <1>1, <2>1 DEF Take
    <2>3. HeaderAt(h + p + 4)'
      BY <2>1 DEF HeaderAt
    <2> QED
      BY <1>4, <2>1, <2>2, <2>3
  <1>9. CASE HostTimeout
    <2>1. line' = << >> /\ payload' = << >> /\ headerGone' = -1
      BY <1>9 DEF HostTimeout
    <2>2. PICK d \in Nat : d = h + p + n
      OBVIOUS
    <2>3. Placed(payload, d)' /\ Placed(line, d + Len(payload))' /\ HeaderAt(d)'
      BY <2>1 DEF Placed, HeaderAt
    <2>4. d + 0 + 0 + 1 + g = h + p + n + 1 + g
      BY <2>2
    <2>5. Len(payload') = 0 /\ Len(line') = 0
      BY <2>1
    <2>6. StreamFrom(d)'
      BY <1>0, <1>1, <1>2, <2>3, <2>4, <2>5 DEF StreamFrom
    <2> QED
      BY <2>6 DEF Stream
  <1> QED
    BY <1>5, <1>6, <1>7, <1>8, <1>9 DEF HostNext

LEMMA StreamNext == Typed /\ Stream /\ [Next]_lvars => Stream'
  <1> SUFFICES ASSUME Typed, Stream, [Next]_lvars PROVE Stream'
    OBVIOUS
  <1>1. PICK h \in Nat : StreamFrom(h)
    BY DEF Stream
  <1>2. CASE SendByte \/ LoseByte \/ NextPacket
    BY <1>1, <1>2, FirmwareKeepsStream DEF Stream
  <1>3. CASE HostNext
    BY <1>1, <1>3, HostKeepsStream
  <1>4. CASE UNCHANGED lvars
    <2>1. PacketLen' = PacketLen
      BY <1>4 DEF lvars, PacketLen
    <2>2. StreamFrom(h)'
      BY <1>1, <1>4, <2>1 DEF lvars, StreamFrom, Placed, HeaderAt
    <2> QED
      BY <2>2 DEF Stream
  <1> QED
    BY <1>2, <1>3, <1>4 DEF Next

Link == Typed /\ LineFaithful /\ Stream

LEMMA LinkInit == Init => Link
  BY TypedInit, FaithfulInit, StreamInit DEF Link

LEMMA LinkNext == Link /\ [Next]_lvars => Link'
  BY TypedNext, FaithfulNext, StreamNext DEF Link
-----------------------------------------------------------------------------
(* What is shown after a header *)

(* Nothing but a footer changes what is shown.                             *)
LEMMA ShownChanges ==
    ASSUME [Next]_lvars, latest' # latest
    PROVE  HostFooter /\ GoodFrame /\ latest' = payload
  BY DEF Next, SendByte, LoseByte, NextPacket, HostNext, HostScan, HostRest, HostPayload,
         HostFooter, HostTimeout, GoodFrame, Take, lvars, rvars

LEMMA FooterBytes ==
    ASSUME Typed, GoodFrame
    PROVE  /\ Len(payload) = DataLen /\ Len(line) >= 4
           /\ line[1].val = "DD" /\ line[2].val = "CC"
  <1>1. line \in Seq(Byte) /\ Len(line) \in Nat /\ Len(line) >= 4
    BY DEF GoodFrame, Typed
  <1>2. 4 \in 0 .. Len(line)
    BY <1>1
  <1>3. Taken(4) \in Seq(Byte) /\ Len(Taken(4)) = 4 /\ \A i \in 1 .. 4 : Taken(4)[i] = line[i]
    BY <1>1, <1>2, Prefix DEF Taken
  <1>4. \A i \in 1 .. 4 : Values(Taken(4))[i] = line[i].val
    BY <1>3 DEF Values
  <1>5. FOOTER[1] = "DD" /\ FOOTER[2] = "CC" /\ 1 \in 1 .. 4 /\ 2 \in 1 .. 4
    BY DEF FOOTER
  <1> QED
    BY <1>1, <1>4, <1>5 DEF GoodFrame, Typed

(* What follows a header: DataLen bytes, and those that were lost.         *)
LEMMA AfterHeader ==
    ASSUME Typed, NEW h \in Nat, StreamFrom(h), headerGone >= 0, host = "footer",
           Len(line) >= 1, NEW e \in Nat, line[1].gone = headerGone + e
    PROVE  /\ line[1].pos = (4 + DataLen + e) % PacketLen
           /\ e = 0 => \A i \in 1 .. DataLen : /\ payload[i].pos = (3 + i) % PacketLen
                                               /\ payload[i].gone = headerGone
  <1>1. PICK m \in Nat \ {0}, d \in Nat \ {0}, g \in Nat, n \in Nat :
               m = PacketLen /\ d = DataLen /\ g = headerGone /\ n = Len(line)
    <2>1. headerGone \in Nat /\ Len(line) \in Nat
      BY DEF Typed
    <2>2. DataLen \in Nat \ {0} /\ PacketLen \in Nat \ {0}
      BY PayloadLenIs, LinkAssumption
    <2> QED
      BY <2>1, <2>2
  <1>2. /\ 1 \in 1 .. n /\ Len(payload) = d /\ line[1] \in Byte /\ m >= 9
        /\ \A i \in 1 .. d : payload[i] \in Byte
    BY <1>1, PayloadLenIs DEF Typed
  <1>3. line[1].gone = g + e
    BY <1>1
  <1>4. /\ (h + g) % m = 3
        /\ line[1].pos = (h + d + 1 + line[1].gone) % m
        /\ \A i \in 1 .. d : /\ payload[i].pos = (h + i + payload[i].gone) % m
                             /\ g <= payload[i].gone /\ payload[i].gone <= line[1].gone
    BY <1>1, <1>2 DEF StreamFrom, Placed, HeaderAt
  <1>5. ASSUME NEW k \in Nat PROVE (h + g + k) % m = (3 + k) % m
    <2>1. PICK a \in Nat : a = h + g
      OBVIOUS
    <2>2. (a + k) % m = ((a % m) + k) % m
      BY RemainderOfSum, Zenon
    <2> QED
      BY <1>4, <2>1, <2>2
  <1>6. line[1].pos = (4 + d + e) % m
    <2>1. PICK k \in Nat : k = d + 1 + e
      OBVIOUS
    <2>2. h + d + 1 + (g + e) = h + g + k /\ 4 + d + e = 3 + k
      BY <2>1
    <2>3. (h + g + k) % m = (3 + k) % m
      BY <1>5
    <2> QED
      BY <1>3, <1>4, <2>2, <2>3
  <1>7. ASSUME e = 0, NEW i \in 1 .. d
        PROVE  payload[i].pos = (3 + i) % m /\ payload[i].gone = g
    <2>1. payload[i].gone \in Nat
      BY <1>2, LinkAssumption DEF Byte
    <2>0. line[1].gone = g
      BY <1>3, <1>7
    <2>2. payload[i].gone = g
      <3>1. g <= payload[i].gone /\ payload[i].gone <= line[1].gone
        BY <1>4
      <3> QED
        BY <2>0, <2>1, <3>1
    <2>3. h + i + g = h + g + i /\ i \in Nat
      OBVIOUS
    <2>4. (h + g + i) % m = (3 + i) % m
      BY <1>5, <2>3
    <2> QED
      BY <1>4, <2>2, <2>3, <2>4
  <1> QED
    BY <1>1, <1>6, <1>7

(* Where the plotter looks for the footer of a packet of n bytes payload   *)
(* after e lost bytes.                                                     *)
LEMMA FooterPlace ==
    ASSUME NEW n \in Nat \ {0}, NEW e \in 0 .. 6
    PROVE  (4 + n + e) % (n + 8) = IF e <= 3 THEN n + 4 + e ELSE e - 4
  <1>1. PICK m \in Nat \ {0} : m = n + 8
    OBVIOUS
  <1>2. CASE e <= 3
    <2>1. 4 + n + e \in Nat /\ 4 + n + e < m
      BY <1>1, <1>2
    <2>2. (4 + n + e) % m = 4 + n + e
      BY <2>1, RemainderOfSmall
    <2> QED
      BY <1>1, <1>2, <2>2
  <1>3. CASE e > 3
    <2>1. e - 4 \in 0 .. m - 1 /\ 4 + n + e = m * 1 + (e - 4)
      BY <1>1, <1>3
    <2>2. (m * 1 + (e - 4)) % m = e - 4
      BY <2>1, RemainderUnique
    <2> QED
      BY <1>1, <1>3, <2>1, <2>2
  <1> QED
    BY <1>2, <1>3

LEMMA FrameIsWhole ==
    ASSUME Link, GoodFrame, payloadLen = DataLen, headerGone >= 0,
           NEW e \in 0 .. 6, e = line[1].gone - headerGone
    PROVE  Whole(payload)
  <1>1. PICK n \in Nat \ {0} : n = payloadLen /\ n = DataLen /\ PacketLen = n + 8
    BY PayloadLenIs DEF Link, PacketLen
  <1>2. PICK h \in Nat : StreamFrom(h)
    BY DEF Link, Stream
  <1>3. Typed /\ LineFaithful /\ host = "footer"
    BY DEF Link, GoodFrame
  <1>4. Len(payload) = n /\ Len(line) >= 4 /\ line[1].val = "DD"
    BY <1>1, <1>3, FooterBytes
  <1>5. /\ line[1].pos = (4 + DataLen + e) % PacketLen
        /\ e = 0 => \A i \in 1 .. DataLen : /\ payload[i].pos = (3 + i) % PacketLen
                                            /\ payload[i].gone = headerGone
    <2>1. e \in Nat /\ Len(line) >= 1 /\ line[1].gone = headerGone + e
      <3>1. line[1] \in Byte
        BY <1>3, <1>4 DEF Typed
      <3>2. line[1].gone \in Nat /\ headerGone \in Int
        BY <1>3, <3>1, LinkAssumption DEF Typed, Byte
      <3>3. e \in Nat /\ line[1].gone = headerGone + e
        BY <3>2
      <3>4. Len(line) >= 1
        BY <1>3, <1>4 DEF Typed
      <3> QED
        BY <3>3, <3>4
    <2> QED
      BY <1>2, <1>3, <2>1, AfterHeader
  <1>6. line[1].pos = IF e <= 3 THEN n + 4 + e ELSE e - 4
    BY <1>1, <1>5, FooterPlace
  <1>7. e = 0
    <2>1. 1 \in 1 .. Len(line)
      BY <1>3, <1>4 DEF Typed
    <2>2. /\ line[1].pos # 0 /\ line[1].pos # 1 /\ line[1].pos # 2
          /\ line[1].pos # n + 5 /\ line[1].pos # n + 6 /\ line[1].pos # n + 7
      BY <1>1, <1>3, <1>4, <2>1, MarkerValues
    <2> QED
      BY <1>6, <2>2
  <1>8. \A i \in 1 .. n : payload[i].pos = 3 + i /\ payload[i].gone = headerGone
    <2> SUFFICES ASSUME NEW i \in 1 .. n
                 PROVE  payload[i].pos = 3 + i /\ payload[i].gone = headerGone
      OBVIOUS
    <2>1. (3 + i) % (n + 8) = 3 + i
      BY RemainderOfSmall
    <2> QED
      BY <1>1, <1>5, <1>7, <2>1
  <1>9. DOMAIN payload = 1 .. n /\ 1 \in 1 .. n
    BY <1>3, <1>4 DEF Typed
  <1> QED
    BY <1>8, <1>9 DEF Whole

(* A frame that is shown after a header of the firmware is the payload of  *)
(* one packet, whole and in order, whatever the payload holds and however  *)
(* many bytes the line loses in all, if fewer than seven are lost between  *)
(* its markers (uart_range_plotter.py:32-54).                              *)
THEOREM OneFrameOnePacket == Spec => FramesAreWhole
  <1>1. Link /\ [Next]_lvars =>
          (\A missing \in 0 .. 6 :
             (payloadLen = DataLen /\ Shows(missing)) => Whole(latest'))
    <2> SUFFICES ASSUME Link, [Next]_lvars, NEW missing \in 0 .. 6,
                        payloadLen = DataLen, Shows(missing)
                 PROVE  Whole(latest')
      OBVIOUS
    <2>1. latest' # latest /\ headerGone >= 0 /\ missing = line[1].gone - headerGone
      BY DEF Shows
    <2>2. GoodFrame /\ latest' = payload
      BY <2>1, ShownChanges
    <2>3. Whole(payload)
      BY <2>1, <2>2, FrameIsWhole
    <2> QED
      BY <2>2, <2>3 DEF Whole
  <1> QED
    BY <1>1, LinkInit, LinkNext, PTL DEF Spec, FramesAreWhole

(* A plotter made for another number of bins than the firmware shows       *)
(* nothing between a header and a footer of it, except where DataLen bytes *)
(* and the lost ones lead exactly to a footer: read_frame checks the       *)
(* footer before it returns a frame (uart_range_plotter.py:52-54).         *)
THEOREM MismatchIsSeen == Spec => MismatchShowsNothing
  <1>1. Link /\ [Next]_lvars =>
          (\A missing \in 0 .. MaxLoss :
             (/\ payloadLen # DataLen /\ Shows(missing)
              /\ line[1].pos = payloadLen + 4) =>
                /\ DataLen + missing >= payloadLen
                /\ (DataLen + missing - payloadLen) % PacketLen = 0)
    <2> SUFFICES ASSUME Link, [Next]_lvars, NEW e \in 0 .. MaxLoss, Shows(e),
                        line[1].pos = payloadLen + 4
                 PROVE  /\ DataLen + e >= payloadLen
                        /\ (DataLen + e - payloadLen) % PacketLen = 0
      OBVIOUS
    <2>1. latest' # latest /\ headerGone >= 0 /\ e = line[1].gone - headerGone
      BY DEF Shows
    <2>2. GoodFrame /\ Typed /\ host = "footer"
      BY <2>1, ShownChanges DEF Link, GoodFrame
    <2>3. PICK h \in Nat : StreamFrom(h)
      BY DEF Link, Stream
    <2>4. Len(line) >= 1 /\ e \in Nat /\ line[1].gone = headerGone + e
      <3>1. line[1] \in Byte /\ Len(line) >= 1
        BY <2>2 DEF GoodFrame, Typed
      <3>2. line[1].gone \in Nat /\ headerGone \in Int /\ e \in Nat
        BY <2>2, <3>1, LinkAssumption DEF Typed, Byte
      <3> QED
        BY <2>1, <3>1, <3>2
    <2>5. line[1].pos = (4 + DataLen + e) % PacketLen
      BY <2>1, <2>2, <2>3, <2>4, AfterHeader
    <2>6. PICK n \in Nat \ {0}, d \in Nat, m \in Nat \ {0} :
                 n = payloadLen /\ d = DataLen /\ m = PacketLen /\ m = n + 8
      BY <2>2, PayloadLenIs, LinkAssumption DEF PacketLen
    <2>7. PICK a \in Nat : a = 4 + d + e
      BY <2>4
    <2>8. PICK q \in Nat : q = a \div m
      BY Division
    <2>9. a = m * q + (n + 4)
      BY <2>5, <2>6, <2>7, <2>8, Division
    <2>10. m * q \in Nat /\ d + e - n = m * q + 0
      <3>1. m * q \in Nat
        OBVIOUS
      <3> QED
        BY <2>4, <2>7, <2>9, <3>1
    <2>11. (m * q + 0) % m = 0
      <3>1. 0 \in 0 .. m - 1
        OBVIOUS
      <3> QED
        BY <3>1, RemainderUnique
    <2>12. d + e >= n
      BY <2>4, <2>10
    <2> QED
      BY <2>6, <2>10, <2>11, <2>12
  <1> QED
    BY <1>1, LinkInit, LinkNext, PTL DEF Spec, MismatchShowsNothing
-----------------------------------------------------------------------------
(* In step *)

AwaitedPos == Awaited[host]

LEMMA AwaitedIs ==
    ASSUME Typed, payloadLen = DataLen
    PROVE  /\ AwaitedPos \in Nat /\ AwaitedPos < PacketLen
           /\ host = "scan" => AwaitedPos = 0
           /\ host = "rest" => AwaitedPos = 1
           /\ host = "payload" => AwaitedPos = 4
           /\ host = "footer" => AwaitedPos = 4 + DataLen
  BY PayloadLenIs, LinkAssumption DEF Typed, AwaitedPos, Awaited, PacketLen

(* In step, all that waits follows the awaited byte.                       *)
LEMMA InStepPlaces ==
    ASSUME Typed, NEW h \in Nat, StreamFrom(h), InStep
    PROVE  /\ \A i \in 1 .. Len(line) :
                 line[i].pos = (AwaitedPos + (i - 1)) % PacketLen /\ line[i].gone = lost
           /\ tx % PacketLen = (AwaitedPos + Len(line)) % PacketLen
  <1>1. PICK m \in Nat \ {0}, n \in Nat, g \in Nat, w \in Nat, c \in Nat :
               /\ m = PacketLen /\ n = Len(line) /\ g = lost /\ w = AwaitedPos
               /\ c = h + Len(payload)
    <2>1. PacketLen \in Nat \ {0} /\ AwaitedPos \in Nat
      BY PayloadLenIs, AwaitedIs DEF InStep
    <2>2. Len(line) \in Nat /\ lost \in Nat /\ h + Len(payload) \in Nat
      BY DEF Typed
    <2> QED
      BY <2>1, <2>2
  <1>2. /\ \A i \in 1 .. n : line[i].pos = (c + i + line[i].gone) % m
        /\ tx % m = (c + n + 1 + g) % m
    BY <1>1 DEF StreamFrom, Placed
  <1>3. \A i \in 1 .. n : line[i].gone = g
    <2>1. DOMAIN line = 1 .. n
      BY <1>1 DEF Typed
    <2> QED
      BY <1>1, <2>1 DEF InStep
  <1>4. PICK a \in Nat : a = c + 1 + g
    OBVIOUS
  <1>5. a % m = w
    <2>1. (IF line = << >> THEN tx % m ELSE line[1].pos) = w
      BY <1>1 DEF InStep, AwaitedPos
    <2>2. CASE n = 0
      <3>1. line = << >>
        BY <1>1, <2>2, EmptySeq DEF Typed
      <3>2. c + n + 1 + g = a
        BY <1>4, <2>2
      <3> QED
        BY <1>2, <2>1, <3>1, <3>2
    <2>3. CASE n # 0
      <3>1. line # << >> /\ 1 \in 1 .. n
        BY <1>1, <2>3, EmptySeq DEF Typed
      <3>2. line[1].pos = a % m
        BY <1>2, <1>3, <1>4, <3>1
      <3> QED
        BY <2>1, <3>1, <3>2
    <2> QED
      BY <2>2, <2>3
  <1>6. ASSUME NEW k \in Nat PROVE (a + k) % m = (w + k) % m
    <2>1. (a + k) % m = ((a % m) + k) % m
      BY RemainderOfSum, Zenon
    <2> QED
      BY <1>5, <2>1
  <1>7. \A i \in 1 .. n : line[i].pos = (w + (i - 1)) % m
    <2> SUFFICES ASSUME NEW i \in 1 .. n PROVE line[i].pos = (w + (i - 1)) % m
      OBVIOUS
    <2>1. PICK k \in Nat : k = i - 1
      OBVIOUS
    <2>2. c + i + g = a + k
      BY <1>4, <2>1
    <2>3. (a + k) % m = (w + k) % m
      BY <1>6
    <2> QED
      BY <1>2, <1>3, <2>1, <2>2, <2>3
  <1>8. tx % m = (w + n) % m
    <2>1. c + n + 1 + g = a + n
      BY <1>4
    <2>2. (a + n) % m = (w + n) % m
      BY <1>6
    <2> QED
      BY <1>2, <2>1, <2>2
  <1> QED
    BY <1>1, <1>3, <1>7, <1>8

(* The plotter takes k bytes, and awaits the one after them.               *)
LEMMA TakingKeepsStep ==
    ASSUME Typed, NEW h \in Nat, StreamFrom(h), InStep, NEW k \in 1 .. Len(line),
           line' = SubSeq(line, k + 1, Len(line)), UNCHANGED <<payloadLen, tx, lost>>,
           AwaitedPos' = (AwaitedPos + k) % PacketLen
    PROVE  InStep'
  <1>1. PICK n \in Nat : n = Len(line)
    BY DEF Typed
  <1>2. /\ line' \in Seq(Byte) /\ Len(line') = n - k
        /\ \A i \in 1 .. n - k : line'[i] = line[i + k]
    <2>1. line \in Seq(Byte) /\ k \in 0 .. Len(line)
      BY <1>1 DEF Typed
    <2> QED
      BY <1>1, <2>1, Dropped
  <1>3. /\ \A i \in 1 .. n :
              line[i].pos = (AwaitedPos + (i - 1)) % PacketLen /\ line[i].gone = lost
        /\ tx % PacketLen = (AwaitedPos + n) % PacketLen
    BY <1>1, InStepPlaces
  <1>4. PacketLen' = PacketLen
    BY DEF PacketLen
  <1>5. \A i \in DOMAIN line' : line'[i].gone = lost'
    <2>1. \A i \in DOMAIN line' : i \in 1 .. n - k /\ i + k \in 1 .. n
      BY <1>1, <1>2
    <2> QED
      BY <1>2, <1>3, <2>1
  <1>6. (IF line' = << >> THEN tx' % PacketLen' ELSE line'[1].pos) = AwaitedPos'
    <2>1. CASE line' = << >>
      <3>1. n = k
        <4>1. n - k = 0
          BY <1>2, <2>1, EmptySeq
        <4> QED
          BY <1>1, <4>1
      <3> QED
        BY <1>3, <1>4, <2>1, <3>1
    <2>2. CASE line' # << >>
      <3>1. 1 \in 1 .. n - k /\ 1 + k \in 1 .. n /\ 1 + k - 1 = k
        <4>1. n - k # 0
          BY <1>2, <2>2, EmptySeq
        <4> QED
          BY <1>1, <4>1
      <3> QED
        BY <1>2, <1>3, <2>2, <3>1
    <2> QED
      BY <2>1, <2>2
  <1> QED
    BY <1>4, <1>5, <1>6 DEF InStep, AwaitedPos

(* A plotter in step stays in step as long as the line loses nothing,      *)
(* whatever the payloads hold: a marker in a payload misleads none that    *)
(* has found a packet's own (uart_range_plotter.py:32-54).                 *)
THEOREM InStepForGood == Spec => StaysInStep
  <1>1. Link /\ [Next]_lvars => ((InStep /\ lost' = lost) => InStep')
    <2> SUFFICES ASSUME Link, [Next]_lvars, InStep, lost' = lost
                 PROVE  InStep'
      OBVIOUS
    <2>1. PICK h \in Nat : StreamFrom(h)
      BY DEF Link, Stream
    <2>2. Typed /\ LineFaithful /\ payloadLen = DataLen /\ DataLen \in Nat \ {0}
      BY LinkAssumption DEF Link, InStep
    <2>3. payloadLen' = payloadLen /\ PacketLen' = PacketLen
      BY DEF Next, SendByte, LoseByte, NextPacket, HostNext, HostScan, HostRest, HostPayload,
             HostFooter, HostTimeout, lvars, PacketLen
    <2>4. /\ AwaitedPos \in Nat /\ AwaitedPos < PacketLen /\ PacketLen = DataLen + 8
          /\ host = "scan" => AwaitedPos = 0
          /\ host = "rest" => AwaitedPos = 1
          /\ host = "payload" => AwaitedPos = 4
          /\ host = "footer" => AwaitedPos = 4 + DataLen
      BY <2>2, AwaitedIs DEF PacketLen
    <2>5. /\ \A i \in 1 .. Len(line) :
                line[i].pos = (AwaitedPos + (i - 1)) % PacketLen /\ line[i].gone = lost
          /\ Len(line) \in Nat
      BY <2>1, <2>2, InStepPlaces DEF Typed
    <2>6. AwaitedPos' = Awaited[host']
      BY DEF AwaitedPos, Awaited
    <2>7. CASE SendByte
      <3>1. /\ tx < PacketLen /\ tx \in Nat /\ PacketLen \in Nat /\ host' = host
            /\ tx % PacketLen = tx
        <4>1. /\ tx < PacketLen /\ tx \in Nat /\ PacketLen \in Nat /\ host' = host
          BY <2>2, <2>7, PayloadLenIs DEF SendByte, Typed, rvars
        <4> QED
          BY <4>1, RemainderOfSmall
      <3>2. PICK v \in PayloadAt(tx) : line' = Append(line, ByteAt(tx, v))
        BY <2>7, Zenon DEF SendByte
      <3>3. PICK b \in Byte : b = ByteAt(tx, v) /\ b.pos = tx /\ b.gone = lost
        BY <2>2, <3>1, SentByte
      <3>4. /\ line' \in Seq(Byte) /\ Len(line') = Len(line) + 1 /\ line'[Len(line) + 1] = b
            /\ \A i \in 1 .. Len(line) : line'[i] = line[i]
        BY <2>2, <3>2, <3>3, AppendProperties DEF Typed
      <3>5. \A i \in DOMAIN line' : line'[i].gone = lost
        <4>1. \A i \in DOMAIN line' : i \in 1 .. Len(line) \/ i = Len(line) + 1
          BY <2>5, <3>4
        <4> QED
          BY <2>5, <3>3, <3>4, <4>1
      <3>6. line' # << >> /\ line'[1].pos = AwaitedPos
        <4>0. /\ Len(line) = 0 <=> line = << >>
              /\ Len(line') = 0 <=> line' = << >>
          BY <2>2, <3>4, EmptySeq DEF Typed
        <4>1. CASE line = << >>
          <5>1. tx = AwaitedPos
            BY <3>1, <4>1 DEF InStep, AwaitedPos
          <5> QED
            BY <3>3, <3>4, <4>0, <4>1, <5>1
        <4>2. CASE line # << >>
          <5>1. 1 \in 1 .. Len(line)
            BY <2>5, <4>0, <4>2
          <5>2. line[1].pos = AwaitedPos
            BY <4>2 DEF InStep, AwaitedPos
          <5> QED
            BY <2>5, <3>4, <4>0, <5>1, <5>2
        <4> QED
          BY <4>1, <4>2
      <3> QED
        BY <2>2, <2>3, <3>1, <3>5, <3>6 DEF InStep, AwaitedPos, Awaited
    <2>8. CASE LoseByte
      BY <2>2, <2>8 DEF LoseByte, Typed
    <2>9. CASE NextPacket
      <3>1. tx = PacketLen /\ tx' = 0 /\ line' = line /\ host' = host
        BY <2>9 DEF NextPacket, rvars
      <3>2. PICK m \in Nat \ {0} : m = PacketLen
        BY <2>2, PayloadLenIs
      <3>3. m % m = 0 % m
        <4>1. m = m * 1 + 0 /\ 0 \in 0 .. m - 1
          OBVIOUS
        <4>2. (m * 1 + 0) % m = 0 /\ 0 % m = 0
          BY <4>1, RemainderUnique, RemainderOfSmall
        <4> QED
          BY <4>1, <4>2
      <3> QED
        BY <2>2, <2>3, <3>1, <3>2, <3>3 DEF InStep, Awaited
    <2>10. ASSUME NEW k \in Nat \ {0}, Take(k), UNCHANGED <<payloadLen, tx, lost>>,
                  Awaited[host'] = (AwaitedPos + k) % PacketLen
           PROVE  InStep'
      <3>1. k \in 1 .. Len(line) /\ line' = SubSeq(line, k + 1, Len(line))
        BY <2>5, <2>10 DEF Take
      <3> QED
        BY <2>1, <2>2, <2>6, <2>10, <3>1, TakingKeepsStep
    <2>11. CASE HostScan
      <3>1. /\ Take(1) /\ host = "scan" /\ UNCHANGED <<payloadLen, tx, lost>>
            /\ host' = IF line[1].val = HEADER[1] THEN "rest" ELSE "scan"
        BY <2>11 DEF HostScan
      <3>2. line[1].val = "AA"
        <4>1. 1 \in 1 .. Len(line)
          BY <2>5, <3>1 DEF Take
        <4>2. line[1].pos = 0
          <5>1. line # << >>
            BY <2>2, <4>1, EmptySeq DEF Typed
          <5> QED
            BY <2>4, <3>1, <5>1 DEF InStep, AwaitedPos
        <4> QED
          BY <2>2, <4>1, <4>2, MarkerValues
      <3>3. host' = "rest" /\ Awaited[host'] = 1
        BY <3>1, <3>2 DEF HEADER, Awaited
      <3>4. (0 + 1) % PacketLen = 1
        BY <2>2, <2>4, PayloadLenIs, RemainderOfSmall
      <3> QED
        BY <2>4, <2>10, <3>1, <3>3, <3>4
    <2>12. CASE HostRest
      <3>1. /\ Take(3) /\ host = "rest" /\ UNCHANGED <<payloadLen, tx, lost>>
            /\ host' = IF Values(Taken(3)) = Tail(HEADER) THEN "payload" ELSE "scan"
        BY <2>12 DEF HostRest
      <3>2. 3 \in 0 .. Len(line) /\ \A i \in 1 .. 3 : i \in 1 .. Len(line)
        BY <2>5, <3>1 DEF Take
      <3>3. line[1].pos = 1 /\ line[2].pos = 2 /\ line[3].pos = 3
        <4>1. \A i \in 1 .. 3 : (1 + (i - 1)) % PacketLen = i
          BY <2>2, <2>4, RemainderOfSmall
        <4> QED
          BY <2>4, <2>5, <3>1, <3>2, <4>1
      <3>4. line[1].val = "BB" /\ line[2].val = "CC" /\ line[3].val = "DD"
        BY <2>2, <3>2, <3>3, MarkerValues
      <3>5. Values(Taken(3)) = Tail(HEADER)
        <4>1. Len(Taken(3)) = 3 /\ Taken(3) \in Seq(Byte) /\ \A i \in 1 .. 3 : Taken(3)[i] = line[i]
          BY <2>2, <3>2, Prefix DEF Taken, Typed
        <4>2. Values(Taken(3)) = [i \in 1 .. 3 |-> line[i].val]
          BY <4>1 DEF Values
        <4>3. Tail(HEADER) = <<"BB", "CC", "DD">>
          BY DEF HEADER
        <4>4. [i \in 1 .. 3 |-> line[i].val] = <<line[1].val, line[2].val, line[3].val>>
          OBVIOUS
        <4> QED
          BY <3>4, <4>2, <4>3, <4>4
      <3>6. host' = "payload" /\ Awaited[host'] = 4
        BY <3>1, <3>5 DEF Awaited
      <3>7. (1 + 3) % PacketLen = 4
        BY <2>2, <2>4, PayloadLenIs, RemainderOfSmall
      <3> QED
        BY <2>4, <2>10, <3>1, <3>6, <3>7
    <2>13. CASE HostPayload
      <3>1. /\ Take(DataLen) /\ host = "payload" /\ UNCHANGED <<payloadLen, tx, lost>>
            /\ host' = "footer"
        BY <2>13 DEF HostPayload
      <3>2. Awaited[host'] = 4 + DataLen
        BY <3>1 DEF Awaited
      <3>3. (4 + DataLen) % PacketLen = 4 + DataLen
        BY <2>2, <2>4, RemainderOfSmall
      <3> QED
        BY <2>2, <2>4, <2>10, <3>1, <3>2, <3>3
    <2>14. CASE HostFooter
      <3>1. /\ Take(4) /\ host = "footer" /\ UNCHANGED <<payloadLen, tx, lost>>
            /\ host' = "scan"
        BY <2>14 DEF HostFooter
      <3>2. Awaited[host'] = 0
        BY <3>1 DEF Awaited
      <3>3. PICK m \in Nat \ {0} : m = PacketLen /\ m = 4 + DataLen + 4
        BY <2>2, <2>4, PayloadLenIs
      <3>4. m % m = 0
        <4>1. m = m * 1 + 0 /\ 0 \in 0 .. m - 1
          OBVIOUS
        <4>2. (m * 1 + 0) % m = 0
          BY <4>1, RemainderUnique
        <4> QED
          BY <4>1, <4>2
      <3> QED
        BY <2>4, <2>10, <3>1, <3>2, <3>3, <3>4
    <2>15. CASE HostTimeout
      <3>1. /\ tx = PacketLen /\ tx' = tx /\ line' = << >> /\ host' = "scan"
        BY <2>15 DEF HostTimeout
      <3>2. Awaited[host'] = 0 /\ \A i \in DOMAIN line' : FALSE
        BY <3>1 DEF Awaited
      <3>3. PICK m \in Nat \ {0} : m = PacketLen
        BY <2>2, PayloadLenIs
      <3>4. m % m = 0
        <4>1. m = m * 1 + 0 /\ 0 \in 0 .. m - 1
          OBVIOUS
        <4>2. (m * 1 + 0) % m = 0
          BY <4>1, RemainderUnique
        <4> QED
          BY <4>1, <4>2
      <3> QED
        BY <2>2, <2>3, <3>1, <3>2, <3>3, <3>4 DEF InStep, Awaited
    <2>16. CASE UNCHANGED lvars
      BY <2>16 DEF lvars, InStep, Awaited, PacketLen
    <2> QED
      BY <2>7, <2>8, <2>9, <2>11, <2>12, <2>13, <2>14, <2>15, <2>16 DEF Next, HostNext
  <1> QED
    BY <1>1, LinkInit, LinkNext, PTL DEF Spec, StaysInStep
=============================================================================
