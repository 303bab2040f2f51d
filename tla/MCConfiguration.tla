-------------------------- MODULE MCConfiguration ----------------------------
(* The inputs of Configuration for model checking.                         *)
EXTENDS Configuration

CONSTANT SampleCounts  \* numOfAdcSamples of the headers written by hand

Comn(n, m) == [samples |-> n, mimo |-> m, ramp |-> "number"]
Timing(slope) == [slope |-> slope]
Channel(r, t) == [rx |-> r, tx |-> t]
Frame(c, b) == [chirps |-> c, bursts |-> b]

HeaderOf(comn, channel, frame, timing) ==
    [c \in CONFIG_STRUCTURE |->
        CASE c = "chirpComnCfg"   -> comn
          [] c = "channelCfg"     -> channel
          [] c = "frameCfg"       -> frame
          [] c = "chirpTimingCfg" -> timing
          [] OTHER                -> [kept |-> TRUE]]

(* The shipped defines.h, and what the files below may change it to.       *)
Shipped == HeaderOf(Comn(128, 4), Channel({0, 1, 2}, {0, 1}), Frame(8, 1),
                    Timing("number"))
Changed == HeaderOf(Comn(100, 1), Channel({1}, {0}), Frame(4, 2), Timing("zero"))
Garbled == {[Shipped EXCEPT !["chirpComnCfg"].samples = NoNumber],
            [Shipped EXCEPT !["chirpComnCfg"].ramp = "zero"],
            [Shipped EXCEPT !["chirpTimingCfg"].slope = "text"]}

MCOldHeaders ==
    {[p \in Places |-> Absent], [p \in Places |-> Shipped],
     [p \in Places |-> IF p = "other" THEN Absent ELSE Shipped]}

MCHandHeaders ==
    {HeaderOf(Comn(n, m), Channel(r, t), Frame(c, b), Timing("number")) :
        n \in SampleCounts, m \in {1, 2, 4},
        r \in {{0}, {0, 2}, {0, 1, 2}}, t \in {{}, {1}, {0, 1}},
        c \in {1, 2, 5, 8, 64, 208}, b \in {1, 2}}

(* A complete file, with one line dropped or none, and with one line added *)
(* anywhere or none: a comment or unknown command, a command once more     *)
(* with other values (a time or a slope of zero, or one that is no number, *)
(* among them), or with wrong parameters.                                  *)
Cmds == <<"channelCfg", "chirpComnCfg", "chirpTimingCfg", "frameCfg",
          "factoryCalibCfg", "sensorStart">>
Line(c, ok, h) == [cmd |-> c, ok |-> ok,
                   val |-> IF c \in CONFIG_STRUCTURE THEN h[c] ELSE [kept |-> FALSE]]
Full == [i \in DOMAIN Cmds |-> Line(Cmds[i], TRUE, Shipped)]

Without(s, i) == [j \in 1 .. Len(s) - 1 |-> IF j < i THEN s[j] ELSE s[j + 1]]
WithAt(s, i, e) == [j \in 1 .. Len(s) + 1 |-> IF j < i THEN s[j]
                                             ELSE IF j = i THEN e ELSE s[j - 1]]
Extra == {Line("other", TRUE, Shipped)}
           \cup {Line(Cmds[i], ok, Changed) : i \in 1 .. 4, ok \in BOOLEAN}
           \cup {Line(Cmds[i], TRUE, h) : i \in {2, 3}, h \in Garbled}
Dropped == {Full, << >>} \cup {Without(Full, i) : i \in DOMAIN Full}
MCFiles ==
    [ext : {"cfg", "json"},
     lines : Dropped \cup {WithAt(s, i, e) : s \in Dropped \ {<< >>},
                                             i \in {1, 4, 6}, e \in Extra}]
      \cup {[ext |-> "txt", lines |-> Full]}
=============================================================================
