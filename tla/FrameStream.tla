----------------------------- MODULE FrameStream -----------------------------
(***************************************************************************)
(* What the firmware promises to whoever listens on the serial line: it is *)
(* a buffer of one place.  A capture of the sensor enters the place, one   *)
(* packet leaves it, and a packet is filled from one capture only.  The    *)
(* captures are identified by the frame they began in and come in strictly *)
(* increasing order: captures may be skipped (the sensor does not wait for *)
(* the serial line), never repeated and never reordered.                   *)
(***************************************************************************)
EXTENDS Naturals

VARIABLES
    full,    \* a capture waits for its packet, or the packet is on its way
    stamp,   \* the frame in which the last capture began (0: none yet)
    packet   \* the stamps found in the last packet that was completed

fvars == <<full, stamp, packet>>

FInit == full = FALSE /\ stamp = 0 /\ packet = {}

(* The place must be empty: a capture never overwrites one that has not    *)
(* left yet.                                                               *)
Capture ==
    /\ ~full
    /\ full' = TRUE
    /\ stamp' > stamp
    /\ UNCHANGED packet

(* Words of a packet may be lost by the serial driver, so that the packet  *)
(* may even be empty, but no word of another capture gets into it.         *)
Deliver ==
    /\ full
    /\ full' = FALSE
    /\ packet' \subseteq {stamp}
    /\ UNCHANGED stamp

FNext == Capture \/ Deliver

FSpec == FInit /\ [][FNext]_fvars
=============================================================================
