---------------------------- MODULE MCSerialLink -----------------------------
(***************************************************************************)
(* Payloads for the runs of SerialLink.                                    *)
(***************************************************************************)
EXTENDS SerialLink

(* A payload with a whole header in it, or with "DD" or "AA" where the     *)
(* header would have its "AA" or its "DD".                                 *)
MarkerBytes == <<{"AA", "DD"}, {"BB"}, {"CC"}, {"DD", "AA"}>>
MarkerPayload == [i \in 0 .. 3 |-> MarkerBytes[i + 1]]

(* No byte of a marker but the first of a header.                          *)
PlainPayload == [i \in 0 .. 3 |-> {"xx", "AA"}]
=============================================================================
