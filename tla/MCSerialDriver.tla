--------------------------- MODULE MCSerialDriver ---------------------------
(* Model-checking instance of SerialDriver: frames of three bytes (header,   *)
(* payload, checksum), and statuses on both sides of the clamp.              *)
EXTENDS SerialDriver

MCStatuses == {-1, 256}
=============================================================================
