---------------------------- MODULE MCTransmission ----------------------------
(* Values of the constants of Transmission for TLC. *)
EXTENDS Transmission

\* Two nodes one after the other at the first address, a third one at the second.
MCAddrOf == [k \in Keys |-> IF k = "k3" THEN "a2" ELSE "a1"]
\* Messages are named by their destinations.
MCDst == [m \in Messages |->
            CASE m = "to_k1" -> "k1" [] m = "to_k2" -> "k2" [] m = "to_k3" -> "k3"
              [] m = "to_a1" -> "a1" [] m \in {"to_a2", "low_a2"} -> "a2"]
===============================================================================
