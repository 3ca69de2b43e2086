----------------------------- MODULE MCTransport -----------------------------
(* Values of the constants of Transport for TLC. *)
EXTENDS Transport

\* One packet; two fragments, the second one short; two full ones.
MCSize == [m \in Messages |->
             CASE m = "short" -> 7 [] m = "eight" -> 8 [] m = "ten" -> 10]
===============================================================================
