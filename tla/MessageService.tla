---------------------------- MODULE MessageService ----------------------------
(***************************************************************************)
(* What the transmission manager promises to those who call send_node and  *)
(* send_addr: a message is transmitted once at most, and those of one      *)
(* priority in the order they were submitted.  A message may be lost: the  *)
(* device may refuse it or restart, and the gateway may be stopped.        *)
(***************************************************************************)
EXTENDS Sequences

CONSTANTS Messages,
          LowPriority   \* the messages submitted with low_priority

VARIABLES fresh,   \* not submitted yet
          waiting, \* submitted, not yet transmitted
          ahead,   \* those that wait of each one's priority, submitted before it
          air      \* transmitted by the device, in order

vars == <<fresh, waiting, ahead, air>>

Alike(m, n) == m \in LowPriority <=> n \in LowPriority

Init ==
  /\ fresh = Messages /\ waiting = {} /\ air = <<>>
  /\ ahead = [m \in Messages |-> {}]

\* A message may also be ignored.
Submit(m) ==
  /\ m \in fresh
  /\ fresh' = fresh \ {m}
  /\ \/ /\ waiting' = waiting \union {m}
        /\ ahead' = [ahead EXCEPT ![m] = {n \in waiting : Alike(n, m)}]
     \/ UNCHANGED <<waiting, ahead>>
  /\ UNCHANGED air

\* Some messages no longer wait.
Leave(gone) ==
  /\ waiting' = waiting \ gone
  /\ ahead' = [m \in Messages |-> IF m \in gone THEN {} ELSE ahead[m] \ gone]

Transmit(m) ==
  /\ m \in waiting /\ ahead[m] = {}
  /\ air' = Append(air, m)
  /\ Leave({m})
  /\ UNCHANGED fresh

Lose(lost) == Leave(lost) /\ UNCHANGED <<fresh, air>>

Next ==
  \/ \E m \in Messages : Submit(m) \/ Transmit(m)
  \/ \E lost \in SUBSET Messages : Lose(lost)

Spec == Init /\ [][Next]_vars

\* Nothing is transmitted twice.
Once == \A i, j \in DOMAIN air : air[i] = air[j] => i = j
===============================================================================
