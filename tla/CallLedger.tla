----------------------------- MODULE CallLedger -----------------------------
(***************************************************************************)
(* What the runtime of a workflow promises its host, with no runtimes, no  *)
(* counters and no promises in it: the host is in one mode at a time,      *)
(* every request it accepts carries an id no other request of the          *)
(* execution carries, positive ids are issued in DON mode and negative     *)
(* ones in node mode, and a request is settled at most once.               *)
(***************************************************************************)
EXTENDS Integers

CONSTANT CallIds   \* the ids a request may carry

Modes == {"DON", "NODE"}

VARIABLES
  mode,     \* the mode the host was last switched to
  issued,   \* the requests the host accepted: [id, mode]
  count,    \* how many it accepted
  settled   \* the ids of the requests whose promise has its result

vars == <<mode, issued, count, settled>>

Ids == {c.id : c \in issued}

Init ==
  /\ mode = "DON"
  /\ issued = {}
  /\ count = 0
  /\ settled = {}

\* The side of zero an id must be on in a mode.
Side(m, id) == IF m = "DON" THEN id > 0 ELSE id < 0

Switch(m) ==
  /\ mode' = m
  /\ UNCHANGED <<issued, count, settled>>

\* Leaving node mode issues the consensus request in the mode it switches to.
Issue(m, id) ==
  /\ id \notin Ids
  /\ Side(m, id)
  /\ mode' = m
  /\ issued' = issued \cup {[id |-> id, mode |-> m]}
  /\ count' = count + 1
  /\ UNCHANGED settled

Settle(id) ==
  /\ id \in Ids \ settled
  /\ settled' = settled \cup {id}
  /\ UNCHANGED <<mode, issued, count>>

Next ==
  \/ \E m \in Modes : Switch(m)
  \/ \E m \in Modes, id \in CallIds : Issue(m, id)
  \/ \E id \in Ids : Settle(id)

Spec == Init /\ [][Next]_vars
=============================================================================
