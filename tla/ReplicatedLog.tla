---------------------------- MODULE ReplicatedLog ----------------------------
(***************************************************************************)
(* What log shipping promises, with no shipper in it: a log that grows and  *)
(* forgets, and an off-node copy that follows it range by range.  Every     *)
(* step of the copy takes all that the log still holds of the next range,   *)
(* nothing twice, and nothing that was never written; a log rebuilt from    *)
(* its copy goes on where the copy ends.                                    *)
(***************************************************************************)
EXTENDS Naturals, Sequences

CONSTANT Events

VARIABLES written,   \* every event ever written, by sequence number
          held,      \* the sequence numbers the log still holds
          copy,      \* the events in the copy
          frontier   \* the copy covers the sequence numbers up to here

logVars == <<written, held, copy, frontier>>

LogInit ==
    /\ written = <<>>
    /\ held = {}
    /\ copy = {}
    /\ frontier = 0

Write ==
    /\ \E e \in Events : written' = Append(written, e)
    /\ held' = held \cup {Len(written')}
    /\ UNCHANGED <<copy, frontier>>

Forget ==
    /\ held' \subseteq held
    /\ UNCHANGED <<written, copy, frontier>>

Extend ==
    /\ frontier' \in (frontier + 1)..Len(written)
    /\ \E taken \in SUBSET ((frontier + 1)..frontier') :
         /\ held \cap ((frontier + 1)..frontier') \subseteq taken
         /\ copy' = copy \cup {written[s] : s \in taken}
    /\ UNCHANGED <<written, held>>

Rebuild ==
    /\ written' = SubSeq(written, 1, frontier)
    /\ held' = {s \in 1..frontier : written[s] \in copy}
    /\ UNCHANGED <<copy, frontier>>

LogNext == Write \/ Forget \/ Extend \/ Rebuild

LogSpec == LogInit /\ [][LogNext]_logVars
=============================================================================
