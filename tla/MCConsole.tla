----------------------------- MODULE MCConsole -----------------------------
(* One console; the scenarios keep apart what cannot meet.                  *)
EXTENDS Console

CONSTANTS r1, r2, p1, s1

Watched  == [requests |-> {r1}, probes |-> {}, streams |-> {s1}, engines |-> {}]
Counted  == [requests |-> {r1, r2}, probes |-> {}, streams |-> {}, engines |-> {}]
Probed   == [requests |-> {}, probes |-> {p1}, streams |-> {}, engines |-> {Chrome, Office}]
MCScenarios == {Watched, Counted, Probed}

=============================================================================
