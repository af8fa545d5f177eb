------------------------------ MODULE MCGateSync ------------------------------
(* One handset, two processes, one single-use pass and visits of each kind.*)
EXTENDS GateSync, TLC

MCMaxUses == [p \in Passes |-> 1]
Visit(pass, quality) == [pass |-> pass, quality |-> quality]

MCVisits == {Visit(p, "good") : p \in Passes}
            \cup {Visit(NoPass, "unrecordable"), Visit(NoPass, "malformed")}
MCGoodVisits == {Visit(p, "good") : p \in Passes}

Trouble(early, crash, auth, restart, database) ==
  [early |-> early, crash |-> crash, auth |-> auth, restart |-> restart,
   database |-> database]
MCMuch == Trouble(1, 1, 1, 1, 1)
MCOutage == Trouble(3, 0, 0, 0, 0)
MCCrash == Trouble(0, 1, 0, 0, 0)
==============================================================================
