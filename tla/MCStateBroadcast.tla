-------------------------- MODULE MCStateBroadcast --------------------------
(* StateBroadcast for TLC, beside the limits that justify its assumptions.  *)
EXTENDS StateBroadcast, ConnectionLimits

(* Around every kink of the limits: the share of passive websockets is      *)
(* smaller than all, as BroadcastAssumption asks of the small instance.     *)
Kinks == {0, 95, 96, 97, 112, 113, 128, 256, 1024, 2143, 2144, 2145, 65536}

ASSUME LimitsAgree ==
    \A soft, configured \in Kinks :
        LET limits == FromConfigured(soft, configured)
        IN  /\ limits.passive \in 1..(limits.websockets - 1)
            /\ limits.websockets < limits.total
            /\ limits.total <= FromFdLimit(soft).total
=============================================================================
