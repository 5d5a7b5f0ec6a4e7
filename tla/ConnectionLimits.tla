-------------------------- MODULE ConnectionLimits --------------------------
(***************************************************************************)
(* How many connections the server takes: ConnectionLimits::from_fd_limit  *)
(* in apps/server-rs/src/lib.rs.  A share of all connections is kept for   *)
(* HTTP, and all but a share of the websockets for sidebars.               *)
(***************************************************************************)
EXTENDS Naturals

FdHeadroom    == 96
MinConcurrent == 16
MaxConcurrent == 2048
MinReserved   == 8
MinPassive    == 4

AtLeast(n, low) == IF n < low THEN low ELSE n
AtMost(n, high) == IF n > high THEN high ELSE n
Clamp(n, low, high) == AtMost(AtLeast(n, low), high)

(* The descriptors left for connections; the subtraction saturates. *)
FdBudget(softLimit) == IF softLimit > FdHeadroom THEN softLimit - FdHeadroom ELSE 0
HardCap(softLimit)  == Clamp(FdBudget(softLimit), MinConcurrent, MaxConcurrent)

LimitsOf(total) ==
    LET reserved   == AtLeast(total \div 16, MinReserved)
        websockets == total - reserved
    IN  [total |-> total, websockets |-> websockets,
         passive |-> AtMost(AtLeast(websockets \div 8, MinPassive), websockets \div 2)]

(* A configured cap lowers the bound and never raises it. *)
FromFdLimit(softLimit) == LimitsOf(HardCap(softLimit))
FromConfigured(softLimit, configured) ==
    LimitsOf(Clamp(configured, MinConcurrent, HardCap(softLimit)))
=============================================================================
