---------------------------- MODULE MCVipBundle ----------------------------
EXTENDS VipBundle, TLC

CONSTANTS t1, t2

TwoTickets == {t1, t2}
Symmetry   == Permutations(TwoTickets)

ServiceFaults == {"flight_unavailable", "taxi_error"}
FullShow      == {"show_full"}
EveryFault    == {"commit_lost", "flight_unavailable", "taxi_error"}
=============================================================================
