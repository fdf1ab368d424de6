-------------------------------- MODULE MCSync --------------------------------
EXTENDS Sync, TLC

CONSTANTS menu, address, course, promotion

\* The menu is LOCAL's and an address CLOUD's, and nobody else writes them.  A
\* promotion is LOCAL's, and the orders placed online count its uses on CLOUD; a
\* course is CLOUD's, and the restaurant's back office names its courier: the
\* peer refuses both.  What their owners write of them is as the first two.
MCOwner == [d \in Documents |-> IF d \in {address, course} THEN "CLOUD" ELSE "LOCAL"]
MCWriters == [d \in Documents |-> IF d \in {menu, course} THEN {"LOCAL"} ELSE {"CLOUD"}]
OnlineOrders == [o \in Orders |-> "CLOUD"]
CounterOrders == [o \in Orders |-> "LOCAL"]

Distinct == {1}
Ties == {0, 1}
HandlerSymmetry == Permutations(Handlers)
=============================================================================
