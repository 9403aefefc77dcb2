---------------------------- MODULE MCPublicIpv6 ----------------------------
EXTENDS PublicIpv6

\* All ids point at the last slot: the search for a free one wraps around.
SameStart == [c \in Clients |-> UsableSlots]
=============================================================================
