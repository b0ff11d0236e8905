----------------------------- MODULE MCLiveMap ------------------------------
EXTENDS LiveMap

CONSTANTS s1, s2

MCSlot == {s1, s2}
=============================================================================
