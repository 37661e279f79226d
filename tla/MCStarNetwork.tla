--------------------------- MODULE MCStarNetwork ----------------------------
EXTENDS StarNetworkInv, TLC
MCslaveNode == <<8, 9>>
MCOneSlave == <<8>>
=============================================================================
