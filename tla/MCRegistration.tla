--------------------------- MODULE MCRegistration ---------------------------
EXTENDS Registration, TLC

CONSTANTS v4, v6
MCMaxFlight == v4 :> 1 @@ v6 :> 2
=============================================================================
