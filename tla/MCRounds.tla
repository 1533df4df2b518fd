------------------------------ MODULE MCRounds ------------------------------
EXTENDS Rounds

CONSTANTS p1, p2
=============================================================================
