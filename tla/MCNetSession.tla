---------------------------- MODULE MCNetSession ----------------------------
(* Clients for model checking NetSession: player1 and player2 are the same  *)
(* player, who comes back from another address; guest is someone else on    *)
(* the network the player comes back from.                                  *)
EXTENDS NetSession

CONSTANTS player1, player2, guest, home, away, codeP, codeG

MCIp(c) == IF c = player1 THEN home ELSE away
MCCode(c) == IF c = guest THEN codeG ELSE codeP

MCOnce == [c \in Clients |-> 1]
MCTwice == [c \in Clients |-> IF c = player1 THEN 2 ELSE 1]
=============================================================================
