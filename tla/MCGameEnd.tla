-------------------------------- MODULE MCGameEnd --------------------------------
(* TLC instance of GameEnd: a series of two games between the same players.  The *)
(* files on disk are explored in the first game, since what the poller confuses   *)
(* about two games does not depend on them.                                       *)
EXTENDS GameEnd

Explored == writes = 0 \/ game <= 1
==================================================================================
