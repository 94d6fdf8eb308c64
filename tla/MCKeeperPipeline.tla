------------------------- MODULE MCKeeperPipeline -------------------------
(* Instantiates KeeperPipeline for TLC: 4-bit block numbers, a window of   *)
(* 3 blocks walked 2 at a time, a channel of one range, and a chain that   *)
(* starts old enough for the backlog window.                               *)
EXTENDS KeeperPipeline

MCInitHeads == {4, 5}
MCMaxHead == 8
====
