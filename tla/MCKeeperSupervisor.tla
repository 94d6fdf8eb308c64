------------------------ MODULE MCKeeperSupervisor ------------------------
(* Instantiates KeeperSupervisor for TLC: three chains, one of which may  *)
(* be misconfigured.                                                       *)
EXTENDS KeeperSupervisor

CONSTANTS c1, c2, c3

MCChains == {c1, c2, c3}
====
