---------------------------- MODULE MCTxSubmitter ----------------------------
(* TxSubmitter instantiated for TLC: two reveal requests, an escalation    *)
(* policy whose padding and fee grow with the retry count, estimates below,  *)
(* at and above the gas limit, and two RPC failures or evictions.         *)
EXTENDS TxSubmitter

MCGasSchedule == <<100, 125>>
MCFeeSchedule == <<100, 120, 140>>
MCEstimates == {3, 4, 5}
=============================================================================
