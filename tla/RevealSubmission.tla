-------------------------- MODULE RevealSubmission --------------------------
(***************************************************************************)
(* What submit_tx_with_backoff promises the keeper that calls it for one   *)
(* reveal after another (spec 4.3, 4.5 and 7), without gas, fees, nonces   *)
(* or the mempool. A call runs until it returns one of three outcomes:     *)
(*   - "ok": a receipt came back, and the reveal is on chain;             *)
(*   - "permanent": the call can never succeed (the estimate is above the  *)
(*     gas limit), which is only said of a reveal that is not on chain;   *)
(*   - "failed": the retry budget ran out on a transient error.            *)
(* A reveal transaction of a request lands on chain at most once, at any   *)
(* time after its call started, also after the call returned: a           *)
(* transaction of an earlier attempt may still be pending then.           *)
(* TxSubmitter implements it.                                              *)
(***************************************************************************)
CONSTANT Requests   \* reveal requests the keeper submits

VARIABLES
    status,   \* per request: "todo", "running", or the outcome of its call
    onChain   \* requests whose reveal is on chain

subVars == <<status, onChain>>

Outcomes == {"ok", "permanent", "failed"}

Running == {r \in Requests : status[r] = "running"}

Init ==
    /\ status = [r \in Requests |-> "todo"]
    /\ onChain = {}

(* The caller submits the next request once the previous call returned.    *)
Start(r) ==
    /\ Running = {} /\ status[r] = "todo"
    /\ status' = [status EXCEPT ![r] = "running"]
    /\ UNCHANGED onChain

Land(r) ==
    /\ status[r] # "todo" /\ r \notin onChain
    /\ onChain' = onChain \cup {r}
    /\ UNCHANGED status

Return(r) ==
    /\ status[r] = "running"
    /\ \E o \in Outcomes :
         /\ o = "ok" => r \in onChain
         /\ o = "permanent" => r \notin onChain
         /\ status' = [status EXCEPT ![r] = o]
    /\ UNCHANGED onChain

Next == \E r \in Requests : Start(r) \/ Land(r) \/ Return(r)

(* The caller goes on submitting, and every call returns.                  *)
Spec ==
    /\ Init /\ [][Next]_subVars
    /\ WF_subVars(\E r \in Requests : Start(r))
    /\ \A r \in Requests : WF_subVars(Return(r))

=============================================================================
