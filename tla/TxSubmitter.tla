----------------------------- MODULE TxSubmitter -----------------------------
(***************************************************************************)
(* Fortuna's transaction submission (src/apps/fortuna/src/eth_utils/       *)
(* utils.rs): submit_tx_with_backoff retries submit_tx under an            *)
(* exponential backoff bounded in time, counting retries in num_retries    *)
(* and escalating gas and fee with the count. submit_tx estimates gas,     *)
(* pads it, fills the transaction (the nonce manager hands out the nonce), *)
(* escalates the fee, sends, and waits for the receipt for at most 30s;    *)
(* a timeout or a missing receipt resets the nonce manager.                *)
(*                                                                         *)
(* The environment is the chain's account nonce, the mempool and the       *)
(* ethers nonce manager. A caller submits the reveal of each request in    *)
(* turn, one at a time (spec 4.5; the caller is not in src/).              *)
(***************************************************************************)
EXTENDS Naturals, FiniteSets

CONSTANTS
    Requests,          \* reveal requests the keeper submits, one after another
    GasLimit,          \* gas_limit passed to submit_tx
    Estimates,         \* gas values call.estimate_gas() may return
    GasSchedule,       \* EscalationPolicyConfig gas multiplier pct per retry count
    FeeSchedule,       \* EscalationPolicyConfig fee multiplier pct per retry count
    MaxRetries,        \* retries that fit in the 5-minute max_elapsed_time
    MaxRpcFailures,    \* bound on failed RPC calls and mempool evictions
    TimeoutOnlyWhenStuck \* TRUE: a tx that will be mined is mined within 30s

ASSUME /\ Requests # {} /\ GasLimit \in Nat /\ Estimates \subseteq Nat \ {0}
       /\ MaxRetries \in Nat /\ MaxRpcFailures \in Nat
       /\ TimeoutOnlyWhenStuck \in BOOLEAN
(* Spec 4.2: each EscalationPolicyConfig schedule is at least 100 (no     *)
(* change) and non-decreasing in the retry count.                          *)
ASSUME \A sch \in {GasSchedule, FeeSchedule} :
          \A i, j \in DOMAIN sch : i <= j => 100 <= sch[i] /\ sch[i] <= sch[j]

(* Bound on nonces: every attempt consumes at most one.                    *)
MaxNonce == Cardinality(Requests) * (MaxRetries + 1) + 1
Nonces == 0 .. MaxNonce
(* The error a transient failure of submit_tx returns, by the step that   *)
(* failed; the last one becomes SubmitTxResult.receipt when retries end.  *)
Errors == {"estimate", "fill", "send", "stuck", "dropped", "receipt"}
Outcomes == {"ok", "permanent"} \cup Errors

(* EscalationPolicyConfig::get_gas_multiplier_pct / get_fee_multiplier_pct: *)
(* the schedule's entry for the retry count, its last entry beyond.        *)
GasMultiplierPct(n) ==
    LET k == Cardinality(DOMAIN GasSchedule) IN GasSchedule[IF n < k THEN n + 1 ELSE k]
FeeMultiplierPct(n) ==
    LET k == Cardinality(DOMAIN FeeSchedule) IN FeeSchedule[IF n < k THEN n + 1 ELSE k]

Tx == [nonce : Nonces, req : Requests, fee : Nat]

VARIABLES
    todo,        \* requests whose reveal the caller has not yet submitted
    sub,         \* the running submit_tx_with_backoff call
    results,     \* SubmitTxResult of each finished call
    nm,          \* nonce manager: [init, next]
    chainNonce,  \* the account's nonce on chain (number of mined txs)
    mempool,     \* pending transactions
    mined,       \* mined transactions
    revealed,    \* requests whose reveal is on chain
    failures     \* RPC failures and evictions so far

vars == <<todo, sub, results, nm, chainNonce, mempool, mined, revealed, failures>>
chainVars == <<chainNonce, mempool, mined, revealed>>

Idle == [pc |-> "idle", req |-> CHOOSE r \in Requests : TRUE, retries |-> 0,
         gas |-> 0, fee |-> 0, nonce |-> 0, err |-> "none"]
NoResult == [retries |-> 0, gasPct |-> 0, feePct |-> 0, outcome |-> "none"]

TypeOK ==
    /\ todo \subseteq Requests
    /\ sub \in [pc : {"idle", "estimate", "fill", "send", "wait"}, req : Requests,
                retries : 0 .. MaxRetries, gas : Nat, fee : Nat, nonce : Nonces,
                err : Errors \cup {"none"}]
    /\ results \in [Requests -> [retries : 0 .. MaxRetries, gasPct : Nat,
                                 feePct : Nat, outcome : Outcomes \cup {"none"}]]
    /\ nm \in [init : BOOLEAN, next : Nonces]
    /\ chainNonce \in Nonces
    /\ mempool \subseteq Tx /\ mined \subseteq Tx
    /\ revealed \subseteq Requests
    /\ failures \in 0 .. MaxRpcFailures

RpcFails == /\ failures < MaxRpcFailures
            /\ failures' = failures + 1

CurrentTx == [nonce |-> sub.nonce, req |-> sub.req, fee |-> sub.fee]

----------------------------------------------------------------------------
(* retry_notify after a transient error: the notify closure stores         *)
(* num_retries + 1 and the operation runs again; once max_elapsed_time is  *)
(* spent the error is returned and submit_tx_with_backoff builds the       *)
(* SubmitTxResult from the final num_retries.                              *)
Finish(outcome) ==
    /\ results' = [results EXCEPT ![sub.req] =
                     [retries |-> sub.retries,
                      gasPct |-> GasMultiplierPct(sub.retries),
                      feePct |-> FeeMultiplierPct(sub.retries),
                      outcome |-> outcome]]
    /\ sub' = Idle

(* Fault variant: retrying without the max_elapsed_time limit.            *)
TransientUnbounded(err) ==
    /\ sub' = [sub EXCEPT !.pc = "estimate", !.retries = @ + 1, !.err = err]
    /\ UNCHANGED results

Transient(err) ==
    IF sub.retries < MaxRetries
    THEN sub' = [sub EXCEPT !.pc = "estimate", !.retries = @ + 1, !.err = err]
         /\ UNCHANGED results
    ELSE Finish(err)

----------------------------------------------------------------------------
(* The caller starts submit_tx_with_backoff for the next request.          *)
StartSubmission ==
    /\ sub.pc = "idle"
    /\ \E r \in todo :
         /\ todo' = todo \ {r}
         /\ sub' = [Idle EXCEPT !.pc = "estimate", !.req = r]
    /\ UNCHANGED <<results, nm, chainVars, failures>>

(* Fault variant: a reverting estimate (the reveal is already on chain)   *)
(* classified as permanent, as an estimate above gas_limit is.            *)
EstimateRevertPermanent ==
    /\ sub.pc = "estimate"
    /\ \/ /\ RpcFails
          /\ Transient("estimate")
       \/ /\ sub.req \in revealed
          /\ Finish("permanent") /\ UNCHANGED failures
       \/ /\ sub.req \notin revealed
          /\ UNCHANGED failures
          /\ \E e \in Estimates :
               IF e > GasLimit
               THEN Finish("permanent")
               ELSE /\ sub' = [sub EXCEPT !.pc = "fill",
                                 !.gas = (e * GasMultiplierPct(sub.retries)) \div 100,
                                 !.fee = FeeMultiplierPct(sub.retries)]
                    /\ UNCHANGED results
    /\ UNCHANGED <<todo, nm, chainVars>>

(* The operation reads num_retries and the multipliers, then               *)
(* call.estimate_gas(): an RPC error or a revert (the reveal is already on *)
(* chain) is transient; an estimate above gas_limit is permanent; else     *)
(* the estimate is padded by gas_multiplier_pct / 100.                     *)
Estimate ==
    /\ sub.pc = "estimate"
    /\ \/ /\ RpcFails
          /\ Transient("estimate")
       \/ /\ sub.req \in revealed
          /\ Transient("estimate") /\ UNCHANGED failures
       \/ /\ sub.req \notin revealed
          /\ UNCHANGED failures
          /\ \E e \in Estimates :
               IF e > GasLimit
               THEN Finish("permanent")
               ELSE /\ sub' = [sub EXCEPT !.pc = "fill",
                                 !.gas = (e * GasMultiplierPct(sub.retries)) \div 100,
                                 !.fee = FeeMultiplierPct(sub.retries)]
                    /\ UNCHANGED results
    /\ UNCHANGED <<todo, nm, chainVars>>

(* client.fill_transaction: the nonce manager takes its next nonce (first  *)
(* reading the account nonce from the chain when uninitialised), then the  *)
(* gas oracle fills the fee; an error from the oracle leaves the nonce     *)
(* consumed. The fee is then multiplied by fee_multiplier_pct / 100.       *)
Fill ==
    /\ sub.pc = "fill"
    /\ \/ /\ ~nm.init
          /\ RpcFails
          /\ Transient("fill")
          /\ UNCHANGED nm
       \/ LET n == IF nm.init THEN nm.next ELSE chainNonce IN
          /\ n < MaxNonce
          /\ nm' = [init |-> TRUE, next |-> n + 1]
          /\ \/ /\ RpcFails
                /\ Transient("fill")
             \/ /\ UNCHANGED failures
                /\ sub' = [sub EXCEPT !.pc = "send", !.nonce = n]
                /\ UNCHANGED results
    /\ UNCHANGED <<todo, chainVars>>

(* client.send_transaction: the node rejects a nonce below the account     *)
(* nonce and an underpriced replacement of a pending nonce; a transport    *)
(* error is transient whether or not the node took the transaction.        *)
Send ==
    /\ sub.pc = "send"
    /\ LET tx == CurrentTx
           same == {t \in mempool : t.nonce = tx.nonce}
           accepted == tx.nonce >= chainNonce /\ \A t \in same : t.fee < tx.fee
       IN \/ /\ RpcFails
             /\ \/ mempool' = mempool
                \/ accepted /\ mempool' = (mempool \ same) \cup {tx}
             /\ Transient("send")
          \/ /\ UNCHANGED failures
             /\ IF accepted
                THEN /\ mempool' = (mempool \ same) \cup {tx}
                     /\ sub' = [sub EXCEPT !.pc = "wait"]
                     /\ UNCHANGED results
                ELSE /\ Transient("send") /\ UNCHANGED mempool
    /\ UNCHANGED <<todo, nm, chainNonce, mined, revealed>>

(* timeout(30s, pending_tx): a receipt ends the call with success.         *)
WaitReceipt ==
    /\ sub.pc = "wait"
    /\ CurrentTx \in mined
    /\ Finish("ok")
    /\ UNCHANGED <<todo, nm, chainVars, failures>>

(* A transaction will be mined when every nonce from the account nonce up  *)
(* to its own has a pending transaction.                                   *)
WillMine(tx) ==
    /\ tx \in mempool
    /\ \A k \in chainNonce .. tx.nonce - 1 : \E t \in mempool : t.nonce = k

(* Fault variants: a timeout that keeps the nonce manager's state, and    *)
(* awaiting pending_tx with no timeout at all.                            *)
WaitTimeoutNoReset ==
    /\ sub.pc = "wait"
    /\ CurrentTx \notin mined
    /\ TimeoutOnlyWhenStuck => ~WillMine(CurrentTx)
    /\ Transient("stuck")
    /\ UNCHANGED <<todo, nm, chainVars, failures>>

WaitTimeoutNever == FALSE

(* The 30s timeout elapses: reset_nonce(), transient error.                *)
WaitTimeout ==
    /\ sub.pc = "wait"
    /\ CurrentTx \notin mined
    /\ TimeoutOnlyWhenStuck => ~WillMine(CurrentTx)
    /\ nm' = [nm EXCEPT !.init = FALSE]
    /\ Transient("stuck")
    /\ UNCHANGED <<todo, chainVars, failures>>

(* The pending transaction resolves to no receipt (it left the mempool):   *)
(* reset_nonce(), transient error.                                         *)
WaitDropped ==
    /\ sub.pc = "wait"
    /\ CurrentTx \notin mined /\ CurrentTx \notin mempool
    /\ nm' = [nm EXCEPT !.init = FALSE]
    /\ Transient("dropped")
    /\ UNCHANGED <<todo, chainVars, failures>>

(* Polling for the receipt fails: transient error, the nonce is kept.      *)
WaitError ==
    /\ sub.pc = "wait"
    /\ RpcFails
    /\ Transient("receipt")
    /\ UNCHANGED <<todo, nm, chainVars>>

----------------------------------------------------------------------------
(* Environment: the chain mines the transaction at the account nonce (the  *)
(* first reveal of a request lands, later ones revert but still consume    *)
(* the nonce); the mempool may evict a pending transaction.                *)
Mine ==
    \E tx \in mempool :
       /\ tx.nonce = chainNonce
       /\ chainNonce' = chainNonce + 1
       /\ mempool' = {t \in mempool : t.nonce # tx.nonce}
       /\ mined' = mined \cup {tx}
       /\ revealed' = revealed \cup {tx.req}
       /\ UNCHANGED <<todo, sub, results, nm, failures>>

Evict ==
    \E tx \in mempool :
       /\ RpcFails
       /\ mempool' = mempool \ {tx}
       /\ UNCHANGED <<todo, sub, results, nm, chainNonce, mined, revealed>>

----------------------------------------------------------------------------

Init ==
    /\ todo = Requests
    /\ sub = Idle
    /\ results = [r \in Requests |-> NoResult]
    /\ nm = [init |-> FALSE, next |-> 0]
    /\ chainNonce = 0
    /\ mempool = {}
    /\ mined = {}
    /\ revealed = {}
    /\ failures = 0

Next ==
    \/ StartSubmission \/ Estimate \/ Fill \/ Send
    \/ WaitReceipt \/ WaitTimeout \/ WaitDropped \/ WaitError
    \/ Mine \/ Evict

(* The keeper's task runs whenever it can and the chain keeps mining.      *)
(* The timeout needs no fairness of its own beyond the task's: when        *)
(* TimeoutOnlyWhenStuck holds it is enabled exactly when nothing else can  *)
(* end the wait.                                                           *)
Fairness ==
    /\ WF_vars(StartSubmission) /\ WF_vars(Estimate) /\ WF_vars(Fill)
    /\ WF_vars(Send) /\ WF_vars(WaitReceipt) /\ WF_vars(WaitTimeout)
    /\ WF_vars(WaitDropped) /\ WF_vars(Mine)

Spec == Init /\ [][Next]_vars /\ Fairness

----------------------------------------------------------------------------
(* Properties.                                                             *)

(* The submitter seen as RevealSubmission: a request is "todo" until the  *)
(* caller takes it, "running" while its submit_tx_with_backoff call runs,  *)
(* then the call's outcome, every transient error mapped to "failed".     *)
Submission == INSTANCE RevealSubmission WITH
    status <- [r \in Requests |->
                 IF r \in todo THEN "todo"
                 ELSE IF sub.pc # "idle" /\ sub.req = r THEN "running"
                 ELSE IF results[r].outcome \in {"ok", "permanent"} THEN results[r].outcome
                 ELSE "failed"],
    onChain <- revealed

(* The submitter implements RevealSubmission: every call returns, even on *)
(* a transaction stuck behind a nonce gap (the 30s timeout, utils.rs:     *)
(* 214-228); Ok comes only with the reveal on chain; and a permanent      *)
(* error is only returned for a reveal that is not on chain, although a   *)
(* retry's estimate reverts once an earlier attempt's transaction mined   *)
(* (utils.rs:159-164 keep that error transient).                          *)
ImplementsRevealSubmission == Submission!Spec

(* A submission that did not fail permanently leaves the reveal on chain:  *)
(* the nonce reset after a stuck or dropped transaction restores a usable  *)
(* nonce within the retry budget, whatever nonce gaps failed fills, sends  *)
(* and evictions left behind.                                              *)
RevealLandsWithinBudget ==
    \A r \in Requests : results[r].outcome \notin {"none", "permanent"} => r \in revealed

(* The transaction submit_tx fills and sends never asks for more gas than  *)
(* gas_limit, as the comment on the padding says (utils.rs:172-173): the  *)
(* estimate is checked against gas_limit before it is padded.             *)
PaddedGasWithinLimit == sub.pc \in {"fill", "send", "wait"} => sub.gas <= GasLimit

=============================================================================
