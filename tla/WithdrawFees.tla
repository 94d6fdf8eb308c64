---------------------------- MODULE WithdrawFees ----------------------------
(***************************************************************************)
(* Fortuna's withdraw-fees command (command/withdraw_fees.rs), as a cron  *)
(* job runs it again and again: for every configured chain, read the      *)
(* provider's accrued fees, claim them when they exceed the minimum       *)
(* balance, then fund the keeper wallet from the provider wallet. Every   *)
(* RPC call may fail, which ends the whole run (the `?` of each await).   *)
(* The chain is the environment: transactions of the provider wallet mine *)
(* in nonce order, may be dropped, and a claim of more than the accrued   *)
(* fees reverts. Users' requests add fees. Each call of                    *)
(* withdraw_fees_for_chain builds a new SignablePythContract, whose ethers *)
(* nonce manager takes the wallet's mined transaction count at its first  *)
(* fill and counts up from there: a transaction an aborted run left       *)
(* pending shares its nonce with the next run's first one.               *)
(***************************************************************************)
EXTENDS Integers, FiniteSets, Sequences, SequencesExt

CONSTANTS
    Chains,         \* the keys of config.chains
    MinBalance,     \* provider_min_balance (default 0.02 ether)
    Transfer,       \* amount_to_transfer: U256::from(10)
    FeeUnit,        \* the fees one burst of user requests adds
    InitFees,       \* possible accrued fees when the job first runs
    InitBalances,   \* possible provider wallet balances then
    Cron,           \* opts.cron: a keeper address to fund
    MaxFailures,    \* RPC errors and dropped transactions, in all
    MaxAccruals     \* bursts of user requests

VARIABLES
    accrued,        \* accrued_fees_in_wei of the provider, per chain
    provBal,        \* provider wallet balance, per chain
    keeperBal,      \* keeper wallet balance, per chain
    txCount,        \* the provider wallet's mined transaction count, per chain
    pending,        \* the provider wallet's unmined transactions, per chain
    run,            \* the running command
    failures, accruals

vars == <<accrued, provBal, keeperBal, txCount, pending, run, failures, accruals>>

NoNonce == -1       \* the nonce manager has not filled a transaction yet
Tx == [kind : {"claim", "fund"}, amount : Nat, own : BOOLEAN, nonce : Nat]
Status == {"none", "ok", "reverted", "dropped"}
PC == {"idle", "read", "claim", "claimWait", "balance", "fund", "fundWait", "final"}

IdleRun == [pc |-> "idle", todo |-> <<>>, chain |-> CHOOSE c \in Chains : TRUE,
            fees |-> 0, bal |-> 0, receipt |-> "none", nonce |-> NoNonce]

(* Fault variant: one nonce manager for the whole run.                    *)
ChainStartSharedNonce(o) == [run EXCEPT !.pc = "read", !.chain = Head(o), !.todo = Tail(o),
                                        !.fees = 0, !.bal = 0, !.receipt = "none"]

(* The first chain of the run's list, with a new contract and nonce manager. *)
ChainStart(o) == [IdleRun EXCEPT !.pc = "read", !.chain = Head(o), !.todo = Tail(o)]

TypeOK ==
    /\ accrued \in [Chains -> Nat] /\ provBal \in [Chains -> Nat]
    /\ keeperBal \in [Chains -> Nat] /\ txCount \in [Chains -> Nat]
    /\ pending \in [Chains -> SUBSET Tx]
    \* Each chain's nonce manager starts at the mined count, so a later run
    \* replaces what an aborted run left rather than queueing behind it: the
    \* wallet never has more unmined transactions than one run sends.
    /\ \A c \in Chains : Cardinality(pending[c]) <= 2
    /\ run \in [pc : PC, todo : Seq(Chains), chain : Chains, fees : Nat, bal : Nat,
                receipt : Status, nonce : Nat \cup {NoNonce}]
    /\ failures \in 0 .. MaxFailures /\ accruals \in 0 .. MaxAccruals

----------------------------------------------------------------------------
(* withdraw_fees returns Err through a `?`, skipping the chains not yet    *)
(* visited. Transactions already sent stay in the mempool, no longer      *)
(* awaited by anyone.                                                      *)
EndRun ==
    /\ run' = IdleRun
    /\ pending' = [c \in Chains |-> {[t EXCEPT !.own = FALSE] : t \in pending[c]}]

(* An awaited RPC call returns an error.                                   *)
Abort == failures < MaxFailures /\ failures' = failures + 1 /\ EndRun

(* Sending a transaction of the current run, then awaiting it at pc: the   *)
(* nonce manager fills the next nonce, the mined count at its first fill.  *)
(* The node takes it as a replacement of a pending transaction with that  *)
(* nonce when its gas price is higher by the bump, else rejects it; a      *)
(* nonce below the mined count is rejected. A rejection is an error of    *)
(* send() and ends the run.                                                *)
SendTx(kind, amount, pc) ==
    LET c == run.chain
        n == IF run.nonce = NoNonce THEN txCount[c] ELSE run.nonce
        same == {t \in pending[c] : t.nonce = n}
    IN \/ /\ n >= txCount[c]
          /\ pending' = [pending EXCEPT ![c] = (@ \ same) \cup
                           {[kind |-> kind, amount |-> amount, own |-> TRUE, nonce |-> n]}]
          /\ run' = [run EXCEPT !.pc = pc, !.receipt = "none", !.nonce = n + 1]
       \/ /\ n < txCount[c] \/ same # {}
          /\ EndRun

(* withdraw_fees with no chain_id: every chain, in the HashMap's order,    *)
(* which a fresh RandomState makes arbitrary in each process.              *)
StartRun ==
    /\ run.pc = "idle"
    /\ \E o \in SetToSeqs(Chains) : run' = ChainStart(o)
    /\ UNCHANGED <<accrued, provBal, keeperBal, txCount, pending, failures, accruals>>

(* The balance reads and get_provider_info; fees = accrued_fees_in_wei.    *)
ReadFees ==
    /\ run.pc = "read"
    /\ \/ Abort
       \/ /\ run' = [run EXCEPT !.pc = "claim", !.fees = accrued[run.chain]]
          /\ UNCHANGED <<pending, failures>>
    /\ UNCHANGED <<accrued, provBal, keeperBal, txCount, accruals>>

(* if fees > min_balance: contract.withdraw(fees).send().await?. Filling   *)
(* the transaction estimates its gas against the mined state, where a     *)
(* claim of more than the accrued fees reverts and send() errors.          *)
Claim ==
    /\ run.pc = "claim"
    /\ \/ /\ run.fees <= MinBalance
          /\ run' = [run EXCEPT !.pc = "balance"]
          /\ UNCHANGED <<pending, failures>>
       \/ /\ run.fees > MinBalance
          /\ \/ Abort
             \/ /\ run.fees > accrued[run.chain]
                /\ EndRun
                /\ UNCHANGED failures
             \/ /\ run.fees <= accrued[run.chain]
                /\ SendTx("claim", run.fees, "claimWait")
                /\ UNCHANGED failures
    /\ UNCHANGED <<accrued, provBal, keeperBal, txCount, accruals>>

(* .await? on the pending transaction, then log_tx_hash: a receipt is     *)
(* logged, None (the transaction was dropped) only warns. Either way the  *)
(* command goes on; an error polling for the receipt ends it.             *)
ClaimWait ==
    /\ run.pc = "claimWait"
    /\ \/ /\ run.receipt # "none"
          /\ run' = [run EXCEPT !.pc = "balance"]
          /\ UNCHANGED <<pending, failures>>
       \/ /\ run.receipt = "none"
          /\ Abort
    /\ UNCHANGED <<accrued, provBal, keeperBal, txCount, accruals>>

(* let balance = provider.get_balance(wallet.address(), None).await?       *)
ReadBalance ==
    /\ run.pc = "balance"
    /\ \/ Abort
       \/ /\ run' = [run EXCEPT !.pc = "fund", !.bal = provBal[run.chain]]
          /\ UNCHANGED <<pending, failures>>
    /\ UNCHANGED <<accrued, provBal, keeperBal, txCount, accruals>>

(* With a keeper address and balance > min_balance, send_transaction of   *)
(* amount_to_transfer to the keeper, then await it.                        *)
Fund ==
    /\ run.pc = "fund"
    /\ \/ /\ ~(Cron /\ run.bal > MinBalance)
          /\ run' = [run EXCEPT !.pc = "final"]
          /\ UNCHANGED <<pending, failures>>
       \/ /\ Cron /\ run.bal > MinBalance
          /\ \/ Abort
             \/ SendTx("fund", Transfer, "fundWait") /\ UNCHANGED failures
    /\ UNCHANGED <<accrued, provBal, keeperBal, txCount, accruals>>

FundWait ==
    /\ run.pc = "fundWait"
    /\ \/ /\ run.receipt # "none"
          /\ run' = [run EXCEPT !.pc = "final"]
          /\ UNCHANGED <<pending, failures>>
       \/ /\ run.receipt = "none"
          /\ Abort
    /\ UNCHANGED <<accrued, provBal, keeperBal, txCount, accruals>>

(* Fault variant: the loop returns after the first chain.                  *)
FinalNoNext ==
    /\ run.pc = "final"
    /\ \/ Abort
       \/ run' = IdleRun /\ UNCHANGED <<pending, failures>>
    /\ UNCHANGED <<accrued, provBal, keeperBal, txCount, accruals>>

(* The final balance reads, then the for loop's next chain, or Ok(()).    *)
Final ==
    /\ run.pc = "final"
    /\ \/ Abort
       \/ /\ run' = IF run.todo = <<>> THEN IdleRun ELSE ChainStart(run.todo)
          /\ UNCHANGED <<pending, failures>>
    /\ UNCHANGED <<accrued, provBal, keeperBal, txCount, accruals>>

----------------------------------------------------------------------------
(* Environment: the chain and the users.                                   *)

(* The pending transaction at the mined count mines. A claim of more than *)
(* the accrued fees reverts; a transfer moves the amount to the keeper.   *)
MineTx(c) ==
    \E tx \in pending[c] :
       /\ tx.nonce = txCount[c]
       /\ LET ok == IF tx.kind = "claim" THEN tx.amount <= accrued[c]
                    ELSE tx.amount <= provBal[c]
          IN /\ accrued' = [accrued EXCEPT ![c] = IF ok /\ tx.kind = "claim" THEN @ - tx.amount
                                                   ELSE @]
             /\ provBal' = [provBal EXCEPT ![c] = IF ~ok THEN @
                                                   ELSE IF tx.kind = "claim" THEN @ + tx.amount
                                                   ELSE @ - tx.amount]
             /\ keeperBal' = [keeperBal EXCEPT ![c] = IF ok /\ tx.kind = "fund"
                                                       THEN @ + tx.amount ELSE @]
             /\ run' = IF tx.own THEN [run EXCEPT !.receipt = IF ok THEN "ok" ELSE "reverted"]
                       ELSE run
       /\ txCount' = [txCount EXCEPT ![c] = @ + 1]
       /\ pending' = [pending EXCEPT ![c] = @ \ {tx}]
       /\ UNCHANGED <<failures, accruals>>

(* A transaction leaves the mempool unmined; PendingTransaction then       *)
(* resolves to None.                                                       *)
Drop(c, tx) ==
    /\ run' = IF tx.own THEN [run EXCEPT !.receipt = "dropped"] ELSE run
    /\ pending' = [pending EXCEPT ![c] = @ \ {tx}]
    /\ UNCHANGED <<accrued, provBal, keeperBal, txCount, accruals>>

(* Any pending transaction is evicted.                                     *)
DropTx(c) ==
    \E tx \in pending[c] :
       /\ failures < MaxFailures /\ failures' = failures + 1
       /\ Drop(c, tx)

(* A transaction behind a nonce gap is not executable; the node evicts it *)
(* once it has been queued for the pool's lifetime.                        *)
ExpireQueued(c) ==
    \E tx \in pending[c] :
       /\ \E k \in txCount[c] .. tx.nonce - 1 : \A t \in pending[c] : t.nonce # k
       /\ Drop(c, tx)
       /\ UNCHANGED failures

Accrue(c) ==
    /\ accruals < MaxAccruals
    /\ accruals' = accruals + 1
    /\ accrued' = [accrued EXCEPT ![c] = @ + FeeUnit]
    /\ UNCHANGED <<provBal, keeperBal, txCount, pending, run, failures>>

----------------------------------------------------------------------------
Init ==
    /\ accrued \in [Chains -> InitFees]
    /\ provBal \in [Chains -> InitBalances]
    /\ keeperBal = [c \in Chains |-> 0]
    /\ txCount = [c \in Chains |-> 0]
    /\ pending = [c \in Chains |-> {}]
    /\ run = IdleRun
    /\ failures = 0 /\ accruals = 0

Next ==
    \/ StartRun \/ ReadFees \/ Claim \/ ClaimWait \/ ReadBalance \/ Fund \/ FundWait
    \/ Final
    \/ \E c \in Chains : MineTx(c) \/ DropTx(c) \/ ExpireQueued(c) \/ Accrue(c)

(* The command's steps run to completion; cron starts it again and again. *)
(* The chain eventually includes an executable pending transaction, and   *)
(* the node eventually evicts one behind a gap (txpool lifetime). Users,  *)
(* RPC errors and other drops are not fair.                               *)
Spec ==
    /\ Init /\ [][Next]_vars
    /\ WF_vars(StartRun) /\ WF_vars(ReadFees) /\ WF_vars(Claim) /\ WF_vars(ClaimWait)
    /\ WF_vars(ReadBalance) /\ WF_vars(Fund) /\ WF_vars(FundWait) /\ WF_vars(Final)
    /\ \A c \in Chains : WF_vars(MineTx(c)) /\ WF_vars(ExpireQueued(c))

----------------------------------------------------------------------------
(* Properties.                                                             *)

(* The cron job claims every chain's fees: whatever RPC errors, dropped   *)
(* transactions, replaced or rejected transactions of aborted runs and    *)
(* stale reads happen, and although an error on one chain skips the rest  *)
(* of the run (withdraw_fees.rs:69), each chain's accrued fees end up at  *)
(* most min_balance.                                                       *)
FeesEventuallyClaimed == \A c \in Chains : <>[](accrued[c] <= MinBalance)

=============================================================================
