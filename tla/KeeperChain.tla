---------------------------- MODULE KeeperChain ----------------------------
(***************************************************************************)
(* What one chain's keeper task promises (spec 4.4 and 5), without its    *)
(* tasks, channel or batches: the task is spawned, scans blocks while it   *)
(* runs, ends (on shutdown or on an error) and may be spawned again. A     *)
(* spawned task forgets what an earlier one scanned, and it only ever     *)
(* scans blocks that are safe: at least RevealDelay blocks below the      *)
(* chain's head. KeeperPipeline implements it for one chain, and          *)
(* KeeperSupervisor composes one instance per configured chain.            *)
(***************************************************************************)
EXTENDS Naturals

CONSTANT RevealDelay      \* chain_config.reveal_delay_blocks

VARIABLES
    head,       \* the chain's block number
    task,       \* "idle" (not running), "run", "ended" (awaiting a restart)
    scanned     \* blocks whose events the running task has fetched

chainVars == <<head, task, scanned>>

(* The blocks that are safe at the current head.                           *)
SafeBlocks == IF head >= RevealDelay THEN 0 .. head - RevealDelay ELSE {}

Init ==
    /\ head \in Nat
    /\ task = "idle"
    /\ scanned = {}

NewBlock == head' = head + 1 /\ UNCHANGED <<task, scanned>>

Spawn == task = "idle" /\ task' = "run" /\ scanned' = {} /\ UNCHANGED head

(* The task fails before it scans anything.                               *)
StartFails == task = "idle" /\ task' = "ended" /\ UNCHANGED <<head, scanned>>

Scan ==
    /\ task = "run"
    /\ scanned \subseteq scanned' /\ scanned' \subseteq SafeBlocks
    /\ UNCHANGED <<head, task>>

End == task = "run" /\ task' = "ended" /\ UNCHANGED <<head, scanned>>

Restart == task = "ended" /\ task' = "idle" /\ UNCHANGED <<head, scanned>>

Next == NewBlock \/ Spawn \/ StartFails \/ Scan \/ End \/ Restart

Spec == Init /\ [][Next]_chainVars

=============================================================================
