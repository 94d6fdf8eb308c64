-------------------------- MODULE KeeperSupervisor --------------------------
(***************************************************************************)
(* The Fortuna process (src/fortuna/src/command/run.rs): run() checks the  *)
(* hash-chain commitment of every configured chain, then joins three       *)
(* tasks: the Ctrl+C handler that sets the exit flag, the API server       *)
(* restart loop, and the keeper restart loop, whose run_keeper spawns one  *)
(* task per chain and joins them all. Each chain task is abstracted to its *)
(* lifecycle, the promise of KeeperChain that KeeperPipeline implements:   *)
(* it reads the safe block, runs until the exit flag stops it or an RPC    *)
(* error ends it.                                                          *)
(***************************************************************************)
EXTENDS Naturals, Sequences, SequencesExt

CONSTANTS
    Chains,          \* config.chains
    Misconfigured,   \* chains whose secret or chain length may not match the commitment
    MaxRpcFailures,  \* bound on failed RPC calls
    MaxBindFailures  \* bound on failed try_bind of the API server

VARIABLES
    matches,    \* per chain: the regenerated root equals the on-chain commitment
    main,       \* run(): [pc |-> "verify" | "join" | "done" | "failed", todo]
    exit,       \* the value of the rx_exit watch channel
    ctrl,       \* the Ctrl+C task: "wait" | "done"
    api,        \* run_api_with_exit_check: "check" | "serve" | "sleep" | "exited"
    keeper,     \* run_keeper_with_exit_check: "check" | "join" | "sleep" | "exited"
    task,       \* per chain task of run_keeper: "idle" | "start" | "run" | "ok" | "err"
    failures,   \* RPC failures so far
    bindFailures

vars == <<matches, main, exit, ctrl, api, keeper, task, failures, bindFailures>>

TypeOK ==
    /\ matches \in [Chains -> BOOLEAN]
    /\ main \in [pc : {"verify", "join", "done", "failed"}, todo : Seq(Chains)]
    /\ exit \in BOOLEAN
    /\ ctrl \in {"wait", "done"}
    /\ api \in {"check", "serve", "sleep", "exited"}
    /\ keeper \in {"check", "join", "sleep", "exited"}
    /\ task \in [Chains -> {"idle", "start", "run", "ok", "err"}]
    /\ failures \in 0 .. MaxRpcFailures
    /\ bindFailures \in 0 .. MaxBindFailures
    \* run_keeper joins every chain task it spawned before it returns: no
    \* chain task outlives the incarnation that spawned it.
    /\ keeper # "join" => \A c \in Chains : task[c] \notin {"start", "run"}

RpcFails == failures < MaxRpcFailures /\ failures' = failures + 1

----------------------------------------------------------------------------
(* run(): the commitment check.                                            *)

(* Fault variant of VerifyChain: the root is not compared.                 *)
VerifyChainNoCheck ==
    /\ main.pc = "verify" /\ main.todo # <<>>
    /\ \/ RpcFails /\ main' = [main EXCEPT !.pc = "failed"]
       \/ /\ UNCHANGED failures
          /\ main' = IF Len(main.todo) = 1 THEN [pc |-> "join", todo |-> <<>>]
                     ELSE [main EXCEPT !.todo = Tail(@)]
    /\ UNCHANGED <<matches, exit, ctrl, api, keeper, task, bindFailures>>

(* One iteration over config.chains: get_provider_info(..).call().await?,  *)
(* rebuild the hash chain and compare its reveal at the original sequence  *)
(* number with the commitment; a mismatch returns Err from run(). After    *)
(* the last chain the three tasks are spawned (the keeper and API loops    *)
(* start with their exit check, the Ctrl+C task waits for the signal).     *)
VerifyChain ==
    /\ main.pc = "verify" /\ main.todo # <<>>
    /\ \/ RpcFails /\ main' = [main EXCEPT !.pc = "failed"]
       \/ /\ UNCHANGED failures
          /\ main' = CASE ~matches[Head(main.todo)] -> [main EXCEPT !.pc = "failed"]
                       [] Len(main.todo) = 1 -> [pc |-> "join", todo |-> <<>>]
                       [] OTHER -> [main EXCEPT !.todo = Tail(@)]
    /\ UNCHANGED <<matches, exit, ctrl, api, keeper, task, bindFailures>>

(* join_all of the three tasks, then task??: run() returns.                *)
MainJoin ==
    /\ main.pc = "join"
    /\ ctrl = "done" /\ api = "exited" /\ keeper = "exited"
    /\ main' = [main EXCEPT !.pc = "done"]
    /\ UNCHANGED <<matches, exit, ctrl, api, keeper, task, failures, bindFailures>>

(* ctrl_c().await, then tx_exit.send(true).                               *)
CtrlC ==
    /\ main.pc = "join" /\ ctrl = "wait"
    /\ ctrl' = "done" /\ exit' = TRUE
    /\ UNCHANGED <<matches, main, api, keeper, task, failures, bindFailures>>

----------------------------------------------------------------------------
(* run_api_with_exit_check.                                                *)

(* Fault variant of ApiCheck: a `loop` that never looks at the exit flag. *)
ApiCheckNoExit ==
    /\ main.pc = "join" /\ api = "check"
    /\ \/ api' = "serve" /\ UNCHANGED bindFailures
       \/ /\ bindFailures < MaxBindFailures
          /\ bindFailures' = bindFailures + 1 /\ api' = "sleep"
    /\ UNCHANGED <<matches, main, exit, ctrl, keeper, task, failures>>

(* while !exit: run_api, whose try_bind(..)? may fail.                     *)
ApiCheck ==
    /\ main.pc = "join" /\ api = "check"
    /\ \/ exit /\ api' = "exited" /\ UNCHANGED bindFailures
       \/ ~exit /\ api' = "serve" /\ UNCHANGED bindFailures
       \/ /\ ~exit /\ bindFailures < MaxBindFailures
          /\ bindFailures' = bindFailures + 1 /\ api' = "sleep"
    /\ UNCHANGED <<matches, main, exit, ctrl, keeper, task, failures>>

(* The graceful-shutdown future polls the exit flag every 5 s; once it is  *)
(* set, serve returns and run_api returns Ok.                              *)
ApiStop ==
    /\ main.pc = "join" /\ api = "serve" /\ exit
    /\ api' = "sleep"
    /\ UNCHANGED <<matches, main, exit, ctrl, keeper, task, failures, bindFailures>>

(* The 5 s sleep before the loop checks the exit flag again.               *)
ApiSleep ==
    /\ main.pc = "join" /\ api = "sleep"
    /\ api' = "check"
    /\ UNCHANGED <<matches, main, exit, ctrl, keeper, task, failures, bindFailures>>

----------------------------------------------------------------------------
(* run_keeper_with_exit_check and run_keeper.                              *)

(* while !exit: run_keeper spawns one task per chain (no await between).   *)
KeeperCheck ==
    /\ main.pc = "join" /\ keeper = "check"
    /\ IF exit THEN keeper' = "exited" /\ UNCHANGED task
       ELSE keeper' = "join" /\ task' = [c \in Chains |-> "start"]
    /\ UNCHANGED <<matches, main, exit, ctrl, api, failures, bindFailures>>

(* latest_safe_block = get_block_number(..).await? - reveal_delay_blocks;  *)
(* an error (or the panic of the subtraction on a young chain) ends the    *)
(* chain task.                                                             *)
ChainStart(c) ==
    /\ task[c] = "start"
    /\ \/ RpcFails /\ task' = [task EXCEPT ![c] = "err"]
       \/ UNCHANGED failures /\ task' = [task EXCEPT ![c] = "run"]
    /\ UNCHANGED <<matches, main, exit, ctrl, api, keeper, bindFailures>>

(* Each of the three tasks sees the exit flag (or the closed channel) and  *)
(* returns Ok; the chain task's join_all then returns Ok.                  *)
ChainStop(c) ==
    /\ task[c] = "run" /\ exit
    /\ task' = [task EXCEPT ![c] = "ok"]
    /\ UNCHANGED <<matches, main, exit, ctrl, api, keeper, failures, bindFailures>>

(* An RPC error in the watch task (watch_blocks or get_block_number)       *)
(* returns Err; the events task sees the channel close, the backlog task   *)
(* finishes, and task?? returns the error.                                 *)
ChainFail(c) ==
    /\ task[c] = "run" /\ RpcFails
    /\ task' = [task EXCEPT ![c] = "err"]
    /\ UNCHANGED <<matches, main, exit, ctrl, api, keeper, bindFailures>>

Ended(c) == task[c] \in {"ok", "err"}

(* Fault variant of KeeperJoin: returns once one chain task has ended.     *)
KeeperJoinFirst ==
    /\ keeper = "join" /\ \E c \in Chains : Ended(c)
    /\ keeper' = "sleep"
    /\ UNCHANGED <<matches, main, exit, ctrl, api, task, failures, bindFailures>>

(* Fault variant of KeeperJoin: the loop propagates run_keeper's error   *)
(* with `?` instead of logging it.                                         *)
KeeperJoinPropagate ==
    /\ keeper = "join" /\ \A c \in Chains : Ended(c)
    /\ keeper' = IF \E c \in Chains : task[c] = "err" THEN "exited" ELSE "sleep"
    /\ UNCHANGED <<matches, main, exit, ctrl, api, task, failures, bindFailures>>

(* Fault variant of KeeperJoin: the JoinHandles are dropped, detaching    *)
(* the chain tasks, and run_keeper returns at once.                        *)
KeeperJoinDetached ==
    /\ keeper = "join"
    /\ keeper' = "sleep"
    /\ UNCHANGED <<matches, main, exit, ctrl, api, task, failures, bindFailures>>

(* join_all(handles).await, then task?? for each: run_keeper returns the   *)
(* first error, which the loop logs.                                       *)
KeeperJoin ==
    /\ keeper = "join" /\ \A c \in Chains : Ended(c)
    /\ keeper' = "sleep"
    /\ UNCHANGED <<matches, main, exit, ctrl, api, task, failures, bindFailures>>

(* The 5 s sleep before run_keeper is called again.                        *)
KeeperSleep ==
    /\ keeper = "sleep"
    /\ keeper' = "check" /\ task' = [c \in Chains |-> "idle"]
    /\ UNCHANGED <<matches, main, exit, ctrl, api, failures, bindFailures>>

----------------------------------------------------------------------------

(* Any chain may be misconfigured; the HashMap visits the chains in an     *)
(* arbitrary order.                                                        *)
Init ==
    /\ matches \in {f \in [Chains -> BOOLEAN] : \A c \in Chains \ Misconfigured : f[c]}
    /\ main \in [pc : {"verify"}, todo : SetToSeqs(Chains)]
    /\ exit = FALSE
    /\ ctrl = "wait"
    /\ api = "check"
    /\ keeper = "check"
    /\ task = [c \in Chains |-> "idle"]
    /\ failures = 0
    /\ bindFailures = 0

Next ==
    \/ VerifyChain \/ MainJoin \/ CtrlC
    \/ ApiCheck \/ ApiStop \/ ApiSleep
    \/ KeeperCheck \/ KeeperJoin \/ KeeperSleep
    \/ \E c \in Chains : ChainStart(c) \/ ChainStop(c) \/ ChainFail(c)

(* tokio polls every ready task: weak fairness on each step of the code.   *)
(* A chain stops once the exit flag is set (KeeperPipeline's              *)
(* ShutdownCompletes). Ctrl+C, RPC and bind failures are not fair.        *)
Fairness ==
    /\ WF_vars(VerifyChain) /\ WF_vars(MainJoin)
    /\ WF_vars(ApiCheck) /\ WF_vars(ApiStop) /\ WF_vars(ApiSleep)
    /\ WF_vars(KeeperCheck) /\ WF_vars(KeeperJoin) /\ WF_vars(KeeperSleep)
    /\ \A c \in Chains : WF_vars(ChainStart(c)) /\ WF_vars(ChainStop(c))

Spec == Init /\ [][Next]_vars /\ Fairness

----------------------------------------------------------------------------
(* Properties.                                                             *)

(* A chain task is KeeperChain's task: "start" has not yet read the safe  *)
(* block, "ok" and "err" await the restart. The supervisor does not model *)
(* the blocks, which KeeperPipeline scans.                                 *)
ChainOf(c) == INSTANCE KeeperChain WITH
    RevealDelay <- 0, head <- 0, scanned <- {},
    task <- CASE task[c] = "run"             -> "run"
              [] task[c] \in {"ok", "err"}  -> "ended"
              [] OTHER                       -> "idle"

(* Every chain task follows KeeperChain's lifecycle: run_keeper spawns a  *)
(* chain again only after join_all has seen every chain task end           *)
(* (run.rs:155-160, 288-291), so no task is restarted while it runs.       *)
ChainsImplementKeeperChain ==
    /\ \A c \in Chains : ChainOf(c)!Init
    /\ [][\A c \in Chains : [ChainOf(c)!Next]_(ChainOf(c)!chainVars)]_vars

(* Spec 4.1: reveals are served, and a chain is kept, only for a chain     *)
(* whose regenerated root equals its on-chain commitment; run() checks     *)
(* every chain (run.rs:331-334) before it spawns the API and keeper loops. *)
ServesOnlyCommitted ==
    \A c \in Chains : (api = "serve" \/ task[c] = "run") => matches[c]

(* After Ctrl+C the process ends: the API loop's graceful shutdown and     *)
(* exit check (run.rs:72-83, 132-136), the keeper loop's exit check after  *)
(* join_all of the chain tasks (run.rs:150-160), and run()'s join.         *)
ProcessExits == exit ~> main.pc = "done"

(* When every chain task has failed, the keeper loop logs the error and,   *)
(* unless shut down, runs the chains again 5 s later (run.rs:155-160).     *)
KeeperRecovers ==
    (keeper = "join" /\ \A c \in Chains : task[c] = "err")
        ~> (exit \/ \E c \in Chains : task[c] = "run")

(* Spec 5 and 7: the supervisor restarts a crashed per-chain pipeline      *)
(* after a cooldown while the other chains continue. run_keeper only       *)
(* returns when every chain task has ended (run.rs:288-291).               *)
CrashedChainRestarted ==
    \A c \in Chains : (task[c] = "err" /\ ~exit) ~> (exit \/ task[c] = "run")

=============================================================================
