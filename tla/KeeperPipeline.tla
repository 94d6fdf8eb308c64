--------------------------- MODULE KeeperPipeline ---------------------------
(***************************************************************************)
(* The per-chain keeper pipeline of Fortuna (src/fortuna/src/command/      *)
(* run.rs): run_keeper_with_exit_check restarts run_keeper, whose chain    *)
(* task reads the safe block and spawns three tasks that share nothing but *)
(* the exit flag and one bounded channel of BlockRange:                    *)
(*   - the backlog task walks [safe - BacklogBlocks, safe] in batches,     *)
(*   - the watch task tails new blocks and sends [last_safe, latest_safe], *)
(*   - the events task receives ranges and walks them in sub-batches.      *)
(* Block numbers are u64 in the code; here they have Width bits, and an    *)
(* overflow panics the task (debug build) or wraps (release build).        *)
(* "fetched" records the blocks whose events a task would fetch (the code  *)
(* prints the ranges; the event query itself is commented out).            *)
(***************************************************************************)
EXTENDS Naturals, Sequences, FiniteSets

CONSTANTS
    RevealDelay,      \* chain_config.reveal_delay_blocks
    BacklogBlocks,    \* backlog_blocks (10_000 in the code)
    BlocksAtATime,    \* blocks_at_a_time (100 in the code, both tasks)
    ChannelCapacity,  \* mpsc::channel::<BlockRange>(1000)
    Width,            \* bits of a block number (64 in the code)
    InitHeads,        \* block numbers the chain may be at when the keeper starts
    MaxHead,          \* bound on the chain's block number
    MaxRpcFailures,   \* bound on failed get_block_number / watch_blocks calls
    OverflowChecks,   \* TRUE: debug build (overflow panics); FALSE: release (wraps)
    Overflow          \* model value: result of an arithmetic step that panics

Modulus == 2 ^ Width
Blocks == 0 .. Modulus - 1

ASSUME /\ RevealDelay \in Nat /\ BacklogBlocks \in Nat
       /\ BlocksAtATime \in Nat \ {0} /\ ChannelCapacity \in Nat \ {0}
       /\ InitHeads \subseteq 0 .. MaxHead /\ InitHeads # {}
       /\ MaxHead + BlocksAtATime < Modulus
       /\ MaxRpcFailures \in Nat /\ OverflowChecks \in BOOLEAN

(* u64 arithmetic: an out-of-range result panics or wraps, per build.      *)
U64(r) == IF r \in Blocks THEN r
          ELSE IF OverflowChecks THEN Overflow ELSE r % Modulus

MinOf(a, b) == IF a <= b THEN a ELSE b

NoRange == [from |-> Overflow, to |-> Overflow]

(* The first block the backlog is meant to recover from safe block s:     *)
(* s - BacklogBlocks, or block 0 on a chain younger than the window.       *)
WindowStart(s) == IF s >= BacklogBlocks THEN s - BacklogBlocks ELSE 0

VARIABLES
    head,        \* block number returned by get_block_number(confirmed_block_status)
    exit,        \* value of the shutdown watch channel rx_exit
    rpcFailures, \* RPC failures so far (bounded environment)
    keeper,      \* run_keeper_with_exit_check: "check" | "start" | "tasks" | "sleep" | "exited"
    safeStart,   \* latest_safe_block read when run_keeper's chain task starts
    backlog,     \* backlog task: [pc, from]
    watch,       \* watch task: [pc, last, pending]
    events,      \* events task: [pc]
    chan,        \* the mpsc channel of BlockRange
    fetched,     \* blocks fetched by this incarnation of the pipeline
    lastSentTo,  \* history: end of the last range sent on chan in this incarnation
    past         \* history across incarnations: [first, covered, short]

vars == <<head, exit, rpcFailures, keeper, safeStart, backlog, watch, events,
          chan, fetched, lastSentTo, past>>
taskVars == <<safeStart, backlog, watch, events, chan, fetched, lastSentTo, past>>

TypeOK ==
    /\ head \in 0 .. MaxHead
    /\ exit \in BOOLEAN
    /\ rpcFailures \in 0 .. MaxRpcFailures
    /\ keeper \in {"check", "start", "tasks", "sleep", "exited"}
    /\ safeStart \in Blocks
    /\ backlog \in [pc : {"init", "loop", "done"}, from : Blocks]
    /\ watch \in [pc : {"init", "head", "next", "send", "done"}, last : Blocks,
                  pending : [from : Blocks, to : Blocks] \cup {NoRange}]
    /\ events \in [pc : {"head", "recv", "done"}]
    /\ chan \in Seq([from : Blocks, to : Blocks]) /\ Len(chan) <= ChannelCapacity
    /\ fetched \subseteq Blocks
    /\ lastSentTo \in Blocks \cup {Overflow}
    /\ past \in [first : Blocks \cup {Overflow}, covered : SUBSET Blocks, short : BOOLEAN]

(* An RPC call that may fail while failures remain in the budget.          *)
RpcFails == /\ rpcFailures < MaxRpcFailures
            /\ rpcFailures' = rpcFailures + 1

----------------------------------------------------------------------------
(* Environment: the chain advances and the operator may press Ctrl+C.      *)

NewHead == /\ head < MaxHead
           /\ head' = head + 1
           /\ UNCHANGED <<exit, rpcFailures, keeper, taskVars>>

CtrlC == /\ ~exit
         /\ exit' = TRUE
         /\ UNCHANGED <<head, rpcFailures, keeper, taskVars>>

----------------------------------------------------------------------------
(* run_keeper_with_exit_check: while !exit { run_keeper; sleep 5s }.       *)

KeeperCheck ==
    /\ keeper = "check"
    /\ keeper' = IF exit THEN "exited" ELSE "start"
    /\ UNCHANGED <<head, exit, rpcFailures, taskVars>>

(* run_keeper's chain task: latest_safe_block = get_block_number - delay,  *)
(* then spawn the three tasks. A failed read or a panicking subtraction    *)
(* ends the chain task, run_keeper returns and the loop sleeps.            *)
PipelineStart ==
    /\ keeper = "start"
    /\ \/ /\ RpcFails
          /\ keeper' = "sleep"
          /\ UNCHANGED taskVars
       \/ LET safe == U64(head - RevealDelay) IN
          /\ UNCHANGED rpcFailures
          /\ IF safe = Overflow
             THEN keeper' = "sleep" /\ UNCHANGED taskVars
             ELSE /\ keeper' = "tasks"
                  /\ safeStart' = safe
                  /\ backlog' = [pc |-> "init", from |-> 0]
                  /\ watch' = [pc |-> "init", last |-> safe, pending |-> NoRange]
                  /\ events' = [pc |-> "head"]
                  /\ chan' = <<>>
                  /\ fetched' = {}
                  /\ lastSentTo' = Overflow
                  /\ past' = [first |-> IF past.first = Overflow
                                        THEN WindowStart(safe) ELSE past.first,
                              covered |-> past.covered \cup fetched,
                              short |-> past.short \/ (past.first # Overflow
                                          /\ WindowStart(safe) > watch.last)]
    /\ UNCHANGED <<head, exit>>

(* Fault variant of PipelineJoin: the events task is not joined, so       *)
(* ranges still in the channel are dropped with it.                        *)
PipelineJoinEarly ==
    /\ keeper = "tasks"
    /\ backlog.pc = "done" /\ watch.pc = "done"
    /\ keeper' = "sleep"
    /\ UNCHANGED <<head, exit, rpcFailures, taskVars>>

(* join_all of the three tasks: run_keeper returns once all are finished.  *)
PipelineJoin ==
    /\ keeper = "tasks"
    /\ backlog.pc = "done" /\ watch.pc = "done" /\ events.pc = "done"
    /\ keeper' = "sleep"
    /\ UNCHANGED <<head, exit, rpcFailures, taskVars>>

KeeperSleep ==
    /\ keeper = "sleep"
    /\ keeper' = "check"
    /\ UNCHANGED <<head, exit, rpcFailures, taskVars>>

----------------------------------------------------------------------------
(* Backlog task.                                                           *)

BacklogInit ==
    /\ keeper = "tasks" /\ backlog.pc = "init"
    /\ LET from == U64(safeStart - BacklogBlocks) IN
       backlog' = IF from = Overflow THEN [backlog EXCEPT !.pc = "done"]
                  ELSE [pc |-> "loop", from |-> from]
    /\ UNCHANGED <<head, exit, rpcFailures, keeper, safeStart, watch, events,
                   chan, fetched, lastSentTo, past>>

(* Fault variant of BacklogBatch: treats [from, to_block] as half-open.    *)
BacklogBatchHalfOpen ==
    /\ keeper = "tasks" /\ backlog.pc = "loop"
    /\ ~exit /\ backlog.from < safeStart
    /\ LET raw == U64(backlog.from + BlocksAtATime)
           to  == IF raw # Overflow /\ raw > safeStart THEN safeStart ELSE raw
           next == IF to = Overflow THEN Overflow ELSE U64(to + 1)
       IN IF next = Overflow
          THEN /\ backlog' = [backlog EXCEPT !.pc = "done"]
               /\ UNCHANGED fetched
          ELSE /\ backlog' = [backlog EXCEPT !.from = next]
               /\ fetched' = fetched \cup (backlog.from .. to - 1)
    /\ UNCHANGED <<head, exit, rpcFailures, keeper, safeStart, watch, events,
                   chan, lastSentTo, past>>

(* One iteration of `while !exit && from_block < last_block`: to_block =   *)
(* min(from + blocks_at_a_time, last), fetch [from, to], from = to + 1,    *)
(* sleep 5s.                                                               *)
BacklogBatch ==
    /\ keeper = "tasks" /\ backlog.pc = "loop"
    /\ ~exit /\ backlog.from < safeStart
    /\ LET raw == U64(backlog.from + BlocksAtATime)
           to  == IF raw # Overflow /\ raw > safeStart THEN safeStart ELSE raw
           next == IF to = Overflow THEN Overflow ELSE U64(to + 1)
       IN IF next = Overflow
          THEN /\ backlog' = [backlog EXCEPT !.pc = "done"]
               /\ UNCHANGED fetched
          ELSE /\ backlog' = [backlog EXCEPT !.from = next]
               /\ fetched' = fetched \cup (backlog.from .. to)
    /\ UNCHANGED <<head, exit, rpcFailures, keeper, safeStart, watch, events,
                   chan, lastSentTo, past>>

BacklogEnd ==
    /\ keeper = "tasks" /\ backlog.pc = "loop"
    /\ exit \/ backlog.from >= safeStart
    /\ backlog' = [backlog EXCEPT !.pc = "done"]
    /\ UNCHANGED <<head, exit, rpcFailures, keeper, safeStart, watch, events,
                   chan, fetched, lastSentTo, past>>

----------------------------------------------------------------------------
(* Watch task.                                                             *)

(* provider.watch_blocks().await?                                          *)
WatchInit ==
    /\ keeper = "tasks" /\ watch.pc = "init"
    /\ \/ RpcFails /\ watch' = [watch EXCEPT !.pc = "done"]
       \/ UNCHANGED rpcFailures /\ watch' = [watch EXCEPT !.pc = "head"]
    /\ UNCHANGED <<head, exit, keeper, safeStart, backlog, events, chan,
                   fetched, lastSentTo, past>>

(* Fault variant of WatchHead: the loop never looks at the exit flag.      *)
WatchHeadNoExit ==
    /\ keeper = "tasks" /\ watch.pc = "head"
    /\ watch' = [watch EXCEPT !.pc = "next"]
    /\ UNCHANGED <<head, exit, rpcFailures, keeper, safeStart, backlog, events,
                   chan, fetched, lastSentTo, past>>

(* `while !exit && let Some(block) = stream.next().await`: the exit check. *)
WatchHead ==
    /\ keeper = "tasks" /\ watch.pc = "head"
    /\ watch' = [watch EXCEPT !.pc = IF exit THEN "done" ELSE "next"]
    /\ UNCHANGED <<head, exit, rpcFailures, keeper, safeStart, backlog, events,
                   chan, fetched, lastSentTo, past>>

(* Fault variant of WatchBlock: the frontier is the head itself, without  *)
(* the reveal delay.                                                       *)
WatchBlockNoDelay ==
    /\ keeper = "tasks" /\ watch.pc = "next"
    /\ \/ RpcFails /\ watch' = [watch EXCEPT !.pc = "done"]
       \/ LET latest == U64(head) IN
          /\ UNCHANGED rpcFailures
          /\ watch' = CASE latest = Overflow -> [watch EXCEPT !.pc = "done"]
                        [] latest > watch.last ->
                             [watch EXCEPT !.pc = "send",
                                 !.pending = [from |-> watch.last, to |-> latest]]
                        [] OTHER -> [watch EXCEPT !.pc = "head"]
    /\ UNCHANGED <<head, exit, keeper, safeStart, backlog, events, chan,
                   fetched, lastSentTo, past>>

(* A new block arrives on the stream; the task re-reads the safe block and *)
(* prepares BlockRange { from: last_safe_block, to: latest_safe_block }    *)
(* when the frontier advanced.                                             *)
WatchBlock ==
    /\ keeper = "tasks" /\ watch.pc = "next"
    /\ \/ RpcFails /\ watch' = [watch EXCEPT !.pc = "done"]
       \/ LET latest == U64(head - RevealDelay) IN
          /\ UNCHANGED rpcFailures
          /\ watch' = CASE latest = Overflow -> [watch EXCEPT !.pc = "done"]
                        [] latest > watch.last ->
                             [watch EXCEPT !.pc = "send",
                                 !.pending = [from |-> watch.last, to |-> latest]]
                        [] OTHER -> [watch EXCEPT !.pc = "head"]
    /\ UNCHANGED <<head, exit, keeper, safeStart, backlog, events, chan,
                   fetched, lastSentTo, past>>

(* Fault variant of WatchSend: last_safe_block is never advanced.          *)
WatchSendNoAdvance ==
    /\ keeper = "tasks" /\ watch.pc = "send"
    /\ \/ /\ events.pc = "done"
          /\ watch' = [watch EXCEPT !.pc = "done"]
          /\ UNCHANGED <<chan, lastSentTo>>
       \/ /\ events.pc # "done"
          /\ Len(chan) < ChannelCapacity
          /\ chan' = Append(chan, watch.pending)
          /\ lastSentTo' = watch.pending.to
          /\ watch' = [watch EXCEPT !.pc = "head", !.pending = NoRange]
    /\ UNCHANGED <<head, exit, rpcFailures, keeper, safeStart, backlog, events,
                   fetched, past>>

(* Fault variant of WatchSend: an unbounded channel.                       *)
WatchSendUnbounded ==
    /\ keeper = "tasks" /\ watch.pc = "send"
    /\ \/ /\ events.pc = "done"
          /\ watch' = [watch EXCEPT !.pc = "done"]
          /\ UNCHANGED <<chan, lastSentTo>>
       \/ /\ events.pc # "done"
          /\ chan' = Append(chan, watch.pending)
          /\ lastSentTo' = watch.pending.to
          /\ watch' = [pc |-> "head", last |-> watch.pending.to, pending |-> NoRange]
    /\ UNCHANGED <<head, exit, rpcFailures, keeper, safeStart, backlog, events,
                   fetched, past>>

(* tx.send(range).await?; last_safe_block = latest_safe_block. The send    *)
(* waits while the channel is full and fails once the receiver is gone.    *)
WatchSend ==
    /\ keeper = "tasks" /\ watch.pc = "send"
    /\ \/ /\ events.pc = "done"
          /\ watch' = [watch EXCEPT !.pc = "done"]
          /\ UNCHANGED <<chan, lastSentTo>>
       \/ /\ events.pc # "done"
          /\ Len(chan) < ChannelCapacity
          /\ chan' = Append(chan, watch.pending)
          /\ lastSentTo' = watch.pending.to
          /\ watch' = [pc |-> "head", last |-> watch.pending.to, pending |-> NoRange]
    /\ UNCHANGED <<head, exit, rpcFailures, keeper, safeStart, backlog, events,
                   fetched, past>>

----------------------------------------------------------------------------
(* Events task.                                                            *)

(* The blocks fetched by `while from_block < block_range.to { to_block =   *)
(* min(from + blocks_at_a_time, to); fetch [from, to_block]; from =        *)
(* to_block + 1 }`. The loop has no await: one step handles a range.       *)
RECURSIVE SubBatchBlocks(_, _)
SubBatchBlocks(from, to) ==
    IF from < to
    THEN LET t == MinOf(from + BlocksAtATime, to)
         IN (from .. t) \cup SubBatchBlocks(t + 1, to)
    ELSE {}

EventsHead ==
    /\ keeper = "tasks" /\ events.pc = "head"
    /\ events' = [pc |-> IF exit THEN "done" ELSE "recv"]
    /\ UNCHANGED <<head, exit, rpcFailures, keeper, safeStart, backlog, watch,
                   chan, fetched, lastSentTo, past>>

EventsRecv ==
    /\ keeper = "tasks" /\ events.pc = "recv"
    /\ chan # <<>>
    /\ chan' = Tail(chan)
    /\ fetched' = fetched \cup SubBatchBlocks(Head(chan).from, Head(chan).to)
    /\ events' = [pc |-> "head"]
    /\ UNCHANGED <<head, exit, rpcFailures, keeper, safeStart, backlog, watch,
                   lastSentTo, past>>

(* rx.recv() returns None once the watch task has dropped its sender.      *)
EventsClosed ==
    /\ keeper = "tasks" /\ events.pc = "recv"
    /\ chan = <<>> /\ watch.pc = "done"
    /\ events' = [pc |-> "done"]
    /\ UNCHANGED <<head, exit, rpcFailures, keeper, safeStart, backlog, watch,
                   chan, fetched, lastSentTo, past>>

----------------------------------------------------------------------------

Init ==
    /\ head \in InitHeads
    /\ exit = FALSE
    /\ rpcFailures = 0
    /\ keeper = "check"
    /\ safeStart = 0
    /\ backlog = [pc |-> "done", from |-> 0]
    /\ watch = [pc |-> "done", last |-> 0, pending |-> NoRange]
    /\ events = [pc |-> "done"]
    /\ chan = <<>>
    /\ fetched = {}
    /\ lastSentTo = Overflow
    /\ past = [first |-> Overflow, covered |-> {}, short |-> FALSE]

Next ==
    \/ NewHead \/ CtrlC
    \/ KeeperCheck \/ PipelineStart \/ PipelineJoin \/ KeeperSleep
    \/ BacklogInit \/ BacklogBatch \/ BacklogEnd
    \/ WatchInit \/ WatchHead \/ WatchBlock \/ WatchSend
    \/ EventsHead \/ EventsRecv \/ EventsClosed

(* Every task of the keeper is scheduled by tokio and every await resolves *)
(* (a stalled RPC is bounded by MaxRpcFailures; the chain keeps producing  *)
(* blocks, so the block stream keeps yielding).                            *)
Fairness ==
    /\ WF_vars(KeeperCheck) /\ WF_vars(PipelineStart) /\ WF_vars(PipelineJoin)
    /\ WF_vars(KeeperSleep)
    /\ WF_vars(BacklogInit) /\ WF_vars(BacklogBatch) /\ WF_vars(BacklogEnd)
    /\ WF_vars(WatchInit) /\ WF_vars(WatchHead) /\ WF_vars(WatchBlock)
    /\ WF_vars(WatchSend)
    /\ WF_vars(EventsHead) /\ WF_vars(EventsRecv) /\ WF_vars(EventsClosed)

Spec == Init /\ [][Next]_vars /\ Fairness

----------------------------------------------------------------------------
(* Properties.                                                             *)

(* The first block the backlog is meant to recover: safe - BacklogBlocks,  *)
(* or block 0 on a chain younger than the window.                          *)
IntendedBacklogStart == WindowStart(safeStart)

(* The pipeline has nothing left to do until the chain advances.           *)
Quiescent ==
    /\ keeper = "tasks" /\ ~exit
    /\ backlog.pc = "done" /\ chan = <<>>
    /\ watch.pc \in {"head", "next"} /\ events.pc \in {"head", "recv"}

(* No block is skipped: once the backlog task has finished and the events  *)
(* task has drained the channel, the events of every block from the       *)
(* backlog start up to (not including) the watch task's last_safe_block   *)
(* have been fetched. This relies on the backlog loop (run.rs:192-204),    *)
(* the ranges of the watch task (run.rs:232-239) and the sub-batch loop of *)
(* the events task (run.rs:255-273) agreeing on their boundaries.          *)
NoBlockSkipped ==
    Quiescent => (IntendedBacklogStart .. watch.last - 1) \subseteq fetched

(* A restart recovers what the keeper missed while it was down: as long   *)
(* as every restart's backlog window reaches back to the frontier the     *)
(* previous incarnation had watched up to, every block from the first     *)
(* incarnation's backlog start up to the current frontier has been fetched *)
(* by some incarnation. A failed incarnation must hand over everything it *)
(* was sent before run_keeper returns (the join of run.rs:279-284), and    *)
(* the restart (run.rs:150-161) relies on the backlog window of            *)
(* run.rs:184-190 to cover the time it was down (spec 4.4).               *)
RestartRecoversMissedBlocks ==
    (Quiescent /\ ~past.short)
        => (past.first .. watch.last - 1) \subseteq (past.covered \cup fetched)

(* Shutdown completes: after Ctrl+C, run_keeper_with_exit_check returns;   *)
(* every task observes the exit flag or the closing of the channel.        *)
ShutdownCompletes == exit ~> (keeper = "exited")

(* The keeper catches up: unless shut down, it eventually settles with the *)
(* watch task's frontier at the chain's safe block.                        *)
CatchesUp == <>[](exit \/ (Quiescent /\ watch.last = head - RevealDelay))

(* The pipeline seen as the chain task of KeeperChain: running while its  *)
(* three tasks are joined, ended while the loop sleeps, and scanning the   *)
(* blocks it fetches.                                                      *)
Chain == INSTANCE KeeperChain WITH
    task <- CASE keeper = "tasks" -> "run"
              [] keeper = "sleep" -> "ended"
              [] OTHER            -> "idle",
    scanned <- fetched

(* The pipeline implements KeeperChain: every restart starts a fresh task, *)
(* and the backlog batches (run.rs:192-204), the watch task's frontier      *)
(* (run.rs:226-239) and the events task's sub-batches (run.rs:255-273)     *)
(* never fetch a block less than reveal_delay_blocks below the head.       *)
ImplementsKeeperChain == Chain!Spec

(* Spec 4.4 and 8: successive ranges on the channel are contiguous, the    *)
(* next starting one block past the previous end (r_k.to + 1 = r_k+1.from). *)
(* The watch task sends [last_safe_block, latest] (run.rs:233-236).         *)
LiveRangesContiguous ==
    [][WatchSend /\ Len(chan') > Len(chan) /\ lastSentTo # Overflow
         => chan'[Len(chan')].from = lastSentTo + 1]_vars

=============================================================================
