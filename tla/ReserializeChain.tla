--------------------------- MODULE ReserializeChain ---------------------------
(***************************************************************************)
(* `main` of coins/monero/src/bin/reserialize_chain.rs: it polls the      *)
(* node's height and spawns one `check_block` task per block from the     *)
(* start block up, keeping at most `async_parallelism` join handles; when *)
(* the vector is full it awaits the oldest handle and then every handle   *)
(* already finished, removing them with swap_remove.  It returns once two *)
(* successive polls give the same height.                                 *)
(*                                                                         *)
(* A check_block task is abstracted to its outcome: it finishes Ok, or it *)
(* panics on one of its RPC `expect`s or consistency asserts.  Which RPC  *)
(* connection a task uses (rpc_i) does not affect the control flow and is *)
(* left out.                                                              *)
(***************************************************************************)
EXTENDS Naturals, Sequences, SequencesExt, FiniteSets

CONSTANTS
  StartBlock,    \* args[1]
  ParallelismArgs, \* the values args[2] parses to in the explored runs
  MaxHeight      \* largest height the node reports in the explored runs

ASSUME StartBlock \in Nat /\ MaxHeight \in Nat
ASSUME ParallelismArgs \subseteq Nat

BlockNums == StartBlock..MaxHeight

VARIABLES
  parallelism, \* main's `async_parallelism`
  pc,        \* where main is: "poll", "spawn", "drain", "push", "exited", "panicked"
  height,    \* main's `height`
  blockI,    \* main's `block_i`, the next block to spawn
  handles,   \* main's `handles`, as the sequence of the blocks they check
  i,         \* index of the drain loop (1-based)
  status     \* status[b]: "idle", "running", "ok" or "failed" for block b's task

vars == <<parallelism, pc, height, blockI, handles, i, status>>

Finished(b) == status[b] \in {"ok", "failed"}

(* Mutant of SwapRemove: the moved last element is not popped.            *)
SwapRemoveNoPop(s, k) == [s EXCEPT ![k] = Last(s)]

(* Vec::swap_remove(i): the last element takes the place of the i-th.      *)
SwapRemove(s, k) == SubSeq([s EXCEPT ![k] = Last(s)], 1, Len(s) - 1)

(* Mutant of LoopNeedsRoom: `>` for `>=`.                                  *)
LoopNeedsRoomGt(len) == len > parallelism

(* `handles.len() >= async_parallelism`                                    *)
LoopNeedsRoom(len) == len >= parallelism

(* `handle.await.unwrap()`: a task that panicked panics main.              *)
AfterJoin(b, next) == IF status[b] = "failed" THEN "panicked" ELSE next

-----------------------------------------------------------------------------
Init ==
  /\ parallelism \in ParallelismArgs
  /\ pc = "poll"
  /\ height = 0
  /\ blockI = StartBlock
  /\ handles = <<>>
  /\ i = 1
  /\ status = [b \in BlockNums |-> "idle"]

(* Mutant of Poll: `height = new_height` is forgotten.                    *)
PollKeepsHeight ==
  /\ pc = "poll"
  /\ \/ pc' = "panicked"
     \/ \E newHeight \in height..MaxHeight :
          IF newHeight = height
          THEN pc' = "exited"
          ELSE pc' = "spawn"
  /\ UNCHANGED <<parallelism, height, blockI, handles, i, status>>

(* `get_height().await.expect(..)`: an RPC error panics main; otherwise    *)
(* the loop breaks when the height equals the previous one.              *)
Poll ==
  /\ pc = "poll"
  /\ \/ pc' = "panicked" /\ UNCHANGED height
     \/ \E newHeight \in height..MaxHeight :
          IF newHeight = height
          THEN pc' = "exited" /\ UNCHANGED height
          ELSE pc' = "spawn" /\ height' = newHeight
  /\ UNCHANGED <<parallelism, blockI, handles, i, status>>

(* `while block_i < height` is over: poll again.                           *)
LoopDone ==
  /\ pc = "spawn"
  /\ blockI >= height
  /\ pc' = "poll"
  /\ UNCHANGED <<parallelism, height, blockI, handles, i, status>>

(* The vector is full: `handles.swap_remove(0).await.unwrap()` waits for   *)
(* the oldest task, then the drain loop starts at index 0.  With          *)
(* async_parallelism 0 the vector is "full" while empty, and swap_remove  *)
(* panics on the out-of-bounds index.                                    *)
AwaitOldest ==
  /\ pc = "spawn"
  /\ blockI < height
  /\ LoopNeedsRoom(Len(handles))
  /\ \/ /\ handles = <<>>
        /\ pc' = "panicked"
        /\ UNCHANGED <<i, handles>>
     \/ /\ handles # <<>>
        /\ Finished(handles[1])
        /\ handles' = SwapRemove(handles, 1)
        /\ pc' = AfterJoin(handles[1], "drain")
        /\ i' = 1
  /\ UNCHANGED <<parallelism, height, blockI, status>>

(* Drain loop: a finished handle is swap-removed and joined, and the same  *)
(* index is looked at again (`continue`).                                 *)
DrainRemove ==
  /\ pc = "drain"
  /\ i <= Len(handles)
  /\ Finished(handles[i])
  /\ handles' = SwapRemove(handles, i)
  /\ pc' = AfterJoin(handles[i], "drain")
  /\ UNCHANGED <<parallelism, height, blockI, i, status>>

(* Drain loop: a running handle is kept (`i += 1`).                        *)
DrainSkip ==
  /\ pc = "drain"
  /\ i <= Len(handles)
  /\ ~Finished(handles[i])
  /\ i' = i + 1
  /\ UNCHANGED <<parallelism, pc, height, blockI, handles, status>>

DrainEnd ==
  /\ pc = "drain"
  /\ i > Len(handles)
  /\ pc' = "push"
  /\ UNCHANGED <<parallelism, height, blockI, handles, i, status>>

(* `handles.push(tokio::spawn(check_block(..., block_i)))`, `block_i += 1`: *)
(* after the drain, or directly when the vector had room.                 *)
Spawn ==
  /\ \/ pc = "push"
     \/ pc = "spawn" /\ blockI < height /\ ~LoopNeedsRoom(Len(handles))
  /\ handles' = Append(handles, blockI)
  /\ status' = [status EXCEPT ![blockI] = "running"]
  /\ blockI' = blockI + 1
  /\ pc' = "spawn"
  /\ UNCHANGED <<parallelism, height, i>>

(* A check_block task runs to its end: all checks pass, or an expect or    *)
(* assert panics the task.  Tasks stop with the runtime when main ends.   *)
CheckBlock(b) ==
  /\ status[b] = "running"
  /\ pc \notin {"exited", "panicked"}
  /\ \E outcome \in {"ok", "failed"} : status' = [status EXCEPT ![b] = outcome]
  /\ UNCHANGED <<parallelism, pc, height, blockI, handles, i>>

(* The process has ended.                                                  *)
Ended ==
  /\ pc \in {"exited", "panicked"}
  /\ UNCHANGED vars

MainStep ==
  Poll \/ LoopDone \/ AwaitOldest \/ DrainRemove \/ DrainSkip \/ DrainEnd \/ Spawn

Next == MainStep \/ (\E b \in BlockNums : CheckBlock(b)) \/ Ended

(* main is one task that is never starved; a spawned task runs to its end *)
(* unless the runtime stops.                                              *)
Spec == Init /\ [][Next]_vars /\ WF_vars(MainStep) /\ \A b \in BlockNums : WF_vars(CheckBlock(b))

-----------------------------------------------------------------------------
TypeOK ==
  /\ parallelism \in ParallelismArgs
  /\ pc \in {"poll", "spawn", "drain", "push", "exited", "panicked"}
  /\ height \in 0..MaxHeight
  /\ blockI \in StartBlock..MaxHeight
  /\ handles \in Seq(BlockNums)
  /\ i \in 1..(parallelism + 1)
  /\ status \in [BlockNums -> {"idle", "running", "ok", "failed"}]

(* No more than async_parallelism check_block tasks run at once, however  *)
(* the awaits, the drain loop's swap_removes and task completions         *)
(* interleave: every running task still has its handle in the vector,    *)
(* and the vector is drained before it grows past the bound.             *)
ParallelismBounded ==
  Cardinality({b \in BlockNums : status[b] = "running"}) <= parallelism

(* main always ends, returning or panicking, once the node's height stops *)
(* growing (the model bounds it by MaxHeight): the awaits are all on      *)
(* tasks that finish, and the drain loop advances past running tasks.     *)
MainTerminates == <>(pc \in {"exited", "panicked"})

(* The tool "deserialized, hashed and reserialized" every block: when main *)
(* returns normally, every block below the last height was checked        *)
(* successfully.                                                          *)
ExitAfterAllChecked ==
  pc = "exited" => \A b \in StartBlock..(height - 1) : status[b] = "ok"

=============================================================================
