------------------------------ MODULE BatchTest ------------------------------
(***************************************************************************)
(* `batch_test` (tests/processor/src/tests/batch.rs) on one network: for  *)
(* each of its two batches the test, acting as every coordinator,        *)
(* publishes a transaction, collects a batch preprocess from each        *)
(* processor (`recv_batch_preprocesses`), reduces them to THRESHOLD by    *)
(* random removals, triggers 0 to 3 re-attempts, runs `sign_batch` with   *)
(* the selected processors (preprocesses out, shares in, shares out,     *)
(* batches in) and checks the batch it got.                              *)
(*                                                                         *)
(* The processors are not in this repository.  Each is modelled as the    *)
(* message protocol it follows: once it has scanned the published        *)
(* transaction it sends a preprocess for attempt 0 of the next batch,    *)
(* and it answers, in order, a re-attempt with a preprocess for the      *)
(* attempt it names, preprocesses with a share and shares with the       *)
(* signed batch.  Each coordinator link is a FIFO queue in each          *)
(* direction.  A SignId is the batch number and the attempt (its key is  *)
(* the one key generated); a batch is identified by its number.  Sending *)
(* to the coordinators in a loop is one step: only the order of messages *)
(* on each link is observable, and each link keeps it.                   *)
(***************************************************************************)
EXTENDS Naturals, Sequences, FiniteSets

CONSTANTS
  COORDINATORS,   \* number of coordinator/processor stacks
  THRESHOLD,      \* signing threshold
  None

ASSUME COORDINATORS \in Nat \ {0} /\ THRESHOLD \in 1..COORDINATORS

Participants == 1..COORDINATORS

(* `for i in 0 .. 2`: the batches the test signs.                          *)
NumBatches == 2

BatchNums == 0..(NumBatches - 1)

(* `OsRng.next_u64() % 4` re-attempts.                                     *)
MaxReattempts == 3

Attempts == 0..MaxReattempts

SignIds == [batch : BatchNums, attempt : Attempts]

SignId(b, a) == [batch |-> b, attempt |-> a]

Msg(type, sid) == [type |-> type, id |-> sid]

VARIABLES
  toProc,      \* toProc[i]: messages the test sent to processor i, unread
  fromProc,    \* fromProc[i]: messages processor i sent, unread by the test
  scanned,     \* scanned[i]: the batches processor i has started
  published,   \* the transactions the test has published
  pc,          \* where the test is
  iter,        \* the outer loop's `i`
  idx,         \* index of the loop over coordinators
  id,          \* the SignId held by the test, or None
  attempt,     \* the attempt the current recv_batch_preprocesses expects
  reattempts,  \* the random number of re-attempts of this batch
  preprocesses,\* participants whose preprocess the test holds
  shares,      \* participants whose share the test holds
  batch        \* the number of the first batch received, or None

vars == <<toProc, fromProc, scanned, published, pc, iter, idx, id, attempt,
          reattempts, preprocesses, shares, batch>>

testVars == <<pc, iter, idx, id, attempt, reattempts, preprocesses, shares, batch>>

-----------------------------------------------------------------------------
(* Processors *)

Response(m) ==
  CASE m.type = "BatchReattempt"    -> Msg("BatchPreprocess", m.id)
    [] m.type = "BatchPreprocesses" -> Msg("BatchShare", m.id)
    [] m.type = "BatchShares"       -> Msg("Update", m.id)

(* Processor i handles the oldest message from its coordinator.            *)
ProcessorRespond(i) ==
  /\ toProc[i] # <<>>
  /\ toProc' = [toProc EXCEPT ![i] = Tail(@)]
  /\ fromProc' = [fromProc EXCEPT ![i] = Append(@, Response(Head(toProc[i])))]
  /\ UNCHANGED <<scanned, published, testVars>>

(* Processor i's scanner sees the next published transaction and starts    *)
(* signing a batch for its block.                                         *)
ProcessorScan(i) ==
  /\ scanned[i] < published
  /\ fromProc' = [fromProc EXCEPT ![i] = Append(@, Msg("BatchPreprocess", SignId(scanned[i], 0)))]
  /\ scanned' = [scanned EXCEPT ![i] = @ + 1]
  /\ UNCHANGED <<toProc, published, testVars>>

-----------------------------------------------------------------------------
(* The test *)

(* After key generation, before the first iteration.                      *)
Init ==
  /\ toProc = [i \in Participants |-> <<>>]
  /\ fromProc = [i \in Participants |-> <<>>]
  /\ scanned = [i \in Participants |-> 0]
  /\ published = 0
  /\ pc = "publish"
  /\ iter = 0
  /\ idx = 1
  /\ id = None
  /\ attempt = 0
  /\ reattempts = 0
  /\ preprocesses = {}
  /\ shares = {}
  /\ batch = None

(* An iteration sends the transaction, publishes it to every coordinator   *)
(* and mines it past the confirmation depth, then waits for the first     *)
(* recv_batch_preprocesses.                                               *)
PublishTx ==
  /\ pc = "publish"
  /\ published' = published + 1
  /\ pc' = "recv_preprocess"
  /\ idx' = 1
  /\ id' = None
  /\ attempt' = 0
  /\ preprocesses' = {}
  /\ shares' = {}
  /\ batch' = None
  /\ UNCHANGED <<toProc, fromProc, scanned, iter, reattempts>>

(* A failed assert_eq! or panic! ends the test.                            *)
Fail == pc' = "failed"

(* Mutant of ParticipantOf: the enumerate() index is used unshifted.      *)
ParticipantOfZeroBased(i) == i - 1

(* `Participant::new(u16::try_from(i).unwrap() + 1)` for the i-th          *)
(* coordinator, counted from 1 here.                                      *)
ParticipantOf(i) == i

(* recv_batch_preprocesses: `coordinator.recv_message().await` from the   *)
(* idx-th coordinator; the first preprocess fixes `id` after checking its *)
(* attempt, every one must carry that id.                                 *)
RecvPreprocess ==
  /\ pc = "recv_preprocess"
  /\ idx <= COORDINATORS
  /\ fromProc[idx] # <<>>
  /\ fromProc' = [fromProc EXCEPT ![idx] = Tail(@)]
  /\ LET m == Head(fromProc[idx])
         first == IF id = None THEN m.id ELSE id
     IN  IF \/ m.type # "BatchPreprocess"
            \/ id = None /\ m.id.attempt # attempt
            \/ m.id # first
         THEN Fail /\ UNCHANGED <<idx, id, preprocesses>>
         ELSE /\ id' = first
              /\ preprocesses' = preprocesses \cup {ParticipantOf(idx)}
              /\ idx' = idx + 1
              /\ UNCHANGED pc
  /\ UNCHANGED <<toProc, scanned, published, iter, attempt, reattempts, shares, batch>>

RecvPreprocessesDone ==
  /\ pc = "recv_preprocess"
  /\ idx > COORDINATORS
  /\ pc' = "reduce"
  /\ UNCHANGED <<toProc, fromProc, scanned, published, iter, idx, id, attempt, reattempts,
                 preprocesses, shares, batch>>

(* Mutant of ReduceMore: `>=` for `>`.                                     *)
ReduceMoreGe(n) == n >= THRESHOLD

(* `while preprocesses.len() > THRESHOLD`                                   *)
ReduceMore(n) == n > THRESHOLD

(* One draw of the reduction loop that hits a participant still present;  *)
(* a draw of an absent one leaves every variable as it is.               *)
Reduce(p) ==
  /\ pc = "reduce"
  /\ ReduceMore(Cardinality(preprocesses))
  /\ p \in preprocesses
  /\ preprocesses' = preprocesses \ {p}
  /\ UNCHANGED <<toProc, fromProc, scanned, published, pc, iter, idx, id, attempt, reattempts,
                 shares, batch>>

(* recv_batch_preprocesses returns; the caller re-attempts or signs.  The  *)
(* number of re-attempts is drawn after the first call of an iteration.    *)
ReduceDone ==
  /\ pc = "reduce"
  /\ ~ReduceMore(Cardinality(preprocesses))
  /\ \E n \in IF attempt = 0 THEN Attempts ELSE {reattempts} :
       /\ reattempts' = n
       /\ pc' = IF attempt < n THEN "reattempt" ELSE "sign"
  /\ UNCHANGED <<toProc, fromProc, scanned, published, iter, idx, id, attempt, preprocesses,
                 shares, batch>>

(* Mutant of ReattemptId: `id.attempt = attempt` is forgotten.             *)
ReattemptIdStale(held, next) == held

(* `id.attempt = attempt`                                                   *)
ReattemptId(held, next) == [held EXCEPT !.attempt = next]

(* Mutant of ReattemptTargets: only the selected coordinators are asked.   *)
ReattemptTargetsSelected(selected) == selected

(* `for coordinator in coordinators.iter_mut()`: every coordinator.         *)
ReattemptTargets(selected) == Participants

(* Next iteration of `for attempt in 1 ..= n`: BatchReattempt with the     *)
(* updated id to every coordinator, then recv_batch_preprocesses(attempt). *)
SendReattempt ==
  /\ pc = "reattempt"
  /\ toProc' = [i \in Participants |->
                  IF i \in ReattemptTargets(preprocesses)
                  THEN Append(toProc[i], Msg("BatchReattempt", ReattemptId(id, attempt + 1)))
                  ELSE toProc[i]]
  /\ attempt' = attempt + 1
  /\ pc' = "recv_preprocess"
  /\ idx' = 1
  /\ id' = None
  /\ preprocesses' = {}
  /\ UNCHANGED <<fromProc, scanned, published, iter, reattempts, shares, batch>>

(* Mutant of SignTargets: BatchPreprocesses go to every coordinator.       *)
SignTargetsAll(selected) == Participants

(* `if preprocesses.contains_key(&i)`: the selected coordinators.          *)
SignTargets(selected) == selected

(* sign_batch: assert the threshold, then BatchPreprocesses to every       *)
(* selected coordinator.                                                   *)
SignBatch ==
  /\ pc = "sign"
  /\ IF Cardinality(preprocesses) # THRESHOLD
     THEN Fail /\ UNCHANGED <<toProc, idx>>
     ELSE /\ toProc' = [i \in Participants |->
                          IF i \in SignTargets(preprocesses)
                          THEN Append(toProc[i], Msg("BatchPreprocesses", id))
                          ELSE toProc[i]]
          /\ pc' = "recv_share"
          /\ idx' = 1
  /\ UNCHANGED <<fromProc, scanned, published, iter, id, attempt, reattempts, preprocesses,
                 shares, batch>>

(* A coordinator not selected is skipped by the receive loops.             *)
SkipUnselected ==
  /\ pc \in {"recv_share", "recv_batch"}
  /\ idx <= COORDINATORS
  /\ idx \notin preprocesses
  /\ idx' = idx + 1
  /\ UNCHANGED <<toProc, fromProc, scanned, published, pc, iter, id, attempt, reattempts,
                 preprocesses, shares, batch>>

(* A selected coordinator's BatchShare, with the id asserted.              *)
RecvShare ==
  /\ pc = "recv_share"
  /\ idx <= COORDINATORS
  /\ idx \in preprocesses
  /\ fromProc[idx] # <<>>
  /\ fromProc' = [fromProc EXCEPT ![idx] = Tail(@)]
  /\ LET m == Head(fromProc[idx])
     IN  IF m # Msg("BatchShare", id)
         THEN Fail /\ UNCHANGED <<idx, shares>>
         ELSE shares' = shares \cup {idx} /\ idx' = idx + 1 /\ UNCHANGED pc
  /\ UNCHANGED <<toProc, scanned, published, iter, id, attempt, reattempts, preprocesses, batch>>

(* BatchShares to every selected coordinator.                              *)
SendShares ==
  /\ pc = "recv_share"
  /\ idx > COORDINATORS
  /\ toProc' = [i \in Participants |->
                  IF i \in preprocesses
                  THEN Append(toProc[i], Msg("BatchShares", id))
                  ELSE toProc[i]]
  /\ pc' = "recv_batch"
  /\ idx' = 1
  /\ UNCHANGED <<fromProc, scanned, published, iter, id, attempt, reattempts, preprocesses,
                 shares, batch>>

(* A selected processor's Update: its key must be the id's, the first     *)
(* batch is kept after its signature verifies, every later one must      *)
(* equal it.                                                              *)
RecvBatch ==
  /\ pc = "recv_batch"
  /\ idx <= COORDINATORS
  /\ idx \in preprocesses
  /\ fromProc[idx] # <<>>
  /\ fromProc' = [fromProc EXCEPT ![idx] = Tail(@)]
  /\ LET m == Head(fromProc[idx])
         first == IF batch = None THEN m.id.batch ELSE batch
     IN  IF m.type # "Update" \/ m.id.batch # first
         THEN Fail /\ UNCHANGED <<idx, batch>>
         ELSE batch' = first /\ idx' = idx + 1 /\ UNCHANGED pc
  /\ UNCHANGED <<toProc, scanned, published, iter, id, attempt, reattempts, preprocesses, shares>>

(* `batch.unwrap()`, then `assert_eq!(batch.batch.id, i)`: the batch is    *)
(* the iteration's; the next iteration starts, or the test is done.       *)
Finish ==
  /\ pc = "recv_batch"
  /\ idx > COORDINATORS
  /\ IF batch # iter
     THEN Fail /\ UNCHANGED iter
     ELSE /\ iter' = iter + 1
          /\ pc' = IF iter + 1 < NumBatches THEN "publish" ELSE "done"
  /\ UNCHANGED <<toProc, fromProc, scanned, published, idx, id, attempt, reattempts,
                 preprocesses, shares, batch>>

TestStep ==
  \/ PublishTx \/ RecvPreprocess \/ RecvPreprocessesDone \/ ReduceDone \/ SendReattempt
  \/ SignBatch \/ SkipUnselected \/ RecvShare \/ SendShares \/ RecvBatch \/ Finish

Next ==
  \/ TestStep
  \/ \E p \in Participants : Reduce(p)
  \/ \E i \in Participants : ProcessorRespond(i) \/ ProcessorScan(i)

(* The test task and every processor keep running; a random draw hits a   *)
(* participant still present with probability 1, so some present one is   *)
(* eventually removed.                                                    *)
Spec ==
  /\ Init /\ [][Next]_vars
  /\ WF_vars(TestStep)
  /\ WF_vars(\E p \in Participants : Reduce(p))
  /\ \A i \in Participants : WF_vars(ProcessorRespond(i)) /\ WF_vars(ProcessorScan(i))

-----------------------------------------------------------------------------
Messages == {Msg(t, sid) : t \in {"BatchReattempt", "BatchPreprocesses", "BatchShares",
                                  "BatchPreprocess", "BatchShare", "Update"}, sid \in SignIds}

TypeOK ==
  /\ toProc \in [Participants -> Seq(Messages)]
  /\ fromProc \in [Participants -> Seq(Messages)]
  /\ scanned \in [Participants -> 0..NumBatches]
  /\ published \in 0..NumBatches
  /\ pc \in {"publish", "recv_preprocess", "reduce", "reattempt", "sign", "recv_share",
             "recv_batch", "done", "failed"}
  /\ iter \in 0..NumBatches
  /\ idx \in 1..(COORDINATORS + 1)
  /\ id \in SignIds \cup {None}
  /\ attempt \in Attempts /\ reattempts \in Attempts
  /\ preprocesses \subseteq Participants /\ shares \subseteq Participants
  /\ batch \in BatchNums \cup {None}

(* None of the test's asserts fires, however the processors' answers and   *)
(* the random draws interleave: every message read from a coordinator is  *)
(* the one the test expects at that point, for the attempt it expects,    *)
(* although unselected processors keep answering earlier attempts.        *)
AssertionsHold == pc # "failed"

(* The test completes: no receive waits forever on a coordinator whose     *)
(* processor was not asked anything, and the reduction loop ends.         *)
TestCompletes == <>(pc = "done")

(* An iteration leaves nothing in flight: when the next transaction is     *)
(* published, every message the test sent has been answered and every    *)
(* answer read, on every link, selected or not, whatever the re-attempts  *)
(* and reductions were.  A message left over would be read by the next    *)
(* batch's recv_batch_preprocesses in place of its preprocess.            *)
LinksDrainedBetweenBatches ==
  pc = "publish" => \A i \in Participants : toProc[i] = <<>> /\ fromProc[i] = <<>>

=============================================================================
