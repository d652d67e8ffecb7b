-------------------------- MODULE SendStreamProofs --------------------------
(***************************************************************************)
(* Theorems about SendStream, for every number of chunks, of uploads at    *)
(* the same time and of retries, and for every duration.                   *)
(***************************************************************************)
EXTENDS SendStream, FiniteSetTheorems, TLAPS

(***************************************************************************)
(* The inductive invariant, by parts.                                      *)
(***************************************************************************)
\* Where the run is and what it has seen of the pipe.
ControlInv ==
  /\ pc \in {"marker", "place"} => seq < NumChunks
  /\ cut => child = "died"
  /\ child = "exited" => seq = NumChunks
  /\ pc \in {"drain", "wait", "commit", "done"} => child # "running"
  /\ pc \in {"wait", "commit", "done"} => InFlight = {}
  /\ pc \in {"commit", "done"} => Complete

\* An upload has failed as often as it was tried again.
AttemptInv ==
  \A c \in Chunks :
    /\ task[c].at # "err" => failures[c] = task[c].attempt
    /\ task[c].at = "err" => c \in refused \/ failures[c] > Retries

\* Every chunk that was read is uploaded or on its way.
CountInv ==
  /\ \A c \in Chunks : task[c].at # "none" => c < seq
  /\ \A c \in uploaded : c < seq /\ task[c].at \in {"none", "joined"}
  /\ \A c \in Chunks : c < seq => c \in uploaded \/ c \in InFlight

\* What is counted as uploaded is whole, unless the stream was cut.
BodyInv ==
  /\ Sound => crc32c /\ \A c \in Chunks : task[c].at # "plain"
  /\ \A c \in have : task[c].at = "none" => object[c] \in Whole
  /\ ~cut => \A c \in Chunks :
               c \in uploaded \/ task[c].at \in {"ok", "joined"} => object[c] \in Whole

CauseInv ==
  pc = "failed" =>
    \/ cause = "store"
    \/ cause = "zfs" /\ child = "died"
    \/ cause = "upload" /\ \E c \in Chunks : c \in refused \/ failures[c] > Retries

RunInv == ControlInv /\ AttemptInv /\ CountInv /\ BodyInv /\ CauseInv
IInv == TypeOK /\ RunInv
FlightInv == Cardinality(InFlight) <= Parallel

\* How long the run has been where it is, and how old its stamp may be there.
Newest == MaxOf(SetupMax, PutMax)
AtRead == Newest + (LeaseRefresh - 1) + RoomMax
AgeInv ==
  /\ pc \notin {"setup", "failed"} /\ since < LeaseRefresh => age <= Newest + since
  /\ pc = "setup" => spent <= SetupMax
  /\ pc = "read" => spent <= ReadMax /\ age <= AtRead + spent
  /\ pc = "marker" => spent <= PutMax /\ age <= AtRead + ReadMax + spent
  /\ pc = "place" => spent <= RoomMax /\ age <= Newest + (LeaseRefresh - 1) + spent
  /\ pc = "drain" => spent <= DrainMax /\ age <= AtRead + ReadMax + spent
  /\ pc = "wait" => spent = 0 /\ age <= AtRead + ReadMax + DrainMax
  /\ pc = "commit" => spent <= CommitMax /\ age <= AtRead + ReadMax + DrainMax + spent

(***************************************************************************)
(* The invariant is inductive: one step per action.                        *)
(***************************************************************************)
\* What a record update of one task comes to.
LEMMA OneTask ==
  ASSUME TypeOK, NEW c \in Chunks, NEW t \in [at : Tasks, attempt : 0 .. Retries],
         task' = [task EXCEPT ![c] = t]
  PROVE  /\ task' \in [Chunks -> [at : Tasks, attempt : 0 .. Retries]]
         /\ task'[c] = t
         /\ \A d \in Chunks : d # c => task'[d] = task[d]
  BY DEF TypeOK

LEMMA OneBody ==
  ASSUME IInv, NEW c \in Chunks, InRequest(c), NEW body \in Landing(c),
         object' = [object EXCEPT ![c] = body]
  PROVE  /\ object' \in [Chunks -> Bodies]
         /\ object'[c] = body /\ (~cut => body \in Whole)
         /\ \A d \in Chunks : d # c => object'[d] = object[d]
<1>1. body \in Bodies
  BY DEF Landing, Right, Bodies
<1>2. ~cut => body \in Whole
  BY DEF Landing, Right, Whole, Sound, InRequest, IInv, RunInv, BodyInv
<1> QED
  BY <1>1, <1>2 DEF IInv, TypeOK

LEMMA InitIInv == Init => IInv
<1> SUFFICES ASSUME Init PROVE IInv
  OBVIOUS
<1> USE SendAssumption
<1>1. TypeOK
  <2>1. task \in [Chunks -> [at : Tasks, attempt : 0 .. Retries]]
    BY DEF Init, Idle, Tasks
  <2>2. failures \in [Chunks -> 0 .. Retries + 1]
    BY DEF Init
  <2>3. object \in [Chunks -> Bodies] /\ have \subseteq Chunks
    BY DEF Init
  <2>4. pc \in Pcs /\ seq \in 0 .. NumChunks /\ age \in 0 .. Horizon /\ since \in 0 .. LeaseRefresh
    BY DEF Init, Pcs, Horizon
  <2> QED
    BY <2>1, <2>2, <2>3, <2>4 DEF Init, TypeOK
<1>2. RunInv
  BY DEF Init, RunInv, ControlInv, AttemptInv, CountInv, BodyInv, CauseInv, Idle,
    Whole, Sound, Chunks, Bodies
<1> QED
  BY <1>1, <1>2 DEF IInv

LEMMA SetupStep ==
  ASSUME IInv, Setup
  PROVE  IInv'
<1> USE SendAssumption DEF IInv, RunInv, stream, uploads, Chunks
<1>1. TypeOK'
  BY DEF Setup, Stamped, Go, TypeOK, ControlInv, AttemptInv, Pcs, Tasks, Bodies, Horizon, Min2
<1>2. ControlInv'
  BY DEF Setup, Stamped, Go, TypeOK, ControlInv, InFlight, Complete
<1>3. AttemptInv'
  BY DEF Setup, Stamped, Go, TypeOK, AttemptInv
<1>4. CountInv'
  BY DEF Setup, Stamped, Go, TypeOK, CountInv, InFlight
<1>5. BodyInv'
  BY DEF Setup, Stamped, Go, TypeOK, BodyInv, Whole, Sound
<1>6. CauseInv'
  BY DEF Setup, Stamped, Go, TypeOK, CauseInv
<1> QED
  BY <1>1, <1>2, <1>3, <1>4, <1>5, <1>6

LEMMA SetupFailsStep ==
  ASSUME IInv, SetupFails
  PROVE  IInv'
<1> USE SendAssumption DEF IInv, RunInv, stream, uploads, Chunks
<1>1. TypeOK'
  BY DEF SetupFails, Fail, Go, TypeOK, ControlInv, AttemptInv, Pcs, Tasks, Bodies, Horizon, Min2
<1>2. ControlInv'
  BY DEF SetupFails, Fail, Go, TypeOK, ControlInv, InFlight, Complete
<1>3. AttemptInv'
  BY DEF SetupFails, Fail, Go, TypeOK, AttemptInv
<1>4. CountInv'
  BY DEF SetupFails, Fail, Go, TypeOK, CountInv, InFlight
<1>5. BodyInv'
  BY DEF SetupFails, Fail, Go, TypeOK, BodyInv, Whole, Sound
<1>6. CauseInv'
  BY DEF SetupFails, Fail, Go, TypeOK, CauseInv
<1> QED
  BY <1>1, <1>2, <1>3, <1>4, <1>5, <1>6

LEMMA ReadChunkStep ==
  ASSUME IInv, ReadChunk
  PROVE  IInv'
<1> USE SendAssumption DEF IInv, RunInv, stream, uploads, Chunks
<1>1. TypeOK'
  BY DEF ReadChunk, Go, TypeOK, ControlInv, AttemptInv, Pcs, Tasks, Bodies, Horizon, Min2
<1>2. ControlInv'
  BY DEF ReadChunk, Go, TypeOK, ControlInv, InFlight, Complete
<1>3. AttemptInv'
  BY DEF ReadChunk, Go, TypeOK, AttemptInv
<1>4. CountInv'
  BY DEF ReadChunk, Go, TypeOK, CountInv, InFlight
<1>5. BodyInv'
  BY DEF ReadChunk, Go, TypeOK, BodyInv, Whole, Sound
<1>6. CauseInv'
  BY DEF ReadChunk, Go, TypeOK, CauseInv
<1> QED
  BY <1>1, <1>2, <1>3, <1>4, <1>5, <1>6

LEMMA ReadEndStep ==
  ASSUME IInv, ReadEnd
  PROVE  IInv'
<1> USE SendAssumption DEF IInv, RunInv, stream, uploads, Chunks
<1>1. TypeOK'
  BY DEF ReadEnd, Go, TypeOK, ControlInv, AttemptInv, Pcs, Tasks, Bodies, Horizon, Min2
<1>2. ControlInv'
  BY DEF ReadEnd, Go, TypeOK, ControlInv, InFlight, Complete
<1>3. AttemptInv'
  BY DEF ReadEnd, Go, TypeOK, AttemptInv
<1>4. CountInv'
  BY DEF ReadEnd, Go, TypeOK, CountInv, InFlight
<1>5. BodyInv'
  BY DEF ReadEnd, Go, TypeOK, BodyInv, Whole, Sound
<1>6. CauseInv'
  BY DEF ReadEnd, Go, TypeOK, CauseInv
<1> QED
  BY <1>1, <1>2, <1>3, <1>4, <1>5, <1>6

LEMMA RefreshLeaseStep ==
  ASSUME IInv, RefreshLease
  PROVE  IInv'
<1> USE SendAssumption DEF IInv, RunInv, stream, uploads, Chunks
<1>1. TypeOK'
  BY DEF RefreshLease, Stamped, Go, TypeOK, ControlInv, AttemptInv, Pcs, Tasks, Bodies, Horizon, Min2
<1>2. ControlInv'
  BY DEF RefreshLease, Stamped, Go, TypeOK, ControlInv, InFlight, Complete
<1>3. AttemptInv'
  BY DEF RefreshLease, Stamped, Go, TypeOK, AttemptInv
<1>4. CountInv'
  BY DEF RefreshLease, Stamped, Go, TypeOK, CountInv, InFlight
<1>5. BodyInv'
  BY DEF RefreshLease, Stamped, Go, TypeOK, BodyInv, Whole, Sound
<1>6. CauseInv'
  BY DEF RefreshLease, Stamped, Go, TypeOK, CauseInv
<1> QED
  BY <1>1, <1>2, <1>3, <1>4, <1>5, <1>6

LEMMA RefreshFailsStep ==
  ASSUME IInv, RefreshFails
  PROVE  IInv'
<1> USE SendAssumption DEF IInv, RunInv, stream, uploads, Chunks
<1>1. TypeOK'
  BY DEF RefreshFails, Fail, Go, TypeOK, ControlInv, AttemptInv, Pcs, Tasks, Bodies, Horizon, Min2
<1>2. ControlInv'
  BY DEF RefreshFails, Fail, Go, TypeOK, ControlInv, InFlight, Complete
<1>3. AttemptInv'
  BY DEF RefreshFails, Fail, Go, TypeOK, AttemptInv
<1>4. CountInv'
  BY DEF RefreshFails, Fail, Go, TypeOK, CountInv, InFlight
<1>5. BodyInv'
  BY DEF RefreshFails, Fail, Go, TypeOK, BodyInv, Whole, Sound
<1>6. CauseInv'
  BY DEF RefreshFails, Fail, Go, TypeOK, CauseInv
<1> QED
  BY <1>1, <1>2, <1>3, <1>4, <1>5, <1>6

LEMMA SkipStep ==
  ASSUME IInv, Skip
  PROVE  IInv'
<1> USE SendAssumption DEF IInv, RunInv, stream, uploads, Chunks
<1>1. TypeOK'
  BY DEF Skip, Placed, Go, TypeOK, ControlInv, AttemptInv, Pcs, Tasks, Bodies, Horizon, Min2
<1>2. ControlInv'
  BY DEF Skip, Placed, Go, TypeOK, ControlInv, InFlight, Complete
<1>3. AttemptInv'
  BY DEF Skip, Placed, Go, TypeOK, AttemptInv
<1>4. CountInv'
  BY DEF Skip, Placed, Go, TypeOK, CountInv, InFlight
<1>5. BodyInv'
  BY DEF Skip, Placed, Go, TypeOK, ControlInv, CountInv, BodyInv, Whole, Sound
<1>6. CauseInv'
  BY DEF Skip, Placed, Go, TypeOK, CauseInv
<1> QED
  BY <1>1, <1>2, <1>3, <1>4, <1>5, <1>6

LEMMA SpawnStep ==
  ASSUME IInv, Spawn
  PROVE  IInv'
<1> USE SendAssumption
<1> DEFINE t == [task[seq] EXCEPT !.at = "start"]
<1>1. seq \in Chunks /\ seq < NumChunks
  BY DEF Spawn, IInv, RunInv, ControlInv, TypeOK, Chunks
<1>2. task[seq] \in [at : Tasks, attempt : 0 .. Retries] /\ task[seq].at = "none"
  BY <1>1 DEF IInv, RunInv, CountInv, TypeOK
<1>3. t \in [at : Tasks, attempt : 0 .. Retries] /\ task' = [task EXCEPT ![seq] = t]
  BY <1>1, <1>2 DEF Spawn, IInv, TypeOK, Tasks
<1>4. t.at = "start" /\ t.attempt = task[seq].attempt
  BY <1>2
<1> HIDE DEF t
<1>5. /\ task' \in [Chunks -> [at : Tasks, attempt : 0 .. Retries]]
      /\ task'[seq] = t
      /\ \A d \in Chunks : d # seq => task'[d] = task[d]
  BY <1>1, <1>3, OneTask DEF IInv
<1>6. TypeOK'
  BY <1>1, <1>5 DEF Spawn, Placed, Go, IInv, TypeOK, Pcs
<1>7. ControlInv'
  BY <1>1 DEF Spawn, Placed, Go, IInv, RunInv, ControlInv, TypeOK
<1>8. AttemptInv'
  BY <1>1, <1>2, <1>4, <1>5 DEF Spawn, IInv, RunInv, AttemptInv, TypeOK
<1>9. CountInv'
  <2> USE DEF IInv, RunInv, CountInv, TypeOK
  <2>1. seq' = seq + 1 /\ uploaded' = uploaded /\ seq \in Nat
    BY DEF Spawn, Placed
  <2>2. \A d \in Chunks : d < seq' => d = seq \/ d < seq
    BY <2>1 DEF Chunks
  <2>3. \A d \in Chunks : task'[d].at # "none" => d < seq'
    BY <1>1, <1>5, <2>1 DEF Chunks
  <2>4. \A d \in uploaded' : d < seq' /\ task'[d].at \in {"none", "joined"}
    BY <1>1, <1>5, <2>1 DEF Chunks
  <2>5. \A d \in Chunks : d < seq' => d \in uploaded' \/ d \in InFlight'
    BY <1>1, <1>4, <1>5, <2>1, <2>2 DEF InFlight
  <2> QED
    BY <2>3, <2>4, <2>5
<1>10. BodyInv'
  BY <1>1, <1>2, <1>4, <1>5 DEF Spawn, Placed, IInv, RunInv, BodyInv, Whole, Sound, TypeOK
<1>11. CauseInv'
  BY DEF Spawn, Go, CauseInv
<1> QED
  BY <1>6, <1>7, <1>8, <1>9, <1>10, <1>11 DEF IInv, RunInv

LEMMA DrainedStep ==
  ASSUME IInv, Drained
  PROVE  IInv'
<1> USE SendAssumption DEF IInv, RunInv, stream, uploads, Chunks
<1>1. TypeOK'
  BY DEF Drained, Go, TypeOK, ControlInv, AttemptInv, Pcs, Tasks, Bodies, Horizon, Min2
<1>2. ControlInv'
  BY DEF Drained, Go, TypeOK, ControlInv, InFlight, Complete
<1>3. AttemptInv'
  BY DEF Drained, Go, TypeOK, AttemptInv
<1>4. CountInv'
  BY DEF Drained, Go, TypeOK, CountInv, InFlight
<1>5. BodyInv'
  BY DEF Drained, Go, TypeOK, BodyInv, Whole, Sound
<1>6. CauseInv'
  BY DEF Drained, Go, TypeOK, CauseInv
<1> QED
  BY <1>1, <1>2, <1>3, <1>4, <1>5, <1>6

LEMMA FinishStep ==
  ASSUME IInv, Finish
  PROVE  IInv'
<1> USE SendAssumption DEF IInv, RunInv, stream, uploads, Chunks
<1>1. TypeOK'
  BY DEF Finish, Go, TypeOK, ControlInv, AttemptInv, Pcs, Tasks, Bodies, Horizon, Min2
<1>2. ControlInv'
  BY DEF Finish, Go, TypeOK, ControlInv, InFlight, Complete
<1>3. AttemptInv'
  BY DEF Finish, Go, TypeOK, AttemptInv
<1>4. CountInv'
  BY DEF Finish, Go, TypeOK, CountInv, InFlight
<1>5. BodyInv'
  BY DEF Finish, Go, TypeOK, BodyInv, Whole, Sound
<1>6. CauseInv'
  BY DEF Finish, Go, TypeOK, CauseInv
<1> QED
  BY <1>1, <1>2, <1>3, <1>4, <1>5, <1>6

\* With no upload on its way the run has counted every chunk it has read.
LEMMA AllCounted ==
  ASSUME IInv, InFlight = {}
  PROVE  uploaded = 0 .. seq - 1 /\ Cardinality(uploaded) = seq
<1>1. uploaded = 0 .. seq - 1
  <2> USE SendAssumption DEF IInv, RunInv, CountInv, TypeOK, Chunks
  <2>1. \A c \in uploaded : c \in 0 .. seq - 1
    OBVIOUS
  <2>2. \A c \in 0 .. seq - 1 : c \in uploaded
    OBVIOUS
  <2> QED
    BY <2>1, <2>2
<1>2. Cardinality(0 .. seq - 1) = seq
  BY FS_Interval DEF IInv, TypeOK
<1> QED
  BY <1>1, <1>2

LEMMA FinishFailsStep ==
  ASSUME IInv, FinishFails
  PROVE  IInv'
<1> USE SendAssumption DEF IInv, RunInv, stream, uploads, Chunks
<1>1. TypeOK'
  BY DEF FinishFails, Fail, Go, TypeOK, ControlInv, AttemptInv, Pcs, Tasks, Bodies, Horizon, Min2
<1>2. ControlInv'
  BY DEF FinishFails, Fail, Go, TypeOK, ControlInv, InFlight, Complete
<1>3. AttemptInv'
  BY DEF FinishFails, Fail, Go, TypeOK, AttemptInv
<1>4. CountInv'
  BY DEF FinishFails, Fail, Go, TypeOK, CountInv, InFlight
<1>5. BodyInv'
  BY DEF FinishFails, Fail, Go, TypeOK, BodyInv, Whole, Sound
<1>6. CauseInv'
  BY AllCounted DEF FinishFails, Fail, Go, TypeOK, ControlInv, Complete, CauseInv
<1> QED
  BY <1>1, <1>2, <1>3, <1>4, <1>5, <1>6

LEMMA CommitStep ==
  ASSUME IInv, Commit
  PROVE  IInv'
<1> USE SendAssumption DEF IInv, RunInv, stream, uploads, Chunks
<1>1. TypeOK'
  BY DEF Commit, Go, TypeOK, ControlInv, AttemptInv, Pcs, Tasks, Bodies, Horizon, Min2
<1>2. ControlInv'
  BY DEF Commit, Go, TypeOK, ControlInv, InFlight, Complete
<1>3. AttemptInv'
  BY DEF Commit, Go, TypeOK, AttemptInv
<1>4. CountInv'
  BY DEF Commit, Go, TypeOK, CountInv, InFlight
<1>5. BodyInv'
  BY DEF Commit, Go, TypeOK, BodyInv, Whole, Sound
<1>6. CauseInv'
  BY DEF Commit, Go, TypeOK, CauseInv
<1> QED
  BY <1>1, <1>2, <1>3, <1>4, <1>5, <1>6

LEMMA CommitFailsStep ==
  ASSUME IInv, CommitFails
  PROVE  IInv'
<1> USE SendAssumption DEF IInv, RunInv, stream, uploads, Chunks
<1>1. TypeOK'
  BY DEF CommitFails, Fail, Go, TypeOK, ControlInv, AttemptInv, Pcs, Tasks, Bodies, Horizon, Min2
<1>2. ControlInv'
  BY DEF CommitFails, Fail, Go, TypeOK, ControlInv, InFlight, Complete
<1>3. AttemptInv'
  BY DEF CommitFails, Fail, Go, TypeOK, AttemptInv
<1>4. CountInv'
  BY DEF CommitFails, Fail, Go, TypeOK, CountInv, InFlight
<1>5. BodyInv'
  BY DEF CommitFails, Fail, Go, TypeOK, BodyInv, Whole, Sound
<1>6. CauseInv'
  BY DEF CommitFails, Fail, Go, TypeOK, CauseInv
<1> QED
  BY <1>1, <1>2, <1>3, <1>4, <1>5, <1>6

LEMMA JoinOkStep ==
  ASSUME IInv, NEW c \in Chunks, JoinOk(c)
  PROVE  IInv'
<1> USE SendAssumption DEF IInv, RunInv, stream, uploads, Chunks
<1>1. TypeOK'
  BY DEF JoinOk, Joins, clock, TypeOK, ControlInv, AttemptInv, Pcs, Tasks, Bodies, Horizon, Min2
<1>2. ControlInv'
  BY DEF JoinOk, Joins, clock, TypeOK, ControlInv, InFlight, Complete
<1>3. AttemptInv'
  BY DEF JoinOk, Joins, clock, TypeOK, AttemptInv
<1>4. CountInv'
  BY DEF JoinOk, Joins, clock, TypeOK, CountInv, InFlight
<1>5. BodyInv'
  BY DEF JoinOk, Joins, clock, TypeOK, BodyInv, Whole, Sound
<1>6. CauseInv'
  BY DEF JoinOk, Joins, clock, TypeOK, CauseInv
<1> QED
  BY <1>1, <1>2, <1>3, <1>4, <1>5, <1>6

LEMMA JoinErrStep ==
  ASSUME IInv, NEW c \in Chunks, JoinErr(c)
  PROVE  IInv'
<1> USE SendAssumption DEF IInv, RunInv, stream, uploads, Chunks
<1>1. TypeOK'
  BY DEF JoinErr, Joins, Fail, Go, TypeOK, ControlInv, AttemptInv, Pcs, Tasks, Bodies, Horizon, Min2
<1>2. ControlInv'
  BY DEF JoinErr, Joins, Fail, Go, TypeOK, ControlInv, InFlight, Complete
<1>3. AttemptInv'
  BY DEF JoinErr, Joins, Fail, Go, TypeOK, AttemptInv
<1>4. CountInv'
  BY DEF JoinErr, Joins, Fail, Go, TypeOK, CountInv, InFlight
<1>5. BodyInv'
  BY DEF JoinErr, Joins, Fail, Go, TypeOK, BodyInv, Whole, Sound
<1>6. CauseInv'
  BY DEF JoinErr, Joins, Fail, Go, AttemptInv, CauseInv
<1> QED
  BY <1>1, <1>2, <1>3, <1>4, <1>5, <1>6

LEMMA AskStep ==
  ASSUME IInv, NEW c \in Chunks, Ask(c)
  PROVE  IInv'
<1> USE SendAssumption DEF IInv, RunInv, stream, uploads, Chunks
<1>1. TypeOK'
  BY DEF Ask, InBucket, clock, TypeOK, ControlInv, AttemptInv, Pcs, Tasks, Bodies, Horizon, Min2
<1>2. ControlInv'
  BY DEF Ask, InBucket, clock, TypeOK, ControlInv, InFlight, Complete
<1>3. AttemptInv'
  BY DEF Ask, InBucket, clock, TypeOK, AttemptInv
<1>4. CountInv'
  BY DEF Ask, InBucket, clock, TypeOK, CountInv, InFlight
<1>5. BodyInv'
  BY DEF Ask, InBucket, clock, TypeOK, BodyInv, Whole, Sound
<1>6. CauseInv'
  BY DEF Ask, InBucket, clock, TypeOK, CauseInv
<1> QED
  BY <1>1, <1>2, <1>3, <1>4, <1>5, <1>6

LEMMA VerifiedAnsweredStep ==
  ASSUME IInv, NEW c \in Chunks, VerifiedAnswered(c)
  PROVE  IInv'
<1> USE SendAssumption
<1> DEFINE t == [task[c] EXCEPT !.at = IF ep.echoes THEN "ok" ELSE "plain"]
<1>1. task[c] \in [at : Tasks, attempt : 0 .. Retries] /\ task[c].at \in {"verified"}
  BY DEF VerifiedAnswered, IInv, TypeOK
<1>2. t \in [at : Tasks, attempt : 0 .. Retries] /\ task' = [task EXCEPT ![c] = t]
  BY <1>1 DEF VerifiedAnswered, IInv, TypeOK, Tasks
<1> HIDE DEF t
<1>3. /\ task' \in [Chunks -> [at : Tasks, attempt : 0 .. Retries]]
      /\ task'[c] = t
      /\ \A d \in Chunks : d # c => task'[d] = task[d]
  BY <1>2, OneTask DEF IInv
<1>4. /\ object' \in [Chunks -> Bodies]
      /\ ~cut => object'[c] \in Whole
      /\ \A d \in Chunks : d # c => object'[d] = object[d]
  BY <1>1, OneBody DEF VerifiedAnswered, InRequest
<1>5. /\ t.attempt = task[c].attempt /\ t.at \in {"ok", "plain"}
      /\ ep.echoes => t.at = "ok"
  BY <1>1 DEF t
<1>6. TypeOK'
  BY <1>3, <1>4 DEF VerifiedAnswered, InBucket, clock, stream, IInv, TypeOK, Horizon
<1>7. ControlInv'
  <2>1. task[c].at = "verified" => InFlight # {}
    BY DEF InFlight
  <2> QED
    BY <1>1, <2>1 DEF VerifiedAnswered, InBucket, stream, IInv, RunInv, ControlInv, Complete
<1>8. AttemptInv'
  BY <1>1, <1>3, <1>5 DEF VerifiedAnswered, IInv, RunInv, AttemptInv, TypeOK
<1>9. CountInv'
  BY <1>1, <1>3, <1>5 DEF VerifiedAnswered, InBucket, stream, IInv, RunInv, CountInv, InFlight, TypeOK
<1>10. BodyInv'
  BY <1>1, <1>3, <1>4, <1>5 DEF VerifiedAnswered, InBucket, stream, IInv, RunInv, BodyInv, Whole, Sound, TypeOK
<1>11. CauseInv'
  BY DEF VerifiedAnswered, InBucket, stream, IInv, RunInv, CauseInv
<1> QED
  BY <1>6, <1>7, <1>8, <1>9, <1>10, <1>11 DEF IInv, RunInv

LEMMA PlainAnsweredStep ==
  ASSUME IInv, NEW c \in Chunks, PlainAnswered(c)
  PROVE  IInv'
<1> USE SendAssumption
<1> DEFINE t == [task[c] EXCEPT !.at = "ok"]
<1>1. task[c] \in [at : Tasks, attempt : 0 .. Retries] /\ task[c].at \in {"plain"}
  BY DEF PlainAnswered, IInv, TypeOK
<1>2. t \in [at : Tasks, attempt : 0 .. Retries] /\ task' = [task EXCEPT ![c] = t]
  BY <1>1 DEF PlainAnswered, IInv, TypeOK, Tasks
<1> HIDE DEF t
<1>3. /\ task' \in [Chunks -> [at : Tasks, attempt : 0 .. Retries]]
      /\ task'[c] = t
      /\ \A d \in Chunks : d # c => task'[d] = task[d]
  BY <1>2, OneTask DEF IInv
<1>4. /\ object' \in [Chunks -> Bodies]
      /\ ~cut => object'[c] \in Whole
      /\ \A d \in Chunks : d # c => object'[d] = object[d]
  BY <1>1, OneBody DEF PlainAnswered, InRequest
<1>5. t.attempt = task[c].attempt /\ t.at = "ok"
  BY <1>1 DEF t
<1>6. TypeOK'
  BY <1>3, <1>4 DEF PlainAnswered, InBucket, clock, stream, IInv, TypeOK, Horizon
<1>7. ControlInv'
  <2>1. task[c].at = "plain" => InFlight # {}
    BY DEF InFlight
  <2> QED
    BY <1>1, <2>1 DEF PlainAnswered, InBucket, stream, IInv, RunInv, ControlInv, Complete
<1>8. AttemptInv'
  BY <1>1, <1>3, <1>5 DEF PlainAnswered, IInv, RunInv, AttemptInv, TypeOK
<1>9. CountInv'
  BY <1>1, <1>3, <1>5 DEF PlainAnswered, InBucket, stream, IInv, RunInv, CountInv, InFlight, TypeOK
<1>10. BodyInv'
  BY <1>1, <1>3, <1>4, <1>5 DEF PlainAnswered, InBucket, stream, IInv, RunInv, BodyInv, Whole, Sound, TypeOK
<1>11. CauseInv'
  BY DEF PlainAnswered, InBucket, stream, IInv, RunInv, CauseInv
<1> QED
  BY <1>6, <1>7, <1>8, <1>9, <1>10, <1>11 DEF IInv, RunInv

LEMMA RequestFailsStep ==
  ASSUME IInv, NEW c \in Chunks, RequestFails(c)
  PROVE  IInv'
<1> USE SendAssumption
<1> DEFINE t == TryAgain(c)
<1>1. task[c] \in [at : Tasks, attempt : 0 .. Retries] /\ task[c].at \in {"verified", "plain"}
  BY DEF RequestFails, IInv, TypeOK, MayFail, InRequest
<1>2. t \in [at : Tasks, attempt : 0 .. Retries] /\ task' = [task EXCEPT ![c] = t]
  BY <1>1 DEF RequestFails, IInv, TypeOK, Tasks, TryAgain
<1> HIDE DEF t
<1>3. /\ task' \in [Chunks -> [at : Tasks, attempt : 0 .. Retries]]
      /\ task'[c] = t
      /\ \A d \in Chunks : d # c => task'[d] = task[d]
  BY <1>2, OneTask DEF IInv
<1>4. /\ object' \in [Chunks -> Bodies]
      /\ \A d \in Chunks : d # c => object'[d] = object[d]
  <2>1. CASE UNCHANGED object
    BY <2>1 DEF IInv, TypeOK
  <2>2. CASE \E body \in Landing(c) : object' = [object EXCEPT ![c] = body]
    BY <1>1, <2>2, OneBody DEF InRequest
  <2> QED
    BY <2>1, <2>2 DEF RequestFails
<1>5. /\ failures[c] = task[c].attempt /\ failures'[c] = task[c].attempt + 1
      /\ \A d \in Chunks : d # c => failures'[d] = failures[d]
      /\ failures' \in [Chunks -> 0 .. Retries + 1]
  BY <1>1 DEF RequestFails, IInv, RunInv, AttemptInv, TypeOK
<1>6. \/ t.at = "start" /\ t.attempt = task[c].attempt + 1
      \/ t.at = "err" /\ task[c].attempt = Retries
  BY <1>1 DEF t, TryAgain
<1>7. TypeOK'
  BY <1>3, <1>4, <1>5 DEF RequestFails, InBucket, clock, stream, IInv, TypeOK, Horizon
<1>8. ControlInv'
  <2>1. InFlight # {}
    BY <1>1 DEF InFlight
  <2> QED
    BY <2>1 DEF RequestFails, InBucket, stream, IInv, RunInv, ControlInv, Complete
<1>9. AttemptInv'
  BY <1>1, <1>3, <1>5, <1>6 DEF RequestFails, IInv, RunInv, AttemptInv, TypeOK
<1>10. CountInv'
  BY <1>1, <1>3, <1>6 DEF RequestFails, InBucket, stream, IInv, RunInv, CountInv, InFlight, TypeOK
<1>11. BodyInv'
  <2>1. \A d \in Chunks : d \in uploaded \/ task'[d].at \in {"ok", "joined"} => d # c
    BY <1>1, <1>3, <1>6 DEF IInv, RunInv, CountInv
  <2> QED
    BY <1>1, <1>3, <1>4, <1>6, <2>1
    DEF RequestFails, InBucket, stream, IInv, RunInv, BodyInv, Whole, Sound, TypeOK
<1>12. CauseInv'
  BY <1>5 DEF RequestFails, InBucket, stream, IInv, RunInv, CauseInv, TypeOK
<1> QED
  BY <1>7, <1>8, <1>9, <1>10, <1>11, <1>12 DEF IInv, RunInv

LEMMA RequestRefusedStep ==
  ASSUME IInv, NEW c \in Chunks, RequestRefused(c)
  PROVE  IInv'
<1> USE SendAssumption DEF IInv, RunInv, stream, uploads, Chunks
<1>1. TypeOK'
  BY DEF RequestRefused, MayFail, InRequest, InBucket, clock, TypeOK, ControlInv, AttemptInv, Pcs, Tasks, Bodies, Horizon, Min2
<1>2. ControlInv'
  BY DEF RequestRefused, MayFail, InRequest, InBucket, clock, TypeOK, ControlInv, InFlight, Complete
<1>3. AttemptInv'
  BY DEF RequestRefused, MayFail, InRequest, InBucket, clock, TypeOK, AttemptInv
<1>4. CountInv'
  BY DEF RequestRefused, MayFail, InRequest, InBucket, clock, TypeOK, CountInv, InFlight
<1>5. BodyInv'
  BY DEF RequestRefused, MayFail, InRequest, InBucket, clock, TypeOK, BodyInv, Whole, Sound
<1>6. CauseInv'
  BY DEF RequestRefused, MayFail, InRequest, InBucket, clock, TypeOK, CauseInv
<1> QED
  BY <1>1, <1>2, <1>3, <1>4, <1>5, <1>6

LEMMA ZfsDiesStep ==
  ASSUME IInv, ZfsDies
  PROVE  IInv'
<1> USE SendAssumption DEF IInv, RunInv, stream, uploads, Chunks
<1>1. TypeOK'
  BY DEF ZfsDies, clock, TypeOK, ControlInv, AttemptInv, Pcs, Tasks, Bodies, Horizon, Min2
<1>2. ControlInv'
  BY DEF ZfsDies, clock, TypeOK, ControlInv, InFlight, Complete
<1>3. AttemptInv'
  BY DEF ZfsDies, clock, TypeOK, AttemptInv
<1>4. CountInv'
  BY DEF ZfsDies, clock, TypeOK, CountInv, InFlight
<1>5. BodyInv'
  BY DEF ZfsDies, clock, TypeOK, BodyInv, Whole, Sound
<1>6. CauseInv'
  BY DEF ZfsDies, clock, TypeOK, CauseInv
<1> QED
  BY <1>1, <1>2, <1>3, <1>4, <1>5, <1>6

LEMMA TickStep ==
  ASSUME IInv, Tick
  PROVE  IInv'
<1> USE SendAssumption DEF IInv, RunInv, stream, uploads, Chunks
<1>1. TypeOK'
  BY DEF Tick, Running, TypeOK, ControlInv, AttemptInv, Pcs, Tasks, Bodies, Horizon, Min2
<1>2. ControlInv'
  BY DEF Tick, Running, TypeOK, ControlInv, InFlight, Complete
<1>3. AttemptInv'
  BY DEF Tick, Running, TypeOK, AttemptInv
<1>4. CountInv'
  BY DEF Tick, Running, TypeOK, CountInv, InFlight
<1>5. BodyInv'
  BY DEF Tick, Running, TypeOK, BodyInv, Whole, Sound
<1>6. CauseInv'
  BY DEF Tick, Running, TypeOK, CauseInv
<1> QED
  BY <1>1, <1>2, <1>3, <1>4, <1>5, <1>6

LEMMA StutterStep ==
  ASSUME IInv, UNCHANGED vars
  PROVE  IInv'
  BY DEF IInv, TypeOK, RunInv, ControlInv, AttemptInv, CountInv, BodyInv, CauseInv,
    Complete, InFlight, Whole, Sound, Chunks, Horizon, vars

LEMMA StepIInv == IInv /\ [Next]_vars => IInv'
<1> SUFFICES ASSUME IInv, [Next]_vars PROVE IInv'
  OBVIOUS
<1>1. CASE Run
  BY <1>1, SetupStep, SetupFailsStep, ReadChunkStep, ReadEndStep, RefreshLeaseStep,
    RefreshFailsStep, SkipStep, SpawnStep, DrainedStep, FinishStep, FinishFailsStep,
    CommitStep, CommitFailsStep, JoinOkStep, JoinErrStep
  DEF Run
<1>2. CASE ZfsDies \/ Tick
  BY <1>2, ZfsDiesStep, TickStep
<1>3. CASE \E c \in Chunks : Upload(c)
  BY <1>3, AskStep, VerifiedAnsweredStep, PlainAnsweredStep, RequestFailsStep,
    RequestRefusedStep
  DEF Upload
<1>4. CASE UNCHANGED vars
  BY <1>4, StutterStep
<1> QED
  BY <1>1, <1>2, <1>3, <1>4 DEF Next

(***************************************************************************)
(* Theorems.                                                               *)
(***************************************************************************)
\* The invariant holds throughout every run.
THEOREM Invariance == Spec => []IInv
<1> QED
  BY InitIInv, StepIInv, PTL DEF Spec

\* Every variable keeps its type: no chunk is tried more than Retries times
\* again, and none is read beyond the last (retry, send_stream).
THEOREM TypeCorrect == Spec => []TypeOK
<1>1. IInv => TypeOK
  BY DEF IInv
<1> QED
  BY <1>1, Invariance, PTL

\* The manifest is put over all chunks, whole, and intact where the endpoint
\* checks them (send.rs:433-447).
THEOREM CommitsWhole == Spec => []CommittedIsWhole
<1>1. ASSUME IInv PROVE CommittedIsWhole
  <2> SUFFICES ASSUME pc = "done" PROVE uploaded = Chunks /\ \A c \in Chunks : object[c] \in Whole
    BY DEF CommittedIsWhole
  <2>1. InFlight = {} /\ ~cut /\ seq = NumChunks
    BY <1>1 DEF IInv, RunInv, ControlInv, Complete
  <2>2. uploaded = Chunks
    BY <1>1, <2>1, AllCounted DEF Chunks
  <2>3. \A c \in Chunks : object[c] \in Whole
    BY <1>1, <2>1, <2>2 DEF IInv, RunInv, BodyInv
  <2> QED
    BY <2>2, <2>3
<1> QED
  BY <1>1, Invariance, PTL

\* A run gives up only for an error from outside: a command, a request refused
\* or one that failed more often than it is retried (mod.rs:192).
THEOREM FailuresExplained == Spec => []FailsForAReason
<1>1. IInv => FailsForAReason
  BY DEF IInv, RunInv, CauseInv, FailsForAReason
<1> QED
  BY <1>1, Invariance, PTL

(***************************************************************************)
(* Memory.                                                                 *)
(***************************************************************************)
LEMMA ChunksFinite == IsFiniteSet(Chunks)
  BY SendAssumption, FS_Interval DEF Chunks

LEMMA FewerInFlight ==
  ASSUME FlightInv, InFlight' \subseteq InFlight
  PROVE  FlightInv'
<1>1. IsFiniteSet(InFlight)
  BY ChunksFinite, FS_Subset DEF InFlight
<1>2. Cardinality(InFlight') <= Cardinality(InFlight)
  BY <1>1, FS_Subset
<1>3. Cardinality(InFlight) \in Nat /\ Cardinality(InFlight') \in Nat
  BY <1>1, FS_Subset, FS_CardinalityType
<1> QED
  BY <1>2, <1>3, SendAssumption DEF FlightInv

LEMMA StepFlight == IInv /\ FlightInv /\ [Next]_vars => FlightInv'
<1> SUFFICES ASSUME IInv, FlightInv, [Next]_vars PROVE FlightInv'
  OBVIOUS
<1>1. CASE Spawn
  <2>1. InFlight' \subseteq InFlight \cup {seq}
    <3>1. seq \in Chunks
      BY <1>1, SendAssumption DEF Spawn, IInv, RunInv, ControlInv, TypeOK, Chunks
    <3>2. \A d \in Chunks : d # seq => task'[d] = task[d]
      BY <1>1, <3>1 DEF Spawn, IInv, TypeOK
    <3> QED
      BY <3>1, <3>2 DEF InFlight
  <2>2. IsFiniteSet(InFlight) /\ Cardinality(InFlight) \in Nat
    BY ChunksFinite, FS_Subset, FS_CardinalityType DEF InFlight
  <2>3. /\ IsFiniteSet(InFlight \cup {seq})
        /\ Cardinality(InFlight \cup {seq}) <= Cardinality(InFlight) + 1
        /\ Cardinality(InFlight \cup {seq}) \in Nat
    <3>1. IsFiniteSet(InFlight \cup {seq}) /\ Cardinality(InFlight \cup {seq}) \in Nat
      BY <2>2, FS_AddElement, FS_CardinalityType
    <3>2. \/ Cardinality(InFlight \cup {seq}) = Cardinality(InFlight)
          \/ Cardinality(InFlight \cup {seq}) = Cardinality(InFlight) + 1
      BY <2>2, FS_AddElement
    <3> QED
      BY <2>2, <3>1, <3>2
  <2>4. Cardinality(InFlight') <= Cardinality(InFlight \cup {seq}) /\ Cardinality(InFlight') \in Nat
    BY <2>1, <2>3, FS_Subset, FS_CardinalityType
  <2>5. Cardinality(InFlight) < Parallel
    BY <1>1 DEF Spawn
  <2> QED
    BY <2>2, <2>3, <2>4, <2>5, SendAssumption DEF FlightInv
<1>2. CASE \E c \in Chunks : JoinOk(c) \/ Upload(c)
  <2>1. PICK c \in Chunks : JoinOk(c) \/ Upload(c)
    BY <1>2
  <2>2. c \in InFlight
    BY <2>1 DEF JoinOk, Upload, Ask, VerifiedAnswered, PlainAnswered, RequestFails,
      RequestRefused, MayFail, InRequest, InFlight
  <2>3. \A d \in Chunks : d # c => task'[d] = task[d]
    BY <2>1 DEF JoinOk, Upload, Ask, VerifiedAnswered, PlainAnswered, RequestFails,
      RequestRefused, IInv, TypeOK
  <2>4. InFlight' \subseteq InFlight
    BY <2>2, <2>3 DEF InFlight
  <2> QED
    BY <2>4, FewerInFlight
<1>3. CASE UNCHANGED task
  BY <1>3, FewerInFlight DEF InFlight
<1>4. Spawn \/ (\E c \in Chunks : JoinOk(c) \/ Upload(c)) \/ UNCHANGED task
  BY DEF Next, Run, Setup, SetupFails, ReadChunk, ReadEnd, RefreshLease, RefreshFails, Skip,
    Drained, Finish, FinishFails, Commit, CommitFails, JoinErr, Fail, ZfsDies, Tick, vars,
    uploads
<1> QED
  BY <1>1, <1>2, <1>3, <1>4

\* However its requests fail and are tried again, a run holds no more than
\* --parallel chunks beside the one it reads (send.rs:411).
THEOREM MemoryBounded == Spec => []BuffersBounded
<1>1. Init => FlightInv
  <2> SUFFICES ASSUME Init PROVE FlightInv
    OBVIOUS
  <2>1. InFlight = {}
    BY DEF Init, InFlight, Idle
  <2> QED
    BY <2>1, FS_EmptySet, SendAssumption DEF FlightInv
<1>2. FlightInv => BuffersBounded
  <2> SUFFICES ASSUME FlightInv PROVE BuffersBounded
    OBVIOUS
  <2> DEFINE S == {c \in Chunks : task[c].at \in {"start", "verified", "plain"}}
  <2>1. S \subseteq InFlight /\ IsFiniteSet(InFlight)
    BY ChunksFinite, FS_Subset DEF InFlight
  <2>2. Cardinality(S) <= Cardinality(InFlight) /\ Cardinality(S) \in Nat /\ Cardinality(InFlight) \in Nat
    BY <2>1, FS_Subset, FS_CardinalityType
  <2> QED
    BY <2>2, SendAssumption DEF FlightInv, BuffersBounded
<1> QED
  BY <1>1, <1>2, Invariance, StepFlight, PTL DEF Spec

(***************************************************************************)
(* The lease.                                                              *)
(***************************************************************************)
LEMMA StepAge == IInv /\ AgeInv /\ [Next]_vars => AgeInv'
<1> SUFFICES ASSUME IInv, AgeInv, [Next]_vars PROVE AgeInv'
  OBVIOUS
<1> USE SendAssumption DEF AgeInv, AtRead, Newest, MaxOf, IInv, TypeOK
<1>1. CASE Setup \/ RefreshLease
  BY <1>1 DEF Setup, RefreshLease, Stamped, Go, Min2, Horizon
<1>2. CASE ReadChunk
  BY <1>2 DEF ReadChunk, Go
<1>3. CASE Skip \/ Spawn
  BY <1>3 DEF Skip, Spawn, Go
<1>4. CASE ReadEnd \/ Drained \/ Finish \/ Commit
  BY <1>4 DEF ReadEnd, Drained, Finish, Commit, Go
<1>5. CASE SetupFails \/ RefreshFails \/ FinishFails \/ CommitFails \/ \E c \in Chunks : JoinErr(c)
  BY <1>5 DEF SetupFails, RefreshFails, FinishFails, CommitFails, JoinErr, Fail, Go
<1>6. CASE Tick
  BY <1>6 DEF Tick, Longest, Min2, Joins, Pcs, Horizon
<1>7. CASE ZfsDies \/ (\E c \in Chunks : JoinOk(c) \/ Upload(c)) \/ UNCHANGED vars
  <2>1. UNCHANGED <<pc, clock>>
    BY <1>7 DEF ZfsDies, JoinOk, Upload, Ask, VerifiedAnswered, PlainAnswered, RequestFails,
      RequestRefused, InBucket, vars, clock
  <2> QED
    BY <2>1 DEF clock
<1> QED
  BY <1>1, <1>2, <1>3, <1>4, <1>5, <1>6, <1>7 DEF Next, Run

\* When the longest waits add up to less than the lease, no other host ever
\* sees the marker of a live run as lapsed (send.rs:389, manifest.rs:74).
THEOREM LeaseKept == Timely => (Spec => []LeaseHeld)
<1> SUFFICES ASSUME Timely PROVE Spec => []LeaseHeld
  OBVIOUS
<1>1. Init => AgeInv
  BY SendAssumption DEF Init, AgeInv
<1>2. ASSUME IInv, AgeInv PROVE LeaseHeld
  BY <1>2, SendAssumption
  DEF IInv, TypeOK, AgeInv, AtRead, Newest, MaxOf, Timely, LeaseHeld
<1> QED
  BY <1>1, <1>2, Invariance, StepAge, PTL DEF Spec

(***************************************************************************)
(* The end.                                                                *)
(***************************************************************************)
\* How much of the run is ahead: three places for every chunk still to read,
\* five beside them, and a `zfs send` that runs may end or die.
Stage ==
  (IF child = "running" THEN 1 ELSE 0) +
  CASE pc = "setup"  -> 3 * NumChunks + 5
    [] pc = "read"   -> 3 * (NumChunks - seq) + 4
    [] pc = "marker" -> 3 * (NumChunks - seq) + 3
    [] pc = "place"  -> 3 * (NumChunks - seq) + 2
    [] pc = "drain"  -> 3
    [] pc = "wait"   -> 2
    [] pc = "commit" -> 1
    [] OTHER         -> 0

\* How much of an upload is ahead: three requests in each attempt that is left.
Pending(c) ==
  CASE task[c].at = "none"     -> 3 * Retries + 5
    [] task[c].at = "start"    -> 3 * (Retries - task[c].attempt) + 4
    [] task[c].at = "verified" -> 3 * (Retries - task[c].attempt) + 3
    [] task[c].at = "plain"    -> 3 * (Retries - task[c].attempt) + 2
    [] task[c].at \in {"ok", "err"} -> 1
    [] OTHER -> 0

\* The longest wait of all.
Longer(a, b) == IF a <= b THEN b ELSE a
Patience ==
  Longer(Longer(Longer(SetupMax, ReadMax), Longer(RoomMax, PutMax)), Longer(DrainMax, CommitMax))

\* The order is well-founded: numbers that fall, and under them a wait that
\* grows up to a bound.
Measured == Stage \in Nat /\ \A c \in Chunks : Pending(c) \in Nat

Advances ==
  /\ Stage' <= Stage /\ \A c \in Chunks : Pending(c)' <= Pending(c)
  /\ \/ Stage' < Stage
     \/ \E c \in Chunks : Pending(c)' < Pending(c)
     \/ spent < spent' /\ spent' <= Patience

LEMMA StageFacts ==
  ASSUME IInv
  PROVE  /\ Stage \in Nat
         /\ NumChunks - seq \in Nat
         /\ pc \in {"marker", "place"} => NumChunks - seq >= 1
BY SendAssumption DEF IInv, TypeOK, RunInv, ControlInv, Stage

LEMMA PendingFacts ==
  ASSUME TypeOK, NEW c \in Chunks
  PROVE  Pending(c) \in Nat
BY SendAssumption DEF TypeOK, Pending

\* The same of the next state, where the two cannot be used.
LEMMA NextMeasured ==
  ASSUME IInv'
  PROVE  Stage' \in Nat /\ \A c \in Chunks : Pending(c)' \in Nat
<1>1. Stage' \in Nat
  BY SendAssumption DEF IInv, TypeOK, RunInv, ControlInv, Stage
<1>2. ASSUME NEW c \in Chunks PROVE Pending(c)' \in Nat
  BY <1>2, SendAssumption DEF IInv, TypeOK, Pending
<1> QED
  BY <1>1, <1>2

\* An upload that ends, asks, is answered or fails has less ahead.
LEMMA UploadAdvances ==
  ASSUME IInv, IInv', NEW c \in Chunks, JoinOk(c) \/ Upload(c)
  PROVE  Advances
<1> USE SendAssumption
<1>1. Stage' = Stage
  BY DEF JoinOk, Upload, Ask, VerifiedAnswered, PlainAnswered, RequestFails, RequestRefused,
     InBucket, stream, Stage
<1>2. \A d \in Chunks : d # c => task'[d] = task[d]
  BY DEF JoinOk, Upload, Ask, VerifiedAnswered, PlainAnswered, RequestFails, RequestRefused,
     IInv, TypeOK
<1>3. \A d \in Chunks : d # c => Pending(d)' = Pending(d)
  BY <1>2 DEF Pending
<1>4. Pending(c)' < Pending(c)
  <2>1. task[c] \in [at : Tasks, attempt : 0 .. Retries]
    BY DEF IInv, TypeOK
  <2>2. CASE JoinOk(c)
    BY <2>1, <2>2 DEF JoinOk, Pending, IInv, TypeOK
  <2>3. CASE Ask(c)
    BY <2>1, <2>3 DEF Ask, Pending, IInv, TypeOK
  <2>4. CASE VerifiedAnswered(c) \/ PlainAnswered(c)
    BY <2>1, <2>4 DEF VerifiedAnswered, PlainAnswered, Pending, IInv, TypeOK
  <2>5. CASE RequestFails(c) \/ RequestRefused(c)
    BY <2>1, <2>5
       DEF RequestFails, RequestRefused, MayFail, InRequest, TryAgain, Pending, IInv, TypeOK
  <2> QED
    BY <2>2, <2>3, <2>4, <2>5 DEF Upload
<1>5. ASSUME NEW d \in Chunks PROVE Pending(d)' <= Pending(d)
  <2>1. Pending(d) \in Nat /\ Pending(d)' \in Nat
    BY PendingFacts, NextMeasured DEF IInv
  <2> QED
    BY <1>3, <1>4, <2>1
<1>6. Stage' <= Stage
  BY <1>1, StageFacts
<1> QED
  BY <1>4, <1>5, <1>6 DEF Advances

LEMMA StepAdvances == IInv /\ IInv' /\ [Next]_vars => [Advances]_vars
<1> SUFFICES ASSUME IInv, IInv', Next PROVE Advances
  OBVIOUS
<1>1. CASE \E c \in Chunks : JoinOk(c) \/ Upload(c)
  BY <1>1, UploadAdvances
<1>2. ASSUME UNCHANGED task PROVE \A c \in Chunks : Pending(c)' <= Pending(c)
  BY <1>2, PendingFacts DEF IInv, Pending
<1>3. CASE Tick
  <2>1. UNCHANGED task /\ Stage' = Stage
    BY <1>3 DEF Tick, uploads, stream, Stage
  <2>2. spent < spent' /\ spent' <= Longest
    BY <1>3, SendAssumption DEF Tick, IInv, TypeOK, Longest
  <2>3. Longest <= Patience /\ Longest \in Nat /\ Patience \in Nat
    BY SendAssumption DEF Longest, Patience, Longer
  <2> QED
    BY <1>2, <2>1, <2>2, <2>3, StageFacts DEF Advances, IInv, TypeOK
<1>4. CASE Spawn
  <2>1. Stage' < Stage
    BY <1>4, StageFacts, SendAssumption DEF Spawn, Placed, Go, Stage, IInv, TypeOK
  <2>2. \A c \in Chunks : Pending(c)' <= Pending(c)
    <3> SUFFICES ASSUME NEW c \in Chunks PROVE Pending(c)' <= Pending(c)
      OBVIOUS
    <3>1. CASE c # seq
      BY <1>4, <3>1, PendingFacts DEF Spawn, Pending, IInv, TypeOK
    <3>2. CASE c = seq
      <4>1. task[c].at = "none" /\ task[c] \in [at : Tasks, attempt : 0 .. Retries]
        BY <3>2, SendAssumption DEF IInv, RunInv, CountInv, TypeOK, Chunks
      <4>2. task'[c] = [task[c] EXCEPT !.at = "start"]
        BY <1>4, <3>2 DEF Spawn, IInv, TypeOK
      <4> QED
        BY <4>1, <4>2, SendAssumption DEF Pending
    <3> QED
      BY <3>1, <3>2
  <2>3. Stage' <= Stage
    BY <2>1, StageFacts, NextMeasured
  <2> QED
    BY <2>1, <2>2, <2>3 DEF Advances
<1>5. CASE /\ ~Spawn /\ ~Tick
           /\ ~\E c \in Chunks : JoinOk(c) \/ Upload(c)
  <2>1. UNCHANGED task
    BY <1>5
       DEF Next, Run, Setup, SetupFails, ReadChunk, ReadEnd, RefreshLease, RefreshFails, Skip,
         Drained, Finish, FinishFails, Commit, CommitFails, JoinErr, Fail, ZfsDies, uploads
  <2>2. Stage' < Stage
    <3>1. CASE Setup \/ ReadChunk \/ ReadEnd \/ RefreshLease \/ Skip
      BY <3>1, StageFacts, SendAssumption
         DEF Setup, ReadChunk, ReadEnd, RefreshLease, Skip, Placed, Go, stream, Stage, IInv, TypeOK
    <3>2. CASE Drained \/ Finish \/ Commit
      BY <3>2 DEF Drained, Finish, Commit, Go, stream, Stage
    <3>3. CASE SetupFails \/ RefreshFails \/ FinishFails \/ CommitFails \/ \E c \in Chunks : JoinErr(c)
      BY <3>3, StageFacts, SendAssumption
         DEF SetupFails, RefreshFails, FinishFails, CommitFails, JoinErr, Joins, Fail, Go, stream, Stage
    <3>4. CASE ZfsDies
      BY <3>4, StageFacts DEF ZfsDies, Stage
    <3> QED
      BY <1>5, <3>1, <3>2, <3>3, <3>4 DEF Next, Run
  <2>3. Stage' <= Stage
    BY <2>2, StageFacts, NextMeasured
  <2> QED
    BY <1>2, <2>1, <2>2, <2>3 DEF Advances
<1> QED
  BY <1>1, <1>3, <1>4, <1>5

\* Nothing a run does can go on for ever: each of its steps, a failed request
\* and a moment of waiting included, leaves less to do (send.rs:367, 433, mod.rs:192).
THEOREM RunsAdvance == Spec => []Measured /\ [][Advances]_vars
<1>1. IInv => Measured
  BY StageFacts, PendingFacts DEF IInv, Measured
<1> QED
  BY <1>1, StepAdvances, Invariance, PTL DEF Spec

(***************************************************************************)
(* Chunk sizes.                                                            *)
(***************************************************************************)
\* The adaptive size of a chunk is within the bounds that were given, and a
\* whole number of units unless a bound decides (send.rs:54).
THEOREM AdaptiveWithinBounds ==
  ASSUME NEW total \in Nat, NEW lo \in Nat, NEW hi \in Nat, NEW target \in Nat \ {0},
         NEW unit \in Nat \ {0}, lo <= hi
  PROVE  LET size == AdaptiveChunkSize(total, lo, hi, target, unit)
         IN  /\ lo <= size /\ size <= hi
             /\ size = lo \/ size = hi \/ \E n \in Nat : size = n * unit
<1> DEFINE v == Clamp(total \div target, lo, hi)
           n == (v + unit - 1) \div unit
<1>1. v \in Nat
  BY DEF Clamp
<1> HIDE DEF v
<1>2. n \in Nat
  BY <1>1
<1>3. RoundUp(v, unit) = n * unit
  BY DEF RoundUp
<1> HIDE DEF n
<1>4. n * unit \in Nat
  BY <1>2
<1> DEFINE w == n * unit
<1>5. AdaptiveChunkSize(total, lo, hi, target, unit) = Clamp(w, lo, hi)
  BY <1>3 DEF AdaptiveChunkSize, v
<1>6. w \in Nat
  BY <1>4
<1> HIDE DEF w
<1>7. lo <= Clamp(w, lo, hi) /\ Clamp(w, lo, hi) <= hi /\ Clamp(w, lo, hi) \in {lo, hi, w}
  BY <1>6 DEF Clamp
<1> QED
  BY <1>2, <1>5, <1>7 DEF w
=============================================================================
