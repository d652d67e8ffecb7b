----------------------------- MODULE SendStream -----------------------------
(***************************************************************************)
(* `send_stream`, the run of a send from its marker to its manifest, seen  *)
(* from inside the process.  The stream of `zfs send` is cut into chunks;  *)
(* tasks upload them at the same time, each with its own retries, and      *)
(* share the flag that says whether the endpoint checks CRC32C.  Between   *)
(* two reads the marker's lease is renewed.  Time passes in steps of its   *)
(* own; every wait of the run has a longest duration.                      *)
(***************************************************************************)
EXTENDS Integers, FiniteSets

CONSTANTS
  NumChunks,     \* chunks of the whole stream
  Parallel,      \* --parallel
  Retries,       \* how often `retry` tries again: 6
  MaxFailing,    \* bound: chunks whose requests may fail
  Left,          \* bound: chunks an earlier attempt may have left
  Lease,         \* LEASE
  LeaseRefresh,  \* LEASE_REFRESH
  Skew,          \* how far another host's clock may be ahead
  SetupMax,      \* longest time to read the marker, purge and write the marker
  ReadMax,       \* longest time to fill a chunk from the pipe
  RoomMax,       \* longest wait for one of Parallel uploads to end
  PutMax,        \* longest time to write the marker again
  DrainMax,      \* longest wait for the last uploads
  CommitMax      \* longest time to release the hold and write the manifest

ASSUME SendAssumption ==
  /\ NumChunks \in Nat \ {0} /\ Parallel \in Nat \ {0} /\ Retries \in Nat
  /\ MaxFailing \in Nat /\ Left \subseteq 0 .. NumChunks - 1
  /\ Lease \in Nat \ {0} /\ LeaseRefresh \in Nat \ {0} /\ Skew \in Nat
  /\ SetupMax \in Nat /\ ReadMax \in Nat /\ RoomMax \in Nat
  /\ PutMax \in Nat /\ DrainMax \in Nat /\ CommitMax \in Nat

VARIABLES
  pc,        \* where the run is
  ep,        \* the endpoint: does it check, and echo, a CRC32C it is sent?
  crc32c,    \* the flag of Store, shared by its clones
  child,     \* `zfs send`
  seq,       \* the chunk to read next
  cut,       \* the stream ended inside the chunk read last
  have,      \* the chunks found in the bucket at the start, with their size
  task,      \* the upload of each chunk
  object,    \* the body of each chunk in the bucket
  uploaded,  \* chunks counted as uploaded
  failures,  \* how many requests for a chunk failed in a way worth a retry
  refused,   \* chunks a request was refused for in a way that is not
  age,       \* time since the instant written in the marker
  since,     \* time since `refreshed`
  spent,     \* time spent where the run is
  cause      \* what stopped the run

clock == <<age, since, spent>>
uploads == <<crc32c, task, object, failures, refused>>
stream == <<child, seq, cut>>
vars == <<pc, ep, crc32c, child, seq, cut, have, task, object, uploaded,
          failures, refused, age, since, spent, cause>>

Chunks == 0 .. NumChunks - 1
Pcs == {"setup", "read", "marker", "place", "drain", "wait", "commit",
        "done", "failed"}
Bodies == {"none", "short", "corrupt", "intact"}
\* A task is asking whether to send a checksum, in a PUT with or without one,
\* or over and not joined yet.
Tasks == {"none", "start", "verified", "plain", "ok", "err", "joined"}

Min2(a, b) == IF a <= b THEN a ELSE b
\* The oldest lease worth telling apart.
Horizon == Lease + Skew

TypeOK ==
  /\ pc \in Pcs
  /\ ep \in [verifies : BOOLEAN, echoes : BOOLEAN]
  /\ crc32c \in BOOLEAN
  /\ child \in {"running", "exited", "died"}
  /\ seq \in 0 .. NumChunks
  /\ cut \in BOOLEAN
  /\ have \subseteq Chunks
  /\ task \in [Chunks -> [at : Tasks, attempt : 0 .. Retries]]
  /\ object \in [Chunks -> Bodies]
  /\ uploaded \subseteq Chunks
  /\ failures \in [Chunks -> 0 .. Retries + 1]
  /\ refused \subseteq Chunks
  /\ age \in 0 .. Horizon
  /\ since \in 0 .. LeaseRefresh
  /\ spent \in Nat
  /\ cause \in {"none", "upload", "zfs", "store"}

Idle == [at |-> "none", attempt |-> 0]
\* An endpoint that checks never stored a body that was damaged on its way.
Sound == ep.verifies /\ ep.echoes

\* What an earlier attempt at the same stream may have left: `have` are the
\* objects whose size is the one the chunk will have.
Init ==
  /\ pc = "setup"
  /\ ep \in [verifies : BOOLEAN, echoes : BOOLEAN]
  /\ crc32c = TRUE
  /\ child = "running" /\ seq = 0 /\ cut = FALSE
  /\ \E left \in [Chunks -> Bodies] :
       /\ \A c \in Chunks \ Left : left[c] = "none"
       /\ Sound => \A c \in Chunks : left[c] # "corrupt"
       /\ object = left
       /\ have = {c \in Chunks : left[c] \in {"corrupt", "intact"}}
  /\ task = [c \in Chunks |-> Idle]
  /\ uploaded = {}
  /\ failures = [c \in Chunks |-> 0] /\ refused = {}
  /\ age = 0 /\ since = 0 /\ spent = 0
  /\ cause = "none"

(***************************************************************************)
(* The size of a chunk when --adaptive-chunk-size is given, for a stream   *)
(* estimated at total; the code has target = 1000 and unit = 16 MiB.       *)
(***************************************************************************)
Clamp(v, lo, hi) == IF v < lo THEN lo ELSE IF v > hi THEN hi ELSE v
RoundUp(v, unit) == ((v + unit - 1) \div unit) * unit
AdaptiveChunkSize(total, lo, hi, target, unit) ==
  Clamp(RoundUp(Clamp(total \div target, lo, hi), unit), lo, hi)

(***************************************************************************)
(* The run.                                                                *)
(***************************************************************************)
Running == pc \notin {"done", "failed"}
Go(to) == pc' = to /\ spent' = 0

\* `?` leaves the function: the JoinSet and the child are dropped.
Fail(why) ==
  /\ Go("failed") /\ cause' = why
  /\ UNCHANGED <<ep, uploads, stream, have, uploaded, age, since>>

(* Mutant: the marker is written again with the instant it had.            *)
StampedOnce == age' = age /\ since' = 0

\* `refreshed_at` was taken when the step began, `refreshed` when it ends.
Stamped == age' = Min2(spent, Horizon) /\ since' = 0

\* The marker is read, another attempt's chunks are purged, the marker is
\* written: the instant in it is the one `mine` was made at.
Setup ==
  /\ pc = "setup"
  /\ Stamped /\ Go("read")
  /\ UNCHANGED <<ep, uploads, stream, have, uploaded, cause>>

SetupFails == pc = "setup" /\ Fail("store")

\* A whole chunk, or what was in the pipe when `zfs send` died.
ReadChunk ==
  /\ pc = "read" /\ ~cut /\ seq < NumChunks
  /\ Go(IF since >= LeaseRefresh THEN "marker" ELSE "place")
  /\ cut' = (child = "died")
  /\ UNCHANGED <<ep, uploads, child, seq, have, uploaded, age, since, cause>>

\* The pipe is at its end.
ReadEnd ==
  /\ pc = "read" /\ (cut \/ seq = NumChunks \/ child = "died")
  /\ Go("drain")
  /\ child' = IF child = "running" THEN "exited" ELSE child
  /\ UNCHANGED <<ep, uploads, seq, cut, have, uploaded, age, since, cause>>

RefreshLease ==
  /\ pc = "marker"
  /\ Stamped /\ Go("place")
  /\ UNCHANGED <<ep, uploads, stream, have, uploaded, cause>>

RefreshFails == pc = "marker" /\ Fail("store")

(* Mutant: a task that was joined still takes room.                        *)
InFlightEver == {c \in Chunks : task[c].at # "none"}

\* JoinSet counts the tasks that have ended and were not joined, too.
InFlight == {c \in Chunks : task[c].at \notin {"none", "joined"}}
Placed == seq' = seq + 1 /\ UNCHANGED <<child, cut>>

\* The size in the bucket is the size of this chunk.
Skip ==
  /\ pc = "place" /\ seq \in have /\ ~cut
  /\ uploaded' = uploaded \cup {seq}
  /\ Placed /\ Go("read")
  /\ UNCHANGED <<ep, uploads, have, age, since, cause>>

(* Mutant: room for one upload too many.                                   *)
SpawnEarly ==
  /\ pc = "place" /\ (seq \in have => cut)
  /\ Cardinality(InFlight) <= Parallel
  /\ task' = [task EXCEPT ![seq].at = "start"]
  /\ Placed /\ Go("read")
  /\ UNCHANGED <<ep, crc32c, object, failures, refused, have, uploaded, age,
                 since, cause>>

Spawn ==
  /\ pc = "place" /\ (seq \in have => cut)
  /\ Cardinality(InFlight) < Parallel
  /\ task' = [task EXCEPT ![seq].at = "start"]
  /\ Placed /\ Go("read")
  /\ UNCHANGED <<ep, crc32c, object, failures, refused, have, uploaded, age,
                 since, cause>>

\* The run waits for a task, for room or because the stream is at its end.
Joins ==
  \/ pc = "place" /\ (seq \in have => cut) /\ Cardinality(InFlight) >= Parallel
  \/ pc = "drain"

JoinOk(c) ==
  /\ Joins /\ task[c].at = "ok"
  /\ task' = [task EXCEPT ![c].at = "joined"]
  /\ uploaded' = uploaded \cup {c}
  /\ UNCHANGED <<pc, ep, crc32c, object, failures, refused, stream, have, clock,
                 cause>>

JoinErr(c) == Joins /\ task[c].at = "err" /\ Fail("upload")

Drained ==
  /\ pc = "drain" /\ InFlight = {}
  /\ Go("wait")
  /\ UNCHANGED <<ep, uploads, stream, have, uploaded, age, since, cause>>

(* Mutant: the exit status and the stream's end are not looked at.         *)
CompleteByCount == Cardinality(uploaded) = seq

\* proc.wait, parser.finish and the count of the chunks, in this order.
Complete == child = "exited" /\ ~cut /\ Cardinality(uploaded) = seq

Finish ==
  /\ pc = "wait" /\ Complete
  /\ Go("commit")
  /\ UNCHANGED <<ep, uploads, stream, have, uploaded, age, since, cause>>

FinishFails == pc = "wait" /\ ~Complete /\ Fail("zfs")

Commit ==
  /\ pc = "commit"
  /\ Go("done")
  /\ UNCHANGED <<ep, uploads, stream, have, uploaded, age, since, cause>>

CommitFails == pc = "commit" /\ Fail("store")

Run ==
  \/ Setup \/ SetupFails \/ ReadChunk \/ ReadEnd \/ RefreshLease \/ RefreshFails
  \/ Skip \/ Spawn \/ Drained \/ Finish \/ FinishFails \/ Commit \/ CommitFails
  \/ \E c \in Chunks : JoinOk(c) \/ JoinErr(c)

(***************************************************************************)
(* The upload of one chunk: `retry` around `put_verified`.                 *)
(***************************************************************************)
InBucket == <<pc, ep, stream, have, uploaded, clock, cause>>

\* The flag is read when an attempt starts and not again.
Ask(c) ==
  /\ task[c].at = "start"
  /\ task' = [task EXCEPT ![c].at = IF crc32c THEN "verified" ELSE "plain"]
  /\ UNCHANGED <<InBucket, crc32c, object, failures, refused>>

\* The chunk that was cut short is the last one placed.
Right(c) ==
  IF cut /\ pc \notin {"marker", "place"} /\ c = seq - 1 THEN "short" ELSE "intact"
\* A body may be damaged on its way.  Sent with its checksum to an endpoint
\* that checks, it is refused then.
Landing(c) ==
  {Right(c)} \cup (IF task[c].at = "verified" /\ ep.verifies THEN {} ELSE {"corrupt"})

(* Mutant: a checksum that is not echoed fails the upload.                 *)
VerifiedAnsweredStrictly(c) ==
  /\ task[c].at = "verified"
  /\ \E body \in Landing(c) : object' = [object EXCEPT ![c] = body]
  /\ crc32c' = (crc32c /\ ep.echoes)
  /\ task' = [task EXCEPT ![c].at = IF ep.echoes THEN "ok" ELSE "err"]
  /\ UNCHANGED <<InBucket, failures, refused>>

\* The checksum was not echoed: from now on no upload sends one, and this one
\* puts the chunk again.
VerifiedAnswered(c) ==
  /\ task[c].at = "verified"
  /\ \E body \in Landing(c) : object' = [object EXCEPT ![c] = body]
  /\ crc32c' = (crc32c /\ ep.echoes)
  /\ task' = [task EXCEPT ![c].at = IF ep.echoes THEN "ok" ELSE "plain"]
  /\ UNCHANGED <<InBucket, failures, refused>>

PlainAnswered(c) ==
  /\ task[c].at = "plain"
  /\ \E body \in Landing(c) : object' = [object EXCEPT ![c] = body]
  /\ task' = [task EXCEPT ![c].at = "ok"]
  /\ UNCHANGED <<InBucket, crc32c, failures, refused>>

\* Only requests of MaxFailing chunks fail.
InRequest(c) == task[c].at \in {"verified", "plain"}
Troubled == {c \in Chunks : failures[c] > 0} \cup refused
MayFail(c) == InRequest(c) /\ Cardinality(Troubled \cup {c}) <= MaxFailing
(* Mutant: one retry too many.                                             *)
TryAgainOnceMore(c) ==
  IF task[c].attempt <= Retries
    THEN [at |-> "start", attempt |-> task[c].attempt + 1]
    ELSE [task[c] EXCEPT !.at = "err"]

TryAgain(c) ==
  IF task[c].attempt < Retries
    THEN [at |-> "start", attempt |-> task[c].attempt + 1]
    ELSE [task[c] EXCEPT !.at = "err"]

\* No answer, an answer that says to try later, or one that says the body was
\* damaged.  Without an answer the body may be in the bucket all the same.
RequestFails(c) ==
  /\ MayFail(c)
  /\ \/ UNCHANGED object
     \/ \E body \in Landing(c) : object' = [object EXCEPT ![c] = body]
  /\ failures' = [failures EXCEPT ![c] = @ + 1]
  /\ task' = [task EXCEPT ![c] = TryAgain(c)]
  /\ UNCHANGED <<InBucket, crc32c, refused>>

RequestRefused(c) ==
  /\ MayFail(c)
  /\ refused' = refused \cup {c}
  /\ task' = [task EXCEPT ![c].at = "err"]
  /\ UNCHANGED <<InBucket, crc32c, object, failures>>

Upload(c) ==
  /\ Running
  /\ \/ Ask(c) \/ VerifiedAnswered(c) \/ PlainAnswered(c)
     \/ RequestFails(c) \/ RequestRefused(c)

(***************************************************************************)
(* The host: `zfs send` may die, and time passes while the run waits.      *)
(***************************************************************************)
\* That it died shows when the pipe is read, and by its exit status.
ZfsDies ==
  /\ pc = "read" /\ child = "running"
  /\ child' = "died"
  /\ UNCHANGED <<pc, ep, uploads, seq, cut, have, uploaded, clock, cause>>

Longest ==
  CASE pc = "setup"  -> SetupMax
    [] pc = "read"   -> ReadMax
    [] pc = "marker" -> PutMax
    [] pc = "drain"  -> DrainMax
    [] pc = "commit" -> CommitMax
    [] pc = "place" /\ Joins -> RoomMax
    [] OTHER         -> 0

Tick ==
  /\ Running /\ spent < Longest
  /\ spent' = spent + 1
  /\ age' = Min2(age + 1, Horizon)
  /\ since' = Min2(since + 1, LeaseRefresh)
  /\ UNCHANGED <<pc, ep, uploads, stream, have, uploaded, cause>>

Next ==
  \/ Run \/ ZfsDies \/ Tick
  \/ \E c \in Chunks : Upload(c)

Spec == Init /\ [][Next]_vars

\* Every request and command the run waits for ends, one way or another.
FairSpec ==
  Spec /\ WF_vars(Run) /\ \A c \in Chunks : WF_vars(Upload(c))

(***************************************************************************)
(* Properties.                                                             *)
(***************************************************************************)
\* The longest time between the instant in the marker and its renewal, or the
\* manifest, is shorter than the lease.
MaxOf(a, b) == IF a >= b THEN a ELSE b
Timely ==
  MaxOf(SetupMax, PutMax) + (LeaseRefresh - 1) + RoomMax + ReadMax
    + MaxOf(PutMax, DrainMax + CommitMax) + Skew < Lease

\* While the run uploads, every other host sees its lease as live, whatever
\* its requests, reads and waits take, as long as Timely holds (send.rs:389).
LeaseHeld ==
  pc \in {"read", "marker", "place", "drain", "wait", "commit"} => age + Skew < Lease

\* A manifest is written only over chunks that are all in the bucket, whole,
\* and undamaged where the endpoint checks what it is sent; also when zfs
\* send died, requests were repeated, and the flag was shared (send.rs:433).
Whole == IF Sound THEN {"intact"} ELSE {"intact", "corrupt"}
CommittedIsWhole == pc = "done" => uploaded = Chunks /\ \A c \in Chunks : object[c] \in Whole

\* Beside the chunk in hand at most --parallel chunks are in memory, waiting
\* for uploads that ask, fail and start again: a run needs no more memory than
\* for these (send.rs:411).
BuffersBounded ==
  Cardinality({c \in Chunks : task[c].at \in {"start", "verified", "plain"}}) <= Parallel

\* A run fails only for something that happened outside: an endpoint that
\* ignores checksums, or requests that fail no more than Retries times, are
\* not a reason (mod.rs:192).
FailsForAReason ==
  pc = "failed" =>
    \/ cause = "store"
    \/ cause = "zfs" /\ child = "died"
    \/ cause = "upload" /\ \E c \in Chunks : c \in refused \/ failures[c] > Retries

\* Every run ends: no upload is waited for in vain (send.rs:433).
RunEnds == <>(~Running)
=============================================================================
