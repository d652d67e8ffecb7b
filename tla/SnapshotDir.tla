----------------------------- MODULE SnapshotDir -----------------------------
(***************************************************************************)
(* One snapshot directory of the bucket, <root>/<dataset>/<snapshot>/, and *)
(* every process that writes to it: `send` runs that archive the snapshot, *)
(* `clean` runs that sweep garbage and `retention` runs that expire it.    *)
(* The bucket is the only thing the processes share; each action is one    *)
(* request to it, or the local steps between two requests.                 *)
(***************************************************************************)
EXTENDS Integers, FiniteSets

CONSTANTS
  Runs,               \* processes running `send` of this snapshot
  Cleaners,           \* processes running `clean`
  Expirers,           \* processes running `retention`, this snapshot doomed
  Params,             \* [from, flags, chunk_size]: what determines a stream
  StreamBytes(_, _),  \* length of the stream of a base and send flags
  MaxChunks,          \* bound: the most chunks a stream is cut into
  Parallel,           \* --parallel: concurrent chunk uploads of a run
  MaxFaults,          \* bound: errors, signals, crashes and lost answers
  Absent              \* no object under a key

Procs == Runs \cup Cleaners \cup Expirers

----------------------------------------------------------------------------
(* Keys and objects.  S3 lists a directory in key order: the chunks by     *)
(* number, then manifest.json, then pending.json.                          *)

Seqs == 0 .. MaxChunks - 1
ManifestKey == MaxChunks
PendingKey == MaxChunks + 1
Keys == 0 .. MaxChunks + 1

(* The stream of p is cut into chunk_size slices, the last one short.      *)
Total(p) == StreamBytes(p.from, p.flags)
NumChunks(p) == (Total(p) + p.chunk_size - 1) \div p.chunk_size
ChunkSet(p) == 0 .. NumChunks(p) - 1
ChunkLen(p, k) ==
  IF k = NumChunks(p) - 1 THEN Total(p) - k * p.chunk_size ELSE p.chunk_size

(* Chunk keys depend only on the snapshot, the bytes under them on all of p*)
Content(p, k) ==
  [from |-> p.from, flags |-> p.flags, off |-> k * p.chunk_size, len |-> ChunkLen(p, k)]

Contents == UNION {{Content(p, k) : k \in ChunkSet(p)} : p \in Params}
Markers == [p : Params, live : BOOLEAN]

(* Mutant: chunk_size left out of the comparison.                          *)
SameStreamAnySize(p, q) == p.from = q.from /\ p.flags = q.flags

SameStream(p, q) ==
  /\ p.from = q.from
  /\ p.flags = q.flags
  /\ p.chunk_size = q.chunk_size

ASSUME ProcsAssumption ==
  /\ Runs \cap Cleaners = {}
  /\ Runs \cap Expirers = {}
  /\ Cleaners \cap Expirers = {}

ASSUME BoundsAssumption ==
  /\ MaxChunks \in Nat /\ Parallel \in Nat \ {0} /\ MaxFaults \in Nat

(* Every stream has a byte, and MaxChunks is enough for every way to cut it*)
ASSUME ParamsAssumption ==
  \A p \in Params :
    /\ p \in [from : {p.from}, flags : {p.flags}, chunk_size : Nat \ {0}]
    /\ Total(p) \in Nat \ {0}
    /\ NumChunks(p) \in 1 .. MaxChunks
    /\ \A k \in ChunkSet(p) : ChunkLen(p, k) \in Nat

ASSUME AbsentAssumption ==
  /\ Absent \notin Params
  /\ Absent \notin Contents
  /\ Absent \notin Markers
  /\ Absent \notin Nat

----------------------------------------------------------------------------
VARIABLES
  dir,       \* the objects of the directory, by key
  pc,        \* where each process is
  par,       \* what each run is sending
  existing,  \* each run's listing: the size of every object found, by key
  nread,     \* chunks each run has read from `zfs send`
  inflight,  \* chunks each run is uploading
  uploaded,  \* chunks each run counts as stored
  doomed,    \* keys each process still has to delete
  faults     \* faults so far

runVars == <<par, existing, nread, inflight, uploaded>>
vars == <<dir, pc, runVars, doomed, faults>>

Committed == dir[ManifestKey]
Marker == dir[PendingKey]
(* Mutant: the lease is ignored.                                           *)
LiveNever(m) == m # Absent /\ FALSE

Live(m) == m # Absent /\ m.live
Listed == {k \in Keys : dir[k] # Absent}

NoListing == [k \in Keys |-> Absent]
Listing ==
  [k \in Keys |-> CASE dir[k] = Absent -> Absent
                    [] dir[k] # Absent /\ k \in Seqs -> dir[k].len
                    [] OTHER -> 0]

Pcs == {"idle",
        "list", "readmarker", "purge", "purging", "mark", "upload", "commit", "unmark",
        "cleanmarker", "cleanmanifest", "cleaning",
        "unlist", "expiring"}

TypeOK ==
  /\ dir \in [Keys -> Contents \cup Params \cup Markers \cup {Absent}]
  /\ \A k \in Seqs : dir[k] \in Contents \cup {Absent}
  /\ Committed \in Params \cup {Absent}
  /\ Marker \in Markers \cup {Absent}
  /\ pc \in [Procs -> Pcs]
  /\ par \in [Runs -> Params \cup {Absent}]
  /\ \A r \in Runs :
       IF pc[r] = "idle" THEN inflight[r] = {}
       ELSE par[r] \in Params /\ inflight[r] \subseteq ChunkSet(par[r])
  /\ existing \in [Runs -> [Keys -> Nat \cup {Absent}]]
  /\ nread \in [Runs -> 0 .. MaxChunks]
  /\ inflight \in [Runs -> SUBSET Seqs]
  /\ uploaded \in [Runs -> SUBSET Seqs]
  /\ doomed \in [Procs -> SUBSET Keys]
  /\ faults \in 0 .. MaxFaults

Init ==
  /\ dir = [k \in Keys |-> Absent]
  /\ pc = [x \in Procs |-> "idle"]
  /\ par = [r \in Runs |-> Absent]
  /\ existing = [r \in Runs |-> NoListing]
  /\ nread = [r \in Runs |-> 0]
  /\ inflight = [r \in Runs |-> {}]
  /\ uploaded = [r \in Runs |-> {}]
  /\ doomed = [x \in Procs |-> {}]
  /\ faults = 0

At(x, l) == pc[x] = l
Goto(x, l) == pc' = [pc EXCEPT ![x] = l]
Put(k, object) == dir' = [dir EXCEPT ![k] = object]
Delete(k) == dir' = [dir EXCEPT ![k] = Absent]
Fault == faults < MaxFaults /\ faults' = faults + 1

(* A process deletes its doomed keys one request at a time, in key order.  *)
DeleteNext(x, here, there) ==
  /\ At(x, here)
  /\ \E k \in doomed[x] :
       /\ \A j \in doomed[x] : k <= j
       /\ Delete(k)
       /\ doomed' = [doomed EXCEPT ![x] = @ \ {k}]
       /\ Goto(x, IF doomed[x] = {k} THEN there ELSE here)

----------------------------------------------------------------------------
(* `send`.                                                                 *)

(* The process is gone, or done: what it knew is lost.                     *)
Exit(r) ==
  /\ Goto(r, "idle")
  /\ par' = [par EXCEPT ![r] = Absent]
  /\ existing' = [existing EXCEPT ![r] = NoListing]
  /\ nread' = [nread EXCEPT ![r] = 0]
  /\ inflight' = [inflight EXCEPT ![r] = {}]
  /\ uploaded' = [uploaded EXCEPT ![r] = {}]
  /\ doomed' = [doomed EXCEPT ![r] = {}]

(* The manifests are read once, before anything else.                      *)
AlreadyArchived(r) ==
  /\ At(r, "idle")
  /\ Committed # Absent
  /\ UNCHANGED vars

SendStart(r) ==
  /\ At(r, "idle")
  /\ Committed = Absent
  /\ \E p \in Params : par' = [par EXCEPT ![r] = p]
  /\ Goto(r, "list")
  /\ UNCHANGED <<dir, existing, nread, inflight, uploaded, doomed, faults>>

ListDir(r) ==
  /\ At(r, "list")
  /\ existing' = [existing EXCEPT ![r] = Listing]
  /\ Goto(r, "readmarker")
  /\ UNCHANGED <<dir, par, nread, inflight, uploaded, doomed, faults>>

(* The marker decides.  A live lease is another run's: run ids are fresh.  *)
StepAside(r) ==
  /\ At(r, "readmarker")
  /\ Live(Marker)
  /\ Exit(r)
  /\ UNCHANGED <<dir, faults>>

MayResume(r) == Marker # Absent /\ ~Marker.live /\ SameStream(Marker.p, par[r])

Resume(r) ==
  /\ At(r, "readmarker")
  /\ MayResume(r)
  /\ Goto(r, "mark")
  /\ UNCHANGED <<dir, runVars, doomed, faults>>

(* Mutant: chunks of an unrelated attempt are not cleared.                 *)
StartOver(r) ==
  /\ At(r, "readmarker")
  /\ ~Live(Marker)
  /\ ~MayResume(r)
  /\ Goto(r, "mark")
  /\ UNCHANGED <<dir, runVars, doomed, faults>>

(* Mutant: a marker with other parameters is an error.                     *)
StartRefused(r) ==
  /\ At(r, "readmarker")
  /\ ~Live(Marker)
  /\ ~MayResume(r)
  /\ IF Marker # Absent THEN Exit(r)
     ELSE /\ Goto(r, IF existing[r] = NoListing THEN "mark" ELSE "purge")
          /\ UNCHANGED <<runVars, doomed>>
  /\ UNCHANGED <<dir, faults>>

StartClean(r) ==
  /\ At(r, "readmarker")
  /\ ~Live(Marker)
  /\ ~MayResume(r)
  /\ Goto(r, IF existing[r] = NoListing THEN "mark" ELSE "purge")
  /\ UNCHANGED <<dir, runVars, doomed, faults>>

(* purge_prefix: list what is there now, then delete all of it.            *)
PurgeList(r) ==
  /\ At(r, "purge")
  /\ doomed' = [doomed EXCEPT ![r] = Listed]
  /\ existing' = [existing EXCEPT ![r] = NoListing]
  /\ Goto(r, IF Listed = {} THEN "mark" ELSE "purging")
  /\ UNCHANGED <<dir, par, nread, inflight, uploaded, faults>>

PurgeDelete(r) ==
  /\ DeleteNext(r, "purging", "mark")
  /\ UNCHANGED <<runVars, faults>>

(* Mutant: the marker is written by the first lease refresh only.          *)
WriteMarkerLater(r) ==
  /\ At(r, "mark")
  /\ Goto(r, "upload")
  /\ UNCHANGED <<dir, runVars, doomed, faults>>

WriteMarker(r) ==
  /\ At(r, "mark")
  /\ Put(PendingKey, [p |-> par[r], live |-> TRUE])
  /\ Goto(r, "upload")
  /\ UNCHANGED <<runVars, doomed, faults>>

(* Mutant: one chunk too many.                                             *)
HasChunkBeyond(r) == At(r, "upload") /\ nread[r] <= NumChunks(par[r])

(* The upload loop: the lease may be refreshed when a chunk has been read; *)
(* the chunk is skipped when the listing showed its size, else uploaded.   *)
HasChunk(r) == At(r, "upload") /\ nread[r] < NumChunks(par[r])
AlreadyUploaded(r) == existing[r][nread[r]] = ChunkLen(par[r], nread[r])

RefreshLease(r) ==
  /\ HasChunk(r)
  /\ Put(PendingKey, [p |-> par[r], live |-> TRUE])
  /\ UNCHANGED <<pc, runVars, doomed, faults>>

SkipChunk(r) ==
  /\ HasChunk(r)
  /\ AlreadyUploaded(r)
  /\ uploaded' = [uploaded EXCEPT ![r] = @ \cup {nread[r]}]
  /\ nread' = [nread EXCEPT ![r] = @ + 1]
  /\ UNCHANGED <<dir, pc, par, existing, inflight, doomed, faults>>

SpawnUpload(r) ==
  /\ HasChunk(r)
  /\ ~AlreadyUploaded(r)
  /\ Cardinality(inflight[r]) < Parallel
  /\ inflight' = [inflight EXCEPT ![r] = @ \cup {nread[r]}]
  /\ nread' = [nread EXCEPT ![r] = @ + 1]
  /\ UNCHANGED <<dir, pc, par, existing, uploaded, doomed, faults>>

PutChunk(r, k) ==
  /\ At(r, "upload")
  /\ k \in inflight[r]
  /\ Put(k, Content(par[r], k))
  /\ inflight' = [inflight EXCEPT ![r] = @ \ {k}]
  /\ uploaded' = [uploaded EXCEPT ![r] = @ \cup {k}]
  /\ UNCHANGED <<pc, par, existing, nread, doomed, faults>>

(* The PUT landed but its answer was lost: `retry` sends it again.         *)
PutChunkUnacked(r, k) ==
  /\ At(r, "upload")
  /\ k \in inflight[r]
  /\ Fault
  /\ Put(k, Content(par[r], k))
  /\ UNCHANGED <<pc, runVars, doomed>>

(* Mutant: the last uploads are not awaited.                               *)
FinishReading(r) ==
  /\ At(r, "upload")
  /\ nread[r] = NumChunks(par[r])
  /\ Goto(r, "commit")
  /\ UNCHANGED <<dir, runVars, doomed, faults>>

FinishUpload(r) ==
  /\ At(r, "upload")
  /\ nread[r] = NumChunks(par[r])
  /\ inflight[r] = {}
  /\ Cardinality(uploaded[r]) = NumChunks(par[r])
  /\ Goto(r, "commit")
  /\ UNCHANGED <<dir, runVars, doomed, faults>>

Commit(r) ==
  /\ At(r, "commit")
  /\ Put(ManifestKey, par[r])
  /\ Goto(r, "unmark")
  /\ UNCHANGED <<runVars, doomed, faults>>

CommitUnacked(r) ==
  /\ At(r, "commit")
  /\ Fault
  /\ Put(ManifestKey, par[r])
  /\ UNCHANGED <<pc, runVars, doomed>>

(* The marker's removal may fail: that is only a warning.                  *)
RemoveMarker(r) ==
  /\ At(r, "unmark")
  /\ \/ Delete(PendingKey) /\ UNCHANGED faults
     \/ UNCHANGED dir /\ Fault
  /\ Exit(r)

(* An error, a signal or a crash ends the run; uploads in flight that had  *)
(* landed are PutChunkUnacked steps before this one.                       *)
Stop(r) ==
  /\ ~At(r, "idle")
  /\ Fault
  /\ Exit(r)
  /\ UNCHANGED dir

----------------------------------------------------------------------------
(* `clean`: one LIST of the bucket, then a decision per directory, then the*)
(* deletes.  Until the decision, doomed holds the whole listing.           *)

CleanList(c) ==
  /\ At(c, "idle")
  /\ Listed # {}
  /\ doomed' = [doomed EXCEPT ![c] = Listed]
  /\ Goto(c, CASE ManifestKey \in Listed -> "cleanmanifest"
               [] ManifestKey \notin Listed /\ PendingKey \in Listed -> "cleanmarker"
               [] OTHER -> "cleaning")
  /\ UNCHANGED <<dir, runVars, faults>>

CleanLeave(c) ==
  /\ Goto(c, "idle")
  /\ doomed' = [doomed EXCEPT ![c] = {}]
  /\ UNCHANGED <<dir, runVars>>

CleanSkip(c) ==
  /\ At(c, "cleanmarker")
  /\ Live(Marker)
  /\ CleanLeave(c)
  /\ UNCHANGED faults

(* Mutant: the lease is not looked at.                                     *)
CleanUnconditional(c) ==
  /\ At(c, "cleanmarker")
  /\ Goto(c, "cleaning")
  /\ UNCHANGED <<dir, runVars, doomed, faults>>

(* A marker that has lapsed, or has gone meanwhile: everything is garbage. *)
CleanAbandoned(c) ==
  /\ At(c, "cleanmarker")
  /\ ~Live(Marker)
  /\ Goto(c, "cleaning")
  /\ UNCHANGED <<dir, runVars, doomed, faults>>

(* So it is when the read of the marker fails.                             *)
CleanReadMarkerFails(c) ==
  /\ At(c, "cleanmarker")
  /\ Fault
  /\ Goto(c, "cleaning")
  /\ UNCHANGED <<dir, runVars, doomed>>

(* Mutant: the manifest is missing from what it names.                     *)
CleanAllButChunks(c) ==
  /\ At(c, "cleanmanifest")
  /\ Committed # Absent
  /\ LET strays == doomed[c] \ ChunkSet(Committed)
     IN  /\ doomed' = [doomed EXCEPT ![c] = strays]
         /\ Goto(c, IF strays = {} THEN "idle" ELSE "cleaning")
  /\ UNCHANGED <<dir, runVars, faults>>

(* Beside a manifest: everything the manifest does not name is garbage.    *)
CleanStrays(c) ==
  /\ At(c, "cleanmanifest")
  /\ Committed # Absent
  /\ LET strays == doomed[c] \ (ChunkSet(Committed) \cup {ManifestKey})
     IN  /\ doomed' = [doomed EXCEPT ![c] = strays]
         /\ Goto(c, IF strays = {} THEN "idle" ELSE "cleaning")
  /\ UNCHANGED <<dir, runVars, faults>>

CleanManifestGone(c) ==
  /\ At(c, "cleanmanifest")
  /\ Committed = Absent
  /\ CleanLeave(c)
  /\ UNCHANGED faults

CleanDelete(c) ==
  /\ DeleteNext(c, "cleaning", "idle")
  /\ UNCHANGED <<runVars, faults>>

CleanStop(c) ==
  /\ ~At(c, "idle")
  /\ Fault
  /\ CleanLeave(c)

----------------------------------------------------------------------------
(* `retention`, once its policy has doomed this snapshot: the manifest     *)
(* first, then the chunks it names, then a marker that may linger.         *)

(* Mutant: the chunks before the manifest.                                 *)
ExpireChunksFirst(e) ==
  /\ At(e, "idle")
  /\ Committed # Absent
  /\ doomed' = [doomed EXCEPT ![e] = ChunkSet(Committed) \cup {ManifestKey, PendingKey}]
  /\ Goto(e, "expiring")
  /\ UNCHANGED <<dir, runVars, faults>>

ExpireList(e) ==
  /\ At(e, "idle")
  /\ Committed # Absent
  /\ doomed' = [doomed EXCEPT ![e] = ChunkSet(Committed) \cup {PendingKey}]
  /\ Goto(e, "unlist")
  /\ UNCHANGED <<dir, runVars, faults>>

ExpireManifest(e) ==
  /\ At(e, "unlist")
  /\ Delete(ManifestKey)
  /\ Goto(e, "expiring")
  /\ UNCHANGED <<runVars, doomed, faults>>

ExpireDelete(e) ==
  /\ DeleteNext(e, "expiring", "idle")
  /\ UNCHANGED <<runVars, faults>>

(* An error ends it, the failed delete of a marker included: either way    *)
(* nothing more of this snapshot is deleted.                               *)
ExpireStop(e) ==
  /\ ~At(e, "idle")
  /\ Fault
  /\ Goto(e, "idle")
  /\ doomed' = [doomed EXCEPT ![e] = {}]
  /\ UNCHANGED <<dir, runVars>>

----------------------------------------------------------------------------
(* Time: LEASE has passed since the marker was last written.               *)
LeaseLapses ==
  /\ Live(Marker)
  /\ Put(PendingKey, [Marker EXCEPT !.live = FALSE])
  /\ UNCHANGED <<pc, runVars, doomed, faults>>

RunStep(r) ==
  \/ SendStart(r) \/ ListDir(r)
  \/ StepAside(r) \/ Resume(r) \/ StartClean(r)
  \/ PurgeList(r) \/ PurgeDelete(r) \/ WriteMarker(r)
  \/ SkipChunk(r) \/ SpawnUpload(r)
  \/ \E k \in Seqs : PutChunk(r, k)
  \/ FinishUpload(r) \/ Commit(r) \/ RemoveMarker(r)

RunNext(r) ==
  \/ RunStep(r)
  \/ AlreadyArchived(r)
  \/ RefreshLease(r)
  \/ \E k \in Seqs : PutChunkUnacked(r, k)
  \/ CommitUnacked(r)
  \/ Stop(r)

CleanNext(c) ==
  \/ CleanList(c)
  \/ CleanSkip(c) \/ CleanAbandoned(c) \/ CleanReadMarkerFails(c)
  \/ CleanStrays(c) \/ CleanManifestGone(c)
  \/ CleanDelete(c) \/ CleanStop(c)

ExpireNext(e) ==
  \/ ExpireList(e) \/ ExpireManifest(e) \/ ExpireDelete(e) \/ ExpireStop(e)

Next ==
  \/ \E r \in Runs : RunNext(r)
  \/ \E c \in Cleaners : CleanNext(c)
  \/ \E e \in Expirers : ExpireNext(e)
  \/ LeaseLapses

Spec == Init /\ [][Next]_vars

----------------------------------------------------------------------------
(* Assumptions on the environment, each a condition on a step.             *)

(* A run that holds the lease: its marker is written, its manifest is not. *)
Leased(r) == pc[r] \in {"upload", "commit"}

(* The lease of a run that is alive does not lapse.                        *)
Punctual == (\E r \in Runs : Leased(r)) => ~LeaseLapses

PunctualSpec == Init /\ [][Next /\ Punctual]_vars

(* The marker of a run that is alive can be read.                          *)
MarkerReadable ==
  (\E r \in Runs : Leased(r)) => \A c \in Cleaners : ~CleanReadMarkerFails(c)

(* A run that decides about the directory, from its listing to its marker, *)
(* or commits: no lease covers what it has read, and this is what another  *)
(* process may not be at meanwhile.                                        *)
Deciding == {"readmarker", "purge", "purging", "mark"}

Clash(l, m) ==
  \/ l \in Deciding /\ m \in Deciding \cup {"commit", "unmark", "cleaning", "unlist", "expiring"}
  \/ l = "commit" /\ m \in {"list", "cleanmarker", "cleaning", "expiring"}

Quiet == \A x, y \in Procs : x # y => ~Clash(pc[x], pc[y])

QuietNext == Next /\ Punctual /\ MarkerReadable /\ Quiet'

QuietSpec == Init /\ [][QuietNext]_vars

(* A scheduler keeps starting the send, the send keeps going and time      *)
(* passes.                                                                 *)
FairSpec ==
  /\ Spec
  /\ \A r \in Runs : WF_vars(RunStep(r))
  /\ WF_vars(LeaseLapses)
----------------------------------------------------------------------------
(* Properties.                                                             *)

(* A listed backup has all of its chunks, each with its own bytes: from    *)
(* the moment a manifest is visible to the moment it is gone, whatever     *)
(* purge, clean, retention and crashed or resumed runs did in between.     *)
ListedIsComplete ==
  Committed # Absent =>
    \A k \in ChunkSet(Committed) : dir[k] = Content(Committed, k)

(* A resume is sound: every chunk beside a marker is the chunk of that     *)
(* number of the marker's own stream, so equal parameters and equal sizes  *)
(* mean equal bytes (the code compares nothing else).                      *)
ResumeMatches ==
  Marker # Absent =>
    \A k \in Seqs :
      dir[k] # Absent => k \in ChunkSet(Marker.p) /\ dir[k] = Content(Marker.p, k)

(* While a run holds the lease, what it counts as stored is stored: nobody *)
(* purges, sweeps, expires or overwrites the chunks of a send in progress. *)
UploadsIntact ==
  \A r \in Runs : Leased(r) =>
    \A k \in uploaded[r] : dir[k] = Content(par[r], k)

(* A second send of a snapshot steps aside: two runs never upload into the *)
(* directory at the same time.                                             *)
OneUploader == \A q, r \in Runs : Leased(q) /\ Leased(r) => q = r

(* `clean` removes nothing from a directory a live send is working in.     *)
CleanSparesSends ==
  [][\A c \in Cleaners : CleanDelete(c) => \A r \in Runs : ~Leased(r)]_vars

(* Clean never touches a backup that is listed: while a manifest is there, *)
(* the objects it names survive every clean.                               *)
CleanSparesBackups ==
  [][\A c \in Cleaners : CleanDelete(c) /\ Committed # Absent =>
       \A k \in ChunkSet(Committed) \cup {ManifestKey} : dir'[k] = dir[k]]_vars

(* A committed backup leaves the listing by retention only: no send purges *)
(* it, no clean sweeps it and no other run's manifest replaces it.         *)
UnlistedOnlyByRetention ==
  [][Committed # Absent /\ Committed' # Committed =>
       \E e \in Expirers : ExpireManifest(e)]_vars

(* What the directory means to a reader: no backup, the backup of a stream,*)
(* or a listed backup that cannot be read back (<<Absent>>).               *)
Stored ==
  CASE Committed = Absent -> <<>>
    [] Committed # Absent /\ ListedIsComplete -> <<Committed>>
    [] OTHER -> <<Absent>>

Abstract == INSTANCE Backup WITH stored <- Stored

(* The directory implements an atomic store of one backup: it goes from    *)
(* none to a whole backup in one step and back in one step, and every      *)
(* upload, purge, sweep and resume in between is invisible.                *)
ImplementsBackup == Abstract!Spec

(* A send that keeps being started, whatever crashes, lapses and changes   *)
(* of base or chunk size hit the earlier attempts, ends with the snapshot  *)
(* archived for good.                                                      *)
EventuallyArchived == <>[](Committed # Absent /\ ListedIsComplete)
=============================================================================
