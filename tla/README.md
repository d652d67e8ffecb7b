# TLA+ specifications of zfsbackup-rs

zfsbackup-rs archives ZFS snapshots in an S3 bucket. The bucket is its whole
database: there is no server and no lock, and any number of hosts and cron jobs
run `send`, `clean`, `retention` and `receive` against the same keys. These
modules say what each command does to the state it shares with the others, one
action per request or command, and what must hold whatever the order.

## 1. The system

| component | source | state it keeps | operations |
|---|---|---|---|
| snapshot directory | `cmd/send.rs`, `manifest.rs` | the objects under `zb/v1/<dataset>/<snapshot>/`: chunks, `pending.json` (the lease and the parameters of the attempt), `manifest.json` (the commit point) | `send`: list, read the marker, resume or purge, write the marker, upload, commit, remove the marker |
| garbage collection | `cmd/clean.rs` | none of its own: a listing and a list of doomed keys | list, decide per directory, delete |
| retention | `cmd/retention.rs` | the manifests and pins it has read, the doomed backups | read, plan (keep set), delete oldest first |
| base choice | `cmd/send.rs` (`auto_base`, `resolve_base_guid`) | none; reads manifests, local snapshots and bookmarks | pick the base of an incremental |
| manifests and pins | `cmd/mod.rs`, `cmd/pin.rs` | `manifest.json` of every directory, `pins/<guid>` | list and decode, pin, unpin |
| local pool | `cmd/send.rs`, `zfs.rs` | the hold `zb:default`, the bookmarks `zb_default_<guid>` | hold, release, bookmark, prune older bookmarks |
| restore | `cmd/receive.rs`, `zfs.rs` | the chain, the prefetch depth, fetches in flight, the target dataset | walk the chain, fetch ahead, write, abort |
| stream parser | `stream.rs`, `fletcher.rs` | phase, buffered bytes, running checksum | feed a slice, finish |
| upload loop, retries | `cmd/send.rs`, `cmd/mod.rs`, `store/mod.rs` | uploads in flight and their attempts, the CRC32C flag of the endpoint, the age of the lease | read, spawn, join, retry, fall back to plain PUTs, renew the lease |
| purge of a prefix | `store/mod.rs`, `store/admin.rs` | the versions and uploads listed and not erased yet | list in pages, erase one version, abort one upload |
| endpoint check | `store/admin.rs`, `cmd/check.rs` | the report, what it put in the bucket | probes of rights and of checksums |
| reports | `cmd/list.rs`, `cmd/verify.rs` | none | read manifests and chunks |

They interact through two shared stores only: the bucket (requests are atomic
per object, nothing is atomic over two) and the pool of the sending host (one
`zfs` command at a time, nothing over two). The hard behaviours are what happens
between two requests: another process's request, a crash, a lost answer, a
lapsed lease. The list of hazards in `PROJECT.json` names each at its line.

What makes each component correct:

- snapshot directory: a listed backup has all its chunks, each with its own
  bytes; a resume never adopts bytes of another stream; one uploader at a time;
  a snapshot sent again and again is archived in the end;
- upload loop: what is committed is whole, whatever uploads fail and whenever
  `zfs send` dies; the lease of a live run does not lapse; a run fails only for a
  reason outside it, and ends;
- purge: nothing that was there is left, nothing deleted shows again, no later
  write of others is taken;
- endpoint check: its report is true whichever requests fail, and it leaves
  nothing behind that it could have removed;
- clean: never a chunk of a listed backup, never a directory a send works in;
- retention: never breaks the chain of what it keeps, of a pin, or of the base of
  a send in progress; never expires the newest backup under a count policy;
- local pool: the snapshot is held while it is read; no hold is stranded; pruning
  leaves a base for the next incremental;
- restore: each stream gets its chunks in order, within the memory it promises;
- parser: the same verdict however the stream is sliced.

## 2. Modules

| module | what it is |
|---|---|
| `SnapshotDir` | one snapshot directory and every process that writes to it |
| `Backup` | what the directory promises a reader: an atomic store of at most one backup |
| `SnapshotDirInv` | the inductive invariant of `SnapshotDir`, by named parts |
| `SnapshotDirProofs` | theorems about `SnapshotDir`, for every value of the constants |
| `MCSnapshotDir` | small instances for TLC |
| `SendStream` | one run of `send_stream` from inside: uploads, retries, CRC32C, time |
| `SendStreamProofs`, `MCSendStream` | theorems about it; an instance of it |
| `Bucket` | `purge_prefix` in a bucket with versions and multipart uploads |
| `BucketProofs`, `MCBucket` | theorems about it; an instance of it |
| `Chain` | the manifests of a bucket, the chains they form, base choice and retention |
| `ChainProofs`, `MCChain` | theorems about it; small instances of it |
| `LocalPool` | holds and bookmarks of one dataset on the sending host |
| `LocalPoolProofs` | theorems about `LocalPool` |
| `Receive` | a restore: the chain, the prefetch, the `zfs receive` child, retries |
| `ReceiveProofs`, `MCReceive` | theorems about it; a small instance of it |
| `StreamParser` | the push parser of `zfs send` streams and fletcher4 |
| `StreamParserProofs`, `MCStreamParser` | theorems about it; an encoder and two streams for it |
| `Check` | `check`: the probes of an endpoint and the report |
| `CheckProofs`, `MCCheck` | theorems about it; an instance of it |

`Chain` treats a manifest as one object and a backup as gone when its manifest
is; that this is right is what `SnapshotDir` shows (`ImplementsBackup`: a
directory goes from no backup to a whole one in one step and back in one step).
`LocalPool` abstracts a bucket to the set of snapshots archived in it.
`SnapshotDir` in turn leaves out what happens inside one run and inside one
purge; these are `SendStream` and `Bucket`. What it takes from them it states as
assumptions: that the lease of a live run does not lapse (`Punctual`) is
`LeaseHeld` of `SendStream`, that a purge removes what was listed is
`PurgedIsGone` of `Bucket`.

### SnapshotDir and the code

`dir` maps the keys of a directory to objects. Keys are numbered in the order S3
lists them (chunks, `manifest.json`, `pending.json`). A chunk object is the
record of the base, the flags, the offset and the length that determine its
bytes; so two objects are equal exactly when their bytes are, and the code's
comparison of sizes (`send.rs:404`) is distinguishable from one of bytes. The
manifest is the parameters of its stream; the marker is the parameters and
whether its lease is live. `pc` says between which two requests a process is;
`existing`, `nread`, `inflight` and `uploaded` are the locals of `send_stream`
of the same names (`nread` is `seq`), `doomed` the keys a process still deletes.

Each action is one request with the local steps around it: `ListDir`
(`send.rs:288`), the reading of the marker with its three outcomes `StepAside`,
`Resume`, `StartClean` (302-338), `PurgeList` and `PurgeDelete` (`purge_prefix`),
`WriteMarker` (344), `RefreshLease`, `SkipChunk`, `SpawnUpload` and `PutChunk`
(the upload loop), `FinishUpload` (433-447), `Commit` and `RemoveMarker`
(207-222). `Stop` is an error return, a signal or a crash at any point: in each
case what the run knew is gone and what it put stays. `PutChunkUnacked` and
`CommitUnacked` are a PUT that landed while its answer was lost, after which
`retry` sends it again or the run dies. Every `clean` is `CleanList`, a decision
(`CleanSkip`, `CleanAbandoned`, `CleanReadMarkerFails`, `CleanStrays`,
`CleanManifestGone`), then `CleanDelete`s. Retention of this snapshot is
`ExpireList`, `ExpireManifest`, then `ExpireDelete`s. `LeaseLapses` is the
passing of `LEASE` since the marker was last written.

### SendStream and the code

`pc` is where `send_stream` is: up to its first marker (`Setup`: 302-344), at the
pipe (`ReadChunk`, `ReadEnd`: 372-387), renewing the marker (`RefreshLease`:
389-396), placing the chunk (`Skip`, `Spawn`, or `JoinOk`/`JoinErr` while there is
no room: 404-431), at the last uploads (`drain`: 433-437), waiting for zfs
(`Finish`: 439-447) or committing. `task` is the `JoinSet`: each member is
`retry` around `put_verified`, and its steps interleave with the run's. `Ask`
reads the shared flag `crc32c` once per attempt; an answer without the echo
clears it and puts the chunk again (`VerifiedAnswered`). A request fails with or
without having landed (`RequestFails`) or in a way that is not retried
(`RequestRefused`). A body is short, intact or damaged on its way. Time is
discrete: `age` is that of the instant in the marker, which is taken before the
marker is read (`spent` at `Setup`) or written; `since` that of `refreshed`.
Each place has a longest duration. `AdaptiveChunkSize` is the arithmetic of
`--adaptive-chunk-size`.

### Bucket and the code

`vers` has the versions and delete markers of each key, `at` standing for their
order and their id. `ListPage` is one turn of `list_object_versions`, `Erase`
one `delete_version` in the order of its result (in a page, versions before
markers), `ListUploadsPage` and `AbortUpload` the same for uploads. The rules of
the bucket (`AfterPut`, `AfterDelete`, `AfterErase`, what shows) are S3's and
marked external. `delete_version` sends no id for the version `null`
(admin.rs:644), so with versioning enabled it adds a delete marker: `Effect`.
Other clients put, delete, upload and complete at any moment. `since`, `split`,
`nulls` and `late` are history for the properties.

### Check and the code

One action per request of `Admin::validate` and of `probe_checksum`. `ep` is the
endpoint: whether it answers, what it allows, and how it treats each checksum
(verifies, verifies but fails at the end, echoes anything, ignores, refuses).
Up to `MaxFaults` requests fail though allowed, carried out or not. `report` is
`Report`, `probe` the `ChecksumProbeResult` of each algorithm. `loose` are the
things a request about them failed for, `misled` the checksums whose wrong part
met an error of another kind.

### Chain and the code

Snapshots are numbered by `createtxg` and archived in any order, so that the
order of creation and the order of `created_at` differ. `listed` has the
manifest of each archived snapshot with its base, archive time and the name the
dataset had. `SendAuto` is `auto_base`, `SendManual` is `--full` and `--from`,
`Commit` the manifest, the bookmark and the pruning. Retention reads the
manifests in its scope (`ExpireRead`), then the pins, and plans (`ExpirePlan`),
then deletes one backup at a time, oldest `createtxg` first. `KeepSet` is the
least closed set: the worklist of `keep_set` computes it.

### LocalPool and the code

One hold and one bookmark per snapshot, shared by every sender and bucket since
the tag and the name carry the constant `JOB`. The actions follow `run` of
`send.rs`: `Hold` (169), `ReadStream` or `ReadFails` (173-182), `Release` (185),
`Commit` (207), `Bookmark` (229), `ListMarks` (230), `Prune` (235, one
`zfs destroy` each). `Destroy` is the owner's `zfs destroy`, refused while held.

### Receive and the code

`pc` says where `run` and `apply` are: walking the chain (`Start`, `WalkBase`,
`WalkFails`, `WalkEnds`: 59-87), about to spawn the child (`Open`), taking the
front of the queue, waiting for it, writing it, waiting for the child, or
aborting. `depth` is the local `target`; the front of `inflight` stays there
until it has been written, so `inflight` is everything the process holds. A
fetch is a task of its own (`FetchOk`, `FetchFails`) and ends at any time.
`TakeReady` and `Waited` are the two branches of 209-213. Chunk sizes and the
budget are in MiB. The child is modelled from how the code uses it: it accepts a
full stream where there is no dataset and an incremental on its base, and
nothing while resumable state is left or another receive is running; what fails
midway may or may not leave state. `DropChild` is the drop of
`ReceiveProcess` on a failed fetch or a signal (`kill_on_drop`): the child may
still be `dying` when `zfs receive -A` comes, which is then refused and only
warned about. `Lose` removes or damages a chunk at any time.

### StreamParser and the code

A byte is a digit to `Base`, a word two bytes (four in the code), a 64-bit field
one word, a header ten words: large enough for slices to cut each of them.
`Read` is the read of a chunk from the pipe; `Payload`, `PartHeader`, `Record`
and `Refuse` are one turn each of the loop in `feed`; `Finish` is the end of the
pipe. Which error is reported is not told apart.

`Streams` is any set of well-formed streams. `WellFormed` is what the parser may
expect of `zfs send`, which is external: records one behind the other, a BEGIN
with the magic first and nowhere else, an END last, of which the END holds the sum
of what is before it and each other may hold its own. The streams of the run are
built by `Sent` of `MCStreamParser`, as `synth::Builder` does.

## 3. Assumptions on the schedule

The specifications named `Spec` allow every interleaving. The code does not
survive every interleaving, and the runs that show it are listed below; what it
does survive is stated by conditions on steps, each with its reason.

`QuietSpec` of `SnapshotDir` adds:

- `Punctual`: the lease of a run that is alive does not lapse. The marker is
  renewed every minute when a chunk has been read, and `LEASE` is five minutes.
- `MarkerReadable`: a clean can read the marker of a run that is alive;
  `clean.rs:65` counts a failed read as abandoned.
- `Quiet`: no two processes are at places that `Clash`. A run that decides about
  the directory, from its listing to its marker, clashes with another that decides,
  commits or removes its marker, with a clean that deletes, and with a retention run
  that is about to delete; a run that commits clashes with one that takes its
  listing, with a clean that has seen only a marker or deletes, and with a retention
  run that deletes chunks. Everything else may overlap: an upload may overlap
  anything, cleans and retention runs each other in any number, a clean may list the
  bucket and read manifests and markers while runs start. The cron entry in the
  repository's README, where `retention` follows `send` on one host, keeps to this
  (theorem `SoloIsQuiet`); nothing in the code enforces it.

No place can be left out of `Clash`. With one taken out, TLC finds in `dir_quiet`
(an instance with fewer faults, or two expirers, is enough):

| left out | violated |
|---|---|
| deciding, deciding | `OneUploader` |
| deciding, `commit` | `ListedIsComplete` |
| deciding, `unmark` | `CleanSparesSends` |
| deciding, `cleaning` | `CleanSparesSends` |
| deciding, `unlist` | `UploadsIntact` |
| deciding, `expiring` | `UploadsIntact` |
| `commit`, `list` | `ListedIsComplete` |
| `commit`, `cleanmarker` | `ListedIsComplete` |
| `commit`, `cleaning` | `CleanSparesSends` |
| `commit`, `expiring` | `UploadsIntact` |

`Punctual` is not a matter of course: `LeaseHeld` of `SendStream` shows it under
`Timely`, which bounds the sum of the longest durations by `LEASE`. The code sets
no such bound (a request may take 600 s and is tried seven times): see section 6.

`dir_purge_race` and `dir_clean_race` are two of these as runs of their own: they
drop `Quiet`, keep `Punctual`, and find a listed backup that loses chunks.

`OrderlySpec` of `Chain` is about any number of hosts that share a bucket, each
with datasets of its own (`retention.rs:39`), and run `retention` whenever they
like. Its conditions are on the start of a send and on pins:

- `PinsAside`: no backup is pinned that a retention run has condemned already.
- `SendsApart`: the sends of one dataset do not overlap. Two of them may pick one
  base, and only one can have the newest.
- `SendsFresh`: what a retention run has read or condemned, and another has deleted
  since, is not sent again before the first run ends.
- `SendsAppend`: a send that a retention run of its dataset overlaps has no base or
  lets the code choose where the newest backup is eligible.

The code enforces none of them. Each is needed: without it TLC finds
`PinsStayRestorable`, `BasesStayRestorable`, `LatestStays` and
`BasesStayRestorable` violated, in this order (the second with two senders). With one
sender and one retention run at a time, as in the cron entry, the second and third
hold of themselves (theorem `SoloIsOrderly`).

`ApartSpec` of `LocalPool` lets runs of one dataset overlap, to several buckets
too, except where they share a tag or a name:

- `HoldsApart`: no two runs are between the hold and the release of one snapshot.
  The lease keeps to one upload per bucket, but the run that is refused takes the
  hold before it asks (`send.rs:169`), and releases it.
- `PrunesApart`: no two runs are between their commit and the end of their pruning.

Neither is enforced. Without the first TLC finds `HeldWhileRead` violated, without
the second `PruneKeepsABase`, both in `local_runs`. One run at a time needs
neither (theorem `SoloIsApart`).

`Spec` of `SendStream`, `Bucket`, `Check`, `Receive` and `StreamParser` needs no
condition: their properties hold in every interleaving they allow.

Fairness. `FairSpec` of `SnapshotDir`: weak fairness of a run's own steps (the
process runs and its scheduler starts it again) and of the lapse of leases (time
passes). No fairness for faults, which are bounded by `MaxFaults`. `FairSpec` of
`LocalPool`: weak fairness of a run's steps, and strong fairness of `Begin` for
each snapshot and bucket: the owner sends a snapshot again as long as it is on
the pool, which is how the messages of `send.rs` and its README say an
interrupted send is finished. `FairSpec` of `Receive`: weak fairness of the
process, of its fetches (which end, with their retries bounded), of the child
and of the exit of a dropped child; strong fairness of starting a restore of an
intact full backup, since the operator does not give up on it. Failures and
signals are bounded by `MaxFaults`. `FairSpec` of `SendStream`: weak fairness of
the run and of each upload, that is, every request and command the run waits for
ends one way or another; the S3 client has a timeout for each request and `retry`
a last attempt.

## 4. Runs

| run | module | shows |
|---|---|---|
| `dir_quiet` | `MCSnapshotDir` | 2 sends, 1 clean, 2 retention runs, 3 faults; safety and the refinement of `Backup` |
| `dir_solo` | `MCSnapshotDir` | 1 send restarted for ever with any parameters; it ends archived |
| `dir_purge_race` | `MCSnapshotDir` | violation: a stale start purges a committed backup's chunks |
| `dir_clean_race` | `MCSnapshotDir` | violation: clean deletes chunks of a backup committed while it looked |
| `chain_orderly` | `MCChain` | 2 overlapping retention runs, every archive order of 3 snapshots, age and count policies, pins, destroyed snapshots |
| `chain_renamed` | `MCChain` | violation: scoping by name orphans a renamed dataset's incrementals |
| `local_runs` | `LocalPool` | 2 overlapping senders, 1 bucket, 2 snapshots, 2 faults |
| `receive_retried` | `MCReceive` | 2 snapshots with any manifests, windows of 0 and 3, 2 faults; safety, the end of every run, the restore in the end |
| `send_stream` | `MCSendStream` | a run of 3 chunks with 2 uploads in flight, 1 retry, an earlier attempt's chunk, 4 kinds of endpoint, a `zfs send` that dies, time; the lease, the commit, memory, reasons to fail, the end |
| `bucket_purge` | `MCBucket` | 2 purges of 2 keys in pages of 2, any history of 3 and 1 versions, 3 modes of versioning, 1 request of another client, failures |
| `check_endpoint` | `MCCheck` | every kind of endpoint, 2 failing requests |
| `parser_slices` | `MCStreamParser` | 2 streams, 2 byte orders, cut anywhere or any one byte changed to any other, 2 lengths of slices |

Each violation run checks one sentence of the repository's own documentation or
comments; the finding in `PROJECT.json` quotes it.

Bounds. `dir_quiet`: three ways to cut the stream, chosen so that chunk sizes
coincide while bytes differ (`MCSnapshotDir`), two or three chunks, two uploads
in flight, three faults. Of the clashes of section 3, that of a deciding run with
one about to unlist shows only with two retention runs; with two cleans as well
(and one fault) it holds too. `chain_orderly`: a chain of three
is the shortest with a middle; three archive times let every snapshot be
archived once and one be archived again. The policies are the count and the age
policy alone and together, and the one that would keep nothing, which must be
refused; the cutoff is any archive time. The retention runs are symmetric. With two
senders of two datasets (`Senders = {s1, s2}`, `DatasetOf <- TwoDatasets`,
`NamesOf <- KeptBoth`) it holds as well. `local_runs`: two
senders upload two snapshots beside each other, and the bookmark of either is
old for the other; two faults are a stranded hold and a release that fails again.
With three snapshots, so that two bookmarks are old at once, the safety
properties hold as well, and one sender keeps the liveness. `receive_retried`: two snapshots make every
shape of chain (full, incremental, missing, circular, to itself); streams of 4
and 3 chunks are longer than the window; 64 MiB lets the window decide and 512
MiB the floor. Two faults are enough for a kill that leaves state and a failure
in the retry. `parser_slices`: slices of 23 bytes cut headers of 20 and leave
half a word in a payload that a slice of 2 then continues. `send_stream`: with
three chunks and room for two the third waits; one retry tells a first failure
from a last one; one chunk fails, so that the others go on beside it; every
duration is 1 and `Lease` is 7, the least that `Timely` allows with them.
`bucket_purge`: a key of three versions does not fit a page of two, so its
entries are split and the other key's are not; the second purge meets what the
first left when it failed. With two requests of others it holds as well (that run
takes longer than one should). `check_endpoint`: two failures make a request and
the one that cleans up after it fail. The theorems below have none of these
bounds.

Deadlock is checked in the `dir` runs. It is off in `chain` runs, where a bucket
whose backups are all expired and whose snapshots are all destroyed has no next
step, in `local_runs`, where the owner may destroy every snapshot, and in
`parser_slices`, `send_stream`, `bucket_purge` and `check_endpoint`, since a
stream, a run, a purge and a check end.

## 5. Theorems

All of them are for any values of the constants that satisfy the module's named
`ASSUME`; `PROJECT.json` lists them. Each `Invariance` proves an inductive
invariant `IInv` of the specification, one lemma per action with one step per
part; the theorems named after properties follow from it.

**`SnapshotDirProofs`**, for any number of processes, parameters, chunks, uploads
in flight and faults: `TypeCorrect` (`Spec => []TypeOK`, with no assumption on
the schedule); under `QuietSpec`: `Invariance`, `ListedBackupsComplete`,
`SendsProtected`, `OneSendUploads`, `ResumesSound`, `CleanSafeForSends`,
`CleanSafeForBackups` (what `dir_clean_race` shows to fail without `Quiet`),
`OnlyRetentionUnlists`, and `Refinement` (`QuietSpec => ImplementsBackup`); and
`SoloIsQuiet`: one process at a time meets `Quiet` and `MarkerReadable`.
`ListedIsComplete` is not inductive: that the manifest a run puts is complete
rests on what the run counts as stored being stored (`UploadsIntact`), which
rests on nobody purging or sweeping while it holds the lease (`TakeoverExclusive`,
`CleanConfined`, `ExpireConfined`), on its resume having adopted only chunks of
its own stream (`MarkMatches`, from `ResumeMatches` and `ListingSound`), and on
the marker being its own (`LeaseHeld`). `IInv` groups these: `ControlInv` who may
be where, `LeaseInv` what the holder of the lease knows, `StartInv` what a run
between its listing and its marker knows, `DirInv` the objects, `SweepInv` what
clean and retention may still delete. The refinement follows since, under
`IInv`, `Stored` changes in `Commit` and `ExpireManifest` only.

**`SendStreamProofs`**, for any number of chunks, uploads, retries and durations:
`TypeCorrect`, `Invariance`, `CommitsWhole`, `FailuresExplained`,
`MemoryBounded`; `LeaseKept` (`Timely => (Spec => []LeaseHeld)`); `RunsAdvance`;
and `AdaptiveWithinBounds` about the arithmetic of chunk sizes. That the count of
uploaded chunks says that all are there needs that a chunk below `seq` is counted
or in flight (`CountInv`), and what is counted is whole unless the stream was cut
(`BodyInv`), which the exit status then tells (`ControlInv`). `LeaseKept` adds
`AgeInv`: how old the stamp can be at each place, as a sum of durations.
`RunsAdvance` is the safety half of `RunEnds`: `Stage` and `Pending` count what is
ahead of the run and of each upload, and every step leaves less of one and no more
of the others, except a moment of waiting, of which there are at most `Patience`
between two of them. So no retry, renewal or join can go on for ever; that a run
does not stop half-way needs the fairness and is model-checked.

**`BucketProofs`**, for any keys, versions, page size and requests of others:
`TypeCorrect`, `Invariance`, `PurgeIsComplete`, `LateWritesKept`,
`NothingReappears`. `CoverInv` says that what was there at the start is still to
be listed, on the list, or a null version below a newer one that stays;
`HiddenInv` that what is older than an entry on the list is on it from the same
page, or hidden by a version that is not on it; so the order in a page (versions
first) is what keeps `StaysHidden`.

**`ChainProofs`**, for any snapshots, datasets, policies and archive times and any
number of senders and retention runs, of `OrderlySpec` under `Usual` (no dataset
renamed, no policy of `--keep-last 0` with an age, which the code accepts):
`TypeCorrect`, `Invariance`, `KeptRestorable`, `PinsRestorable`, `BasesRestorable`,
`LatestKept`; and `SoloIsOrderly`. `DoomInv`: what a retention run deletes is
nobody's base but its own, and is never the newest of a dataset; this holds of each
run separately, so what another one deletes does not matter. A send that overlaps
has the newest backup as its base (`BaseIsLatest`), so what it commits is built on
nothing that is doomed. `SeenInv` carries this from the reading of the manifests to
the plan: what was read may be gone by then, but not be archived anew, and since the
newest of a dataset stays, nothing that was read is newer than what is listed.

**`LocalPoolProofs`**, for any number of runs, buckets and snapshots: `LocalTypes`
on every schedule; `HeldThroughout`, `OwnBaseKept` and, with one bucket,
`BaseKept` under `ApartSpec`; `SoloIsApart`. Only the drop and the release of a
run take a hold, that on its own snapshot (`HoldTaken`), which `HoldsApart` keeps
apart from any that is being read. What is said of bookmarks needs `BaseInv`: from
its commit on, a run's snapshot is what its bucket holds last (so retention spares
it), and from its bookmark on it is marked (so what is pruned, which never
includes it, leaves a base); `PrunesApart` keeps the commit and the pruning of
another run out of that time. `BaseKept` needs the one bucket (section 6).

**`ReceiveProofs`**, for any snapshots, streams and windows, finitely many
snapshots: `TypeCorrect`, `Invariance`, `AppliesUnbroken`, `FeedsInOrder`,
`PrefetchBounded`, `RunsAdvance`. On the walk each link is the base of the one before
(`ChainInv`), and a manifest met twice ends it; the queue is numbered from the
next chunk on, is empty only when the stream is at its end, and is no longer than
the ceiling (`QueueInv`); what is written is the front, checked (`FrontInv`). `AppliesUnbroken` also says
what a restore that fails midway leaves: the streams before the one that failed, in
order, and nothing else. A child that an earlier restore dropped may still be
there, and may even apply its stream, while this one runs. `TargetInv` says that it
cannot come between: while one is `dying`, no child of this restore is accepted,
and from the second stream on one that is dying has not got its whole stream.
`RunsAdvance`: in the order of `StreamsAhead`, then `ChunksAhead`, then
`OthersAhead` (fetches, the child, one that was dropped, faults) every step of a
restore leaves less; a walk is no longer than there are snapshots, whatever the
manifests name.

**`CheckProofs`**, for any number of failing requests: `Invariance`,
`TrueReports`, `LeavesNothing`. `RightsInv`: what has been tried with no error is
allowed; `KnownInv`: each fact about a checksum is so or its probe was misled;
`SmoothInv`: with no failure the probe of an endpoint that verifies goes its way;
`LeftInv`: what is in the bucket is what the next request removes, or a request
about it failed.

**`StreamParserProofs`**, for any well-formed streams, slices and number of bytes
(`Base`): `TypeCorrect`, `Invariance`, `SumsTheStream`, `JudgesByLength`,
`SealedDamageCaught`, and `UpdateConcat`, `UpdateTellsApart` about fletcher4.

- *The sum.* `UpdateConcat`: the sum of two pieces of whole words is the sum of the
  second that starts with that of the first. It is induction over data, which the
  library's theorems cannot be used for here (they take an operator); the lemma
  `Induction` derives it for a set of naturals from a fact about finite sets: an
  injection of one into itself is onto. `Update` is a recursive function;
  `RunExists` and `RunUnique` say that it has one value. `SumInv`: what is summed
  ends at a whole word and a payload fills its last one, so nothing is padded
  midway. From these `SumsTheStream` follows for damaged streams too.
- *The verdict.* `InStep`: the parser is at a record of the stream, or in its
  payload, and has taken the sender's byte order. It stays so while no type or
  length is damaged (`TrackInv`). So it refuses no good stream, and has read the
  END exactly when everything has come (`JudgeInv`, `EndInv`); `MagicShowsOrder`
  says that the magic in one byte order is not that in the other.
- *Damage.* `UpdateTellsApart`: sums of pieces that differ in one word differ in
  their first component. So the first record after the damaged byte that is sealed
  (holds a sum, before and after the damage) is refused (`DamagedSum`,
  `DamagedEmbedded`), and the END is not reached (`CatchInv`).

`SealedDamageCaught` is `DamageCaught` under `Covered`: every record but the BEGIN
is sealed, and the damage leaves alone what the BEGIN steers the parser by (magic,
type, length) and makes a BEGIN of no other record; or at least the END is sealed,
and the damage leaves all types and lengths alone. Of the 1044 ways to damage a
stream of `parser_slices`, 902 are covered. The others send the parser astray, to
read a payload as a header; that it is then refused depends on the bytes it finds,
which TLC tries on the streams of the run.

Model-checked and not proved: liveness (`EventuallyArchived`, `HoldsReleased`,
`RunEnds`, `RestoredInTheEnd`), which is out of the prover's reach (of `RunEnds`
the well-founded order is proved, `RunsAdvance`; that some step is always possible
and taken is ENABLED and fairness), and `DamageCaught` where `Covered` does not
hold.

## 6. Limits the models make visible

Of `send` and the purge:

- `Timely` is not ensured by the code. `refreshed_at` is taken before the marker
  is read and another attempt's chunks are purged (`send.rs:303`), the marker is
  renewed only when a chunk has been read (389), not while uploads are waited for
  at the end or the manifest is written (433), and one request may take longer
  than `LEASE`. Past it, another host takes over a directory whose owner is alive.
- A purge is made only where the current listing is not empty (`send.rs:339`);
  where all is hidden below delete markers, old versions stay.
- With versioning enabled a null version stays below a delete marker after the
  purge (`admin.rs:644`), though `purge_prefix` says that it removes "every object
  version" (`mod.rs:287`): the exception in `PurgedIsGone`. The plain delete sent
  for it also hides what another client has put meanwhile: the exception in
  `LateWritesSurvive`.
- A key whose entries come in two pages may show an older body while the purge
  goes on, since pages are erased in the order read: the exception (`split`) in
  `StaysHidden`. If the purge fails just then, a later resume with the same
  parameters compares sizes only (`send.rs:404`).

Of retention and the local pool; each is found by TLC when the condition named is
dropped:

- Backups are expired oldest first, so a retention run that stops after a full
  backup leaves doomed incrementals listed without their base, which `receive`
  refuses. `KeptStayRestorable` is about what the policy keeps, and holds.
- Two senders of one snapshot share one hold, and the first to end releases it
  while the other reads (`HoldsApart` dropped): `HeldWhileRead`.
- Two runs past their commit prune each other's bookmarks (`PrunesApart` dropped):
  `PruneKeepsABase`.
- Two buckets (`Dests = {d1, d2}` in `local_runs.cfg`) share one bookmark name: a send to one prunes
  the base of the other, `PruneKeepsABase`.

Of restores, the parser and check:

- `WithinBudget` states what `prefetch_ceiling` guarantees: 512 MiB, or two
  chunks if these are larger (one with `--window 1`). The repository's README
  says "never holds more than ~512 MiB regardless of the sender's chunk size",
  which the floor of two does not keep for chunks above 256 MiB.
- The abort after a failed fetch may come while the dropped child is still
  there, is then refused, and leaves state that makes the next restore fail;
  that failure clears it. So `RestoredInTheEnd` holds, but not at the first
  retry, and only once damaged streams are not tried any more.
- A restore that failed in a later stream of a chain has applied the earlier
  ones; the same command is then refused by zfs for good.
- The parser accepts a stream cut between two records, and an empty one: that
  `send` does not commit such a stream rests on the exit status of `zfs send`
  (`CommittedIsWhole` of `SendStream`).
- `DamageCaught` holds of the streams of the run, not of any stream: a byte whose
  change makes the checksum of the last record all zero goes unnoticed (zero stands
  for none), a record turned into a BEGIN is not verified, and a length that is
  wrong may lead to bytes that look like records. `Covered` leaves these out.
- Any S3 error in answer to the part with a wrong sum counts as its refusal
  (`admin.rs:497`), a 503 by chance included: `misled` in `ReportIsTrue`. What the
  checksum probes leave behind is logged and not in the report (`admin.rs:879`).

## 7. Not modelled

- A LIST of the directory in `SnapshotDir` is one step. S3 pages it; keys put
  meanwhile may or may not show. (The listing of versions is paged in `Bucket`.)
- A PUT of a killed run that lands after the run's death.
- A marker whose JSON cannot be decoded (`send.rs:333`, `clean.rs:61`), which
  only a foreign writer can leave; `--dry-run`, which deletes nothing.
- Sizes in bytes, hashes, CRC32C: a chunk object carries what determines its
  bytes. Corruption in the store is modelled where it matters, in `Receive`, and
  on the way to it in `SendStream`.
- `receive --force`, which only changes what zfs accepts; compound streams
  (`send` never asks for one), whose sub-streams the parser sums without a reset;
  the statistics and the stored fields of a BEGIN record.
- The whole-bucket grouping of `clean`: directories are independent, and the
  model has one.
- `list` and `verify` (reports: each reads once and writes nothing), the signing
  of requests and the parsing of XML, the command line and the parsing of sizes,
  ages and names: no state of their own, data in and data out.

## 8. Plan

1. (done) `SnapshotDir`, its abstract specification, its proofs; `LocalPool` and
   its proofs; `Chain`; `Receive`; `StreamParser`.
2. (done) `SendStream` (the lease in discrete time, attempts, classification, the
   shared CRC32C flag, chunk sizes), `Bucket`, `Check`, each with its proofs.
3. (done) Theorems about `Chain`, `Receive` and `StreamParser`.
4. `Receive` over a bucket whose retention deletes manifests between the listing
   and the fetches, composed with `Chain`.
5. (done) Overlapping retention runs, and the conditions under which they lose
   nothing.
6. `SnapshotDir` with the clock of `SendStream` in place of `Punctual`.
