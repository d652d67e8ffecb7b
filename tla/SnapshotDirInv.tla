---------------------------- MODULE SnapshotDirInv ----------------------------
(***************************************************************************)
(* The inductive invariant of SnapshotDir under QuietSpec, by parts: why   *)
(* ListedIsComplete and UploadsIntact hold.                                *)
(***************************************************************************)
EXTENDS SnapshotDir

(* A run that holds the lease owns the marker, and nothing is listed yet   *)
(* but its own manifest when a commit's answer was lost.                   *)
LeaseHeld ==
  \A r \in Runs : Leased(r) =>
    /\ Marker = [p |-> par[r], live |-> TRUE]
    /\ Committed = Absent \/ (At(r, "commit") /\ Committed = par[r])

Starting(r) == pc[r] \in {"list", "readmarker", "purge", "purging", "mark"}

(* Its chunks: what it has read is uploaded or in flight.                  *)
UploadProgress ==
  /\ \A r \in Runs : At(r, "idle") \/ Starting(r) =>
       nread[r] = 0 /\ uploaded[r] = {} /\ inflight[r] = {}
  /\ \A r \in Runs : Leased(r) =>
       /\ nread[r] \in 0 .. NumChunks(par[r])
       /\ \A k \in Seqs : k \in uploaded[r] \cup inflight[r] <=> k < nread[r]
       /\ At(r, "commit") => nread[r] = NumChunks(par[r]) /\ inflight[r] = {}

StartsUnlisted == \A r \in Runs : Starting(r) => Committed = Absent

NoneLeased == \A r \in Runs : ~Leased(r)

(* A run clears or takes over the directory, or removes its marker, only   *)
(* when nobody uploads to it.                                              *)
TakeoverExclusive ==
  \A r \in Runs : pc[r] \in {"purge", "purging", "mark", "unmark"} => NoneLeased

(* What a run's listing shows is still there.                              *)
ListingSound ==
  /\ \A r \in Runs : pc[r] \in {"readmarker", "mark", "upload"} =>
       \A k \in Seqs : existing[r][k] # Absent => dir[k] # Absent
  /\ \A r \in Runs : At(r, "readmarker") /\ existing[r] = NoListing => Listed = {}

PurgeCovers ==
  \A r \in Runs : At(r, "purging") => existing[r] = NoListing /\ Listed \subseteq doomed[r]

(* What is there when a run writes its marker is of the run's own stream.  *)
MarkMatches ==
  \A r \in Runs : At(r, "mark") =>
    \A k \in Seqs :
      dir[k] # Absent => k \in ChunkSet(par[r]) /\ dir[k] = Content(par[r], k)

CleanConfined ==
  \A c \in Cleaners :
    /\ At(c, "cleanmarker") => Committed = Absent
    /\ At(c, "cleaning") =>
         /\ NoneLeased
         /\ Committed # Absent =>
              doomed[c] \cap (ChunkSet(Committed) \cup {ManifestKey}) = {}

ExpireConfined ==
  \A e \in Expirers :
    /\ At(e, "unlist") => \A r \in Runs : ~At(r, "upload")
    /\ At(e, "expiring") => Committed = Absent /\ NoneLeased

(* Grouped by what they speak of.                                          *)
ControlInv == OneUploader /\ StartsUnlisted /\ TakeoverExclusive
LeaseInv == LeaseHeld /\ UploadProgress /\ UploadsIntact
StartInv == ListingSound /\ PurgeCovers /\ MarkMatches
DirInv == ResumeMatches /\ ListedIsComplete
SweepInv == CleanConfined /\ ExpireConfined

IInv == TypeOK /\ Quiet /\ ControlInv /\ LeaseInv /\ StartInv /\ DirInv /\ SweepInv
=============================================================================
