--------------------------- MODULE SnapshotDirProofs ---------------------------
(***************************************************************************)
(* Proofs about SnapshotDir, for every number of processes, every set of   *)
(* stream parameters and every bound.                                      *)
(***************************************************************************)
EXTENDS SnapshotDirInv, TLAPS

----------------------------------------------------------------------------
(* Facts about the constants.                                              *)

(* The keys of a directory: the chunks, the manifest and the marker.       *)
LEMMA KeyFacts ==
  /\ Keys = Seqs \cup {ManifestKey, PendingKey}
  /\ ManifestKey \notin Seqs
  /\ PendingKey \notin Seqs
  /\ ManifestKey # PendingKey
  /\ Seqs \subseteq Nat
  /\ Keys \subseteq Nat
BY BoundsAssumption DEF Keys, Seqs, ManifestKey, PendingKey

(* The chunks of a stream have keys, sizes and contents.                   *)
LEMMA ChunkFacts ==
  ASSUME NEW p \in Params
  PROVE  /\ NumChunks(p) \in Nat \ {0}
         /\ NumChunks(p) <= MaxChunks
         /\ ChunkSet(p) \subseteq Seqs
         /\ \A k \in Seqs : k \in ChunkSet(p) <=> k < NumChunks(p)
         /\ \A k \in ChunkSet(p) :
              /\ Content(p, k) \in Contents
              /\ Content(p, k) # Absent
              /\ ChunkLen(p, k) \in Nat
<1>1. NumChunks(p) \in 1 .. MaxChunks /\ \A k \in ChunkSet(p) : ChunkLen(p, k) \in Nat
  BY ParamsAssumption
<1>2. \A k \in ChunkSet(p) : Content(p, k) \in Contents
  BY DEF Contents
<1>3. QED
  BY <1>1, <1>2, BoundsAssumption, AbsentAssumption DEF ChunkSet, Seqs

(* Every chunk object has a size.                                          *)
LEMMA LenFacts == ASSUME NEW o \in Contents PROVE o.len \in Nat
<1>1. PICK p \in Params : \E k \in ChunkSet(p) : o = Content(p, k)
  BY DEF Contents
<1>2. PICK k \in ChunkSet(p) : o = Content(p, k)
  BY <1>1
<1>3. o.len = ChunkLen(p, k)
  BY <1>2 DEF Content
<1>4. QED
  BY <1>3, ChunkFacts

(* Equal parameters mean equal chunks.                                     *)
LEMMA SameStreamFacts ==
  ASSUME NEW p \in Params, NEW q \in Params, SameStream(p, q)
  PROVE  /\ ChunkSet(p) = ChunkSet(q)
         /\ \A k \in Seqs : Content(p, k) = Content(q, k)
BY DEF SameStream, ChunkSet, Content, ChunkLen, NumChunks, Total

----------------------------------------------------------------------------
(* Type correctness.                                                       *)

(* An empty directory and idle processes are of their types.               *)
LEMMA TypeInit == Init => TypeOK
BY KeyFacts, BoundsAssumption
   DEF Init, TypeOK, Committed, Marker, Pcs, NoListing, Procs

(* A listing gives a size for every object there is.                       *)
LEMMA ListingType == TypeOK => Listing \in [Keys -> Nat \cup {Absent}]
<1> SUFFICES ASSUME TypeOK, NEW k \in Keys, dir[k] # Absent, k \in Seqs
             PROVE  dir[k].len \in Nat
  BY DEF Listing
<1> QED
  BY LenFacts DEF TypeOK

(* Deleting keys keeps the types.                                          *)
LEMMA DeleteType ==
  ASSUME TypeOK, NEW x \in Procs, NEW here, NEW there \in Pcs, here \in Pcs,
         DeleteNext(x, here, there), x \in Runs => here # "idle" /\ there # "idle",
         UNCHANGED <<runVars, faults>>
  PROVE  TypeOK'
BY KeyFacts
   DEF TypeOK, DeleteNext, Delete, Goto, At, runVars, Committed, Marker, Procs

(* So does the end of a run.                                               *)
LEMMA ExitType ==
  ASSUME TypeOK, NEW r \in Runs, Exit(r), faults' \in 0 .. MaxFaults,
         dir' = dir \/ dir' = [dir EXCEPT ![PendingKey] = Absent]
  PROVE  TypeOK'
<1>1. /\ dir' \in [Keys -> Contents \cup Params \cup Markers \cup {Absent}]
      /\ \A k \in Seqs : dir'[k] \in Contents \cup {Absent}
      /\ Committed' \in Params \cup {Absent}
      /\ Marker' \in Markers \cup {Absent}
  BY KeyFacts DEF TypeOK, Committed, Marker
<1>2. /\ pc' \in [Procs -> Pcs]
      /\ \A q \in Runs :
           IF pc'[q] = "idle" THEN inflight'[q] = {}
           ELSE par'[q] \in Params /\ inflight'[q] \subseteq ChunkSet(par'[q])
  BY DEF TypeOK, Exit, Goto, Procs, Pcs
<1>3. existing' \in [Runs -> [Keys -> Nat \cup {Absent}]]
  BY DEF TypeOK, Exit, NoListing
<1>4. nread' \in [Runs -> 0 .. MaxChunks]
  BY BoundsAssumption DEF TypeOK, Exit
<1>5. QED
  BY <1>1, <1>2, <1>3, <1>4 DEF TypeOK, Exit, Procs

(* Every action keeps every variable in its type.                          *)
LEMMA TypeStep == TypeOK /\ [Next]_vars => TypeOK'
<1> SUFFICES ASSUME TypeOK, [Next]_vars PROVE TypeOK'
  OBVIOUS
<1>1. ASSUME NEW r \in Runs, RunNext(r) PROVE TypeOK'
  <2>1. CASE AlreadyArchived(r)
    BY <2>1 DEF AlreadyArchived, vars, runVars, TypeOK, Committed, Marker
  <2>2. CASE SendStart(r)
    BY <2>2 DEF SendStart, TypeOK, Goto, At, Committed, Marker, Procs, Pcs
  <2>3. CASE ListDir(r)
    BY <2>3, ListingType DEF ListDir, TypeOK, Goto, At, Committed, Marker, Procs, Pcs
  <2>4. CASE StepAside(r)
    BY <2>4, ExitType DEF StepAside, TypeOK
  <2>5. CASE Resume(r)
    BY <2>5 DEF Resume, runVars, TypeOK, Goto, At, Committed, Marker, Procs, Pcs
  <2>6. CASE StartClean(r)
    BY <2>6 DEF StartClean, runVars, TypeOK, Goto, At, Committed, Marker, Procs, Pcs
  <2>7. CASE PurgeList(r)
    BY <2>7 DEF PurgeList, Listed, NoListing, TypeOK, Goto, At, Committed, Marker, Procs, Pcs
  <2>8. CASE PurgeDelete(r)
    <3>1. r \in Procs /\ "purging" \in Pcs /\ "mark" \in Pcs
      BY DEF Procs, Pcs
    <3>2. DeleteNext(r, "purging", "mark") /\ UNCHANGED <<runVars, faults>>
      BY <2>8 DEF PurgeDelete
    <3>3. QED
      BY <3>1, <3>2, DeleteType
  <2>9. CASE WriteMarker(r)
    BY <2>9, KeyFacts
       DEF WriteMarker, Put, Markers, runVars, TypeOK, Goto, At, Committed, Marker, Procs, Pcs
  <2>10. CASE RefreshLease(r)
    BY <2>10, KeyFacts
       DEF RefreshLease, HasChunk, Put, Markers, runVars, TypeOK, At, Committed, Marker, Procs, Pcs
  <2>11. CASE SkipChunk(r)
    <3>1. par[r] \in Params /\ nread[r] \in Nat /\ nread[r] < NumChunks(par[r])
      BY <2>11, BoundsAssumption DEF SkipChunk, HasChunk, At, TypeOK
    <3>2. nread[r] \in Seqs /\ nread[r] + 1 \in 0 .. MaxChunks
      BY <3>1, ChunkFacts, BoundsAssumption DEF Seqs
    <3>3. QED
      BY <2>11, <3>2 DEF SkipChunk, TypeOK, Committed, Marker
  <2>12. CASE SpawnUpload(r)
    <3>1. par[r] \in Params /\ nread[r] \in Nat /\ nread[r] < NumChunks(par[r])
      BY <2>12, BoundsAssumption DEF SpawnUpload, HasChunk, At, TypeOK
    <3>2. nread[r] \in Seqs /\ nread[r] + 1 \in 0 .. MaxChunks
      BY <3>1, ChunkFacts, BoundsAssumption DEF Seqs
    <3>3. nread[r] \in ChunkSet(par[r]) /\ pc[r] # "idle"
      BY <2>12, <3>1, <3>2, ChunkFacts DEF SpawnUpload, HasChunk, At
    <3>4. QED
      BY <2>12, <3>1, <3>2, <3>3 DEF SpawnUpload, TypeOK, Committed, Marker
  <2>13. ASSUME NEW k \in Seqs, PutChunk(r, k) \/ PutChunkUnacked(r, k) PROVE TypeOK'
    <3>1. par[r] \in Params /\ k \in inflight[r] /\ pc' = pc /\ par' = par
      BY <2>13 DEF PutChunk, PutChunkUnacked, At, TypeOK, runVars
    <3>2. Content(par[r], k) \in Contents /\ dir' = [dir EXCEPT ![k] = Content(par[r], k)]
      BY <2>13, <3>1, ChunkFacts DEF PutChunk, PutChunkUnacked, At, Put, TypeOK
    <3>3. faults' \in 0 .. MaxFaults
      BY <2>13, BoundsAssumption DEF PutChunk, PutChunkUnacked, Fault, TypeOK
    <3>4. /\ existing' = existing /\ nread' = nread /\ doomed' = doomed
          /\ inflight' \in [Runs -> SUBSET Seqs]
          /\ \A q \in Runs : inflight'[q] \subseteq inflight[q]
          /\ uploaded' \in [Runs -> SUBSET Seqs]
      <4>1. CASE PutChunk(r, k)
        BY <4>1 DEF PutChunk, TypeOK
      <4>2. CASE PutChunkUnacked(r, k)
        BY <4>2 DEF PutChunkUnacked, runVars, TypeOK
      <4>3. QED
        BY <2>13, <4>1, <4>2
    <3>5. \A q \in Runs :
            IF pc'[q] = "idle" THEN inflight'[q] = {}
            ELSE par'[q] \in Params /\ inflight'[q] \subseteq ChunkSet(par'[q])
      BY <3>1, <3>4 DEF TypeOK
    <3>6. QED
      BY <3>1, <3>2, <3>3, <3>4, <3>5, KeyFacts DEF TypeOK, Committed, Marker
  <2>14. CASE FinishUpload(r)
    BY <2>14 DEF FinishUpload, runVars, TypeOK, Goto, At, Committed, Marker, Procs, Pcs
  <2>15. CASE Commit(r) \/ CommitUnacked(r)
    <3>1. par[r] \in Params /\ dir' = [dir EXCEPT ![ManifestKey] = par[r]]
      BY <2>15 DEF Commit, CommitUnacked, Put, At, TypeOK
    <3>2. faults' \in 0 .. MaxFaults
      BY <2>15, BoundsAssumption DEF Commit, CommitUnacked, Fault, TypeOK
    <3>3. pc' \in [Procs -> Pcs] /\ \A q \in Runs : pc'[q] # "idle" <=> pc[q] # "idle"
      BY <2>15 DEF Commit, CommitUnacked, Goto, At, TypeOK, Procs, Pcs
    <3>4. UNCHANGED <<runVars, doomed>>
      BY <2>15 DEF Commit, CommitUnacked
    <3>5. QED
      BY <3>1, <3>2, <3>3, <3>4, KeyFacts DEF TypeOK, Committed, Marker, runVars
  <2>16. CASE RemoveMarker(r)
    <3>1. faults' \in 0 .. MaxFaults
      BY <2>16, BoundsAssumption DEF RemoveMarker, Fault, TypeOK
    <3>2. QED
      BY <2>16, <3>1, ExitType DEF RemoveMarker, Delete
  <2>17. CASE Stop(r)
    <3>1. faults' \in 0 .. MaxFaults
      BY <2>17, BoundsAssumption DEF Stop, Fault, TypeOK
    <3>2. QED
      BY <2>17, <3>1, ExitType DEF Stop
  <2>18. QED
    BY <1>1, <2>1, <2>2, <2>3, <2>4, <2>5, <2>6, <2>7, <2>8, <2>9, <2>10, <2>11, <2>12,
       <2>13, <2>14, <2>15, <2>16, <2>17 DEF RunNext, RunStep
<1>2. ASSUME NEW c \in Cleaners, CleanNext(c) PROVE TypeOK'
  <2>1. CASE CleanDelete(c)
    <3>1. c \in Procs /\ c \notin Runs /\ "cleaning" \in Pcs /\ "idle" \in Pcs
      BY ProcsAssumption DEF Procs, Pcs
    <3>2. DeleteNext(c, "cleaning", "idle") /\ UNCHANGED <<runVars, faults>>
      BY <2>1 DEF CleanDelete
    <3>3. QED
      BY <3>1, <3>2, DeleteType
  <2>2. CASE ~CleanDelete(c)
    <3>1. dir' = dir /\ UNCHANGED runVars
      BY <1>2, <2>2
         DEF CleanNext, CleanList, CleanSkip, CleanAbandoned, CleanReadMarkerFails, CleanStrays,
             CleanManifestGone, CleanStop, CleanLeave
    <3>2. pc' \in [Procs -> Pcs] /\ \A r \in Runs : pc'[r] = pc[r]
      BY <1>2, <2>2, ProcsAssumption
         DEF CleanNext, CleanList, CleanSkip, CleanAbandoned, CleanReadMarkerFails, CleanStrays,
             CleanManifestGone, CleanStop, CleanLeave, Goto, TypeOK, Procs, Pcs
    <3>3. doomed' \in [Procs -> SUBSET Keys]
      BY <1>2, <2>2
         DEF CleanNext, CleanList, CleanSkip, CleanAbandoned, CleanReadMarkerFails, CleanStrays,
             CleanManifestGone, CleanStop, CleanLeave, TypeOK, Procs, Listed
    <3>4. faults' \in 0 .. MaxFaults
      BY <1>2, <2>2, BoundsAssumption
         DEF CleanNext, CleanList, CleanSkip, CleanAbandoned, CleanReadMarkerFails, CleanStrays,
             CleanManifestGone, CleanStop, CleanLeave, Fault, TypeOK
    <3>5. QED
      BY <3>1, <3>2, <3>3, <3>4 DEF TypeOK, Committed, Marker, runVars
  <2>3. QED
    BY <2>1, <2>2
<1>3. ASSUME NEW e \in Expirers, ExpireNext(e) PROVE TypeOK'
  <2>1. CASE ExpireDelete(e)
    <3>1. e \in Procs /\ e \notin Runs /\ "expiring" \in Pcs /\ "idle" \in Pcs
      BY ProcsAssumption DEF Procs, Pcs
    <3>2. DeleteNext(e, "expiring", "idle") /\ UNCHANGED <<runVars, faults>>
      BY <2>1 DEF ExpireDelete
    <3>3. QED
      BY <3>1, <3>2, DeleteType
  <2>2. CASE ExpireList(e)
    <3>1. ChunkSet(Committed) \cup {PendingKey} \subseteq Keys
      BY <2>2, ChunkFacts, KeyFacts DEF ExpireList, TypeOK
    <3>2. QED
      BY <2>2, <3>1, ProcsAssumption
         DEF ExpireList, runVars, Goto, TypeOK, Committed, Marker, Procs, Pcs
  <2>3. CASE ExpireManifest(e)
    BY <2>3, ProcsAssumption, KeyFacts
       DEF ExpireManifest, runVars, Goto, Delete, TypeOK, Committed, Marker, Procs, Pcs
  <2>4. CASE ExpireStop(e)
    BY <2>4, ProcsAssumption, BoundsAssumption
       DEF ExpireStop, runVars, Goto, Fault, TypeOK, Committed, Marker, Procs, Pcs
  <2>5. QED
    BY <1>3, <2>1, <2>2, <2>3, <2>4 DEF ExpireNext
<1>4. CASE LeaseLapses
  <2>1. [Marker EXCEPT !.live = FALSE] \in Markers
    BY <1>4 DEF LeaseLapses, Live, Markers, TypeOK
  <2>2. QED
    BY <1>4, <2>1, KeyFacts DEF LeaseLapses, Put, runVars, TypeOK, Committed, Marker
<1>5. CASE UNCHANGED vars
  BY <1>5 DEF vars, runVars, TypeOK, Committed, Marker
<1>9. QED
  BY <1>1, <1>2, <1>3, <1>4, <1>5 DEF Next

(* Every step keeps every variable in its type, whatever the environment.  *)
THEOREM TypeCorrect == Spec => []TypeOK
<1>1. Init => TypeOK
  BY TypeInit
<1>2. TypeOK /\ [Next]_vars => TypeOK'
  BY TypeStep
<1>3. QED
  BY <1>1, <1>2, PTL DEF Spec

----------------------------------------------------------------------------
(* A listing shows exactly the objects that are there.                     *)
LEMMA ListingFacts ==
  ASSUME TypeOK
  PROVE  \A k \in Keys : Listing[k] = Absent <=> dir[k] = Absent
<1> SUFFICES ASSUME NEW k \in Keys PROVE Listing[k] = Absent <=> dir[k] = Absent
  OBVIOUS
<1>1. k \in Seqs /\ dir[k] # Absent => dir[k].len \in Nat
  BY LenFacts DEF TypeOK
<1>2. QED
  BY <1>1, AbsentAssumption DEF Listing

(* The parts speak of every variable but the fault budget.                 *)
LEMMA UnchangedInv ==
  ASSUME IInv, TypeOK', UNCHANGED <<dir, pc, runVars, doomed>>
  PROVE  IInv'
<1>1. ControlInv' /\ LeaseInv'
  BY DEF runVars, IInv, ControlInv, OneUploader, StartsUnlisted, TakeoverExclusive, LeaseInv,
         LeaseHeld, UploadProgress, UploadsIntact, Leased, NoneLeased, Starting, At, Committed,
         Marker
<1>2. StartInv' /\ DirInv'
  BY DEF runVars, IInv, StartInv, ListingSound, PurgeCovers, MarkMatches, DirInv, ResumeMatches,
         ListedIsComplete, Listed, At, Committed, Marker
<1>3. Quiet' /\ SweepInv'
  BY DEF IInv, Quiet, SweepInv, CleanConfined, ExpireConfined, NoneLeased, Leased, At, Committed
<1>4. QED
  BY <1>1, <1>2, <1>3 DEF IInv

(* A marker just written is an object with a live lease.                   *)
LEMMA MarkerFacts ==
  ASSUME NEW p \in Params
  PROVE  Live([p |-> p, live |-> TRUE])
<1>1. [p |-> p, live |-> TRUE] \in Markers
  BY DEF Markers
<1>2. [p |-> p, live |-> TRUE] # Absent
  BY <1>1, AbsentAssumption
<1>3. QED
  BY <1>2 DEF Live

(* A lapsed or missing marker means that nobody uploads.                   *)
LEMMA LapsedMeansIdle == IInv /\ ~Live(Marker) => NoneLeased
<1> SUFFICES ASSUME IInv, ~Live(Marker), NEW q \in Runs, Leased(q) PROVE FALSE
  BY DEF NoneLeased
<1>1. par[q] \in Params /\ Marker = [p |-> par[q], live |-> TRUE]
  BY DEF IInv, TypeOK, LeaseInv, LeaseHeld, Leased
<1>2. QED
  BY <1>1, MarkerFacts

(* A step of a run that lists or unlists nothing and takes no lease.       *)
LEMMA RunSweepInv ==
  ASSUME IInv, NEW r \in Runs, Committed' = Committed,
         \A x \in Procs : x # r => pc'[x] = pc[x] /\ doomed'[x] = doomed[x],
         Leased(r)' => Leased(r), At(r, "upload")' => At(r, "upload")
  PROVE  SweepInv'
<1>1. \A q \in Runs : (Leased(q)' => Leased(q)) /\ (At(q, "upload")' => At(q, "upload"))
  BY DEF Leased, At, Procs
<1>2. \A x \in Cleaners \cup Expirers : pc'[x] = pc[x] /\ doomed'[x] = doomed[x]
  BY ProcsAssumption DEF Procs
<1>3. NoneLeased => NoneLeased'
  BY <1>1 DEF NoneLeased
<1>4. CleanConfined'
  BY <1>2, <1>3 DEF IInv, SweepInv, CleanConfined, At
<1>5. ExpireConfined'
  BY <1>1, <1>2, <1>3 DEF IInv, SweepInv, ExpireConfined, At
<1>6. QED
  BY <1>4, <1>5 DEF SweepInv

(* A step of a run that lists or unlists nothing, takes no lease and does  *)
(* not begin to take the directory over.                                   *)
LEMMA RunControlInv ==
  ASSUME IInv, NEW r \in Runs, Committed' = Committed,
         \A q \in Runs : q # r => pc'[q] = pc[q],
         Leased(r)' => Leased(r),
         Starting(r)' => Committed = Absent,
         pc'[r] \in {"purge", "purging", "mark", "unmark"} => NoneLeased
  PROVE  ControlInv'
<1>1. \A q \in Runs : Leased(q)' => Leased(q)
  BY DEF Leased
<1>2. OneUploader'
  BY <1>1 DEF IInv, ControlInv, OneUploader
<1>3. StartsUnlisted'
  BY DEF IInv, ControlInv, StartsUnlisted, Starting
<1>4. NoneLeased => NoneLeased'
  BY <1>1 DEF NoneLeased
<1>5. TakeoverExclusive'
  BY <1>4 DEF IInv, ControlInv, TakeoverExclusive
<1>6. QED
  BY <1>2, <1>3, <1>5 DEF ControlInv

(* A run starts only when no backup is listed.                             *)
LEMMA SendStartInv ==
  ASSUME IInv, TypeOK', Quiet', NEW r \in Runs, SendStart(r)
  PROVE  IInv'
<1>1. ControlInv'
  <2>1. /\ dir' = dir /\ Committed = Absent /\ pc'[r] = "list"
        /\ \A q \in Runs : q # r => pc'[q] = pc[q]
    BY DEF SendStart, Goto, At, IInv, TypeOK, Procs
  <2>2. QED
    BY <2>1, RunControlInv
       DEF IInv, ControlInv, StartsUnlisted, Starting, Leased, Committed
<1>2. LeaseInv'
  BY DEF SendStart, IInv, At, Goto, Leased, Starting, Committed, Marker, LeaseInv,
         LeaseHeld, UploadProgress, UploadsIntact
<1>3. StartInv'
  BY DEF SendStart, IInv, At, Goto, StartInv, ListingSound, PurgeCovers, MarkMatches,
         Listed
<1>4. DirInv'
  BY DEF SendStart, IInv, Committed, Marker, DirInv, ResumeMatches, ListedIsComplete
<1>5. SweepInv'
  BY RunSweepInv
     DEF SendStart, Goto, IInv, TypeOK, Procs, At, Leased, Committed
<1>6. QED
  BY <1>1, <1>2, <1>3, <1>4, <1>5 DEF IInv

(* The listing a run takes is sound when it is taken.                      *)
LEMMA ListDirInv ==
  ASSUME IInv, TypeOK', Quiet', NEW r \in Runs, ListDir(r)
  PROVE  IInv'
<1>1. ControlInv'
  <2>1. /\ dir' = dir /\ pc[r] = "list" /\ pc'[r] = "readmarker"
        /\ \A q \in Runs : q # r => pc'[q] = pc[q]
    BY DEF ListDir, Goto, At, IInv, TypeOK, Procs
  <2>2. QED
    BY <2>1, RunControlInv
       DEF IInv, ControlInv, StartsUnlisted, Starting, Leased, Committed
<1>2. LeaseInv'
  BY DEF ListDir, IInv, At, Goto, Leased, Starting, Committed, Marker, LeaseInv,
         LeaseHeld, UploadProgress, UploadsIntact
<1>3. StartInv'
  <2>1. /\ dir' = dir /\ existing' = [existing EXCEPT ![r] = Listing]
        /\ pc' = [pc EXCEPT ![r] = "readmarker"] /\ par' = par /\ doomed' = doomed
    BY DEF ListDir, Goto
  <2>2. existing'[r] = Listing /\ pc'[r] = "readmarker"
    BY <2>1 DEF IInv, TypeOK, Procs
  <2>3. \A q \in Runs : q # r => existing'[q] = existing[q] /\ pc'[q] = pc[q]
    BY <2>1 DEF IInv, TypeOK, Procs
  <2>4. Listing = NoListing => Listed = {}
    BY ListingFacts DEF IInv, NoListing, Listed
  <2>5. ListingSound'
    BY <2>1, <2>2, <2>3, <2>4, ListingFacts, KeyFacts
       DEF IInv, StartInv, ListingSound, At, Listed
  <2>6. PurgeCovers' /\ MarkMatches'
    BY <2>1, <2>2, <2>3 DEF IInv, StartInv, PurgeCovers, MarkMatches, At, Listed
  <2>7. QED
    BY <2>5, <2>6 DEF StartInv
<1>4. DirInv'
  BY DEF ListDir, IInv, Committed, Marker, DirInv, ResumeMatches, ListedIsComplete
<1>5. SweepInv'
  BY RunSweepInv
     DEF ListDir, Goto, IInv, TypeOK, Procs, At, Leased, Committed
<1>6. QED
  BY <1>1, <1>2, <1>3, <1>4, <1>5 DEF IInv

(* A run that steps aside changes nothing but itself.                      *)
LEMMA StepAsideInv ==
  ASSUME IInv, TypeOK', Quiet', NEW r \in Runs, StepAside(r)
  PROVE  IInv'
<1>1. ControlInv'
  <2>1. /\ dir' = dir /\ pc'[r] = "idle"
        /\ \A q \in Runs : q # r => pc'[q] = pc[q]
    BY DEF StepAside, Exit, Goto, At, IInv, TypeOK, Procs
  <2>2. QED
    BY <2>1, RunControlInv
       DEF IInv, ControlInv, StartsUnlisted, Starting, Leased, Committed
<1>2. LeaseInv'
  BY DEF StepAside, Exit, IInv, At, Goto, Leased, Starting, Committed, Marker, LeaseInv,
         LeaseHeld, UploadProgress, UploadsIntact
<1>3. StartInv'
  BY DEF StepAside, Exit, IInv, TypeOK, Quiet, Clash, Deciding, Procs, At, Goto, StartInv,
         ListingSound, PurgeCovers, MarkMatches
<1>4. DirInv'
  BY DEF StepAside, IInv, Committed, Marker, DirInv, ResumeMatches, ListedIsComplete
<1>5. SweepInv'
  BY RunSweepInv
     DEF StepAside, Exit, Goto, IInv, TypeOK, Procs, At, Leased, Committed
<1>6. QED
  BY <1>1, <1>2, <1>3, <1>4, <1>5 DEF IInv

(* The chunks a run resumes from are chunks of its own stream.             *)
LEMMA ResumeInv ==
  ASSUME IInv, TypeOK', Quiet', NEW r \in Runs, Resume(r)
  PROVE  IInv'
<1>1. ControlInv'
  BY KeyFacts
     DEF Resume, MayResume, IInv, At, Goto, Leased, NoneLeased, Starting, Committed,
         ControlInv, OneUploader, StartsUnlisted, TakeoverExclusive, LeaseInv, LeaseHeld
<1>2. LeaseInv'
  BY DEF Resume, MayResume, IInv, At, Goto, Leased, Starting, runVars, LeaseInv,
         LeaseHeld, UploadProgress, UploadsIntact
<1>3. StartInv'
  <2>1. /\ Marker # Absent /\ SameStream(Marker.p, par[r])
        /\ UNCHANGED <<dir, existing, par, doomed>>
        /\ pc[r] = "readmarker" /\ pc' = [pc EXCEPT ![r] = "mark"]
    BY DEF Resume, MayResume, Goto, At, runVars
  <2>2. Marker.p \in Params /\ par[r] \in Params
    BY <2>1 DEF IInv, TypeOK, Markers
  <2>3. \A k \in Seqs :
          dir[k] # Absent => k \in ChunkSet(par[r]) /\ dir[k] = Content(par[r], k)
    BY <2>1, <2>2, SameStreamFacts DEF IInv, DirInv, ResumeMatches
  <2>4. pc'[r] = "mark" /\ \A q \in Runs : q # r => pc'[q] = pc[q]
    BY <2>1 DEF IInv, TypeOK, Procs
  <2>5. MarkMatches'
    BY <2>1, <2>3, <2>4 DEF IInv, StartInv, MarkMatches, At
  <2>6. ListingSound' /\ PurgeCovers'
    BY <2>1, <2>4 DEF IInv, StartInv, ListingSound, PurgeCovers, At, Listed
  <2>7. QED
    BY <2>5, <2>6 DEF StartInv
<1>4. DirInv'
  BY DEF Resume, IInv, Committed, Marker, DirInv, ResumeMatches, ListedIsComplete
<1>5. SweepInv'
  BY RunSweepInv
     DEF Resume, runVars, Goto, IInv, TypeOK, Procs, At, Leased, Committed
<1>6. QED
  BY <1>1, <1>2, <1>3, <1>4, <1>5 DEF IInv

(* A run that finds no live lease starts when nobody uploads.              *)
LEMMA StartCleanInv ==
  ASSUME IInv, TypeOK', Quiet', NEW r \in Runs, StartClean(r)
  PROVE  IInv'
<1>1. ControlInv'
  <2>1. /\ ~Live(Marker) /\ dir' = dir
        /\ pc[r] = "readmarker" /\ pc' = [pc EXCEPT ![r] = pc'[r]]
        /\ pc'[r] \in {"mark", "purge"}
    BY DEF StartClean, Goto, At, IInv, TypeOK, Procs
  <2>2. NoneLeased
    BY <2>1, LapsedMeansIdle
  <2>3. \A q \in Runs : q # r => pc'[q] = pc[q]
    BY <2>1 DEF IInv, TypeOK, Procs
  <2>4. NoneLeased'
    BY <2>1, <2>2, <2>3 DEF NoneLeased, Leased
  <2>5. StartsUnlisted'
    BY <2>1, <2>3 DEF IInv, ControlInv, StartsUnlisted, Starting, At, Committed
  <2>6. QED
    BY <2>4, <2>5 DEF ControlInv, OneUploader, TakeoverExclusive, NoneLeased
<1>2. LeaseInv'
  BY DEF StartClean, IInv, At, Goto, Leased, Starting, Committed, Marker, runVars,
         LeaseInv, LeaseHeld, UploadProgress, UploadsIntact
<1>3. StartInv'
  <2>1. /\ UNCHANGED <<dir, existing, par, doomed>> /\ pc[r] = "readmarker"
        /\ pc'[r] = IF existing[r] = NoListing THEN "mark" ELSE "purge"
        /\ \A q \in Runs : q # r => pc'[q] = pc[q]
    BY DEF StartClean, Goto, At, runVars, IInv, TypeOK, Procs
  <2>2. existing[r] = NoListing => \A k \in Seqs : dir[k] = Absent
    BY <2>1, KeyFacts DEF IInv, StartInv, ListingSound, At, Listed
  <2>3. ListingSound' /\ PurgeCovers'
    BY <2>1 DEF IInv, StartInv, ListingSound, PurgeCovers, At, Listed
  <2>4. MarkMatches'
    BY <2>1, <2>2 DEF IInv, StartInv, MarkMatches, At
  <2>5. QED
    BY <2>3, <2>4 DEF StartInv
<1>4. DirInv'
  BY DEF StartClean, IInv, Committed, Marker, DirInv, ResumeMatches, ListedIsComplete
<1>5. SweepInv'
  BY RunSweepInv
     DEF StartClean, runVars, Goto, IInv, TypeOK, Procs, At, Leased, Committed
<1>6. QED
  BY <1>1, <1>2, <1>3, <1>4, <1>5 DEF IInv

(* A purge covers the whole directory.                                     *)
LEMMA PurgeListInv ==
  ASSUME IInv, TypeOK', Quiet', NEW r \in Runs, PurgeList(r)
  PROVE  IInv'
<1>1. ControlInv'
  BY DEF PurgeList, IInv, At, Goto, Leased, NoneLeased, Starting, Committed, ControlInv,
         OneUploader, StartsUnlisted, TakeoverExclusive
<1>2. LeaseInv'
  BY DEF PurgeList, IInv, At, Goto, Leased, Starting, Committed, Marker, LeaseInv,
         LeaseHeld, UploadProgress, UploadsIntact
<1>3. StartInv'
  BY KeyFacts
     DEF PurgeList, IInv, TypeOK, Quiet, Clash, Deciding, Procs, At, Goto, StartInv, ListingSound,
         PurgeCovers, MarkMatches, Listed, NoListing
<1>4. DirInv'
  BY DEF PurgeList, IInv, Committed, Marker, DirInv, ResumeMatches, ListedIsComplete
<1>5. SweepInv'
  BY RunSweepInv
     DEF PurgeList, Goto, IInv, TypeOK, Procs, At, Leased, Committed
<1>6. QED
  BY <1>1, <1>2, <1>3, <1>4, <1>5 DEF IInv

(* A purge deletes nothing of a listed backup.                             *)
LEMMA PurgeDeleteInv ==
  ASSUME IInv, TypeOK', Quiet', NEW r \in Runs, PurgeDelete(r)
  PROVE  IInv'
<1>1. ControlInv'
  BY DEF PurgeDelete, DeleteNext, Delete, IInv, At, Goto, Leased, NoneLeased, Starting,
         Committed, ControlInv, OneUploader, StartsUnlisted, TakeoverExclusive
<1>2. LeaseInv'
  BY DEF PurgeDelete, DeleteNext, IInv, At, Goto, Leased, NoneLeased, Starting, runVars,
         LeaseInv, LeaseHeld, UploadProgress, UploadsIntact, ControlInv, TakeoverExclusive
<1>3. StartInv'
  <2>1. PICK k \in doomed[r] :
          /\ dir' = [dir EXCEPT ![k] = Absent]
          /\ doomed' = [doomed EXCEPT ![r] = @ \ {k}]
          /\ pc' = [pc EXCEPT ![r] = IF doomed[r] = {k} THEN "mark" ELSE "purging"]
          /\ pc[r] = "purging" /\ UNCHANGED <<existing, par>>
    BY DEF PurgeDelete, DeleteNext, Delete, Goto, At, runVars
  <2>2. /\ doomed'[r] = doomed[r] \ {k}
        /\ pc'[r] = IF doomed[r] = {k} THEN "mark" ELSE "purging"
        /\ \A q \in Runs : q # r =>
             pc'[q] = pc[q] /\ ~Clash(pc'[r], pc'[q]) /\ ~Clash(pc'[q], pc'[r])
    BY <2>1 DEF IInv, TypeOK, Procs, Quiet, Clash, Deciding
  <2>3. existing[r] = NoListing /\ Listed' \subseteq doomed'[r]
    BY <2>1, <2>2 DEF IInv, TypeOK, StartInv, PurgeCovers, Listed, At
  <2>4. pc'[r] = "mark" => \A j \in Seqs : dir'[j] = Absent
    BY <2>1, <2>2, <2>3, KeyFacts DEF Listed
  <2>5. \A q \in Runs : pc'[q] # "upload"
    BY <2>1, <2>2 DEF IInv, ControlInv, TakeoverExclusive, NoneLeased, Leased
  <2>6. ListingSound'
    BY <2>1, <2>2, <2>3, <2>5, KeyFacts DEF ListingSound, At, NoListing, Clash, Deciding
  <2>7. PurgeCovers' /\ MarkMatches'
    BY <2>1, <2>2, <2>3, <2>4 DEF PurgeCovers, MarkMatches, At, Clash, Deciding
  <2>8. QED
    BY <2>6, <2>7 DEF StartInv
<1>4. DirInv'
  BY DEF PurgeDelete, DeleteNext, Delete, IInv, At, Starting, Committed, Marker, DirInv,
         ResumeMatches, ListedIsComplete, ControlInv, StartsUnlisted
<1>5. SweepInv'
  <2>1. Committed' = Committed
    BY KeyFacts
       DEF PurgeDelete, DeleteNext, Delete, IInv, TypeOK, At, Starting, Committed, ControlInv,
           StartsUnlisted
  <2>2. QED
    BY <2>1, RunSweepInv DEF PurgeDelete, DeleteNext, Goto, IInv, TypeOK, Procs, At, Leased
<1>6. QED
  BY <1>1, <1>2, <1>3, <1>4, <1>5 DEF IInv

(* The marker a run writes is true of the chunks beside it.                *)
LEMMA WriteMarkerInv ==
  ASSUME IInv, TypeOK', Quiet', NEW r \in Runs, WriteMarker(r)
  PROVE  IInv'
<1>1. ControlInv'
  <2>1. /\ pc[r] = "mark" /\ pc'[r] = "upload" /\ r \in Procs
        /\ \A x \in Procs : x # r => pc'[x] = pc[x] /\ ~Clash(pc[r], pc[x])
    BY DEF WriteMarker, Goto, At, IInv, TypeOK, Quiet, Procs
  <2>2. \A q \in Runs : q # r => pc'[q] = pc[q] /\ pc[q] \notin Deciding \cup {"commit", "unmark"}
    BY <2>1 DEF Clash, Deciding, Procs
  <2>3. \A q \in Runs : ~Leased(q)
    BY <2>1 DEF IInv, ControlInv, TakeoverExclusive, NoneLeased
  <2>4. OneUploader' /\ TakeoverExclusive'
    BY <2>1, <2>2, <2>3 DEF OneUploader, TakeoverExclusive, Leased, Deciding
  <2>5. Committed' = Committed
    BY KeyFacts DEF WriteMarker, Put, IInv, TypeOK, Committed
  <2>6. StartsUnlisted'
    BY <2>1, <2>5 DEF IInv, ControlInv, StartsUnlisted, Starting, Procs
  <2>7. QED
    BY <2>4, <2>6 DEF ControlInv
<1>2. LeaseInv'
  <2>1. /\ pc[r] = "mark" /\ pc'[r] = "upload" /\ par[r] \in Params
        /\ \A q \in Runs : q # r => pc'[q] = pc[q] /\ ~Leased(q)
        /\ UNCHANGED <<par, nread, uploaded, inflight>>
    BY DEF WriteMarker, Goto, At, runVars, IInv, TypeOK, Procs, ControlInv, TakeoverExclusive,
           NoneLeased
  <2>2. /\ Marker' = [p |-> par[r], live |-> TRUE]
        /\ Committed' = Absent
    BY <2>1, KeyFacts
       DEF WriteMarker, Put, Marker, Committed, IInv, TypeOK, ControlInv, StartsUnlisted, Starting
  <2>3. nread[r] = 0 /\ uploaded[r] = {} /\ inflight[r] = {}
    BY <2>1 DEF IInv, LeaseInv, UploadProgress, Starting
  <2>4. \A q \in Runs : Leased(q)' => q = r
    BY <2>1 DEF Leased
  <2>5. LeaseHeld'
    BY <2>1, <2>2, <2>4 DEF LeaseHeld
  <2>6. UploadProgress'
    <3>1. NumChunks(par[r]) \in Nat /\ \A k \in Seqs : ~(k < 0)
      BY <2>1, ChunkFacts, KeyFacts
    <3>2. \A q \in Runs : At(q, "idle")' \/ Starting(q)' => At(q, "idle") \/ Starting(q)
      BY <2>1 DEF At, Starting
    <3>3. QED
      BY <2>1, <2>3, <2>4, <3>1, <3>2 DEF IInv, LeaseInv, UploadProgress, At
  <2>7. UploadsIntact'
    BY <2>1, <2>3, <2>4 DEF UploadsIntact
  <2>8. QED
    BY <2>5, <2>6, <2>7 DEF LeaseInv
<1>3. StartInv'
  BY KeyFacts
     DEF WriteMarker, Put, IInv, Quiet, Clash, Deciding, Procs, At, Goto, runVars, StartInv,
         ListingSound, PurgeCovers, MarkMatches
<1>4. DirInv'
  BY KeyFacts, ChunkFacts
     DEF WriteMarker, Put, IInv, TypeOK, Committed, Marker, DirInv, ResumeMatches,
         ListedIsComplete, StartInv, MarkMatches
<1>5. SweepInv'
  <2>1. /\ pc[r] = "mark" /\ r \in Procs
        /\ \A x \in Procs : x # r => pc'[x] = pc[x] /\ ~Clash(pc[r], pc[x])
    BY DEF WriteMarker, Goto, At, IInv, TypeOK, Quiet, Procs
  <2>2. \A x \in Cleaners \cup Expirers :
          pc'[x] = pc[x] /\ pc[x] \notin {"cleaning", "unlist", "expiring"}
    BY <2>1, ProcsAssumption DEF Clash, Deciding, Procs
  <2>3. Committed' = Committed
    BY KeyFacts DEF WriteMarker, Put, IInv, TypeOK, Committed
  <2>4. QED
    BY <2>2, <2>3 DEF IInv, SweepInv, CleanConfined, ExpireConfined, At
<1>6. QED
  BY <1>1, <1>2, <1>3, <1>4, <1>5 DEF IInv

(* A refresh rewrites the marker as it is.                                 *)
LEMMA RefreshLeaseInv ==
  ASSUME IInv, TypeOK', Quiet', NEW r \in Runs, RefreshLease(r)
  PROVE  IInv'
<1>1. At(r, "upload") /\ dir' = [dir EXCEPT ![PendingKey] = [p |-> par[r], live |-> TRUE]]
  BY DEF RefreshLease, HasChunk, Put
<1>2. dir[PendingKey] = [p |-> par[r], live |-> TRUE]
  BY <1>1 DEF IInv, LeaseInv, LeaseHeld, Leased, At, Marker
<1>3. dir' = dir
  BY <1>1, <1>2 DEF IInv, TypeOK
<1>4. QED
  BY <1>3, UnchangedInv DEF RefreshLease

(* A chunk that is skipped is stored, with the bytes it should have.       *)
LEMMA SkipChunkInv ==
  ASSUME IInv, TypeOK', Quiet', NEW r \in Runs, SkipChunk(r)
  PROVE  IInv'
<1>1. ControlInv'
  BY DEF SkipChunk, IInv, At, Leased, NoneLeased, Starting, Committed, ControlInv,
         OneUploader, StartsUnlisted, TakeoverExclusive
<1>2. LeaseInv'
  <2>1. /\ At(r, "upload") /\ nread[r] \in Nat /\ nread[r] < NumChunks(par[r])
        /\ par[r] \in Params /\ nread' = [nread EXCEPT ![r] = @ + 1]
        /\ UNCHANGED <<dir, pc, par>>
    BY DEF SkipChunk, HasChunk, At, IInv, TypeOK
  <2>2. nread[r] \in Seqs /\ nread[r] \in ChunkSet(par[r]) /\ NumChunks(par[r]) \in Nat
    BY <2>1, ChunkFacts, BoundsAssumption DEF Seqs
  <2>3. \A q \in Runs : Leased(q) => q = r
    BY <2>1 DEF IInv, ControlInv, OneUploader, Leased, At
  <2>4. LeaseHeld'
    BY <2>1 DEF IInv, LeaseInv, LeaseHeld, Leased, At, Marker, Committed
  <2>5. UploadProgress'
    <3>1. /\ nread'[r] = nread[r] + 1
          /\ uploaded'[r] \cup inflight'[r] = (uploaded[r] \cup inflight[r]) \cup {nread[r]}
      BY <2>1 DEF SkipChunk, IInv, TypeOK
    <3>2. \A k \in Seqs : k \in uploaded'[r] \cup inflight'[r] <=> k < nread'[r]
      BY <2>1, <3>1, KeyFacts DEF IInv, LeaseInv, UploadProgress, Leased, At
    <3>3. \A q \in Runs : q # r =>
            nread'[q] = nread[q] /\ uploaded'[q] = uploaded[q] /\ inflight'[q] = inflight[q]
      BY <2>1 DEF SkipChunk, IInv, TypeOK
    <3>4. nread'[r] \in 0 .. NumChunks(par[r])
      BY <2>1, <2>2, <3>1
    <3>5. ~At(r, "idle") /\ ~Starting(r) /\ ~At(r, "commit")
      BY <2>1 DEF At, Starting
    <3>6. QED
      BY <2>1, <2>3, <3>2, <3>3, <3>4, <3>5
         DEF IInv, LeaseInv, UploadProgress, Leased, At, Starting
  <2>6. UploadsIntact'
    <3>1. existing[r][nread[r]] # Absent
      BY <2>1, <2>2, ChunkFacts, AbsentAssumption DEF SkipChunk, AlreadyUploaded
    <3>2. dir[nread[r]] # Absent
      BY <2>1, <2>2, <3>1 DEF IInv, StartInv, ListingSound, At
    <3>3. Marker = [p |-> par[r], live |-> TRUE]
      BY <2>1 DEF IInv, LeaseInv, LeaseHeld, Leased, At
    <3>4. Marker # Absent
      BY <3>3, <2>1, MarkerFacts DEF Live
    <3>5. dir[nread[r]] = Content(par[r], nread[r])
      BY <2>2, <3>2, <3>3, <3>4 DEF IInv, DirInv, ResumeMatches
    <3>6. uploaded'[r] = uploaded[r] \cup {nread[r]}
      BY DEF SkipChunk, IInv, TypeOK
    <3>7. QED
      BY <2>1, <2>3, <3>5, <3>6 DEF IInv, LeaseInv, UploadsIntact, Leased
  <2>7. QED
    BY <2>4, <2>5, <2>6 DEF LeaseInv
<1>3. StartInv'
  BY DEF SkipChunk, IInv, StartInv, ListingSound, PurgeCovers, MarkMatches, Listed, At
<1>4. DirInv'
  BY DEF SkipChunk, IInv, Committed, Marker, DirInv, ResumeMatches, ListedIsComplete
<1>5. SweepInv'
  BY DEF SkipChunk, IInv, At, Leased, NoneLeased, Committed, SweepInv, CleanConfined,
         ExpireConfined
<1>6. QED
  BY <1>1, <1>2, <1>3, <1>4, <1>5 DEF IInv

(* A chunk is in flight or stored once it is read.                         *)
LEMMA SpawnUploadInv ==
  ASSUME IInv, TypeOK', Quiet', NEW r \in Runs, SpawnUpload(r)
  PROVE  IInv'
<1>1. ControlInv'
  BY DEF SpawnUpload, IInv, At, Leased, NoneLeased, Starting, Committed, ControlInv,
         OneUploader, StartsUnlisted, TakeoverExclusive
<1>2. LeaseInv'
  <2>1. /\ At(r, "upload") /\ nread[r] \in Nat /\ nread[r] < NumChunks(par[r])
        /\ par[r] \in Params /\ nread' = [nread EXCEPT ![r] = @ + 1]
        /\ UNCHANGED <<dir, pc, par>>
    BY DEF SpawnUpload, HasChunk, At, IInv, TypeOK
  <2>2. nread[r] \in Seqs /\ nread[r] \in ChunkSet(par[r]) /\ NumChunks(par[r]) \in Nat
    BY <2>1, ChunkFacts, BoundsAssumption DEF Seqs
  <2>3. \A q \in Runs : Leased(q) => q = r
    BY <2>1 DEF IInv, ControlInv, OneUploader, Leased, At
  <2>4. LeaseHeld'
    BY <2>1 DEF IInv, LeaseInv, LeaseHeld, Leased, At, Marker, Committed
  <2>5. UploadProgress'
    <3>1. /\ nread'[r] = nread[r] + 1
          /\ uploaded'[r] \cup inflight'[r] = (uploaded[r] \cup inflight[r]) \cup {nread[r]}
      BY <2>1 DEF SpawnUpload, IInv, TypeOK
    <3>2. \A k \in Seqs : k \in uploaded'[r] \cup inflight'[r] <=> k < nread'[r]
      BY <2>1, <3>1, KeyFacts DEF IInv, LeaseInv, UploadProgress, Leased, At
    <3>3. \A q \in Runs : q # r =>
            nread'[q] = nread[q] /\ uploaded'[q] = uploaded[q] /\ inflight'[q] = inflight[q]
      BY <2>1 DEF SpawnUpload, IInv, TypeOK
    <3>4. nread'[r] \in 0 .. NumChunks(par[r])
      BY <2>1, <2>2, <3>1
    <3>5. ~At(r, "idle") /\ ~Starting(r) /\ ~At(r, "commit")
      BY <2>1 DEF At, Starting
    <3>6. QED
      BY <2>1, <2>3, <3>2, <3>3, <3>4, <3>5
         DEF IInv, LeaseInv, UploadProgress, Leased, At, Starting
  <2>6. UploadsIntact'
    BY <2>1 DEF SpawnUpload, IInv, LeaseInv, UploadsIntact, Leased
  <2>7. QED
    BY <2>4, <2>5, <2>6 DEF LeaseInv
<1>3. StartInv'
  BY DEF SpawnUpload, IInv, StartInv, ListingSound, PurgeCovers, MarkMatches, Listed, At
<1>4. DirInv'
  BY DEF SpawnUpload, IInv, Committed, Marker, DirInv, ResumeMatches, ListedIsComplete
<1>5. SweepInv'
  BY DEF SpawnUpload, IInv, At, Leased, NoneLeased, Committed, SweepInv, CleanConfined,
         ExpireConfined
<1>6. QED
  BY <1>1, <1>2, <1>3, <1>4, <1>5 DEF IInv

(* An upload stores the chunk of its number.                               *)
LEMMA PutChunkInv ==
  ASSUME IInv, TypeOK', Quiet', NEW r \in Runs, NEW k \in Seqs, PutChunk(r, k)
  PROVE  IInv'
<1>1. ControlInv'
  BY KeyFacts
     DEF PutChunk, Put, IInv, At, Leased, NoneLeased, Starting, Committed, ControlInv,
         OneUploader, StartsUnlisted, TakeoverExclusive
<1>2. LeaseInv'
  <2>1. /\ At(r, "upload") /\ k \in inflight[r] /\ UNCHANGED <<pc, par, nread>>
        /\ dir' = [dir EXCEPT ![k] = Content(par[r], k)]
    BY DEF PutChunk, Put, runVars
  <2>2. \A q \in Runs : Leased(q) => q = r
    BY <2>1 DEF IInv, ControlInv, OneUploader, Leased, At
  <2>3. Marker' = Marker /\ Committed' = Committed /\ dir'[k] = Content(par[r], k)
    BY <2>1, KeyFacts DEF Marker, Committed, IInv, TypeOK
  <2>4. /\ uploaded'[r] \cup inflight'[r] = uploaded[r] \cup inflight[r]
        /\ uploaded'[r] \subseteq uploaded[r] \cup {k}
        /\ \A q \in Runs : q # r => uploaded'[q] = uploaded[q] /\ inflight'[q] = inflight[q]
    BY <2>1 DEF PutChunk, runVars, IInv, TypeOK
  <2>5. LeaseHeld'
    BY <2>1, <2>3 DEF IInv, LeaseInv, LeaseHeld, Leased, At
  <2>6. UploadProgress'
    BY <2>1, <2>2, <2>4 DEF IInv, LeaseInv, UploadProgress, Leased, At, Starting
  <2>7. UploadsIntact'
    BY <2>1, <2>2, <2>3, <2>4, KeyFacts DEF IInv, TypeOK, LeaseInv, UploadsIntact, Leased
  <2>8. QED
    BY <2>5, <2>6, <2>7 DEF LeaseInv
<1>3. StartInv'
  <2>1. /\ At(r, "upload") /\ k \in inflight[r] /\ UNCHANGED <<pc, par, existing, doomed>>
        /\ dir' = [dir EXCEPT ![k] = Content(par[r], k)]
    BY DEF PutChunk, Put, runVars
  <2>2. Content(par[r], k) # Absent
    BY <2>1, ChunkFacts DEF IInv, TypeOK, At
  <2>3. Marker # Absent
    BY <2>1, MarkerFacts DEF IInv, TypeOK, At, LeaseInv, LeaseHeld, Leased, Live
  <2>4. \A q \in Runs : pc[q] \notin {"purge", "purging", "mark"}
    BY <2>1 DEF IInv, ControlInv, TakeoverExclusive, NoneLeased, Leased, At
  <2>5. Listed # {}
    BY <2>3, KeyFacts DEF Listed, Marker
  <2>6. ListingSound'
    BY <2>1, <2>2, <2>5, KeyFacts DEF IInv, TypeOK, StartInv, ListingSound, At
  <2>7. PurgeCovers' /\ MarkMatches'
    BY <2>1, <2>4 DEF PurgeCovers, MarkMatches, At
  <2>8. QED
    BY <2>6, <2>7 DEF StartInv
<1>4. DirInv'
  BY KeyFacts
     DEF PutChunk, Put, IInv, TypeOK, At, Leased, Committed, Marker, DirInv,
         ResumeMatches, ListedIsComplete, LeaseInv, LeaseHeld
<1>5. SweepInv'
  BY KeyFacts
     DEF PutChunk, Put, IInv, At, Leased, NoneLeased, Committed, SweepInv, CleanConfined,
         ExpireConfined
<1>6. QED
  BY <1>1, <1>2, <1>3, <1>4, <1>5 DEF IInv

(* So it does when the answer is lost.                                     *)
LEMMA PutChunkUnackedInv ==
  ASSUME IInv, TypeOK', Quiet', NEW r \in Runs, NEW k \in Seqs, PutChunkUnacked(r, k)
  PROVE  IInv'
<1>1. ControlInv'
  BY KeyFacts
     DEF PutChunkUnacked, Put, IInv, At, Leased, NoneLeased, Starting, Committed,
         ControlInv, OneUploader, StartsUnlisted, TakeoverExclusive
<1>2. LeaseInv'
  <2>1. /\ At(r, "upload") /\ k \in inflight[r] /\ UNCHANGED <<pc, par, nread>>
        /\ dir' = [dir EXCEPT ![k] = Content(par[r], k)]
    BY DEF PutChunkUnacked, Put, runVars
  <2>2. \A q \in Runs : Leased(q) => q = r
    BY <2>1 DEF IInv, ControlInv, OneUploader, Leased, At
  <2>3. Marker' = Marker /\ Committed' = Committed /\ dir'[k] = Content(par[r], k)
    BY <2>1, KeyFacts DEF Marker, Committed, IInv, TypeOK
  <2>4. /\ uploaded'[r] \cup inflight'[r] = uploaded[r] \cup inflight[r]
        /\ uploaded'[r] \subseteq uploaded[r] \cup {k}
        /\ \A q \in Runs : q # r => uploaded'[q] = uploaded[q] /\ inflight'[q] = inflight[q]
    BY <2>1 DEF PutChunkUnacked, runVars, IInv, TypeOK
  <2>5. LeaseHeld'
    BY <2>1, <2>3 DEF IInv, LeaseInv, LeaseHeld, Leased, At
  <2>6. UploadProgress'
    BY <2>1, <2>2, <2>4 DEF IInv, LeaseInv, UploadProgress, Leased, At, Starting
  <2>7. UploadsIntact'
    BY <2>1, <2>2, <2>3, <2>4, KeyFacts DEF IInv, TypeOK, LeaseInv, UploadsIntact, Leased
  <2>8. QED
    BY <2>5, <2>6, <2>7 DEF LeaseInv
<1>3. StartInv'
  <2>1. /\ At(r, "upload") /\ k \in inflight[r] /\ UNCHANGED <<pc, par, existing, doomed>>
        /\ dir' = [dir EXCEPT ![k] = Content(par[r], k)]
    BY DEF PutChunkUnacked, Put, runVars
  <2>2. Content(par[r], k) # Absent
    BY <2>1, ChunkFacts DEF IInv, TypeOK, At
  <2>3. Marker # Absent
    BY <2>1, MarkerFacts DEF IInv, TypeOK, At, LeaseInv, LeaseHeld, Leased, Live
  <2>4. \A q \in Runs : pc[q] \notin {"purge", "purging", "mark"}
    BY <2>1 DEF IInv, ControlInv, TakeoverExclusive, NoneLeased, Leased, At
  <2>5. Listed # {}
    BY <2>3, KeyFacts DEF Listed, Marker
  <2>6. ListingSound'
    BY <2>1, <2>2, <2>5, KeyFacts DEF IInv, TypeOK, StartInv, ListingSound, At
  <2>7. PurgeCovers' /\ MarkMatches'
    BY <2>1, <2>4 DEF PurgeCovers, MarkMatches, At
  <2>8. QED
    BY <2>6, <2>7 DEF StartInv
<1>4. DirInv'
  BY KeyFacts
     DEF PutChunkUnacked, Put, IInv, TypeOK, At, Leased, Committed, Marker, DirInv,
         ResumeMatches, ListedIsComplete, LeaseInv, LeaseHeld
<1>5. SweepInv'
  BY KeyFacts
     DEF PutChunkUnacked, Put, IInv, At, Leased, NoneLeased, Committed, SweepInv,
         CleanConfined, ExpireConfined
<1>6. QED
  BY <1>1, <1>2, <1>3, <1>4, <1>5 DEF IInv

(* The upload ends when every chunk is stored.                             *)
LEMMA FinishUploadInv ==
  ASSUME IInv, TypeOK', Quiet', NEW r \in Runs, FinishUpload(r)
  PROVE  IInv'
<1>1. ControlInv'
  <2>1. /\ dir' = dir /\ pc[r] = "upload" /\ pc'[r] = "commit"
        /\ \A q \in Runs : q # r => pc'[q] = pc[q]
    BY DEF FinishUpload, Goto, At, IInv, TypeOK, Procs
  <2>2. QED
    BY <2>1, RunControlInv
       DEF IInv, ControlInv, StartsUnlisted, Starting, Leased, Committed
<1>2. LeaseInv'
  BY DEF FinishUpload, IInv, At, Goto, Leased, Starting, Committed, Marker, runVars,
         LeaseInv, LeaseHeld, UploadProgress, UploadsIntact
<1>3. StartInv'
  BY DEF FinishUpload, IInv, At, Goto, runVars, StartInv, ListingSound, PurgeCovers,
         MarkMatches, Listed
<1>4. DirInv'
  BY DEF FinishUpload, IInv, Committed, Marker, DirInv, ResumeMatches, ListedIsComplete
<1>5. SweepInv'
  BY RunSweepInv
     DEF FinishUpload, runVars, Goto, IInv, TypeOK, Procs, At, Leased, Committed
<1>6. QED
  BY <1>1, <1>2, <1>3, <1>4, <1>5 DEF IInv

(* What is committed is complete.                                          *)
LEMMA CommitInv ==
  ASSUME IInv, TypeOK', Quiet', NEW r \in Runs, Commit(r)
  PROVE  IInv'
<1>1. ControlInv'
  <2>1. /\ pc[r] = "commit" /\ pc'[r] = "unmark" /\ r \in Procs
        /\ \A x \in Procs : x # r => pc'[x] = pc[x] /\ ~Clash(pc[r], pc[x]) /\ ~Clash(pc[x], pc[r])
    BY DEF Commit, Goto, At, IInv, TypeOK, Quiet, Procs
  <2>2. \A q \in Runs : q # r => pc'[q] = pc[q] /\ pc[q] \notin Deciding \cup {"list"}
    BY <2>1 DEF Clash, Procs
  <2>3. StartsUnlisted'
    BY <2>1, <2>2 DEF StartsUnlisted, Starting, Deciding
  <2>4. \A q \in Runs : Leased(q) => q = r
    BY <2>1 DEF IInv, ControlInv, OneUploader, Leased
  <2>5. OneUploader'
    BY <2>1, <2>2, <2>4 DEF OneUploader, Leased
  <2>6. TakeoverExclusive'
    BY <2>1, <2>2, <2>4 DEF IInv, ControlInv, TakeoverExclusive, NoneLeased, Leased
  <2>7. QED
    BY <2>3, <2>5, <2>6 DEF ControlInv
<1>2. LeaseInv'
  BY DEF Commit, IInv, TypeOK, At, Goto, Leased, Starting, runVars, LeaseInv, LeaseHeld,
         UploadProgress, UploadsIntact, ControlInv, OneUploader
<1>3. StartInv'
  BY AbsentAssumption
     DEF Commit, Put, IInv, TypeOK, Quiet, Clash, Deciding, Procs, At, Goto, runVars, StartInv,
         ListingSound, PurgeCovers, MarkMatches
<1>4. DirInv'
  BY KeyFacts, ChunkFacts
     DEF Commit, Put, IInv, TypeOK, At, Leased, Committed, Marker, DirInv, ResumeMatches,
         ListedIsComplete, LeaseInv, UploadProgress, UploadsIntact
<1>5. SweepInv'
  <2>1. /\ pc[r] = "commit" /\ pc'[r] \in {"commit", "unmark"} /\ r \in Procs
        /\ \A x \in Procs : x # r => pc'[x] = pc[x] /\ ~Clash(pc[r], pc[x])
    BY DEF Commit, Goto, At, IInv, TypeOK, Quiet, Procs
  <2>2. \A x \in Cleaners \cup Expirers :
          pc'[x] = pc[x] /\ pc[x] \notin {"cleanmarker", "cleaning", "expiring"}
    BY <2>1, ProcsAssumption DEF Clash, Procs
  <2>3. \A q \in Runs : At(q, "upload")' => At(q, "upload")
    BY <2>1 DEF At, Procs
  <2>4. QED
    BY <2>2, <2>3 DEF IInv, SweepInv, CleanConfined, ExpireConfined, At
<1>6. QED
  BY <1>1, <1>2, <1>3, <1>4, <1>5 DEF IInv

(* So it is when the answer is lost.                                       *)
LEMMA CommitUnackedInv ==
  ASSUME IInv, TypeOK', Quiet', NEW r \in Runs, CommitUnacked(r)
  PROVE  IInv'
<1>1. ControlInv'
  <2>1. /\ pc[r] = "commit" /\ pc'[r] = "commit" /\ r \in Procs
        /\ \A x \in Procs : x # r => pc'[x] = pc[x] /\ ~Clash(pc[r], pc[x]) /\ ~Clash(pc[x], pc[r])
    BY DEF CommitUnacked, Goto, At, IInv, TypeOK, Quiet, Procs
  <2>2. \A q \in Runs : q # r => pc'[q] = pc[q] /\ pc[q] \notin Deciding \cup {"list"}
    BY <2>1 DEF Clash, Procs
  <2>3. StartsUnlisted'
    BY <2>1, <2>2 DEF StartsUnlisted, Starting, Deciding
  <2>4. \A q \in Runs : Leased(q) => q = r
    BY <2>1 DEF IInv, ControlInv, OneUploader, Leased
  <2>5. OneUploader'
    BY <2>1, <2>2, <2>4 DEF OneUploader, Leased
  <2>6. TakeoverExclusive'
    BY <2>1, <2>2, <2>4 DEF IInv, ControlInv, TakeoverExclusive, NoneLeased, Leased
  <2>7. QED
    BY <2>3, <2>5, <2>6 DEF ControlInv
<1>2. LeaseInv'
  <2>1. /\ At(r, "commit") /\ UNCHANGED <<pc, par, nread, uploaded, inflight>>
        /\ dir' = [dir EXCEPT ![ManifestKey] = par[r]]
    BY DEF CommitUnacked, Put, runVars
  <2>2. \A q \in Runs : Leased(q) => q = r
    BY <2>1 DEF IInv, ControlInv, OneUploader, Leased, At
  <2>3. Marker' = Marker /\ Committed' = par[r] /\ \A k \in Seqs : dir'[k] = dir[k]
    BY <2>1, KeyFacts DEF Marker, Committed, IInv, TypeOK
  <2>4. LeaseHeld'
    BY <2>1, <2>2, <2>3 DEF IInv, LeaseInv, LeaseHeld, Leased, At
  <2>5. UploadProgress'
    BY <2>1 DEF IInv, LeaseInv, UploadProgress, Leased, At, Starting
  <2>6. UploadsIntact'
    BY <2>1, <2>3 DEF IInv, TypeOK, LeaseInv, UploadsIntact, Leased
  <2>7. QED
    BY <2>4, <2>5, <2>6 DEF LeaseInv
<1>3. StartInv'
  BY AbsentAssumption
     DEF CommitUnacked, Put, IInv, TypeOK, Quiet, Clash, Deciding, Procs, At, runVars, StartInv,
         ListingSound, PurgeCovers, MarkMatches
<1>4. DirInv'
  BY KeyFacts, ChunkFacts
     DEF CommitUnacked, Put, IInv, TypeOK, At, Leased, Committed, Marker, DirInv,
         ResumeMatches, ListedIsComplete, LeaseInv, UploadProgress, UploadsIntact
<1>5. SweepInv'
  <2>1. /\ pc[r] = "commit" /\ pc'[r] \in {"commit", "unmark"} /\ r \in Procs
        /\ \A x \in Procs : x # r => pc'[x] = pc[x] /\ ~Clash(pc[r], pc[x])
    BY DEF CommitUnacked, Goto, At, IInv, TypeOK, Quiet, Procs
  <2>2. \A x \in Cleaners \cup Expirers :
          pc'[x] = pc[x] /\ pc[x] \notin {"cleanmarker", "cleaning", "expiring"}
    BY <2>1, ProcsAssumption DEF Clash, Procs
  <2>3. \A q \in Runs : At(q, "upload")' => At(q, "upload")
    BY <2>1 DEF At, Procs
  <2>4. QED
    BY <2>2, <2>3 DEF IInv, SweepInv, CleanConfined, ExpireConfined, At
<1>6. QED
  BY <1>1, <1>2, <1>3, <1>4, <1>5 DEF IInv

(* The marker is removed after the commit, by a run that is done.          *)
LEMMA RemoveMarkerInv ==
  ASSUME IInv, TypeOK', Quiet', NEW r \in Runs, RemoveMarker(r)
  PROVE  IInv'
<1>1. ControlInv'
  <2>1. /\ pc'[r] = "idle" /\ \A q \in Runs : q # r => pc'[q] = pc[q]
        /\ dir' = dir \/ dir' = [dir EXCEPT ![PendingKey] = Absent]
    BY DEF RemoveMarker, Delete, Exit, Goto, IInv, TypeOK, Procs
  <2>2. Committed' = Committed
    BY <2>1, KeyFacts DEF IInv, TypeOK, Committed
  <2>3. QED
    BY <2>1, <2>2, RunControlInv DEF Starting, Leased
<1>2. LeaseInv'
  <2>1. /\ pc[r] = "unmark" /\ pc'[r] = "idle"
        /\ nread'[r] = 0 /\ uploaded'[r] = {} /\ inflight'[r] = {}
        /\ \A q \in Runs : q # r =>
             /\ pc'[q] = pc[q] /\ nread'[q] = nread[q]
             /\ uploaded'[q] = uploaded[q] /\ inflight'[q] = inflight[q]
    BY DEF RemoveMarker, Exit, Goto, At, IInv, TypeOK, Procs
  <2>2. \A q \in Runs : ~Leased(q)
    BY <2>1 DEF IInv, ControlInv, TakeoverExclusive, NoneLeased
  <2>3. \A q \in Runs : ~Leased(q)'
    BY <2>1, <2>2 DEF Leased
  <2>4. QED
    BY <2>1, <2>3 DEF IInv, LeaseInv, LeaseHeld, UploadProgress, UploadsIntact, Starting, At
<1>3. StartInv'
  BY KeyFacts
     DEF RemoveMarker, Delete, Exit, IInv, TypeOK, Quiet, Clash, Deciding, Procs, At, Goto,
         StartInv, ListingSound, PurgeCovers, MarkMatches
<1>4. DirInv'
  BY KeyFacts, ChunkFacts
     DEF RemoveMarker, Delete, IInv, TypeOK, Committed, Marker, DirInv, ResumeMatches,
         ListedIsComplete
<1>5. SweepInv'
  BY RunSweepInv, KeyFacts
     DEF RemoveMarker, Delete, Exit, Goto, IInv, TypeOK, Procs, At, Leased, Committed
<1>6. QED
  BY <1>1, <1>2, <1>3, <1>4, <1>5 DEF IInv

(* A run that stops leaves chunks and a marker that match.                 *)
LEMMA StopInv ==
  ASSUME IInv, TypeOK', Quiet', NEW r \in Runs, Stop(r)
  PROVE  IInv'
<1>1. ControlInv'
  BY DEF Stop, Exit, IInv, At, Goto, Leased, NoneLeased, Starting, Committed, ControlInv,
         OneUploader, StartsUnlisted, TakeoverExclusive
<1>2. LeaseInv'
  BY DEF Stop, Exit, IInv, TypeOK, Procs, At, Goto, Leased, Starting, Committed, Marker,
         LeaseInv, LeaseHeld, UploadProgress, UploadsIntact
<1>3. StartInv'
  <2>1. /\ dir' = dir /\ pc'[r] = "idle"
        /\ \A q \in Runs : q # r =>
             /\ pc'[q] = pc[q] /\ existing'[q] = existing[q] /\ par'[q] = par[q]
             /\ doomed'[q] = doomed[q]
    BY DEF Stop, Exit, Goto, IInv, TypeOK, Procs
  <2>2. QED
    BY <2>1 DEF IInv, StartInv, ListingSound, PurgeCovers, MarkMatches, Listed, At
<1>4. DirInv'
  BY DEF Stop, IInv, Committed, Marker, DirInv, ResumeMatches, ListedIsComplete
<1>5. SweepInv'
  BY RunSweepInv
     DEF Stop, Exit, Goto, IInv, TypeOK, Procs, At, Leased, Committed
<1>6. QED
  BY <1>1, <1>2, <1>3, <1>4, <1>5 DEF IInv

(* Nobody uploads beside a manifest, unless it is about to commit again.   *)
LEMMA ListedMeansCommitting ==
  ASSUME IInv, Committed # Absent, NEW q \in Runs, Leased(q)
  PROVE  pc[q] = "commit"
BY DEF IInv, LeaseInv, LeaseHeld, At

(* A step of a cleaner or an expirer that deletes nothing.                 *)
LEMMA BystanderInv ==
  ASSUME IInv, dir' = dir, UNCHANGED runVars,
         \A r \in Runs : pc'[r] = pc[r] /\ doomed'[r] = doomed[r]
  PROVE  ControlInv' /\ LeaseInv' /\ StartInv' /\ DirInv'
<1>1. ControlInv' /\ LeaseInv'
  BY DEF runVars, IInv, ControlInv, OneUploader, StartsUnlisted, TakeoverExclusive, LeaseInv,
         LeaseHeld, UploadProgress, UploadsIntact, Leased, NoneLeased, Starting, At, Committed,
         Marker
<1>2. StartInv' /\ DirInv'
  BY DEF runVars, IInv, StartInv, ListingSound, PurgeCovers, MarkMatches, DirInv, ResumeMatches,
         ListedIsComplete, Listed, At, Committed, Marker
<1>3. QED
  BY <1>1, <1>2

(* A step of a cleaner or an expirer that deletes a key while nobody       *)
(* uploads: the parts about the runs do not notice.                        *)
LEMMA SweepDeleteInv ==
  ASSUME IInv, TypeOK', NEW k \in Keys, dir' = [dir EXCEPT ![k] = Absent], UNCHANGED runVars,
         NoneLeased, \A r \in Runs : pc[r] \notin Deciding,
         \A r \in Runs : pc'[r] = pc[r] /\ doomed'[r] = doomed[r]
  PROVE  ControlInv' /\ LeaseInv' /\ StartInv' /\ ResumeMatches'
<1>1. \A r \in Runs : ~Leased(r) /\ ~Leased(r)' /\ pc[r] # "upload"
  BY DEF NoneLeased, Leased
<1>2. Committed' \in {Committed, Absent}
  BY KeyFacts DEF IInv, TypeOK, Committed
<1>3. ControlInv'
  BY <1>1, <1>2
     DEF IInv, ControlInv, OneUploader, StartsUnlisted, TakeoverExclusive, NoneLeased, Starting
<1>4. LeaseInv'
  BY <1>1
     DEF runVars, IInv, LeaseInv, LeaseHeld, UploadProgress, UploadsIntact, Starting, At
<1>5. StartInv'
  BY <1>1 DEF Deciding, StartInv, ListingSound, PurgeCovers, MarkMatches, At
<1>6. ResumeMatches'
  BY KeyFacts DEF IInv, TypeOK, DirInv, ResumeMatches, Marker
<1>7. QED
  BY <1>3, <1>4, <1>5, <1>6

(* A clean deletes only where nobody uploads, and no listed backup.        *)
LEMMA CleanInv ==
  ASSUME IInv, TypeOK', Quiet', MarkerReadable, NEW c \in Cleaners, CleanNext(c)
  PROVE  IInv'
<1>1. /\ c \in Procs /\ c \notin Runs /\ c \notin Expirers
      /\ \A x \in Procs : x # c => pc'[x] = pc[x] /\ doomed'[x] = doomed[x]
      /\ UNCHANGED runVars
  BY ProcsAssumption
     DEF CleanNext, CleanList, CleanSkip, CleanAbandoned, CleanReadMarkerFails, CleanStrays,
         CleanManifestGone, CleanStop, CleanLeave, CleanDelete, DeleteNext, Goto, IInv, TypeOK,
         Procs
<1>2. \A r \in Runs : /\ pc'[r] = pc[r] /\ doomed'[r] = doomed[r]
                      /\ Leased(r)' = Leased(r) /\ At(r, "upload")' = At(r, "upload")
  BY <1>1 DEF Leased, At, Procs
<1>3. \A e \in Expirers : pc'[e] = pc[e]
  BY <1>1 DEF Procs
<1>4. \A d \in Cleaners : d # c => pc'[d] = pc[d] /\ doomed'[d] = doomed[d]
  BY <1>1 DEF Procs
<1>5. ASSUME dir' = dir,
             \/ pc'[c] \in {"idle", "cleanmanifest"}
             \/ pc'[c] = "cleanmarker" /\ Committed = Absent
             \/ /\ pc'[c] = "cleaning" /\ NoneLeased
                /\ Committed # Absent =>
                     doomed'[c] \cap (ChunkSet(Committed) \cup {ManifestKey}) = {}
      PROVE  IInv'
  <2>1. CleanConfined'
    BY <1>2, <1>4, <1>5 DEF IInv, SweepInv, CleanConfined, NoneLeased, Committed, At
  <2>2. ExpireConfined'
    BY <1>2, <1>3, <1>5 DEF IInv, SweepInv, ExpireConfined, NoneLeased, Committed, At
  <2>3. QED
    BY <1>1, <1>2, <1>5, <2>1, <2>2, BystanderInv DEF IInv, SweepInv
<1>6. CASE CleanList(c)
  <2>1. /\ dir' = dir /\ doomed'[c] = Listed
        /\ pc'[c] = CASE ManifestKey \in Listed -> "cleanmanifest"
                      [] ManifestKey \notin Listed /\ PendingKey \in Listed -> "cleanmarker"
                      [] OTHER -> "cleaning"
    BY <1>1, <1>6 DEF CleanList, Goto, IInv, TypeOK
  <2>2. ManifestKey \notin Listed => Committed = Absent
    BY KeyFacts DEF Listed, Committed
  <2>3. PendingKey \notin Listed => NoneLeased
    BY LapsedMeansIdle, KeyFacts DEF Listed, Marker, Live
  <2>4. QED
    BY <1>5, <2>1, <2>2, <2>3
<1>7. CASE CleanSkip(c) \/ CleanManifestGone(c) \/ CleanStop(c)
  <2>1. dir' = dir /\ pc'[c] = "idle"
    BY <1>1, <1>7 DEF CleanSkip, CleanManifestGone, CleanStop, CleanLeave, Goto, IInv, TypeOK
  <2>2. QED
    BY <1>5, <2>1
<1>8. CASE CleanAbandoned(c) \/ CleanReadMarkerFails(c)
  <2>1. dir' = dir /\ pc'[c] = "cleaning" /\ pc[c] = "cleanmarker"
    BY <1>1, <1>8 DEF CleanAbandoned, CleanReadMarkerFails, Goto, At, IInv, TypeOK
  <2>2. Committed = Absent
    BY <2>1 DEF IInv, SweepInv, CleanConfined, At
  <2>3. NoneLeased
    BY <1>8, LapsedMeansIdle DEF CleanAbandoned, MarkerReadable, NoneLeased
  <2>4. QED
    BY <1>5, <2>1, <2>2, <2>3
<1>9. CASE CleanStrays(c)
  <2>1. /\ dir' = dir /\ Committed # Absent
        /\ doomed'[c] = doomed[c] \ (ChunkSet(Committed) \cup {ManifestKey})
        /\ pc'[c] \in {"idle", "cleaning"}
    BY <1>1, <1>9 DEF CleanStrays, Goto, At, IInv, TypeOK
  <2>2. ASSUME pc'[c] = "cleaning", NEW r \in Runs, Leased(r) PROVE FALSE
    <3>1. pc'[r] = "commit"
      BY <1>2, <2>1, <2>2, ListedMeansCommitting
    <3>2. QED
      BY <1>1, <2>2, <3>1 DEF Quiet, Clash, Procs
  <2>3. QED
    BY <1>5, <2>1, <2>2 DEF NoneLeased
<1>10. CASE CleanDelete(c)
  <2>1. PICK k \in doomed[c] :
          /\ dir' = [dir EXCEPT ![k] = Absent] /\ pc[c] = "cleaning"
          /\ pc'[c] \in {"idle", "cleaning"} /\ doomed'[c] = doomed[c] \ {k}
    BY <1>1, <1>10 DEF CleanDelete, DeleteNext, Delete, Goto, At, IInv, TypeOK
  <2>2. k \in Keys /\ NoneLeased
    BY <1>1, <2>1 DEF IInv, TypeOK, SweepInv, CleanConfined, At
  <2>3. Committed # Absent => k \notin ChunkSet(Committed) \cup {ManifestKey}
    BY <2>1 DEF IInv, SweepInv, CleanConfined, At
  <2>4. Committed' = Committed
    BY <2>1, <2>2, <2>3, KeyFacts DEF IInv, TypeOK, Committed
  <2>5. ListedIsComplete'
    BY <2>1, <2>2, <2>3, <2>4, ChunkFacts, KeyFacts
       DEF IInv, TypeOK, DirInv, ListedIsComplete
  <2>6. CleanConfined'
    BY <1>2, <1>4, <2>1, <2>2, <2>4 DEF IInv, SweepInv, CleanConfined, NoneLeased, At
  <2>7. ExpireConfined'
    BY <1>2, <1>3, <2>4 DEF IInv, SweepInv, ExpireConfined, NoneLeased, At
  <2>8. \A r \in Runs : pc[r] \notin Deciding
    BY <1>1, <2>1 DEF IInv, Quiet, Clash, Procs
  <2>9. ControlInv' /\ LeaseInv' /\ StartInv' /\ ResumeMatches'
    BY <1>1, <1>2, <2>1, <2>2, <2>8, SweepDeleteInv
  <2>10. QED
    BY <2>5, <2>6, <2>7, <2>9 DEF IInv, SweepInv, DirInv
<1>11. QED
  BY <1>6, <1>7, <1>8, <1>9, <1>10 DEF CleanNext

(* An expiry deletes chunks only once the manifest is gone.                *)
LEMMA ExpireInv ==
  ASSUME IInv, TypeOK', Quiet', NEW e \in Expirers, ExpireNext(e)
  PROVE  IInv'
<1>1. /\ e \in Procs /\ e \notin Runs /\ e \notin Cleaners
      /\ \A x \in Procs : x # e => pc'[x] = pc[x] /\ doomed'[x] = doomed[x]
      /\ UNCHANGED runVars
  BY ProcsAssumption
     DEF ExpireNext, ExpireList, ExpireManifest, ExpireDelete, ExpireStop, DeleteNext, Goto,
         IInv, TypeOK, Procs
<1>2. \A r \in Runs : /\ pc'[r] = pc[r] /\ doomed'[r] = doomed[r]
                      /\ Leased(r)' = Leased(r) /\ At(r, "upload")' = At(r, "upload")
  BY <1>1 DEF Leased, At, Procs
<1>3. \A c \in Cleaners : pc'[c] = pc[c] /\ doomed'[c] = doomed[c]
  BY <1>1 DEF Procs
<1>4. \A f \in Expirers : f # e => pc'[f] = pc[f]
  BY <1>1 DEF Procs
<1>5. ASSUME Committed' \in {Committed, Absent} PROVE CleanConfined'
  BY <1>2, <1>3, <1>5 DEF IInv, SweepInv, CleanConfined, NoneLeased, At
<1>6. CASE ExpireList(e) \/ ExpireStop(e)
  <2>1. dir' = dir /\ (pc'[e] = "idle" \/ (pc'[e] = "unlist" /\ Committed # Absent))
    <3>1. CASE ExpireList(e)
      BY <1>1, <3>1 DEF ExpireList, Goto, IInv, TypeOK
    <3>2. CASE ExpireStop(e)
      BY <1>1, <3>2 DEF ExpireStop, Goto, IInv, TypeOK
    <3>3. QED
      BY <1>6, <3>1, <3>2
  <2>2. Committed' = Committed
    BY <2>1 DEF Committed
  <2>3. Committed # Absent => \A r \in Runs : ~At(r, "upload")
    BY ListedMeansCommitting DEF Leased, At
  <2>4. ExpireConfined'
    BY <1>2, <1>4, <2>1, <2>2, <2>3 DEF IInv, SweepInv, ExpireConfined, NoneLeased, At
  <2>5. QED
    BY <1>1, <1>2, <1>5, <2>1, <2>2, <2>4, BystanderInv DEF IInv, SweepInv
<1>7. CASE ExpireManifest(e)
  <2>1. /\ dir' = [dir EXCEPT ![ManifestKey] = Absent]
        /\ pc[e] = "unlist" /\ pc'[e] = "expiring"
    BY <1>1, <1>7 DEF ExpireManifest, Delete, Goto, At, IInv, TypeOK
  <2>2. \A r \in Runs : pc[r] \notin Deciding /\ pc[r] # "commit"
    BY <1>1, <1>2, <2>1 DEF Quiet, Clash, Procs
  <2>3. NoneLeased
    BY <2>1, <2>2 DEF IInv, SweepInv, ExpireConfined, NoneLeased, Leased, At
  <2>4. Committed' = Absent
    BY <2>1, KeyFacts DEF Committed, IInv, TypeOK
  <2>5. ExpireConfined'
    BY <1>2, <2>3, <2>4 DEF ExpireConfined, NoneLeased, Leased, At
  <2>6. ControlInv' /\ LeaseInv' /\ StartInv' /\ ResumeMatches'
    BY <1>1, <1>2, <2>1, <2>2, <2>3, KeyFacts, SweepDeleteInv
  <2>7. QED
    BY <1>5, <2>4, <2>5, <2>6 DEF IInv, SweepInv, DirInv, ListedIsComplete
<1>8. CASE ExpireDelete(e)
  <2>1. PICK k \in doomed[e] :
          /\ dir' = [dir EXCEPT ![k] = Absent] /\ pc[e] = "expiring"
          /\ pc'[e] \in {"idle", "expiring"}
    BY <1>1, <1>8 DEF ExpireDelete, DeleteNext, Delete, Goto, At, IInv, TypeOK
  <2>2. k \in Keys /\ NoneLeased /\ Committed = Absent
    BY <1>1, <2>1 DEF IInv, TypeOK, SweepInv, ExpireConfined, At
  <2>3. Committed' = Absent
    BY <2>1, <2>2, KeyFacts DEF Committed, IInv, TypeOK
  <2>4. ExpireConfined'
    BY <1>2, <2>2, <2>3 DEF ExpireConfined, NoneLeased, Leased, At
  <2>5. \A r \in Runs : pc[r] \notin Deciding
    BY <1>1, <2>1 DEF IInv, Quiet, Clash, Procs
  <2>6. ControlInv' /\ LeaseInv' /\ StartInv' /\ ResumeMatches'
    BY <1>1, <1>2, <2>1, <2>2, <2>5, SweepDeleteInv
  <2>7. QED
    BY <1>5, <2>3, <2>4, <2>6 DEF IInv, SweepInv, DirInv, ListedIsComplete
<1>9. QED
  BY <1>6, <1>7, <1>8 DEF ExpireNext

(* A lease lapses only where nobody uploads.                               *)
LEMMA LeaseLapsesInv ==
  ASSUME IInv, TypeOK', Punctual, LeaseLapses
  PROVE  IInv'
<1>1. /\ NoneLeased /\ Marker # Absent
      /\ dir' = [dir EXCEPT ![PendingKey] = [Marker EXCEPT !.live = FALSE]]
      /\ UNCHANGED <<pc, runVars, doomed>>
  BY DEF Punctual, NoneLeased, LeaseLapses, Live, Put
<1>2. Committed' = Committed /\ Marker'.p = Marker.p /\ \A k \in Seqs : dir'[k] = dir[k]
  BY <1>1, KeyFacts DEF IInv, TypeOK, Committed, Marker, Markers
<1>3. Listed' \subseteq Listed
  BY <1>1, KeyFacts DEF Listed, Marker, IInv, TypeOK
<1>4. ControlInv' /\ LeaseInv'
  BY <1>1, <1>2
     DEF runVars, IInv, ControlInv, OneUploader, StartsUnlisted, TakeoverExclusive, LeaseInv,
         LeaseHeld, UploadProgress, UploadsIntact, Leased, NoneLeased, Starting, At
<1>5. StartInv'
  BY <1>1, <1>2, <1>3
     DEF runVars, IInv, StartInv, ListingSound, PurgeCovers, MarkMatches, At
<1>6. DirInv'
  BY <1>1, <1>2, ChunkFacts DEF IInv, TypeOK, DirInv, ResumeMatches, ListedIsComplete
<1>7. Quiet' /\ SweepInv'
  BY <1>1, <1>2 DEF IInv, Quiet, SweepInv, CleanConfined, ExpireConfined, NoneLeased, Leased, At
<1>8. QED
  BY <1>4, <1>5, <1>6, <1>7 DEF IInv

(* The invariant holds of an empty directory.                              *)
LEMMA InvInit == Init => IInv
<1> SUFFICES ASSUME Init PROVE IInv
  OBVIOUS
<1>1. TypeOK
  BY TypeInit
<1>2. /\ \A k \in Keys : dir[k] = Absent
      /\ \A x \in Procs : pc[x] = "idle"
  BY DEF Init
<1>3. Quiet /\ ControlInv /\ LeaseInv /\ StartInv /\ SweepInv
  BY <1>2
     DEF Init, Procs, Quiet, Clash, Deciding, ControlInv, OneUploader, StartsUnlisted,
         TakeoverExclusive, LeaseInv, LeaseHeld, UploadProgress, UploadsIntact, StartInv,
         ListingSound, PurgeCovers, MarkMatches, SweepInv, CleanConfined, ExpireConfined, Leased, Starting, At
<1>4. DirInv
  BY <1>2, KeyFacts DEF DirInv, ResumeMatches, ListedIsComplete, Marker, Committed
<1>5. QED
  BY <1>1, <1>3, <1>4 DEF IInv

(* Every step of QuietSpec keeps the invariant: one lemma per action.      *)
LEMMA InvStep == IInv /\ [QuietNext]_vars => IInv'
<1> SUFFICES ASSUME IInv, [QuietNext]_vars PROVE IInv'
  OBVIOUS
<1>1. TypeOK'
  <2>1. TypeOK /\ [Next]_vars
    BY DEF IInv, QuietNext
  <2>2. QED
    BY <2>1, TypeStep
<1>2. CASE UNCHANGED vars
  BY <1>1, <1>2, UnchangedInv DEF vars
<1>3. CASE QuietNext
  <2>1. Next /\ Punctual /\ MarkerReadable /\ Quiet'
    BY <1>3 DEF QuietNext
  <2>2. ASSUME NEW r \in Runs, RunNext(r) PROVE IInv'
    <3>1. CASE RunStep(r)
      BY <1>1, <2>1, <3>1, SendStartInv, ListDirInv, StepAsideInv, ResumeInv, StartCleanInv,
         PurgeListInv, PurgeDeleteInv, WriteMarkerInv, SkipChunkInv, SpawnUploadInv,
         PutChunkInv, FinishUploadInv, CommitInv, RemoveMarkerInv
         DEF RunStep
    <3>2. CASE AlreadyArchived(r)
      BY <1>1, <3>2, UnchangedInv DEF AlreadyArchived, vars
    <3>3. QED
      BY <1>1, <2>1, <2>2, <3>1, <3>2, RefreshLeaseInv, PutChunkUnackedInv, CommitUnackedInv,
         StopInv
         DEF RunNext
  <2>3. ASSUME NEW c \in Cleaners, CleanNext(c) PROVE IInv'
    BY <1>1, <2>1, <2>3, CleanInv
  <2>4. ASSUME NEW e \in Expirers, ExpireNext(e) PROVE IInv'
    BY <1>1, <2>1, <2>4, ExpireInv
  <2>5. CASE LeaseLapses
    BY <1>1, <2>1, <2>5, LeaseLapsesInv
  <2>6. QED
    BY <2>1, <2>2, <2>3, <2>4, <2>5 DEF Next
<1>4. QED
  BY <1>2, <1>3

(* Under QuietSpec the manifest changes by a commit into an unlisted       *)
(* directory or by an expiry, and by nothing else.                         *)
LEMMA ManifestSteps ==
  ASSUME IInv, IInv', QuietNext
  PROVE  \/ Committed' = Committed
         \/ Committed = Absent /\ Committed' \in Params
         \/ Committed' = Absent /\ \E e \in Expirers : ExpireManifest(e)
<1>1. Next /\ dir \in [Keys -> Contents \cup Params \cup Markers \cup {Absent}]
  BY DEF QuietNext, IInv, TypeOK
<1>2. ASSUME NEW r \in Runs, RunNext(r)
      PROVE  Committed' = Committed \/ (Committed = Absent /\ Committed' \in Params)
  <2>1. CASE PurgeDelete(r)
    <3>1. Committed = Absent
      BY <2>1 DEF PurgeDelete, DeleteNext, IInv, ControlInv, StartsUnlisted, Starting, At
    <3>2. PICK k \in doomed[r] : dir' = [dir EXCEPT ![k] = Absent]
      BY <2>1 DEF PurgeDelete, DeleteNext, Delete
    <3>3. QED
      BY <1>1, <3>1, <3>2, KeyFacts DEF Committed
  <2>2. CASE Commit(r) \/ CommitUnacked(r)
    <3>1. At(r, "commit") /\ dir' = [dir EXCEPT ![ManifestKey] = par[r]]
      BY <2>2 DEF Commit, CommitUnacked, Put
    <3>2. par[r] \in Params /\ Committed' = par[r]
      BY <1>1, <3>1, KeyFacts DEF At, IInv, TypeOK, Committed
    <3>3. Committed \in {Absent, par[r]}
      BY <3>1 DEF At, IInv, LeaseInv, LeaseHeld, Leased
    <3>4. QED
      BY <3>2, <3>3
  <2>3. CASE ~PurgeDelete(r) /\ ~Commit(r) /\ ~CommitUnacked(r)
    <3>1. dir' = dir \/ \E k \in Seqs \cup {PendingKey} : \E o : dir' = [dir EXCEPT ![k] = o]
      BY <1>2, <2>3
         DEF RunNext, RunStep, AlreadyArchived, SendStart, ListDir, StepAside, Resume, StartClean,
             PurgeList, WriteMarker, RefreshLease, SkipChunk, SpawnUpload, PutChunk,
             PutChunkUnacked, FinishUpload, RemoveMarker, Stop, Put, Delete, vars
    <3>2. QED
      BY <1>1, <3>1, KeyFacts DEF Committed
  <2>4. QED
    BY <2>1, <2>2, <2>3
<1>3. ASSUME NEW c \in Cleaners, CleanNext(c) PROVE Committed' = Committed
  <2>1. CASE CleanDelete(c)
    <3>1. PICK k \in doomed[c] : dir' = [dir EXCEPT ![k] = Absent]
      BY <2>1 DEF CleanDelete, DeleteNext, Delete
    <3>2. Committed # Absent => k # ManifestKey
      BY <2>1, <3>1 DEF CleanDelete, DeleteNext, IInv, SweepInv, CleanConfined
    <3>3. QED
      BY <1>1, <3>1, <3>2, KeyFacts DEF Committed
  <2>2. CASE ~CleanDelete(c)
    BY <1>3, <2>2
       DEF CleanNext, CleanList, CleanSkip, CleanAbandoned, CleanReadMarkerFails, CleanStrays,
           CleanManifestGone, CleanStop, CleanLeave, Committed
  <2>3. QED
    BY <2>1, <2>2
<1>4. ASSUME NEW e \in Expirers, ExpireNext(e)
      PROVE  Committed' = Committed \/ (Committed' = Absent /\ ExpireManifest(e))
  <2>1. CASE ExpireManifest(e)
    BY <1>1, <2>1, KeyFacts DEF ExpireManifest, Delete, Committed
  <2>2. CASE ExpireDelete(e)
    <3>1. Committed = Absent /\ \E k \in doomed[e] : dir' = [dir EXCEPT ![k] = Absent]
      BY <2>2 DEF ExpireDelete, DeleteNext, Delete, IInv, SweepInv, ExpireConfined
    <3>2. QED
      BY <1>1, <3>1, KeyFacts DEF Committed
  <2>3. CASE ExpireList(e) \/ ExpireStop(e)
    BY <2>3 DEF ExpireList, ExpireStop, Committed
  <2>4. QED
    BY <1>4, <2>1, <2>2, <2>3 DEF ExpireNext
<1>5. CASE LeaseLapses
  BY <1>1, <1>5, KeyFacts DEF LeaseLapses, Put, Committed
<1>6. QED
  BY <1>1, <1>2, <1>3, <1>4, <1>5 DEF Next

----------------------------------------------------------------------------
(* The theorems.                                                           *)

(* The inductive invariant holds throughout.                               *)
THEOREM Invariance == QuietSpec => []IInv
<1>1. Init => IInv
  BY InvInit
<1>2. IInv /\ [QuietNext]_vars => IInv'
  BY InvStep
<1>3. QED
  BY <1>1, <1>2, PTL DEF QuietSpec

(* A backup that is listed has all of its chunks, with its own bytes.      *)
THEOREM ListedBackupsComplete == QuietSpec => []ListedIsComplete
<1>1. IInv => ListedIsComplete
  BY DEF IInv, DirInv
<1>2. QED
  BY <1>1, Invariance, PTL

(* The lease protects a send in progress: nothing it uploaded is lost.     *)
THEOREM SendsProtected == QuietSpec => []UploadsIntact
<1>1. IInv => UploadsIntact
  BY DEF IInv, LeaseInv
<1>2. QED
  BY <1>1, Invariance, PTL

(* Only one run at a time uploads to the directory of a snapshot.          *)
THEOREM OneSendUploads == QuietSpec => []OneUploader
<1>1. IInv => OneUploader
  BY DEF IInv, ControlInv
<1>2. QED
  BY <1>1, Invariance, PTL

(* Resuming by size alone is sound: the chunks beside a marker are chunks  *)
(* of the marker's stream.                                                 *)
THEOREM ResumesSound == QuietSpec => []ResumeMatches
<1>1. IInv => ResumeMatches
  BY DEF IInv, DirInv
<1>2. QED
  BY <1>1, Invariance, PTL

(* `clean` deletes nothing beneath a send in progress.                     *)
THEOREM CleanSafeForSends == QuietSpec => CleanSparesSends
<1>1. IInv => \A c \in Cleaners : CleanDelete(c) => \A r \in Runs : ~Leased(r)
  BY DEF IInv, SweepInv, CleanConfined, CleanDelete, DeleteNext, NoneLeased
<1>2. QED
  BY <1>1, Invariance, PTL DEF CleanSparesSends

(* Nor does it delete an object that a listed backup names, however many    *)
(* cleans overlap and whatever they read before the backup was listed.     *)
THEOREM CleanSafeForBackups == QuietSpec => CleanSparesBackups
<1>1. IInv => \A c \in Cleaners : CleanDelete(c) /\ Committed # Absent =>
                \A k \in ChunkSet(Committed) \cup {ManifestKey} : dir'[k] = dir[k]
  <2> SUFFICES ASSUME IInv, NEW c \in Cleaners, CleanDelete(c), Committed # Absent,
                      NEW k \in ChunkSet(Committed) \cup {ManifestKey}
               PROVE  dir'[k] = dir[k]
    OBVIOUS
  <2>1. PICK d \in doomed[c] : dir' = [dir EXCEPT ![d] = Absent] /\ At(c, "cleaning")
    BY DEF CleanDelete, DeleteNext, Delete
  <2>2. d # k
    BY <2>1 DEF IInv, SweepInv, CleanConfined
  <2>3. k \in Keys
    BY ChunkFacts, KeyFacts DEF IInv, TypeOK
  <2>4. QED
    BY <2>1, <2>2, <2>3 DEF IInv, TypeOK
<1>2. QED
  BY <1>1, Invariance, PTL DEF CleanSparesBackups

(* Only retention takes a backup out of the listing.                       *)
THEOREM OnlyRetentionUnlists == QuietSpec => UnlistedOnlyByRetention
<1>1. IInv /\ IInv' /\ [QuietNext]_vars
        => [Committed # Absent /\ Committed' # Committed =>
              \E e \in Expirers : ExpireManifest(e)]_vars
  BY ManifestSteps
<1>2. QED
  BY <1>1, Invariance, PTL DEF QuietSpec, UnlistedOnlyByRetention

(* With one process at a time, as a single cron entry starts them, nothing *)
(* clashes and no clean meets the marker of a run that is alive: only that *)
(* the lease of a run that is alive does not lapse remains to be assumed.  *)
OneAtATime == \A x, y \in Procs : x # y => At(x, "idle") \/ At(y, "idle")

THEOREM SoloIsQuiet == Init /\ [][Next /\ Punctual /\ OneAtATime']_vars => QuietSpec
<1>1. Init => OneAtATime
  BY DEF Init, OneAtATime, At
<1>2. OneAtATime /\ [Next /\ Punctual /\ OneAtATime']_vars
        => OneAtATime' /\ [QuietNext]_vars
  <2> SUFFICES ASSUME OneAtATime, Next, Punctual, OneAtATime' PROVE QuietNext
    BY DEF OneAtATime, At, vars
  <2>1. Quiet'
    BY DEF OneAtATime, At, Quiet, Clash, Deciding
  <2>2. ASSUME NEW r \in Runs, Leased(r), NEW c \in Cleaners, CleanReadMarkerFails(c)
        PROVE  FALSE
    BY <2>2, ProcsAssumption DEF OneAtATime, At, Leased, CleanReadMarkerFails, Procs
  <2>3. QED
    BY <2>1, <2>2 DEF MarkerReadable, QuietNext
<1>3. QED
  BY <1>1, <1>2, PTL DEF QuietSpec

(* The directory implements the atomic store of one backup.                *)
THEOREM Refinement == QuietSpec => ImplementsBackup
<1>1. Init => Abstract!Init
  BY KeyFacts DEF Init, Abstract!Init, Stored, Committed
<1>2. IInv /\ IInv' /\ [QuietNext]_vars => [Abstract!Next]_Stored
  <2> SUFFICES ASSUME IInv, IInv', [QuietNext]_vars PROVE [Abstract!Next]_Stored
    OBVIOUS
  <2>1. /\ Stored = IF Committed = Absent THEN <<>> ELSE <<Committed>>
        /\ Stored' = IF Committed' = Absent THEN <<>> ELSE <<Committed'>>
    BY DEF Stored, IInv, DirInv
  <2>2. Committed \in Params \cup {Absent} /\ Absent \notin Params
    BY AbsentAssumption DEF IInv, TypeOK
  <2>3. \/ Committed' = Committed
        \/ Committed = Absent /\ Committed' \in Params
        \/ Committed' = Absent
    <3>1. CASE QuietNext
      BY <3>1, ManifestSteps
    <3>2. CASE UNCHANGED vars
      BY <3>2 DEF vars, Committed
    <3>3. QED
      BY <3>1, <3>2
  <2>4. CASE Committed' = Committed
    BY <2>1, <2>4
  <2>5. CASE Committed = Absent /\ Committed' \in Params
    BY <2>1, <2>2, <2>5 DEF Abstract!Next, Abstract!Store
  <2>6. CASE Committed' = Absent /\ Committed \in Params
    BY <2>1, <2>2, <2>6 DEF Abstract!Next, Abstract!Drop
  <2>7. QED
    BY <2>2, <2>3, <2>4, <2>5, <2>6
<1>3. QED
  BY <1>1, <1>2, Invariance, PTL DEF QuietSpec, ImplementsBackup, Abstract!Spec
=============================================================================
