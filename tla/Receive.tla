------------------------------ MODULE Receive ------------------------------
(***************************************************************************)
(* `receive`: the chain back to the full backup is walked, then its streams*)
(* are applied oldest first, one `zfs receive` each.  Chunks are fetched   *)
(* ahead of the writer by concurrent tasks whose number adapts.  Chunks may*)
(* be lost meanwhile; fetches, `zfs receive` and the process itself fail.  *)
(***************************************************************************)
EXTENDS Integers, SequencesExt

CONSTANTS
  Snaps,      \* snapshots a manifest may name
  NumChunks,  \* the chunks of each stream
  ChunkMiB,   \* the size of the first chunk of each stream
  Windows,    \* what is given to --window
  MaxFaults,  \* bound: lost chunks, failures, signals and crashes
  None,       \* no base, no snapshot
  Gone        \* no manifest

MaxChunks == Max({NumChunks[x] : x \in Snaps})
Seqs == 0 .. MaxChunks - 1

ASSUME ReceiveAssumption ==
  /\ IsFiniteSet(Snaps)
  /\ NumChunks \in [Snaps -> Nat] /\ ChunkMiB \in [Snaps -> Nat]
  /\ Windows \subseteq Nat /\ MaxFaults \in Nat
  /\ None \notin Snaps /\ Gone \notin Snaps /\ None # Gone

VARIABLES
  from,      \* the manifests, as read: the base of each snapshot
  lost,      \* chunks that are gone or corrupt in the bucket
  pc,        \* where the restore is
  window,    \* --window
  cur,       \* the manifest the walk has reached
  chain,     \* the streams: newest first during the walk, then oldest first
  pos,       \* the stream being applied
  depth,     \* how many fetches to keep in flight (`target` in the code)
  inflight,  \* chunks asked for and not written yet, in order
  got,       \* how each fetch has ended
  fed,       \* chunks written to `zfs receive`, and whether they were good
  child,     \* the `zfs receive` of the stream being applied
  dying,     \* one that was dropped and has not exited yet
  dataset,   \* the streams the target dataset holds
  partial,   \* the stream whose resumable state is in the way
  faults     \* faults so far

bucket == <<from, lost>>
walk == <<window, cur, chain>>
prefetch == <<depth, inflight, got, fed>>
zfs == <<child, dying, dataset, partial>>
vars == <<bucket, pc, walk, pos, prefetch, zfs, faults>>

x == chain[pos]

Pcs == {"idle", "walk", "open", "take", "wait", "write", "finish", "abort"}
Drops == [snap : Snaps, whole : BOOLEAN]

TypeOK ==
  /\ from \in [Snaps -> Snaps \cup {None, Gone}]
  /\ lost \subseteq Snaps \X Seqs
  /\ pc \in Pcs
  /\ window \in Windows
  /\ cur \in Snaps \cup {None}
  /\ chain \in Seq(Snaps) /\ IsInjective(chain)
  /\ pos \in 0 .. Len(chain)
  /\ depth \in Nat
  /\ inflight \in Seq(Seqs) /\ IsInjective(inflight)
  /\ got \in [Seqs -> {"run", "ok", "bad", "failed"}]
  /\ fed \in Seq(Seqs \X {"ok", "bad"})
  /\ child \in {"none", "running", "receiving", "applied", "exited"}
  /\ dying \in Drops \cup {None}
  /\ dataset \in Seq(Snaps)
  /\ partial \in Snaps \cup {None}
  /\ faults \in 0 .. MaxFaults

(* Any manifests, hand-edited and circular ones included, but at least one.*)
Init ==
  /\ from \in [Snaps -> Snaps \cup {None, Gone}] /\ \E y \in Snaps : from[y] # Gone
  /\ lost = {}
  /\ pc = "idle"
  /\ window \in Windows
  /\ cur = None /\ chain = <<>> /\ pos = 0
  /\ depth = 0 /\ inflight = <<>> /\ got = [k \in Seqs |-> "run"] /\ fed = <<>>
  /\ child = "none" /\ dying = None /\ dataset = <<>> /\ partial = None
  /\ faults = 0

Goto(l) == pc' = l
Fault == faults < MaxFaults /\ faults' = faults + 1

(* The end of a run: of what it knew nothing is left.                      *)
Exit ==
  /\ Goto("idle")
  /\ cur' = None /\ chain' = <<>> /\ pos' = 0
  /\ depth' = 0 /\ inflight' = <<>> /\ got' = [k \in Seqs |-> "run"] /\ fed' = <<>>
  /\ UNCHANGED window

----------------------------------------------------------------------------
(* The walk.                                                               *)

Start(tip) ==
  /\ pc = "idle"
  /\ from[tip] # Gone
  /\ window' \in Windows
  /\ cur' = tip
  /\ chain' = <<tip>>
  /\ Goto("walk")
  /\ UNCHANGED <<bucket, pos, prefetch, zfs, faults>>

(* Mutant: a manifest may be met twice.                                    *)
WalkBaseAgain ==
  /\ pc = "walk"
  /\ from[cur] \in Snaps
  /\ from[from[cur]] # Gone
  /\ cur' = from[cur]
  /\ chain' = Append(chain, from[cur])
  /\ UNCHANGED <<bucket, pc, window, pos, prefetch, zfs, faults>>

WalkBase ==
  /\ pc = "walk"
  /\ from[cur] \in Snaps \ ToSet(chain)
  /\ from[from[cur]] # Gone
  /\ cur' = from[cur]
  /\ chain' = Append(chain, from[cur])
  /\ UNCHANGED <<bucket, pc, window, pos, prefetch, zfs, faults>>

(* Mutant: a manifest seen before is left out and the walk goes on.        *)
WalkOn ==
  /\ pc = "walk"
  /\ from[cur] \in Snaps
  /\ IF from[cur] \in ToSet(chain) /\ from[from[cur]] # Gone
     THEN /\ cur' = from[cur]
          /\ UNCHANGED <<pc, window, chain, pos, prefetch>>
     ELSE from[from[cur]] = Gone /\ Exit
  /\ UNCHANGED <<bucket, zfs, faults>>

(* A base without a manifest, or one that is in the chain already.         *)
WalkFails ==
  /\ pc = "walk"
  /\ from[cur] \in Snaps
  /\ from[cur] \in ToSet(chain) \/ from[from[cur]] = Gone
  /\ Exit
  /\ UNCHANGED <<bucket, zfs, faults>>

(* Mutant: a missing base ends the walk.                                   *)
WalkEndsAnyway ==
  /\ pc = "walk"
  /\ from[cur] = None \/ (from[cur] \in Snaps /\ from[from[cur]] = Gone)
  /\ chain' = Reverse(chain)
  /\ pos' = 1
  /\ Goto("open")
  /\ UNCHANGED <<bucket, window, cur, prefetch, zfs, faults>>

WalkEnds ==
  /\ pc = "walk"
  /\ from[cur] = None
  /\ chain' = Reverse(chain)
  /\ pos' = 1
  /\ Goto("open")
  /\ UNCHANGED <<bucket, window, cur, prefetch, zfs, faults>>

----------------------------------------------------------------------------
(* The prefetch of one stream, in MiB.                                     *)

PREFETCH_BUDGET == 512
MIN_INFLIGHT == 2

ByBytes == IF ChunkMiB[x] = 0 THEN window ELSE Max({PREFETCH_BUDGET \div ChunkMiB[x], 1})
Ceiling == Max({Min({Max({window, 1}), ByBytes}), Min({MIN_INFLIGHT, Max({window, 1})})})
Floor == Min({MIN_INFLIGHT, Ceiling})

(* Mutant: one fetch too many.                                             *)
RefillPast(queue, written, d) ==
  LET next == written + Len(queue)
      room == Max({0, Min({d + 1 - Len(queue), NumChunks[x] - next})})
  IN  queue \o [i \in 1 .. room |-> next + i - 1]

(* Fetches are started, in order, until d are in flight.                   *)
Refill(queue, written, d) ==
  LET next == written + Len(queue)
      room == Max({0, Min({d - Len(queue), NumChunks[x] - next})})
  IN  queue \o [i \in 1 .. room |-> next + i - 1]

Open ==
  /\ pc = "open"
  /\ child' = "running"
  /\ depth' = Floor
  /\ inflight' = Refill(<<>>, 0, Floor)
  /\ got' = [k \in Seqs |-> "run"]
  /\ fed' = <<>>
  /\ Goto("take")
  /\ UNCHANGED <<bucket, walk, pos, dying, dataset, partial, faults>>

Fetching(k) == k \in ToSet(inflight) /\ got[k] = "run"

(* Mutant: the size and the hash are not checked.                          *)
FetchUnchecked(k) ==
  /\ Fetching(k)
  /\ got' = [got EXCEPT ![k] = IF <<x, k>> \in lost THEN "bad" ELSE "ok"]
  /\ UNCHANGED <<bucket, pc, walk, pos, depth, inflight, fed, zfs, faults>>

FetchOk(k) ==
  /\ Fetching(k)
  /\ <<x, k>> \notin lost
  /\ got' = [got EXCEPT ![k] = "ok"]
  /\ UNCHANGED <<bucket, pc, walk, pos, depth, inflight, fed, zfs, faults>>

(* A lost chunk; or the retries are used up.                               *)
FetchFails(k) ==
  /\ Fetching(k)
  /\ IF <<x, k>> \in lost THEN UNCHANGED faults ELSE Fault
  /\ got' = [got EXCEPT ![k] = "failed"]
  /\ UNCHANGED <<bucket, pc, walk, pos, depth, inflight, fed, zfs>>

(* The next chunk is there already: fewer fetches will do.                 *)
TakeReady ==
  /\ pc = "take" /\ inflight # <<>>
  /\ got[Head(inflight)] \in {"ok", "bad"}
  /\ depth' = Max({depth - 1, Floor})
  /\ Goto("write")
  /\ UNCHANGED <<bucket, walk, pos, inflight, got, fed, zfs, faults>>

TakeWait ==
  /\ pc = "take" /\ inflight # <<>>
  /\ Fetching(Head(inflight))
  /\ Goto("wait")
  /\ UNCHANGED <<bucket, walk, pos, prefetch, zfs, faults>>

(* The writer had to wait for it: more are needed.                         *)
Waited ==
  /\ pc = "wait"
  /\ got[Head(inflight)] \in {"ok", "bad"}
  /\ depth' = Min({depth + 1, Ceiling})
  /\ Goto("write")
  /\ UNCHANGED <<bucket, walk, pos, inflight, got, fed, zfs, faults>>

WriteChunk ==
  /\ pc = "write"
  /\ child # "exited"
  /\ fed' = Append(fed, <<Head(inflight), got[Head(inflight)]>>)
  /\ inflight' = Refill(Tail(inflight), Len(fed) + 1, depth)
  /\ Goto("take")
  /\ UNCHANGED <<bucket, walk, pos, depth, got, zfs, faults>>

(* Mutant: what a refused stream leaves behind is not cleared.             *)
WriteFailsSilently ==
  /\ pc = "write"
  /\ child = "exited"
  /\ child' = "none"
  /\ Exit
  /\ UNCHANGED <<bucket, dying, dataset, partial, faults>>

WriteFails ==
  /\ pc = "write"
  /\ child = "exited"
  /\ child' = "none"
  /\ Goto("abort")
  /\ UNCHANGED <<bucket, walk, pos, prefetch, dying, dataset, partial, faults>>

CloseStdin ==
  /\ pc = "take" /\ inflight = <<>>
  /\ Goto("finish")
  /\ UNCHANGED <<bucket, walk, pos, prefetch, zfs, faults>>

----------------------------------------------------------------------------
(* `zfs receive -s`: it takes a full stream where there is no dataset, an  *)
(* incremental on top of its base, and nothing while resumable state is    *)
(* there or another receive is at it.                                      *)
Accepts ==
  /\ partial = None /\ dying = None
  /\ IF from[x] = None THEN dataset = <<>>
     ELSE dataset # <<>> /\ Last(dataset) = from[x]

Whole == Len(fed) = NumChunks[x]

ChildBegins ==
  /\ child = "running"
  /\ fed # <<>> \/ pc = "finish"
  /\ child' = IF Accepts THEN "receiving" ELSE "exited"
  /\ UNCHANGED <<bucket, pc, walk, pos, prefetch, dying, dataset, partial, faults>>

ChildApplies ==
  /\ child = "receiving" /\ pc = "finish" /\ Whole
  /\ child' = "applied"
  /\ dataset' = Append(dataset, x)
  /\ UNCHANGED <<bucket, pc, walk, pos, prefetch, dying, partial, faults>>

(* The pool fails, or the stream ends early: the rest can be resumed.      *)
ChildFails ==
  /\ child = "receiving"
  /\ IF pc = "finish" /\ ~Whole THEN UNCHANGED faults ELSE Fault
  /\ child' = "exited"
  /\ partial' \in {None, x}
  /\ UNCHANGED <<bucket, pc, walk, pos, prefetch, dying, dataset>>

(* The process lets go of the child: its input ends and it is killed.      *)
DropChild ==
  /\ child' = "none"
  /\ dying' = IF child = "receiving" \/ (child = "running" /\ Accepts)
              THEN [snap |-> x, whole |-> Whole] ELSE dying
  /\ UNCHANGED <<dataset, partial>>

DroppedExits ==
  /\ dying # None
  /\ \/ partial' \in {None, dying.snap} /\ UNCHANGED dataset
     \/ dying.whole /\ dataset' = Append(dataset, dying.snap) /\ UNCHANGED partial
  /\ dying' = None
  /\ UNCHANGED <<bucket, pc, walk, pos, prefetch, child, faults>>

----------------------------------------------------------------------------
(* The end of a stream, and errors.                                        *)

TakeFails ==
  /\ pc \in {"take", "wait"} /\ inflight # <<>>
  /\ got[Head(inflight)] = "failed"
  /\ DropChild
  /\ Goto("abort")
  /\ UNCHANGED <<bucket, walk, pos, prefetch, faults>>

Applied ==
  /\ pc = "finish" /\ child = "applied"
  /\ child' = "none"
  /\ IF pos < Len(chain)
     THEN Goto("open") /\ pos' = pos + 1 /\ UNCHANGED <<walk, prefetch>>
     ELSE Exit
  /\ UNCHANGED <<bucket, dying, dataset, partial, faults>>

NotApplied ==
  /\ pc = "finish" /\ child = "exited"
  /\ child' = "none"
  /\ Goto("abort")
  /\ UNCHANGED <<bucket, walk, pos, prefetch, dying, dataset, partial, faults>>

(* `zfs receive -A` is refused while a receive is at it; a failure is a    *)
(* warning.                                                                *)
Abort ==
  /\ pc = "abort"
  /\ IF dying = None THEN partial' = None ELSE UNCHANGED partial
  /\ Exit
  /\ UNCHANGED <<bucket, child, dying, dataset, faults>>

AbortFails ==
  /\ pc = "abort"
  /\ Fault
  /\ Exit
  /\ UNCHANGED <<bucket, zfs>>

(* A signal or a crash: nothing is cleared.                                *)
Kill ==
  /\ pc # "idle"
  /\ Fault
  /\ IF pos > 0 THEN DropChild ELSE UNCHANGED zfs
  /\ Exit
  /\ UNCHANGED bucket

(* A chunk is deleted or damaged.                                          *)
Lose(y, k) ==
  /\ <<y, k>> \notin lost /\ k < NumChunks[y]
  /\ Fault
  /\ lost' = lost \cup {<<y, k>>}
  /\ UNCHANGED <<from, pc, walk, pos, prefetch, zfs>>

RunStep ==
  \/ WalkBase \/ WalkFails \/ WalkEnds
  \/ Open \/ TakeReady \/ TakeWait \/ Waited \/ WriteChunk \/ WriteFails \/ CloseStdin
  \/ TakeFails \/ Applied \/ NotApplied \/ Abort

FetchStep == \E k \in Seqs : FetchOk(k) \/ FetchFails(k)
ChildStep == ChildBegins \/ ChildApplies \/ ChildFails

Next ==
  \/ \E tip \in Snaps : Start(tip)
  \/ RunStep \/ FetchStep \/ ChildStep \/ DroppedExits
  \/ AbortFails \/ Kill
  \/ \E y \in Snaps, k \in Seqs : Lose(y, k)

Spec == Init /\ [][Next]_vars

Undamaged(y) == \A k \in Seqs : <<y, k>> \notin lost
IntactFull(y) == from[y] = None /\ Undamaged(y)

(* The process, its fetches and the child go on; the operator does not give*)
(* up on an intact full backup.                                            *)
FairSpec ==
  /\ Spec
  /\ WF_vars(RunStep) /\ WF_vars(FetchStep) /\ WF_vars(ChildStep) /\ WF_vars(DroppedExits)
  /\ SF_vars(\E tip \in Snaps : IntactFull(tip) /\ Start(tip))

----------------------------------------------------------------------------
(* Properties.                                                             *)

(* Each stream of the chain is on top of the one before.                   *)
Linked == \A i \in 1 .. Len(chain) : from[chain[i]] = IF i = 1 THEN None ELSE chain[i - 1]

(* How many of them zfs has applied.                                       *)
NumApplied == IF child = "applied" THEN pos ELSE pos - 1

(* The chain that is applied goes from a full backup to the snapshot asked *)
(* for without a gap: one with a missing link is refused before anything   *)
(* is written.  When a stream fails, what is in the target while its state *)
(* is cleared is the chain up to that stream and nothing else, whatever an *)
(* earlier restore that was killed does meanwhile.                         *)
ChainUnbroken ==
  pos > 0 =>
    /\ Linked
    /\ NumApplied > 0 => dataset = [i \in 1 .. NumApplied |-> chain[i]]

(* Whatever fetch ends first, zfs gets the verified chunks of the stream in*)
(* order, and the end of its input only after the last of them.            *)
FedInOrder ==
  /\ fed = [i \in 1 .. Len(fed) |-> <<i - 1, "ok">>]
  /\ pc = "finish" => Whole

(* What is fetched ahead, the chunk being written included, stays within   *)
(* the window and within the byte budget or the floor of two.              *)
WithinBudget ==
  pos > 0 =>
    /\ Len(inflight) <= Max({window, 1})
    /\ Len(inflight) * ChunkMiB[x] <= Max({PREFETCH_BUDGET, MIN_INFLIGHT * ChunkMiB[x]})

(* A restore ends: it never waits for good on a fetch it has not started   *)
(* or on a circular chain.                                                 *)
RunEnds == pc # "idle" ~> pc = "idle"

(* What failed, killed and half-cleared restores leave behind is not in the*)
(* way for good: once damaged streams are not tried any more, an intact    *)
(* full backup is restored.                                                *)
RestoredInTheEnd ==
  [](\E y \in Snaps : IntactFull(y)) /\ <>[](\A y \in ToSet(chain) : Undamaged(y))
    => <>(dataset # <<>>)
=============================================================================
