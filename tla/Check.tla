------------------------------- MODULE Check -------------------------------
(***************************************************************************)
(* `check`: what `Admin::validate` measures at an endpoint.  The bucket is *)
(* looked at, an object is written, read and deleted, a multipart upload is*)
(* begun and aborted; then, for two checksums, a part is uploaded with the *)
(* right sum and with a wrong one.  Any request may fail, and one without  *)
(* an answer may have been carried out.                                    *)
(***************************************************************************)
EXTENDS Integers, FiniteSets

CONSTANTS
  MaxFaults  \* bound: requests that fail although the endpoint allows them

ASSUME CheckAssumption == MaxFaults \in Nat

VARIABLES
  pc,        \* the request that comes next
  alg,       \* the checksum that is probed
  ep,        \* the endpoint: what it is and does
  report,    \* the Report
  probe,     \* the ChecksumProbeResult of each checksum
  left,      \* what check has put in the bucket
  faults,    \* faults so far
  loose,     \* things a request of check about them failed for
  misled     \* checksums whose wrong part met another error

vars == <<pc, alg, ep, report, probe, left, faults, loose, misled>>
ghosts == <<loose, misled>>

Algs == {"crc32c", "crc64nvme"}
Rights == {"write", "read", "delete", "multipart", "abort"}
\* What an endpoint does with x-amz-checksum-*: refuse wrong sums and echo
\* right ones, the same but fail at the end of the upload, echo anything,
\* ignore it, or refuse to begin.
Manners == {"verifies", "incomplete", "parrots", "ignores", "refuses"}
Things == ({"validate"} \cup Algs) \X {"upload", "object"}
Probe == <<"validate", "object">>
ProbeUpload == <<"validate", "upload">>

Pcs == {"head", "config", "put", "get", "delete", "begin", "abort",
        "create", "part1", "wrong", "part2", "complete", "drop", "tidy",
        "verdict", "end"}

Endpoints == [reach : {"ok", "missing", "refused"}, may : SUBSET Rights,
              sums : [Algs -> Manners]]
Reports == [errors : SUBSET {"bucket", "endpoint", "write", "read", "differs",
                             "delete", "multipart"},
            warnings : SUBSET {"config", "abort", "crc32c"},
            can : SUBSET Rights,
            verified : [Algs -> {"unknown", "yes", "no"}],
            ok : BOOLEAN]
Probes == [accepted : BOOLEAN, echoed : {"none", "yes", "no"},
           rejected : {"none", "yes", "no"}, etags : SUBSET {1, 2},
           completed : BOOLEAN]

TypeOK ==
  /\ pc \in Pcs
  /\ alg \in Algs
  /\ ep \in Endpoints
  /\ report \in Reports
  /\ probe \in [Algs -> Probes]
  /\ left \subseteq Things
  /\ faults \in 0 .. MaxFaults
  /\ loose \subseteq Things
  /\ misled \subseteq Algs

Init ==
  /\ pc = "head" /\ alg = "crc32c"
  /\ ep \in Endpoints
  /\ ep.reach # "ok" => ep.may = Rights /\ ep.sums = [a \in Algs |-> "verifies"]
  /\ report = [errors |-> {}, warnings |-> {}, can |-> {},
               verified |-> [a \in Algs |-> "unknown"], ok |-> FALSE]
  /\ probe = [a \in Algs |-> [accepted |-> FALSE, echoed |-> "none",
                              rejected |-> "none", etags |-> {},
                              completed |-> FALSE]]
  /\ left = {} /\ faults = 0 /\ loose = {} /\ misled = {}

(***************************************************************************)
(* Requests.                                                               *)
(***************************************************************************)
Trouble == faults < MaxFaults /\ faults' = faults + 1
Answered(allowed) == allowed /\ UNCHANGED faults
\* Refused by the endpoint, or failed on the way.
NotAnswered(allowed) == (~allowed /\ UNCHANGED faults) \/ Trouble
May(right) == right \in ep.may

Error(e) == report' = [report EXCEPT !.errors = @ \cup {e}]
Found(right) == report' = [report EXCEPT !.can = @ \cup {right}]
Goto(to) == pc' = to /\ UNCHANGED <<alg, ep>>

\* A request that makes t: without an answer it may have been carried out.
Makes(t) == left' = left \cup {t} /\ UNCHANGED ghosts
MakesOrNot(allowed, t) ==
  /\ left' \in {left, IF allowed THEN left \cup {t} ELSE left}
  /\ loose' = loose \cup {t} /\ UNCHANGED misled
\* The same for one that removes t.
Removes(t) == left' = left \ {t} /\ UNCHANGED ghosts
RemovesOrNot(allowed, t) ==
  /\ left' \in {left, IF allowed THEN left \ {t} ELSE left}
  /\ loose' = loose \cup {t} /\ UNCHANGED misled
Leaves == UNCHANGED <<left, ghosts>>

(***************************************************************************)
(* validate: the bucket.                                                   *)
(***************************************************************************)
\* A bucket that is not there, or a HEAD that fails, ends the check.
Head ==
  /\ pc = "head"
  /\ \/ Answered(ep.reach = "ok") /\ Goto("config") /\ UNCHANGED report
     \/ Answered(ep.reach = "missing") /\ Goto("end") /\ Error("bucket")
     \/ NotAnswered(ep.reach # "refused") /\ Goto("end") /\ Error("endpoint")
  /\ Leaves /\ UNCHANGED probe

\* Versioning, Object Lock, lifecycle: what they say, and failing to read
\* them, are warnings.
ReadConfig ==
  /\ pc = "config"
  /\ \E w \in SUBSET {"config"} : report' = [report EXCEPT !.warnings = @ \cup w]
  /\ Goto("put")
  /\ Leaves /\ UNCHANGED <<probe, faults>>

(* Mutant: an object that cannot be written is a warning.                  *)
PutForgiven ==
  /\ pc = "put"
  /\ \/ Answered(May("write")) /\ Found("write") /\ Makes(Probe) /\ Goto("get")
     \/ /\ NotAnswered(May("write"))
        /\ report' = [report EXCEPT !.warnings = @ \cup {"config"}]
        /\ MakesOrNot(May("write"), Probe) /\ Goto("create")
  /\ UNCHANGED probe

Put ==
  /\ pc = "put"
  /\ \/ Answered(May("write")) /\ Found("write") /\ Makes(Probe) /\ Goto("get")
     \/ /\ NotAnswered(May("write")) /\ Error("write")
        /\ MakesOrNot(May("write"), Probe) /\ Goto("create")
  /\ UNCHANGED probe

Get ==
  /\ pc = "get"
  /\ \/ Answered(May("read")) /\ Found("read")
     \/ Trouble /\ Error("differs")
     \/ NotAnswered(May("read")) /\ Error("read")
  /\ Goto("delete")
  /\ Leaves /\ UNCHANGED probe

Delete ==
  /\ pc = "delete"
  /\ \/ Answered(May("delete")) /\ Found("delete") /\ Removes(Probe)
     \/ /\ NotAnswered(May("delete")) /\ Error("delete")
        /\ RemovesOrNot(May("delete"), Probe)
  /\ Goto("begin")
  /\ UNCHANGED probe

BeginUpload ==
  /\ pc = "begin"
  /\ \/ Answered(May("multipart")) /\ Found("multipart") /\ Makes(ProbeUpload) /\ Goto("abort")
     \/ /\ NotAnswered(May("multipart")) /\ Error("multipart")
        /\ MakesOrNot(May("multipart"), ProbeUpload) /\ Goto("create")
  /\ UNCHANGED probe

(* Mutant: the result of the abort is not looked at.                       *)
AbortUploadSilently ==
  /\ pc = "abort"
  /\ \/ Answered(May("abort")) /\ Removes(ProbeUpload)
     \/ NotAnswered(May("abort")) /\ RemovesOrNot(May("abort"), ProbeUpload)
  /\ Goto("create")
  /\ UNCHANGED <<report, probe>>

AbortUpload ==
  /\ pc = "abort"
  /\ \/ Answered(May("abort")) /\ Removes(ProbeUpload) /\ UNCHANGED report
     \/ /\ NotAnswered(May("abort"))
        /\ report' = [report EXCEPT !.warnings = @ \cup {"abort"}]
        /\ RemovesOrNot(May("abort"), ProbeUpload)
  /\ Goto("create")
  /\ UNCHANGED probe

(***************************************************************************)
(* probe_one, for alg.                                                     *)
(***************************************************************************)
Upload == <<alg, "upload">>
Object == <<alg, "object">>
Begins == May("multipart") /\ ep.sums[alg] # "refuses"
Verifies == ep.sums[alg] \in {"verifies", "incomplete"}
Echoes == ep.sums[alg] \in {"verifies", "incomplete", "parrots"}
Learn(r) == probe' = [probe EXCEPT ![alg] = r]

NextAlg ==
  IF alg = "crc32c" THEN pc' = "create" /\ alg' = "crc64nvme" /\ UNCHANGED ep
  ELSE Goto("verdict")

\* An answer without an UploadId is as bad as none, and leaves the upload.
CreateUpload ==
  /\ pc = "create"
  /\ \/ Answered(Begins) /\ Makes(Upload) /\ Goto("part1")
     \/ NotAnswered(Begins) /\ MakesOrNot(Begins, Upload) /\ NextAlg
  /\ UNCHANGED <<report, probe>>

\* A part may be taken without an answer that names its ETag.
TagOrNot(tagged) == IF tagged THEN UNCHANGED faults ELSE Trouble
Tagged(r, n, tagged) == IF tagged THEN [r EXCEPT !.etags = @ \cup {n}] ELSE r

UploadPart1 ==
  /\ pc = "part1"
  /\ \/ /\ \E echo \in IF Echoes THEN {"yes"} ELSE {"none", "no"},
              tagged \in BOOLEAN :
             /\ TagOrNot(tagged)
             /\ Learn(Tagged([probe[alg] EXCEPT !.accepted = TRUE, !.echoed = echo],
                             1, tagged))
        /\ Goto("wrong")
     \/ Trouble /\ Goto("tidy") /\ UNCHANGED probe
  /\ Leaves /\ UNCHANGED report

\* Any error the endpoint answers with counts as refusing the wrong sum.
UploadWrongPart ==
  /\ pc = "wrong"
  /\ \/ /\ Answered(~Verifies) /\ Learn([probe[alg] EXCEPT !.rejected = "no"])
        /\ Goto("part2") /\ Leaves
     \/ /\ Answered(Verifies) /\ Learn([probe[alg] EXCEPT !.rejected = "yes"])
        /\ Goto("part2") /\ Leaves
     \/ /\ Trouble /\ Learn([probe[alg] EXCEPT !.rejected = "yes"])
        /\ misled' = misled \cup {alg}
        /\ Goto("part2") /\ UNCHANGED <<left, loose>>
     \/ Trouble /\ UNCHANGED probe /\ Goto("tidy") /\ Leaves
  /\ UNCHANGED report

(* Mutant: without both ETags the upload is given up and not aborted.      *)
UploadPart2AndLeave ==
  /\ pc = "part2"
  /\ \/ /\ \E tagged \in BOOLEAN :
             TagOrNot(tagged) /\ Learn(Tagged(probe[alg], 2, tagged))
        /\ IF probe'[alg].etags = {1, 2} THEN Goto("complete") ELSE NextAlg
     \/ Trouble /\ Goto("tidy") /\ UNCHANGED probe
  /\ Leaves /\ UNCHANGED report

UploadPart2 ==
  /\ pc = "part2"
  /\ \/ /\ \E tagged \in BOOLEAN :
             TagOrNot(tagged) /\ Learn(Tagged(probe[alg], 2, tagged))
        /\ Goto(IF probe'[alg].etags = {1, 2} THEN "complete" ELSE "tidy")
     \/ Trouble /\ Goto("tidy") /\ UNCHANGED probe
  /\ Leaves /\ UNCHANGED report

\* Completed, the upload is an object.
CompletedUpload == (left \ {Upload}) \cup {Object}

CompleteUpload ==
  /\ pc = "complete"
  /\ \/ /\ Answered(ep.sums[alg] # "incomplete")
        /\ Learn([probe[alg] EXCEPT !.completed = TRUE])
        /\ left' = CompletedUpload /\ Goto("drop")
        /\ UNCHANGED ghosts
     \/ /\ NotAnswered(ep.sums[alg] # "incomplete") /\ UNCHANGED probe
        /\ left' \in {left, IF ep.sums[alg] = "incomplete" THEN left ELSE CompletedUpload}
        /\ loose' = loose \cup {Object} /\ UNCHANGED misled
        /\ Goto("tidy")
  /\ UNCHANGED report

\* What fails here is logged and not reported.
DropObject ==
  /\ pc = "drop"
  /\ \/ Answered(May("delete")) /\ Removes(Object)
     \/ NotAnswered(May("delete")) /\ RemovesOrNot(May("delete"), Object)
  /\ NextAlg
  /\ UNCHANGED <<report, probe>>

TidyUpload ==
  /\ pc = "tidy"
  /\ \/ Answered(May("abort")) /\ Removes(Upload)
     \/ NotAnswered(May("abort")) /\ RemovesOrNot(May("abort"), Upload)
  /\ NextAlg
  /\ UNCHANGED <<report, probe>>

(***************************************************************************)
(* The verdict.                                                            *)
(***************************************************************************)
(* Mutant: that the wrong sum was refused is not asked for.                *)
VerifiedByEcho(p) == p.accepted /\ p.echoed = "yes" /\ p.completed

Verified(p) == p.accepted /\ p.echoed = "yes" /\ p.rejected = "yes" /\ p.completed

Verdict ==
  /\ pc = "verdict"
  /\ report' = [report EXCEPT
       !.verified = [a \in Algs |-> IF Verified(probe[a]) THEN "yes" ELSE "no"],
       !.warnings = @ \cup (IF Verified(probe["crc32c"]) THEN {} ELSE {"crc32c"}),
       !.ok = (report.errors = {})]
  /\ Goto("end")
  /\ Leaves /\ UNCHANGED <<probe, faults>>

Next ==
  \/ Head \/ ReadConfig \/ Put \/ Get \/ Delete \/ BeginUpload \/ AbortUpload
  \/ CreateUpload \/ UploadPart1 \/ UploadWrongPart \/ UploadPart2
  \/ CompleteUpload \/ DropObject \/ TidyUpload \/ Verdict

Spec == Init /\ [][Next]_vars

(***************************************************************************)
(* Properties.                                                             *)
(***************************************************************************)
Usable == ep.reach = "ok" /\ {"write", "read", "delete", "multipart"} \subseteq ep.may
Measured(a) == ep.sums[a] = "verifies" /\ May("multipart")

\* "usable for backups" is said of no endpoint that is not, whichever requests
\* fail, and of every one that is when none fails (check.rs:80).
VerdictIsRight ==
  pc = "end" =>
    /\ report.ok => Usable
    /\ faults = 0 /\ Usable => report.ok

\* A checksum is reported as verified only by an endpoint that refuses wrong
\* ones, or that answered the wrong part with an error of another kind; and by
\* every such endpoint when no request fails (admin.rs:497).
SumsAreTrue ==
  pc = "end" => \A a \in Algs :
    /\ report.verified[a] = "yes" => Measured(a) \/ (a \in misled /\ ep.sums[a] = "parrots")
    /\ faults = 0 /\ ep.reach = "ok" /\ Measured(a) => report.verified[a] = "yes"

\* What the report says is so, whichever requests fail.
ReportIsTrue == VerdictIsRight /\ SumsAreTrue

\* Whatever order of failures, what check leaves in the bucket is something it
\* was refused or did not hear about when it made or removed it (admin.rs:431);
\* and what validate leaves of its own probes shows in the report, not so what
\* the checksum probes leave (admin.rs:879).
NothingLeft ==
  pc = "end" =>
    /\ left \subseteq loose
    /\ left \cap {Probe, ProbeUpload} # {} => ~report.ok \/ "abort" \in report.warnings
=============================================================================
