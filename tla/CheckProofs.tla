----------------------------- MODULE CheckProofs -----------------------------
(***************************************************************************)
(* Theorems about Check, for any number of requests that fail: the report  *)
(* is true, and what is left in the bucket is accounted for.               *)
(***************************************************************************)
EXTENDS Check, TLAPS

(***************************************************************************)
(* The inductive invariant, by parts.                                      *)
(***************************************************************************)
InValidate == {"head", "config", "put", "get", "delete", "begin", "abort"}
InProbe == {"create", "part1", "wrong", "part2", "complete", "drop", "tidy"}

\* Rights that have been tried and not refused when pc is reached with no error.
Tried(at) ==
  CASE at \in {"head", "config", "put"} -> {}
    [] at = "get" -> {"write"}
    [] at = "delete" -> {"write", "read"}
    [] at = "begin" -> {"write", "read", "delete"}
    [] OTHER -> {"write", "read", "delete", "multipart"}

\* Without an error so far, the endpoint allows what was tried so far; and
\* with no failure an endpoint that allows everything has caused no error.
RightsInv ==
  /\ pc \notin {"head", "end"} => ep.reach = "ok"
  /\ report.errors = {} /\ pc # "end" => Tried(pc) \subseteq ep.may
  /\ faults = 0 /\ Usable => report.errors = {}
  /\ report.ok => pc = "end" /\ Usable /\ report.errors = {}
  /\ pc = "end" /\ faults = 0 /\ Usable => report.ok

\* What is known of a checksum is so, or an error of another kind misled.
Justified(a) ==
  /\ probe[a].accepted => May("multipart") /\ ep.sums[a] # "refuses"
  /\ probe[a].echoed = "yes" => ep.sums[a] \in {"verifies", "incomplete", "parrots"}
  /\ probe[a].rejected = "yes" => ep.sums[a] \in {"verifies", "incomplete"} \/ a \in misled
  /\ probe[a].completed => ep.sums[a] # "incomplete"

KnownInv ==
  /\ pc \in InValidate => alg = "crc32c"
  /\ pc \in InProbe \ {"create"} => Begins
  /\ \A a \in Algs : Justified(a)
  /\ \A a \in Algs : report.verified[a] = "yes" => pc = "end" /\ Verified(probe[a])

\* With no failure the probe of an endpoint that verifies goes its way.
Smooth(a) == faults = 0 /\ Measured(a)
OnItsWay ==
  /\ pc # "tidy"
  /\ pc \in {"wrong", "part2", "complete", "drop"} =>
       probe[alg].accepted /\ probe[alg].echoed = "yes" /\ 1 \in probe[alg].etags
  /\ pc \in {"part2", "complete", "drop"} => probe[alg].rejected = "yes"
  /\ pc = "drop" => probe[alg].completed

SmoothInv ==
  /\ Smooth(alg) => OnItsWay
  /\ \A a \in Algs : Smooth(a) =>
       /\ pc \in InProbe /\ alg = "crc64nvme" /\ a = "crc32c" => Verified(probe[a])
       /\ pc = "verdict" => Verified(probe[a])
       /\ pc = "end" /\ ep.reach = "ok" => report.verified[a] = "yes"

\* What check has put in the bucket and is about to remove.
Held ==
  CASE pc \in {"get", "delete"} -> {Probe}
    [] pc = "abort" -> {ProbeUpload}
    [] pc \in {"part1", "wrong", "part2", "complete", "tidy"} -> {Upload}
    [] pc = "drop" -> {Object}
    [] OTHER -> {}

LeftInv ==
  /\ left \subseteq loose \cup Held
  /\ Probe \in left => pc \in {"get", "delete"} \/ report.errors # {}
  /\ ProbeUpload \in left => pc = "abort" \/ report.errors # {} \/ "abort" \in report.warnings

IInv == TypeOK /\ RightsInv /\ KnownInv /\ SmoothInv /\ LeftInv

(***************************************************************************)
(* Records.                                                                *)
(***************************************************************************)
Kinds == {"bucket", "endpoint", "write", "read", "differs", "delete", "multipart"}

LEMMA ErrorFacts ==
  ASSUME TypeOK, NEW e \in Kinds, Error(e)
  PROVE  /\ report' \in Reports
         /\ report'.errors # {}
         /\ report'.verified = report.verified /\ report'.ok = report.ok
BY DEF TypeOK, Error, Reports, Kinds

LEMMA FoundFacts ==
  ASSUME TypeOK, NEW right \in Rights, Found(right)
  PROVE  /\ report' \in Reports
         /\ report'.errors = report.errors /\ report'.warnings = report.warnings
         /\ report'.verified = report.verified /\ report'.ok = report.ok
BY DEF TypeOK, Found, Reports

LEMMA WarningFacts ==
  ASSUME TypeOK, NEW w \in SUBSET {"config", "abort", "crc32c"},
         report' = [report EXCEPT !.warnings = @ \cup w]
  PROVE  /\ report' \in Reports
         /\ report'.errors = report.errors /\ report'.warnings = report.warnings \cup w
         /\ report'.verified = report.verified /\ report'.ok = report.ok
BY DEF TypeOK, Reports

LEMMA LearnFacts ==
  ASSUME TypeOK, NEW r \in Probes, Learn(r)
  PROVE  /\ probe' \in [Algs -> Probes]
         /\ probe'[alg] = r
         /\ \A a \in Algs : a # alg => probe'[a] = probe[a]
BY DEF TypeOK, Learn

LEMMA FaultFacts ==
  ASSUME TypeOK, Trouble \/ UNCHANGED faults
  PROVE  /\ faults' \in 0 .. MaxFaults
         /\ faults' = 0 => faults = 0
         /\ Trouble => faults' # 0
BY CheckAssumption DEF TypeOK, Trouble

\* What a request makes or removes is one of the things check may leave.
LEMMA ThingFacts ==
  ASSUME TypeOK, NEW t \in Things, NEW allowed \in BOOLEAN,
         Makes(t) \/ MakesOrNot(allowed, t) \/ Removes(t) \/ RemovesOrNot(allowed, t)
  PROVE  /\ left' \subseteq Things /\ loose' \subseteq Things
         /\ loose \subseteq loose' /\ misled' = misled
         /\ left' \subseteq left \cup {t}
BY DEF TypeOK, Makes, MakesOrNot, Removes, RemovesOrNot, ghosts

LEMMA TheThings ==
  ASSUME TypeOK
  PROVE  /\ Probe \in Things /\ ProbeUpload \in Things /\ Upload \in Things /\ Object \in Things
         /\ Probe # ProbeUpload /\ Probe # Upload /\ Probe # Object
         /\ ProbeUpload # Upload /\ ProbeUpload # Object /\ Upload # Object
BY DEF TypeOK, Things, Algs, Probe, ProbeUpload, Upload, Object

(***************************************************************************)
(* A step of validate leaves the probes and their results alone.           *)
(***************************************************************************)
ValidateFrame ==
  /\ pc \in InValidate
  /\ pc' \in InValidate \cup {"create", "end"}
  /\ UNCHANGED <<alg, ep, probe, misled>>
  /\ report' \in Reports /\ report'.verified = report.verified /\ report'.ok = report.ok
  /\ faults' \in 0 .. MaxFaults /\ (faults' = 0 => faults = 0)
  /\ pc' = "end" => ep.reach # "ok" \/ faults' # 0
  /\ left' \subseteq Things /\ loose' \subseteq Things

LEMMA ValidateTypes ==
  ASSUME TypeOK, ValidateFrame
  PROVE  TypeOK'
BY DEF TypeOK, ValidateFrame, Pcs, InValidate

LEMMA ValidateKnown ==
  ASSUME KnownInv, ValidateFrame
  PROVE  KnownInv'
<1>1. alg = "crc32c" /\ pc' \notin InProbe \ {"create"} /\ pc # "end"
  BY DEF ValidateFrame, KnownInv, InValidate, InProbe
<1>2. \A a \in Algs : Justified(a)'
  BY DEF ValidateFrame, KnownInv, Justified, May
<1>3. \A a \in Algs : report.verified[a] # "yes"
  BY <1>1 DEF KnownInv
<1> QED
  BY <1>1, <1>2, <1>3 DEF KnownInv, ValidateFrame

LEMMA ValidateSmooth ==
  ASSUME KnownInv, SmoothInv, ValidateFrame
  PROVE  SmoothInv'
<1>1. alg' = "crc32c" /\ pc' \notin InProbe \ {"create"} /\ pc' # "verdict"
  BY DEF ValidateFrame, KnownInv, InValidate, InProbe
<1>2. Smooth(alg)' => OnItsWay'
  BY <1>1 DEF OnItsWay, InProbe
<1>3. \A a \in Algs : Smooth(a)' /\ pc' = "end" => ep'.reach # "ok"
  BY DEF ValidateFrame, Smooth
<1> QED
  BY <1>1, <1>2, <1>3 DEF SmoothInv

(***************************************************************************)
(* The steps of validate.                                                  *)
(***************************************************************************)
LEMMA InitIInv == Init => IInv
<1> SUFFICES ASSUME Init PROVE IInv
  OBVIOUS
<1>1. pc = "head" /\ alg = "crc32c" /\ ep \in Endpoints /\ left = {} /\ faults = 0 /\ loose = {} /\ misled = {}
  BY DEF Init
<1>2. report \in Reports /\ report.errors = {} /\ report.ok = FALSE
      /\ \A a \in Algs : report.verified[a] = "unknown"
  BY DEF Init, Reports
<1>3. probe \in [Algs -> Probes]
      /\ \A a \in Algs : ~probe[a].accepted /\ probe[a].echoed = "none" /\ probe[a].rejected = "none"
                         /\ ~probe[a].completed
  BY DEF Init, Probes
<1>4. TypeOK
  BY <1>1, <1>2, <1>3, CheckAssumption DEF TypeOK, Pcs, Algs
<1>5. RightsInv
  BY <1>1, <1>2 DEF RightsInv, Tried
<1>6. KnownInv
  BY <1>1, <1>2, <1>3 DEF KnownInv, Justified, InProbe
<1>7. SmoothInv
  BY <1>1 DEF SmoothInv, OnItsWay, InProbe
<1>8. LeftInv
  BY <1>1 DEF LeftInv
<1> QED
  BY <1>4, <1>5, <1>6, <1>7, <1>8 DEF IInv

LEMMA ValidateStep ==
  ASSUME IInv, ValidateFrame, RightsInv', LeftInv'
  PROVE  IInv'
BY ValidateTypes, ValidateKnown, ValidateSmooth DEF IInv

LEMMA HeadStep ==
  ASSUME IInv, Head
  PROVE  IInv'
<1>1. TypeOK /\ RightsInv /\ LeftInv /\ pc = "head" /\ UNCHANGED <<alg, ep, probe, left, loose, misled>>
  BY DEF IInv, Head, Goto, Leaves, ghosts
<1>2. CASE Answered(ep.reach = "ok") /\ Goto("config") /\ UNCHANGED report
  <2>1. ValidateFrame
    BY <1>1, <1>2 DEF ValidateFrame, TypeOK, InValidate, Answered, Goto
  <2>2. RightsInv'
    BY <1>1, <1>2 DEF RightsInv, Tried, Usable, Answered, Goto
  <2>3. LeftInv'
    BY <1>1, <1>2 DEF LeftInv, Held, Goto
  <2> QED
    BY <2>1, <2>2, <2>3, ValidateStep
<1>3. CASE (Answered(ep.reach = "missing") /\ Goto("end") /\ Error("bucket"))
             \/ (NotAnswered(ep.reach # "refused") /\ Goto("end") /\ Error("endpoint"))
  <2>1. /\ pc' = "end"
        /\ report' \in Reports /\ report'.errors # {}
        /\ report'.verified = report.verified /\ report'.ok = report.ok
    BY <1>1, <1>3, ErrorFacts DEF Goto, Kinds
  <2>2. /\ faults' \in 0 .. MaxFaults /\ (faults' = 0 => faults = 0)
        /\ ep.reach # "ok" \/ faults' # 0
    <3>1. Trouble \/ UNCHANGED faults
      BY <1>3 DEF Answered, NotAnswered
    <3>2. ep.reach # "ok" \/ Trouble
      BY <1>3 DEF Answered, NotAnswered
    <3> QED
      BY <1>1, <3>1, <3>2, FaultFacts
  <2>3. ValidateFrame
    BY <1>1, <2>1, <2>2 DEF ValidateFrame, TypeOK, InValidate
  <2>4. RightsInv'
    BY <1>1, <2>1, <2>2 DEF RightsInv, Usable
  <2>5. LeftInv'
    BY <1>1, <2>1 DEF LeftInv, Held
  <2> QED
    BY <2>3, <2>4, <2>5, ValidateStep
<1> QED
  BY <1>2, <1>3 DEF Head

LEMMA ReadConfigStep ==
  ASSUME IInv, ReadConfig
  PROVE  IInv'
<1>1. TypeOK /\ RightsInv /\ LeftInv /\ pc = "config" /\ pc' = "put"
      /\ UNCHANGED <<alg, ep, probe, left, loose, misled, faults>>
  BY DEF IInv, ReadConfig, Goto, Leaves, ghosts
<1>2. PICK w \in SUBSET {"config"} : report' = [report EXCEPT !.warnings = @ \cup w]
  BY DEF ReadConfig
<1>3. /\ report' \in Reports /\ report'.errors = report.errors /\ report'.warnings = report.warnings \cup w
      /\ report'.verified = report.verified /\ report'.ok = report.ok
  BY <1>1, <1>2, WarningFacts
<1>4. ValidateFrame
  BY <1>1, <1>3 DEF ValidateFrame, TypeOK, InValidate
<1>5. RightsInv'
  BY <1>1, <1>3 DEF RightsInv, Tried, Usable
<1>6. LeftInv'
  BY <1>1, <1>3 DEF LeftInv, Held
<1> QED
  BY <1>4, <1>5, <1>6, ValidateStep

\* A request about t that the endpoint allows, or that ends in the error e.
LEMMA Allowed ==
  ASSUME IInv, NEW right \in Rights, Answered(May(right)), Found(right),
         pc \in InValidate \ {"head"}, pc' \in (InValidate \ {"head"}) \cup {"create"},
         Tried(pc') \subseteq Tried(pc) \cup {right},
         UNCHANGED <<alg, ep, probe, misled>>,
         left' \subseteq Things, loose' \subseteq Things,
         LeftInv'
  PROVE  IInv'
<1>1. TypeOK /\ RightsInv
  BY DEF IInv
<1>2. /\ report' \in Reports /\ report'.errors = report.errors
      /\ report'.verified = report.verified /\ report'.ok = report.ok
  BY <1>1, FoundFacts
<1>3. UNCHANGED faults /\ right \in ep.may /\ faults \in 0 .. MaxFaults
  BY <1>1 DEF Answered, May, TypeOK
<1>4. ValidateFrame
  BY <1>2, <1>3 DEF ValidateFrame, InValidate
<1>5. pc # "end" /\ pc' # "end" /\ pc' # "head" /\ pc # "head"
  BY DEF InValidate
<1>6. RightsInv'
  BY <1>1, <1>2, <1>3, <1>5 DEF RightsInv, Usable
<1> QED
  BY <1>4, <1>6, ValidateStep

LEMMA Failed ==
  ASSUME IInv, NEW right \in {"write", "read", "delete", "multipart"},
         NotAnswered(May(right)) \/ Trouble,
         NEW e \in Kinds, Error(e),
         pc \in InValidate \ {"head"}, pc' \in (InValidate \ {"head"}) \cup {"create"},
         UNCHANGED <<alg, ep, probe, misled>>,
         left' \subseteq Things, loose' \subseteq Things,
         LeftInv'
  PROVE  IInv'
<1>1. TypeOK /\ RightsInv
  BY DEF IInv
<1>2. /\ report' \in Reports /\ report'.errors # {}
      /\ report'.verified = report.verified /\ report'.ok = report.ok
  BY <1>1, ErrorFacts
<1>3. (Trouble \/ UNCHANGED faults) /\ (Trouble \/ right \notin ep.may)
  BY DEF NotAnswered, May
<1>4. /\ faults' \in 0 .. MaxFaults /\ (faults' = 0 => faults = 0)
      /\ right \in ep.may => faults' # 0
  BY <1>1, <1>3, FaultFacts
<1>5. pc # "end" /\ pc' # "end" /\ pc' # "head" /\ pc # "head"
  BY DEF InValidate
<1>6. ValidateFrame
  BY <1>2, <1>4, <1>5 DEF ValidateFrame, InValidate
<1>7. RightsInv'
  BY <1>1, <1>2, <1>4, <1>5 DEF RightsInv, Usable
<1> QED
  BY <1>6, <1>7, ValidateStep

LEMMA PutStep ==
  ASSUME IInv, Put
  PROVE  IInv'
<1>1. TypeOK /\ LeftInv /\ pc = "put" /\ UNCHANGED <<alg, ep, probe>>
  BY DEF IInv, Put, Goto
<1>2. CASE Answered(May("write")) /\ Found("write") /\ Makes(Probe) /\ Goto("get")
  <2>1. left' = left \cup {Probe} /\ UNCHANGED ghosts /\ pc' = "get"
        /\ report'.errors = report.errors /\ report'.warnings = report.warnings
    BY <1>1, <1>2, FoundFacts DEF Makes, Goto, Rights
  <2>2. LeftInv'
    BY <1>1, <2>1, TheThings DEF LeftInv, Held, ghosts
  <2>3. left' \subseteq Things /\ loose' \subseteq Things /\ UNCHANGED misled
    BY <1>1, <2>1, TheThings DEF TypeOK, ghosts
  <2> QED
    BY <1>1, <1>2, <2>1, <2>2, <2>3, Allowed DEF Rights, Tried, InValidate
<1>3. CASE /\ NotAnswered(May("write")) /\ Error("write")
           /\ MakesOrNot(May("write"), Probe) /\ Goto("create")
  <2>1. left' \subseteq left \cup {Probe} /\ loose' = loose \cup {Probe} /\ UNCHANGED misled
        /\ pc' = "create" /\ report'.errors # {}
    BY <1>1, <1>3, ErrorFacts DEF MakesOrNot, Goto, Kinds
  <2>2. LeftInv'
    BY <1>1, <2>1 DEF LeftInv, Held
  <2>3. left' \subseteq Things /\ loose' \subseteq Things
    BY <1>1, <2>1, TheThings DEF TypeOK
  <2> QED
    BY <1>1, <1>3, <2>1, <2>2, <2>3, Failed DEF Kinds, InValidate
<1> QED
  BY <1>2, <1>3 DEF Put

LEMMA GetStep ==
  ASSUME IInv, Get
  PROVE  IInv'
<1>1. TypeOK /\ LeftInv /\ pc = "get" /\ pc' = "delete"
      /\ UNCHANGED <<alg, ep, probe, left, loose, misled>>
  BY DEF IInv, Get, Goto, Leaves, ghosts
<1>2. CASE Answered(May("read")) /\ Found("read")
  <2>1. report'.errors = report.errors /\ report'.warnings = report.warnings
    BY <1>1, <1>2, FoundFacts DEF Rights
  <2>2. LeftInv'
    BY <1>1, <2>1 DEF LeftInv, Held
  <2> QED
    BY <1>1, <1>2, <2>2, Allowed DEF TypeOK, Rights, Tried, InValidate
<1>3. CASE (Trouble /\ Error("differs")) \/ (NotAnswered(May("read")) /\ Error("read"))
  <2>1. report'.errors # {}
    BY <1>1, <1>3, ErrorFacts DEF Kinds
  <2>2. LeftInv'
    BY <1>1, <2>1 DEF LeftInv, Held
  <2> QED
    BY <1>1, <1>3, <2>2, Failed DEF TypeOK, Kinds, InValidate
<1> QED
  BY <1>2, <1>3 DEF Get

LEMMA DeleteStep ==
  ASSUME IInv, Delete
  PROVE  IInv'
<1>1. TypeOK /\ LeftInv /\ pc = "delete" /\ pc' = "begin" /\ UNCHANGED <<alg, ep, probe>>
  BY DEF IInv, Delete, Goto
<1>2. CASE Answered(May("delete")) /\ Found("delete") /\ Removes(Probe)
  <2>1. left' = left \ {Probe} /\ UNCHANGED ghosts
        /\ report'.errors = report.errors /\ report'.warnings = report.warnings
    BY <1>1, <1>2, FoundFacts DEF Removes, Rights
  <2>2. LeftInv'
    BY <1>1, <2>1, TheThings DEF LeftInv, Held, ghosts
  <2>3. left' \subseteq Things /\ loose' \subseteq Things /\ UNCHANGED misled
    BY <1>1, <2>1 DEF TypeOK, ghosts
  <2> QED
    BY <1>1, <1>2, <2>2, <2>3, Allowed DEF Rights, Tried, InValidate
<1>3. CASE NotAnswered(May("delete")) /\ Error("delete") /\ RemovesOrNot(May("delete"), Probe)
  <2>1. left' \subseteq left /\ loose' = loose \cup {Probe} /\ UNCHANGED misled
        /\ report'.errors # {}
    BY <1>1, <1>3, ErrorFacts DEF RemovesOrNot, Kinds
  <2>2. LeftInv'
    BY <1>1, <2>1 DEF LeftInv, Held
  <2>3. left' \subseteq Things /\ loose' \subseteq Things
    BY <1>1, <2>1, TheThings DEF TypeOK
  <2> QED
    BY <1>1, <1>3, <2>1, <2>2, <2>3, Failed DEF Kinds, InValidate
<1> QED
  BY <1>2, <1>3 DEF Delete

LEMMA BeginUploadStep ==
  ASSUME IInv, BeginUpload
  PROVE  IInv'
<1>1. TypeOK /\ LeftInv /\ pc = "begin" /\ UNCHANGED <<alg, ep, probe>>
  BY DEF IInv, BeginUpload, Goto
<1>2. CASE Answered(May("multipart")) /\ Found("multipart") /\ Makes(ProbeUpload) /\ Goto("abort")
  <2>1. left' = left \cup {ProbeUpload} /\ UNCHANGED ghosts /\ pc' = "abort"
        /\ report'.errors = report.errors /\ report'.warnings = report.warnings
    BY <1>1, <1>2, FoundFacts DEF Makes, Goto, Rights
  <2>2. LeftInv'
    BY <1>1, <2>1, TheThings DEF LeftInv, Held, ghosts
  <2>3. left' \subseteq Things /\ loose' \subseteq Things /\ UNCHANGED misled
    BY <1>1, <2>1, TheThings DEF TypeOK, ghosts
  <2> QED
    BY <1>1, <1>2, <2>1, <2>2, <2>3, Allowed DEF Rights, Tried, InValidate
<1>3. CASE /\ NotAnswered(May("multipart")) /\ Error("multipart")
           /\ MakesOrNot(May("multipart"), ProbeUpload) /\ Goto("create")
  <2>1. left' \subseteq left \cup {ProbeUpload} /\ loose' = loose \cup {ProbeUpload} /\ UNCHANGED misled
        /\ pc' = "create" /\ report'.errors # {}
    BY <1>1, <1>3, ErrorFacts DEF MakesOrNot, Goto, Kinds
  <2>2. LeftInv'
    BY <1>1, <2>1 DEF LeftInv, Held
  <2>3. left' \subseteq Things /\ loose' \subseteq Things
    BY <1>1, <2>1, TheThings DEF TypeOK
  <2> QED
    BY <1>1, <1>3, <2>1, <2>2, <2>3, Failed DEF Kinds, InValidate
<1> QED
  BY <1>2, <1>3 DEF BeginUpload

LEMMA AbortUploadStep ==
  ASSUME IInv, AbortUpload
  PROVE  IInv'
<1>1. TypeOK /\ RightsInv /\ LeftInv /\ pc = "abort" /\ pc' = "create" /\ UNCHANGED <<alg, ep, probe>>
  BY DEF IInv, AbortUpload, Goto
<1>2. /\ report' \in Reports /\ report'.errors = report.errors
      /\ report'.verified = report.verified /\ report'.ok = report.ok
      /\ report.warnings \subseteq report'.warnings
  BY <1>1, WarningFacts DEF AbortUpload, TypeOK
<1>3. faults' \in 0 .. MaxFaults /\ (faults' = 0 => faults = 0)
  BY <1>1, FaultFacts DEF AbortUpload, Answered, NotAnswered
<1>4. /\ left' \subseteq left /\ loose \subseteq loose' /\ loose' \subseteq loose \cup {ProbeUpload}
      /\ UNCHANGED misled
      /\ ProbeUpload \in left' => ProbeUpload \in loose' /\ "abort" \in report'.warnings
  <2>1. CASE Removes(ProbeUpload)
    BY <2>1 DEF Removes, ghosts
  <2>2. CASE /\ RemovesOrNot(May("abort"), ProbeUpload)
             /\ report' = [report EXCEPT !.warnings = @ \cup {"abort"}]
    <3>1. "abort" \in report'.warnings
      BY <1>1, <2>2, WarningFacts
    <3> QED
      BY <2>2, <3>1 DEF RemovesOrNot
  <2> QED
    BY <2>1, <2>2 DEF AbortUpload
<1>5. left' \subseteq Things /\ loose' \subseteq Things
  BY <1>1, <1>4, TheThings DEF TypeOK
<1>6. ValidateFrame
  BY <1>1, <1>2, <1>3, <1>4, <1>5 DEF ValidateFrame, InValidate
<1>7. RightsInv'
  BY <1>1, <1>2, <1>3 DEF RightsInv, Tried, Usable
<1>8. LeftInv'
  BY <1>1, <1>2, <1>4 DEF LeftInv, Held
<1> QED
  BY <1>6, <1>7, <1>8, ValidateStep

(***************************************************************************)
(* The steps of the checksum probes: the report stays as it is.            *)
(***************************************************************************)
Later == IF alg = "crc32c" THEN pc' = "create" /\ alg' = "crc64nvme" ELSE pc' = "verdict" /\ alg' = alg

LEMMA NextAlgFacts == NextAlg <=> Later /\ UNCHANGED ep
BY DEF NextAlg, Later, Goto

ProbeFrame ==
  /\ pc \in InProbe /\ UNCHANGED <<ep, report>>
  /\ (pc' \in InProbe \ {"create"} /\ alg' = alg) \/ Later
  /\ Trouble \/ UNCHANGED faults
  /\ misled \subseteq misled'

LEMMA ProbeFrameFacts ==
  ASSUME TypeOK, ProbeFrame
  PROVE  /\ alg \in Algs /\ alg' \in Algs
         /\ pc' \in InProbe \cup {"verdict"}
         /\ faults' \in 0 .. MaxFaults /\ (faults' = 0 => faults = 0)
         /\ \A a \in Algs : Measured(a)' = Measured(a) /\ (Smooth(a)' => Smooth(a))
BY FaultFacts DEF TypeOK, ProbeFrame, InProbe, Algs, Later, Measured, Smooth, May

LEMMA ProbeRights ==
  ASSUME TypeOK, RightsInv, ProbeFrame
  PROVE  RightsInv'
BY ProbeFrameFacts DEF RightsInv, ProbeFrame, InProbe, Tried, Usable

\* What each request makes of the result of its checksum.
LEMMA ProbeKnown ==
  ASSUME TypeOK, KnownInv, ProbeFrame,
         pc' \in InProbe \ {"create"} => Begins,
         \A a \in Algs : probe'[a] = probe[a] \/ Justified(a)'
  PROVE  KnownInv'
<1>1. pc' \in InProbe \cup {"verdict"} /\ pc # "end"
  BY ProbeFrameFacts DEF ProbeFrame, InProbe
<1>2. ASSUME NEW a \in Algs PROVE Justified(a)'
  BY DEF KnownInv, ProbeFrame, Justified, May
<1>3. pc' \in InProbe \ {"create"} => Begins'
  <2> SUFFICES ASSUME pc' \in InProbe \ {"create"} PROVE Begins'
    OBVIOUS
  <2>1. alg' = alg /\ UNCHANGED ep /\ Begins
    BY DEF ProbeFrame, Later, InProbe
  <2> QED
    BY <2>1 DEF Begins, May
<1>4. \A a \in Algs : report'.verified[a] # "yes"
  BY <1>1 DEF KnownInv, ProbeFrame
<1> QED
  BY <1>1, <1>2, <1>3, <1>4 DEF KnownInv, InProbe, InValidate

\* With no failure each request goes on to the next one; the last one leaves
\* the checksum verified.
LEMMA ProbeSmooth ==
  ASSUME TypeOK, SmoothInv, ProbeFrame,
         Smooth(alg)' /\ alg' = alg /\ pc' \in InProbe => OnItsWay',
         Smooth(alg) /\ UNCHANGED faults /\ Later => Verified(probe[alg]) /\ UNCHANGED probe,
         \A a \in Algs : a # alg => probe'[a] = probe[a]
  PROVE  SmoothInv'
<1>1. /\ alg \in Algs /\ alg' \in Algs
      /\ pc' \in InProbe \cup {"verdict"} /\ pc' # "end"
      /\ \A a \in Algs : Smooth(a)' => Smooth(a)
  BY ProbeFrameFacts DEF InProbe
<1>2. Smooth(alg)' => OnItsWay'
  <2> SUFFICES ASSUME Smooth(alg)' PROVE OnItsWay'
    OBVIOUS
  <2>1. CASE alg' = alg /\ pc' \in InProbe
    BY <2>1 DEF Smooth, Measured
  <2>2. CASE ~(alg' = alg /\ pc' \in InProbe)
    <3>1. pc' \in {"create", "verdict"}
      BY <1>1, <2>2 DEF ProbeFrame, Later
    <3> QED
      BY <3>1 DEF OnItsWay
  <2> QED
    BY <2>1, <2>2
<1>3. ASSUME NEW a \in Algs, Smooth(a)'
      PROVE  /\ pc' \in InProbe /\ alg' = "crc64nvme" /\ a = "crc32c" => Verified(probe'[a])
             /\ pc' = "verdict" => Verified(probe'[a])
  <2>1. Smooth(a) /\ UNCHANGED faults
    BY <1>1, <1>3, FaultFacts DEF ProbeFrame, Smooth
  <2>2. CASE Later /\ a = alg
    BY <2>1, <2>2
  <2>3. CASE Later /\ a # alg
    <3>1. (alg = "crc64nvme" /\ a = "crc32c") \/ (alg = "crc32c" /\ a = "crc64nvme")
      BY <1>1, <2>3 DEF Algs
    <3>2. alg = "crc64nvme" => Verified(probe[a])
      BY <2>1, <2>3, <3>1 DEF SmoothInv, ProbeFrame
    <3> QED
      BY <2>3, <3>1, <3>2 DEF Later
  <2>4. CASE ~Later
    <3>1. pc' \in InProbe /\ pc' # "verdict" /\ alg' = alg
      BY <2>4 DEF ProbeFrame, InProbe
    <3>2. alg = "crc64nvme" /\ a = "crc32c" => Verified(probe[a]) /\ probe'[a] = probe[a]
      BY <2>1 DEF SmoothInv, ProbeFrame
    <3> QED
      BY <3>1, <3>2
  <2> QED
    BY <2>2, <2>3, <2>4
<1> QED
  BY <1>1, <1>2, <1>3 DEF SmoothInv

LEMMA ProbeLeft ==
  ASSUME TypeOK, LeftInv, ProbeFrame, loose \subseteq loose',
         left' \subseteq left \cup {Upload, Object},
         Upload \in left' => Upload \in loose' \/ Upload \in Held',
         Object \in left' => Object \in loose' \/ Object \in Held'
  PROVE  LeftInv'
<1>1. Held \subseteq {Upload, Object} /\ pc \notin {"get", "delete", "abort"} /\ UNCHANGED report
  BY DEF Held, ProbeFrame, InProbe
<1>2. left' \subseteq loose' \cup Held'
  BY <1>1 DEF LeftInv
<1>3. Probe \in left' => Probe \in left
  BY TheThings
<1>4. ProbeUpload \in left' => ProbeUpload \in left
  BY TheThings
<1> QED
  BY <1>1, <1>2, <1>3, <1>4 DEF LeftInv

LEMMA ProbeTypes ==
  ASSUME TypeOK, ProbeFrame, probe' \in [Algs -> Probes],
         left' \subseteq Things, loose' \subseteq Things, misled' \subseteq Algs
  PROVE  TypeOK'
BY ProbeFrameFacts DEF TypeOK, Pcs, ProbeFrame, InProbe

\* What a step says of the probe it belongs to.
ProbeStepOK ==
  /\ ProbeFrame
  /\ pc' \in InProbe \ {"create"} => Begins
  /\ probe' \in [Algs -> Probes]
  /\ \A a \in Algs : a # alg => probe'[a] = probe[a]
  /\ \A a \in Algs : a = alg => probe'[a] = probe[a] \/ Justified(a)'
  /\ Smooth(alg)' /\ alg' = alg /\ pc' \in InProbe => OnItsWay'
  /\ Smooth(alg) /\ UNCHANGED faults /\ Later => Verified(probe[alg]) /\ UNCHANGED probe
  /\ misled' \subseteq Algs

LeftStepOK ==
  /\ left' \subseteq left \cup {Upload, Object}
  /\ loose \subseteq loose' /\ loose' \subseteq loose \cup {Upload, Object}
  /\ Upload \in left' => Upload \in loose' \/ Upload \in Held'
  /\ Object \in left' => Object \in loose' \/ Object \in Held'

LEMMA ProbeStep ==
  ASSUME IInv, ProbeStepOK, LeftStepOK
  PROVE  IInv'
<1>1. TypeOK'
  <2>1. left' \subseteq Things /\ loose' \subseteq Things
    BY TheThings DEF IInv, TypeOK, LeftStepOK
  <2> QED
    BY <2>1, ProbeTypes DEF IInv, ProbeStepOK
<1>2. RightsInv'
  BY ProbeRights DEF IInv, ProbeStepOK
<1>3. KnownInv'
  <2>1. \A a \in Algs : probe'[a] = probe[a] \/ Justified(a)'
    BY DEF ProbeStepOK
  <2> QED
    BY <2>1, ProbeKnown DEF IInv, ProbeStepOK
<1>4. SmoothInv'
  BY ProbeSmooth DEF IInv, ProbeStepOK
<1>5. LeftInv'
  BY ProbeLeft DEF IInv, ProbeStepOK, LeftStepOK
<1> QED
  BY <1>1, <1>2, <1>3, <1>4, <1>5 DEF IInv

(***************************************************************************)
(* The steps of the checksum probes.                                       *)
(***************************************************************************)
LEMMA TaggedFacts ==
  ASSUME NEW r \in Probes, NEW n \in {1, 2}, NEW tagged \in BOOLEAN
  PROVE  LET s == Tagged(r, n, tagged)
         IN  /\ s \in Probes
             /\ s.accepted = r.accepted /\ s.echoed = r.echoed
             /\ s.rejected = r.rejected /\ s.completed = r.completed
             /\ s.etags = IF tagged THEN r.etags \cup {n} ELSE r.etags
BY DEF Tagged, Probes

\* With no failure after the step there was none before, and none in it.
LEMMA NoTrouble ==
  ASSUME TypeOK, Trouble
  PROVE  faults' # 0 /\ faults' # faults
BY CheckAssumption DEF TypeOK, Trouble

LEMMA CreateUploadStep ==
  ASSUME IInv, CreateUpload
  PROVE  IInv'
<1>1. TypeOK /\ KnownInv /\ LeftInv /\ pc = "create" /\ UNCHANGED <<ep, report, probe, misled>>
  BY DEF IInv, CreateUpload, Makes, MakesOrNot, ghosts, Goto, NextAlg
<1>2. left \subseteq loose /\ alg \in Algs /\ probe' \in [Algs -> Probes] /\ misled' \subseteq Algs
  BY <1>1 DEF LeftInv, Held, TypeOK
<1>3. CASE Answered(Begins) /\ Makes(Upload) /\ Goto("part1")
  <2>1. pc' = "part1" /\ alg' = alg /\ UNCHANGED faults /\ Begins
    BY <1>3 DEF Goto, Answered
  <2>2. ProbeStepOK
    BY <1>1, <1>2, <2>1 DEF ProbeStepOK, ProbeFrame, InProbe, Later, OnItsWay
  <2>3. LeftStepOK
    <3>1. Held' = {Upload}
      BY <2>1 DEF Held, Upload
    <3> QED
      BY <1>2, <1>3, <3>1 DEF LeftStepOK, Makes, ghosts
  <2> QED
    BY <2>2, <2>3, ProbeStep
<1>4. CASE NotAnswered(Begins) /\ MakesOrNot(Begins, Upload) /\ NextAlg
  <2>1. Later /\ pc' \in {"create", "verdict"}
    BY <1>4, NextAlgFacts DEF Later
  <2>2. Trouble \/ (~Begins /\ UNCHANGED faults)
    BY <1>4 DEF NotAnswered
  <2>3. ~(Smooth(alg) /\ UNCHANGED faults)
    BY <1>1, <2>2, NoTrouble DEF Smooth, Measured, Begins
  <2>4. ProbeStepOK
    BY <1>1, <1>2, <2>1, <2>2, <2>3 DEF ProbeStepOK, ProbeFrame, InProbe, OnItsWay
  <2>5. LeftStepOK
    BY <1>2, <1>4 DEF LeftStepOK, MakesOrNot
  <2> QED
    BY <2>4, <2>5, ProbeStep
<1> QED
  BY <1>3, <1>4 DEF CreateUpload

\* A request about parts keeps the upload.
LEMMA PartLeft ==
  ASSUME LeftInv, pc \in {"part1", "wrong", "part2"},
         pc' \in {"wrong", "part2", "complete", "tidy"},
         UNCHANGED <<alg, left, loose>>
  PROVE  LeftStepOK
BY DEF LeftInv, Held, LeftStepOK, Upload

\* A request that fails leads to the end of the upload.
LEMMA PartFails ==
  ASSUME IInv, pc \in {"part1", "wrong", "part2"}, Trouble, Goto("tidy"), Leaves,
         UNCHANGED <<probe, report>>
  PROVE  IInv'
<1>1. TypeOK /\ KnownInv /\ LeftInv /\ pc' = "tidy" /\ alg' = alg /\ UNCHANGED <<ep, left, loose, misled>>
  BY DEF IInv, Goto, Leaves, ghosts
<1>2. Begins /\ ~(faults' = 0) /\ ~UNCHANGED faults
  BY <1>1, NoTrouble DEF KnownInv, InProbe
<1>3. ProbeStepOK
  BY <1>1, <1>2 DEF ProbeStepOK, ProbeFrame, InProbe, Smooth, TypeOK
<1>4. LeftStepOK
  BY <1>1, PartLeft
<1> QED
  BY <1>3, <1>4, ProbeStep

LEMMA UploadPart1Step ==
  ASSUME IInv, UploadPart1
  PROVE  IInv'
<1>1. TypeOK /\ KnownInv /\ LeftInv /\ pc = "part1" /\ alg \in Algs
      /\ UNCHANGED <<ep, report, left, loose, misled>>
  BY DEF IInv, UploadPart1, Leaves, ghosts, Goto, TypeOK
<1>2. CASE /\ \E echo \in IF Echoes THEN {"yes"} ELSE {"none", "no"}, tagged \in BOOLEAN :
                /\ TagOrNot(tagged)
                /\ Learn(Tagged([probe[alg] EXCEPT !.accepted = TRUE, !.echoed = echo], 1, tagged))
           /\ Goto("wrong")
  <2>1. PICK echo \in IF Echoes THEN {"yes"} ELSE {"none", "no"}, tagged \in BOOLEAN :
          /\ TagOrNot(tagged)
          /\ Learn(Tagged([probe[alg] EXCEPT !.accepted = TRUE, !.echoed = echo], 1, tagged))
    BY <1>2
  <2> DEFINE r == [probe[alg] EXCEPT !.accepted = TRUE, !.echoed = echo]
             s == Tagged(r, 1, tagged)
  <2>2. /\ r \in Probes /\ r.accepted /\ r.echoed = echo /\ r.rejected = probe[alg].rejected
        /\ r.completed = probe[alg].completed /\ r.etags = probe[alg].etags
    <3>1. probe[alg] \in Probes /\ echo \in {"none", "yes", "no"}
      BY <1>1 DEF TypeOK
    <3> QED
      BY <3>1 DEF Probes
  <2> HIDE DEF r
  <2>3. /\ s \in Probes /\ s.accepted /\ s.echoed = echo /\ s.rejected = probe[alg].rejected
        /\ s.completed = probe[alg].completed /\ (tagged => 1 \in s.etags)
    BY <2>2, TaggedFacts
  <2>4. Learn(s)
    BY <2>1 DEF r
  <2> HIDE DEF s
  <2>5. probe' \in [Algs -> Probes] /\ probe'[alg] = s /\ \A a \in Algs : a # alg => probe'[a] = probe[a]
    BY <1>1, <2>3, <2>4, LearnFacts
  <2>6. pc' = "wrong" /\ alg' = alg /\ Begins /\ (Trouble \/ UNCHANGED faults) /\ (faults' = 0 => tagged)
    <3>1. Begins
      BY <1>1 DEF KnownInv, InProbe
    <3>2. Trouble \/ (tagged /\ UNCHANGED faults)
      BY <2>1 DEF TagOrNot
    <3> QED
      BY <1>1, <1>2, <3>1, <3>2, NoTrouble DEF Goto
  <2>7. \A a \in Algs : a = alg => Justified(a)'
    <3>1. echo = "yes" => ep.sums[alg] \in {"verifies", "incomplete", "parrots"}
      BY <2>1 DEF Echoes
    <3>2. Justified(alg) /\ Begins
      BY <1>1, <2>6 DEF KnownInv
    <3> QED
      BY <1>1, <2>3, <2>5, <2>6, <3>1, <3>2 DEF Justified, Begins, May
  <2>8. Smooth(alg)' => OnItsWay'
    <3>1. Smooth(alg)' => echo = "yes" /\ tagged
      BY <1>1, <2>1, <2>6 DEF Smooth, Measured, Echoes
    <3> QED
      BY <2>3, <2>5, <2>6, <3>1 DEF OnItsWay
  <2>9. ProbeStepOK
    BY <1>1, <2>5, <2>6, <2>7, <2>8 DEF ProbeStepOK, ProbeFrame, InProbe, Later, TypeOK
  <2> QED
    BY <1>1, <2>6, <2>9, PartLeft, ProbeStep
<1>3. CASE Trouble /\ Goto("tidy") /\ UNCHANGED probe
  BY <1>1, <1>3, PartFails DEF UploadPart1
<1> QED
  BY <1>2, <1>3 DEF UploadPart1

LEMMA UploadWrongPartStep ==
  ASSUME IInv, UploadWrongPart
  PROVE  IInv'
<1>1. TypeOK /\ KnownInv /\ SmoothInv /\ LeftInv /\ pc = "wrong" /\ alg \in Algs
      /\ UNCHANGED <<ep, report, left, loose>> /\ Begins
  BY DEF IInv, UploadWrongPart, Leaves, ghosts, Goto, TypeOK, KnownInv, InProbe
<1>2. CASE \E no \in {"yes", "no"} :
             /\ Learn([probe[alg] EXCEPT !.rejected = no]) /\ Goto("part2")
             /\ \/ Answered(~Verifies) /\ no = "no" /\ Leaves
                \/ Answered(Verifies) /\ no = "yes" /\ Leaves
                \/ Trouble /\ no = "yes" /\ misled' = misled \cup {alg}
  <2>1. PICK no \in {"yes", "no"} :
          /\ Learn([probe[alg] EXCEPT !.rejected = no]) /\ Goto("part2")
          /\ \/ Answered(~Verifies) /\ no = "no" /\ Leaves
             \/ Answered(Verifies) /\ no = "yes" /\ Leaves
             \/ Trouble /\ no = "yes" /\ misled' = misled \cup {alg}
    BY <1>2
  <2> DEFINE r == [probe[alg] EXCEPT !.rejected = no]
  <2>2. /\ r \in Probes /\ r.rejected = no
        /\ r.accepted = probe[alg].accepted /\ r.echoed = probe[alg].echoed
        /\ r.completed = probe[alg].completed /\ r.etags = probe[alg].etags
    <3>1. probe[alg] \in Probes
      BY <1>1 DEF TypeOK
    <3> QED
      BY <3>1 DEF Probes
  <2>3. Learn(r)
    BY <2>1
  <2> HIDE DEF r
  <2>4. probe' \in [Algs -> Probes] /\ probe'[alg] = r /\ \A a \in Algs : a # alg => probe'[a] = probe[a]
    BY <1>1, <2>2, <2>3, LearnFacts
  <2>5. pc' = "part2" /\ alg' = alg /\ misled \subseteq misled' /\ misled' \subseteq Algs
    BY <1>1, <2>1 DEF Goto, Leaves, ghosts, TypeOK
  <2>6. /\ Trouble \/ UNCHANGED faults
        /\ no = "yes" => Verifies \/ alg \in misled'
        /\ Smooth(alg)' => no = "yes" /\ Smooth(alg)
    <3>1. Smooth(alg)' => faults' = 0 /\ Measured(alg)
      BY <1>1, <2>5 DEF Smooth, Measured, May
    <3>2. CASE Answered(~Verifies) /\ no = "no"
      BY <3>1, <3>2 DEF Answered, Verifies, Measured
    <3>3. CASE Answered(Verifies) /\ no = "yes"
      BY <3>1, <3>3 DEF Answered, Smooth
    <3>4. CASE Trouble /\ no = "yes" /\ misled' = misled \cup {alg}
      BY <1>1, <3>1, <3>4, NoTrouble
    <3> QED
      BY <2>1, <3>2, <3>3, <3>4
  <2>7. \A a \in Algs : a = alg => Justified(a)'
    <3>1. Justified(alg)
      BY <1>1 DEF KnownInv
    <3> QED
      BY <1>1, <2>2, <2>4, <2>5, <2>6, <3>1 DEF Justified, Verifies, May
  <2>8. Smooth(alg)' => OnItsWay'
    <3>1. Smooth(alg) => probe[alg].accepted /\ probe[alg].echoed = "yes" /\ 1 \in probe[alg].etags
      BY <1>1 DEF SmoothInv, OnItsWay
    <3> QED
      BY <2>2, <2>4, <2>5, <2>6, <3>1 DEF OnItsWay
  <2>9. ProbeStepOK
    BY <1>1, <2>4, <2>5, <2>6, <2>7, <2>8 DEF ProbeStepOK, ProbeFrame, InProbe, Later
  <2> QED
    BY <1>1, <2>5, <2>9, PartLeft, ProbeStep
<1>3. CASE Trouble /\ UNCHANGED probe /\ Goto("tidy") /\ Leaves
  BY <1>1, <1>3, PartFails
<1> QED
  BY <1>2, <1>3, Zenon DEF UploadWrongPart

LEMMA UploadPart2Step ==
  ASSUME IInv, UploadPart2
  PROVE  IInv'
<1>1. TypeOK /\ KnownInv /\ SmoothInv /\ LeftInv /\ pc = "part2" /\ alg \in Algs
      /\ UNCHANGED <<ep, report, left, loose, misled>> /\ Begins
  BY DEF IInv, UploadPart2, Leaves, ghosts, Goto, TypeOK, KnownInv, InProbe
<1>2. CASE /\ \E tagged \in BOOLEAN : TagOrNot(tagged) /\ Learn(Tagged(probe[alg], 2, tagged))
           /\ Goto(IF probe'[alg].etags = {1, 2} THEN "complete" ELSE "tidy")
  <2>1. PICK tagged \in BOOLEAN : TagOrNot(tagged) /\ Learn(Tagged(probe[alg], 2, tagged))
    BY <1>2
  <2> DEFINE s == Tagged(probe[alg], 2, tagged)
  <2>2. /\ s \in Probes /\ s.accepted = probe[alg].accepted /\ s.echoed = probe[alg].echoed
        /\ s.rejected = probe[alg].rejected /\ s.completed = probe[alg].completed
        /\ s.etags = IF tagged THEN probe[alg].etags \cup {2} ELSE probe[alg].etags
        /\ probe[alg].etags \subseteq {1, 2}
    <3>1. probe[alg] \in Probes
      BY <1>1 DEF TypeOK
    <3>2. probe[alg].etags \subseteq {1, 2}
      BY <3>1 DEF Probes
    <3> QED
      BY <3>1, <3>2, TaggedFacts
  <2>3. Learn(s)
    BY <2>1
  <2> HIDE DEF s
  <2>4. probe' \in [Algs -> Probes] /\ probe'[alg] = s /\ \A a \in Algs : a # alg => probe'[a] = probe[a]
    BY <1>1, <2>2, <2>3, LearnFacts
  <2>5. pc' \in {"complete", "tidy"} /\ alg' = alg /\ (s.etags = {1, 2} => pc' = "complete")
    BY <1>2, <2>4 DEF Goto
  <2>6. (Trouble \/ UNCHANGED faults) /\ (Smooth(alg)' => tagged /\ Smooth(alg))
    <3>1. Trouble \/ (tagged /\ UNCHANGED faults)
      BY <2>1 DEF TagOrNot
    <3> QED
      BY <1>1, <2>5, <3>1, NoTrouble DEF Smooth, Measured, May
  <2>7. \A a \in Algs : a = alg => Justified(a)'
    <3>1. Justified(alg)
      BY <1>1 DEF KnownInv
    <3> QED
      BY <1>1, <2>2, <2>4, <2>5, <3>1 DEF Justified, May
  <2>8. Smooth(alg)' => OnItsWay'
    <3> SUFFICES ASSUME Smooth(alg)' PROVE OnItsWay'
      OBVIOUS
    <3>1. /\ probe[alg].accepted /\ probe[alg].echoed = "yes" /\ 1 \in probe[alg].etags
          /\ probe[alg].rejected = "yes"
      BY <1>1, <2>6 DEF SmoothInv, OnItsWay
    <3>2. s.etags = {1, 2}
      BY <2>2, <2>6, <3>1
    <3> QED
      BY <2>2, <2>4, <2>5, <3>1, <3>2 DEF OnItsWay
  <2>9. ProbeStepOK
    BY <1>1, <2>4, <2>5, <2>6, <2>7, <2>8 DEF ProbeStepOK, ProbeFrame, InProbe, Later, TypeOK
  <2> QED
    BY <1>1, <2>5, <2>9, PartLeft, ProbeStep
<1>3. CASE Trouble /\ Goto("tidy") /\ UNCHANGED probe
  BY <1>1, <1>3, PartFails DEF UploadPart2
<1> QED
  BY <1>2, <1>3 DEF UploadPart2

LEMMA CompleteUploadStep ==
  ASSUME IInv, CompleteUpload
  PROVE  IInv'
<1>1. TypeOK /\ KnownInv /\ SmoothInv /\ LeftInv /\ pc = "complete" /\ alg \in Algs
      /\ alg' = alg /\ pc' \in {"drop", "tidy"}
      /\ UNCHANGED <<ep, report, misled>> /\ Begins
  BY DEF IInv, CompleteUpload, ghosts, Goto, TypeOK, KnownInv, InProbe
<1>2. Upload # Object /\ Upload' = Upload /\ Object' = Object /\ left \subseteq loose \cup {Upload}
  BY <1>1, TheThings DEF LeftInv, Held, Upload, Object
<1>3. CASE /\ Answered(ep.sums[alg] # "incomplete")
           /\ Learn([probe[alg] EXCEPT !.completed = TRUE])
           /\ left' = CompletedUpload /\ Goto("drop")
           /\ UNCHANGED ghosts
  <2> DEFINE r == [probe[alg] EXCEPT !.completed = TRUE]
  <2>1. /\ r \in Probes /\ r.completed
        /\ r.accepted = probe[alg].accepted /\ r.echoed = probe[alg].echoed
        /\ r.rejected = probe[alg].rejected /\ r.etags = probe[alg].etags
    <3>1. probe[alg] \in Probes
      BY <1>1 DEF TypeOK
    <3> QED
      BY <3>1 DEF Probes
  <2>2. Learn(r)
    BY <1>3
  <2> HIDE DEF r
  <2>3. probe' \in [Algs -> Probes] /\ probe'[alg] = r /\ \A a \in Algs : a # alg => probe'[a] = probe[a]
    BY <1>1, <2>1, <2>2, LearnFacts
  <2>4. pc' = "drop" /\ UNCHANGED faults /\ ep.sums[alg] # "incomplete"
    BY <1>3 DEF Goto, Answered
  <2>5. \A a \in Algs : a = alg => Justified(a)'
    <3>1. Justified(alg)
      BY <1>1 DEF KnownInv
    <3> QED
      BY <1>1, <2>1, <2>3, <2>4, <3>1 DEF Justified, May
  <2>6. Smooth(alg)' => OnItsWay'
    <3>1. Smooth(alg)' => Smooth(alg)
      BY <1>1, <2>4 DEF Smooth, Measured, May
    <3>2. Smooth(alg) => /\ probe[alg].accepted /\ probe[alg].echoed = "yes" /\ 1 \in probe[alg].etags
                         /\ probe[alg].rejected = "yes"
      BY <1>1 DEF SmoothInv, OnItsWay
    <3> QED
      BY <1>1, <2>1, <2>3, <2>4, <3>1, <3>2 DEF OnItsWay
  <2>7. ProbeStepOK
    BY <1>1, <2>3, <2>4, <2>5, <2>6 DEF ProbeStepOK, ProbeFrame, InProbe, Later, TypeOK
  <2>8. LeftStepOK
    <3>1. Held' = {Object}
      BY <1>2, <2>4 DEF Held
    <3>2. left' = (left \ {Upload}) \cup {Object} /\ loose' = loose
      BY <1>3 DEF CompletedUpload, ghosts
    <3> QED
      BY <1>2, <3>1, <3>2 DEF LeftStepOK
  <2> QED
    BY <2>7, <2>8, ProbeStep
<1>4. CASE /\ NotAnswered(ep.sums[alg] # "incomplete") /\ UNCHANGED probe
           /\ left' \in {left, IF ep.sums[alg] = "incomplete" THEN left ELSE CompletedUpload}
           /\ loose' = loose \cup {Object} /\ UNCHANGED misled
           /\ Goto("tidy")
  <2>1. pc' = "tidy" /\ (Trouble \/ (ep.sums[alg] = "incomplete" /\ UNCHANGED faults))
    BY <1>4 DEF Goto, NotAnswered
  <2>2. ~Smooth(alg)'
    BY <1>1, <2>1, NoTrouble DEF Smooth, Measured
  <2>3. ProbeStepOK
    BY <1>1, <1>4, <2>1, <2>2 DEF ProbeStepOK, ProbeFrame, InProbe, Later, TypeOK
  <2>4. LeftStepOK
    <3>1. Held' = {Upload}
      BY <1>2, <2>1 DEF Held
    <3>2. left' \subseteq left \cup {Object}
      BY <1>4 DEF CompletedUpload
    <3> QED
      BY <1>2, <1>4, <3>1, <3>2 DEF LeftStepOK
  <2> QED
    BY <2>3, <2>4, ProbeStep
<1> QED
  BY <1>3, <1>4 DEF CompleteUpload

\* The request that ends the probe of a checksum removes t, or fails.
LEMMA LastStep ==
  ASSUME IInv, NEW t \in {Upload, Object}, pc \in {"drop", "tidy"}, Held = {t},
         NEW right \in Rights, right # "abort" \/ pc = "tidy",
         \/ Answered(May(right)) /\ Removes(t)
         \/ NotAnswered(May(right)) /\ RemovesOrNot(May(right), t),
         NextAlg, UNCHANGED <<report, probe>>
  PROVE  IInv'
<1>1. TypeOK /\ KnownInv /\ SmoothInv /\ LeftInv /\ Later /\ UNCHANGED ep /\ alg \in Algs
  BY NextAlgFacts DEF IInv, TypeOK
<1>2. /\ left' \subseteq left /\ loose \subseteq loose' /\ loose' \subseteq loose \cup {t}
      /\ UNCHANGED misled
      /\ t \in left' => t \in loose'
  BY DEF Removes, RemovesOrNot, ghosts
<1>3. Trouble \/ UNCHANGED faults
  BY DEF Answered, NotAnswered
<1>4. Smooth(alg) => Verified(probe[alg])
  <2> SUFFICES ASSUME Smooth(alg) PROVE Verified(probe[alg])
    OBVIOUS
  <2>1. pc = "drop" /\ probe[alg].completed /\ probe[alg].accepted /\ probe[alg].echoed = "yes"
        /\ probe[alg].rejected = "yes"
    BY <1>1 DEF SmoothInv, OnItsWay
  <2> QED
    BY <2>1 DEF Verified
<1>5. ProbeStepOK
  <2>1. pc' \in {"create", "verdict"}
    BY <1>1 DEF Later
  <2>2. OnItsWay'
    BY <2>1 DEF OnItsWay
  <2> QED
    BY <1>1, <1>2, <1>3, <1>4, <2>1, <2>2 DEF ProbeStepOK, ProbeFrame, InProbe, TypeOK
<1>6. LeftStepOK
  BY <1>1, <1>2 DEF LeftStepOK, LeftInv
<1> QED
  BY <1>5, <1>6, ProbeStep

LEMMA DropObjectStep ==
  ASSUME IInv, DropObject
  PROVE  IInv'
<1>1. pc = "drop" /\ Held = {Object}
  BY DEF DropObject, Held
<1> QED
  BY <1>1, LastStep DEF DropObject, Rights

LEMMA TidyUploadStep ==
  ASSUME IInv, TidyUpload
  PROVE  IInv'
<1>1. pc = "tidy" /\ Held = {Upload}
  BY DEF TidyUpload, Held
<1> QED
  BY <1>1, LastStep DEF TidyUpload, Rights

LEMMA VerdictStep ==
  ASSUME IInv, Verdict
  PROVE  IInv'
<1>1. /\ TypeOK /\ RightsInv /\ KnownInv /\ SmoothInv /\ LeftInv
      /\ pc = "verdict" /\ pc' = "end"
      /\ UNCHANGED <<alg, ep, probe, left, loose, misled, faults>>
  BY DEF IInv, Verdict, Goto, Leaves, ghosts
<1> DEFINE w == IF Verified(probe["crc32c"]) THEN {} ELSE {"crc32c"}
           v == [a \in Algs |-> IF Verified(probe[a]) THEN "yes" ELSE "no"]
<1>2. w \in SUBSET {"config", "abort", "crc32c"} /\ v \in [Algs -> {"unknown", "yes", "no"}]
  OBVIOUS
<1>3. report' = [report EXCEPT !.verified = v, !.warnings = @ \cup w, !.ok = (report.errors = {})]
  BY DEF Verdict
<1>4. \A a \in Algs : v[a] = "yes" <=> Verified(probe[a])
  OBVIOUS
<1> HIDE DEF w, v
<1>5. report \in Reports
  BY <1>1 DEF TypeOK
<1>6. /\ report' \in Reports /\ report'.errors = report.errors /\ report'.verified = v
      /\ report.warnings \subseteq report'.warnings
  BY <1>2, <1>3, <1>5 DEF Reports
<1>7. report'.ok <=> report.errors = {}
  BY <1>3, <1>5 DEF Reports
<1>8. TypeOK'
  BY <1>1, <1>6 DEF TypeOK, Pcs
<1>9. RightsInv'
  BY <1>1, <1>6, <1>7 DEF RightsInv, Tried, Usable
<1>10. KnownInv'
  <2>1. \A a \in Algs : Justified(a)' /\ Verified(probe'[a]) = Verified(probe[a])
    BY <1>1 DEF KnownInv, Justified, May
  <2> QED
    BY <1>1, <1>4, <1>6, <2>1 DEF KnownInv, InProbe, InValidate
<1>11. SmoothInv'
  <2>1. \A a \in Algs : Smooth(a)' => Smooth(a) /\ Verified(probe[a])
    BY <1>1 DEF SmoothInv, Smooth, Measured, May
  <2> QED
    BY <1>1, <1>4, <1>6, <2>1 DEF SmoothInv, OnItsWay, InProbe
<1>12. LeftInv'
  BY <1>1, <1>6 DEF LeftInv, Held
<1> QED
  BY <1>8, <1>9, <1>10, <1>11, <1>12 DEF IInv

LEMMA StutterStep == IInv /\ UNCHANGED vars => IInv'
<1> SUFFICES ASSUME IInv, UNCHANGED vars PROVE IInv'
  OBVIOUS
<1>1. UNCHANGED <<pc, alg, ep, report, probe, left, faults, loose, misled>>
  BY DEF vars
<1>2. TypeOK' /\ RightsInv' /\ KnownInv'
  BY <1>1 DEF IInv, TypeOK, RightsInv, Usable, Tried, KnownInv, Begins, Justified, May, Verified
<1>3. SmoothInv' /\ LeftInv'
  BY <1>1 DEF IInv, SmoothInv, Smooth, Measured, OnItsWay, May, Verified, LeftInv, Held, Upload, Object
<1> QED
  BY <1>2, <1>3 DEF IInv

LEMMA StepIInv == IInv /\ [Next]_vars => IInv'
BY HeadStep, ReadConfigStep, PutStep, GetStep, DeleteStep, BeginUploadStep, AbortUploadStep,
   CreateUploadStep, UploadPart1Step, UploadWrongPartStep, UploadPart2Step, CompleteUploadStep,
   DropObjectStep, TidyUploadStep, VerdictStep, StutterStep DEF Next

(***************************************************************************)
(* The theorems.                                                           *)
(***************************************************************************)

\* The strengthened invariant holds throughout a check.
THEOREM Invariance == Spec => []IInv
<1>1. Init => IInv
  BY InitIInv
<1>2. IInv /\ [Next]_vars => IInv'
  BY StepIInv
<1> QED
  BY <1>1, <1>2, PTL DEF Spec

\* However many requests fail, "usable for backups" and "verified" are said of
\* endpoints of which they are true, but for the misleading error.
THEOREM TrueReports == Spec => []ReportIsTrue
<1>1. IInv => ReportIsTrue
  <2> SUFFICES ASSUME IInv PROVE ReportIsTrue
    OBVIOUS
  <2>1. VerdictIsRight
    BY DEF IInv, RightsInv, VerdictIsRight
  <2>2. SumsAreTrue
    <3> SUFFICES ASSUME pc = "end", NEW a \in Algs
                 PROVE  /\ report.verified[a] = "yes" => Measured(a) \/ (a \in misled /\ ep.sums[a] = "parrots")
                        /\ faults = 0 /\ ep.reach = "ok" /\ Measured(a) => report.verified[a] = "yes"
      BY DEF SumsAreTrue
    <3>1. report.verified[a] = "yes" => Verified(probe[a]) /\ Justified(a)
      BY DEF IInv, KnownInv
    <3>2. report.verified[a] = "yes" => Measured(a) \/ (a \in misled /\ ep.sums[a] = "parrots")
      BY <3>1 DEF Verified, Justified, Measured
    <3>3. faults = 0 /\ ep.reach = "ok" /\ Measured(a) => report.verified[a] = "yes"
      BY DEF IInv, SmoothInv, Smooth
    <3> QED
      BY <3>2, <3>3
  <2> QED
    BY <2>1, <2>2 DEF ReportIsTrue
<1> QED
  BY <1>1, Invariance, PTL

\* However many requests fail, nothing is left that no failed request is about,
\* and of validate's own probes nothing is left unreported.
THEOREM LeavesNothing == Spec => []NothingLeft
<1>1. IInv => NothingLeft
  <2> SUFFICES ASSUME IInv, pc = "end"
               PROVE  /\ left \subseteq loose
                      /\ left \cap {Probe, ProbeUpload} # {} => ~report.ok \/ "abort" \in report.warnings
    BY DEF NothingLeft
  <2>1. left \subseteq loose
    BY DEF IInv, LeftInv, Held
  <2>2. Probe \in left => report.errors # {}
    BY DEF IInv, LeftInv
  <2>3. ProbeUpload \in left => report.errors # {} \/ "abort" \in report.warnings
    BY DEF IInv, LeftInv
  <2>4. report.ok => report.errors = {}
    BY DEF IInv, RightsInv
  <2> QED
    BY <2>1, <2>2, <2>3, <2>4
<1> QED
  BY <1>1, Invariance, PTL
==============================================================================
